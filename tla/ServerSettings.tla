---------------------------- MODULE ServerSettings ----------------------------
(***************************************************************************)
(* The settings of one server object from its constructor over one or more *)
(* starts: class path handlers, command lines with their configuration     *)
(* file, and the loop that ends the server when the timeout has elapsed.   *)
(*                                                                         *)
(* Three options stand for all: timeOut, a number of seconds; port, any    *)
(* other option that a configuration file sets; options, the one that is   *)
(* not copied from it.  A configuration file is named by what it contains, *)
(* with the defaults for what it leaves out.                               *)
(***************************************************************************)
EXTENDS Integers, Functions

CONSTANTS
  Ports, TimeOuts, OptionValues,  \* what the options may be set to
  DefaultPort, DefaultTimeOut,    \* their values when nothing is given
  Configs,              \* configuration files
  None,                 \* an option that is not given, no file, no value
  Missing,              \* a file that does not exist or is no XML
  Roots, ClassPaths,    \* of class path handlers
  TicksPerSecond,       \* 20: the loop sleeps 50 milliseconds
  MaxInt, MaxLong,      \* the largest values of an int and of a long
  MaxStarts             \* bound

ASSUME SettingsAssumption ==
  /\ {MaxInt, MaxLong, TicksPerSecond} \subseteq Nat \ {0}
  /\ MaxInt <= MaxLong /\ MaxStarts \in Nat
  /\ TimeOuts \subseteq -MaxLong - 1 .. MaxLong
  /\ DefaultTimeOut \in TimeOuts /\ DefaultPort \in Ports
  /\ Configs \subseteq [port : Ports, timeOut : TimeOuts, options : OptionValues \cup {None}]
  /\ None \notin Ports \cup TimeOuts /\ None \notin OptionValues
  /\ {None, Missing} \cap Configs = {} /\ Missing # None

VARIABLES
  pc,              \* of the thread that starts and runs the server
  running,         \* cleared by a stop() of any thread
  testmode,        \* whether a wrong command line is survived
  port, timeOut, options,
  configfilename,  \* the file named by -config, now or at an earlier start
  handlers,        \* classPathHandlers
  sleep,           \* the counter of the loop, an int
  elapsed,         \* history: the sleeps of this start, counted up to MaxLong
  past,            \* history: the file last named on a command line, and
                   \* whether the last command line was wrong
  starts           \* number of starts

vars == <<pc, running, testmode, port, timeOut, options, configfilename,
          handlers, sleep, elapsed, past, starts>>
setup == <<testmode, port, timeOut, options, configfilename, handlers,
           past, starts>>

\* A command line: the options before the first mistake, and whether there is one.
CommandLines ==
  [port : Ports \cup {None}, timeOut : TimeOuts \cup {None},
   options : OptionValues \cup {None}, config : Configs \cup {None, Missing},
   wrong : BOOLEAN]

Init ==
  /\ pc = "idle" /\ running = FALSE /\ testmode \in BOOLEAN
  /\ port = DefaultPort /\ timeOut = DefaultTimeOut /\ options = None
  /\ configfilename = None /\ handlers = <<>>
  /\ sleep = 0 /\ elapsed = 0 /\ starts = 0
  /\ past = [config |-> None, wrong |-> FALSE]

\* Two's complement.
Wrapped(n, max) == ((n + max + 1) % (2 * (max + 1))) - (max + 1)

-----------------------------------------------------------------------------
(* Class path handlers.                                                    *)

WithHandler(root, path) ==
  [r \in DOMAIN handlers \cup {root} |-> IF r = root THEN path ELSE handlers[r]]

\* A root given twice is an exception, here in the constructor of the server.
AddClassPathHandler(root, path) ==
  /\ pc = "idle" /\ starts = 0
  /\ IF root \in DOMAIN handlers
     THEN pc' = "exited" /\ UNCHANGED handlers
     ELSE handlers' = WithHandler(root, path) /\ UNCHANGED pc
  /\ UNCHANGED <<running, testmode, port, timeOut, options, configfilename,
                 sleep, elapsed, past, starts>>

-----------------------------------------------------------------------------
(* Starting with a command line.                                           *)

\* The options given on a command line replace what they were before.
Override(value, old) == IF value = None THEN old ELSE value

\* Fault: the file is read only by the start that names it.
FileOfThisLine(line) == line.config

\* The file that a command line leaves in configfilename.
FileAfter(line) == Override(line.config, configfilename)

\* fromOther(): everything but options.
FromOther(file, line) ==
  /\ port' = file.port /\ timeOut' = file.timeOut
  /\ options' = Override(line.options, options)

\* parseArguments() followed by startWebServer() up to its loop.  With a mistake
\* what was set before it stays, and only a test goes on.
StartServer(line) ==
  LET file  == FileAfter(line)
      wrong == line.wrong \/ file = Missing
  IN
  /\ pc = "idle" /\ starts < MaxStarts
  /\ IF ~wrong /\ file # None
     THEN FromOther(file, line)
     ELSE /\ port' = Override(line.port, port)
          /\ timeOut' = Override(line.timeOut, timeOut)
          /\ options' = Override(line.options, options)
  /\ configfilename' = file
  /\ past' = [config |-> Override(line.config, past.config), wrong |-> wrong]
  /\ starts' = starts + 1
  /\ IF wrong /\ ~testmode
     THEN pc' = "exited" /\ UNCHANGED running
     ELSE pc' = "loop" /\ running' = TRUE
  /\ sleep' = 0 /\ elapsed' = 0
  /\ UNCHANGED <<testmode, handlers>>

-----------------------------------------------------------------------------
(* The loop.                                                               *)

\* Fault: the product is an int.
IntLimit == Wrapped(timeOut * TicksPerSecond, MaxInt)

Limit == Wrapped(timeOut * TicksPerSecond, MaxLong)

\* Fault: either condition is enough to go on.
EitherGoesOn == running \/ sleep < Limit

GoesOn == running /\ sleep < Limit

\* Fault: the counter never wraps around.
WideSuccessor(n) == n + 1

Successor(n) == Wrapped(n + 1, MaxInt)

Sleep ==
  /\ pc = "loop" /\ GoesOn
  /\ sleep' = Successor(sleep)
  /\ elapsed' = IF elapsed < MaxLong THEN elapsed + 1 ELSE elapsed
  /\ UNCHANGED <<pc, running, setup>>

LeaveLoop ==
  /\ pc = "loop" /\ ~GoesOn
  /\ pc' = "idle" /\ running' = FALSE
  /\ UNCHANGED <<sleep, elapsed, setup>>

\* Another thread calls stop().
Stop ==
  /\ pc = "loop" /\ running
  /\ running' = FALSE
  /\ UNCHANGED <<pc, sleep, elapsed, setup>>

Next ==
  \/ \E root \in Roots, path \in ClassPaths : AddClassPathHandler(root, path)
  \/ \E line \in CommandLines : StartServer(line)
  \/ Sleep \/ LeaveLoop \/ Stop

\* The server thread is scheduled; nobody has to start or to stop a server.
Spec == Init /\ [][Next]_vars /\ WF_vars(Sleep \/ LeaveLoop)

-----------------------------------------------------------------------------
(* Properties.                                                             *)

\* Every variable has its type; the counter of the loop stays an int.
TypeOK ==
  /\ pc \in {"idle", "loop", "exited"}
  /\ running \in BOOLEAN /\ (running => pc = "loop")
  /\ testmode \in BOOLEAN
  /\ port \in Ports /\ timeOut \in TimeOuts /\ options \in OptionValues \cup {None}
  /\ configfilename \in Configs \cup {None, Missing}
  /\ DOMAIN handlers \subseteq Roots /\ Range(handlers) \subseteq ClassPaths
  /\ sleep \in -MaxInt - 1 .. MaxInt /\ elapsed \in 0 .. MaxLong
  /\ past \in [config : Configs \cup {None, Missing}, wrong : BOOLEAN]
  /\ starts \in 0 .. MaxStarts

Sleeps == timeOut * TicksPerSecond
MustEnd == ~running \/ Sleeps <= MaxInt

\* A server shuts down when its timeout has elapsed or stop() was called, as long
\* as the number of its sleeps is an int: beyond that the counter of
\* startWebServer() wraps around below the limit and the loop never ends by itself.
LoopEnds == (pc = "loop" /\ MustEnd) ~> (pc # "loop")

\* The loop of startWebServer() never ends before its time unless stop() was
\* called, as long as the number of sleeps is a long.
NeverEarly ==
  [][pc = "loop" /\ pc' # "loop" /\ running /\ Sleeps <= MaxLong
       => elapsed >= Sleeps]_vars

\* Once a configuration file is named it decides at every start that succeeds,
\* against the options of that start's command line and though the command line
\* no longer names it.
ConfigDecides ==
  starts > 0 /\ ~past.wrong /\ past.config # None =>
    port = past.config.port /\ timeOut = past.config.timeOut
=============================================================================

