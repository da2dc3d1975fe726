------------------------- MODULE ServerSettingsProofs -------------------------
(***************************************************************************)
(* For all timeouts, sizes of integers, files and command lines: the loop  *)
(* of startWebServer() never ends early, and a configuration file decides  *)
(* over any number of starts.                                              *)
(***************************************************************************)
EXTENDS ServerSettings, TLAPS

\* Two's complement stays in its range and keeps what is in it.
LEMMA WrappedRange ==
  ASSUME NEW n \in Int, NEW max \in Nat
  PROVE  /\ Wrapped(n, max) \in -max - 1 .. max
         /\ n \in -max - 1 .. max => Wrapped(n, max) = n
<1> DEFINE size == 2 * (max + 1)
           k == n + max + 1
<1>1. size \in Nat \ {0} /\ k \in Int
  OBVIOUS
<1>2. k % size \in 0 .. size - 1
  BY <1>1
<1>3. k \in 0 .. size - 1 => k % size = k
  BY <1>1
<1>4. Wrapped(n, max) = (k % size) - (max + 1)
  BY DEF Wrapped
<1> QED
  BY <1>2, <1>3, <1>4

-----------------------------------------------------------------------------
(* Type correctness.                                                       *)

LEMMA InitTypeOK == Init => TypeOK
<1> SUFFICES ASSUME Init PROVE TypeOK
  OBVIOUS
<1>1. DOMAIN handlers = {} /\ Range(handlers) = {}
  <2>1. DOMAIN <<>> = {}
    BY SMT
  <2> QED
    BY <2>1 DEF Init, Range
<1>2. sleep \in -MaxInt - 1 .. MaxInt /\ elapsed \in 0 .. MaxLong /\ starts \in 0 .. MaxStarts
  BY SettingsAssumption DEF Init, SettingsAssumption
<1>3. past \in [config : Configs \cup {None, Missing}, wrong : BOOLEAN]
  BY DEF Init
<1> QED
  BY <1>1, <1>2, <1>3, SettingsAssumption DEF Init, TypeOK, SettingsAssumption

LEMMA HandlerTypeOK ==
  ASSUME TypeOK, NEW root \in Roots, NEW path \in ClassPaths,
         AddClassPathHandler(root, path)
  PROVE  TypeOK'
<1>1. CASE root \in DOMAIN handlers
  BY <1>1 DEF TypeOK, AddClassPathHandler, Range
<1>2. CASE root \notin DOMAIN handlers
  <2>1. DOMAIN handlers' \subseteq Roots /\ Range(handlers') \subseteq ClassPaths
    BY <1>2 DEF TypeOK, AddClassPathHandler, WithHandler, Range
  <2> QED
    BY <1>2, <2>1 DEF TypeOK, AddClassPathHandler
<1> QED
  BY <1>1, <1>2

\* The options after a command line are of their types, from the line, the file
\* or before.
LEMMA StartTypeOK ==
  ASSUME TypeOK, NEW line \in CommandLines, StartServer(line)
  PROVE  TypeOK'
<1> DEFINE file == FileAfter(line)
<1>1. /\ Override(line.port, port) \in Ports
      /\ Override(line.timeOut, timeOut) \in TimeOuts
      /\ Override(line.options, options) \in OptionValues \cup {None}
      /\ file \in Configs \cup {None, Missing}
  BY DEF TypeOK, CommandLines, Override, FileAfter
<1>2. file \in Configs => file.port \in Ports /\ file.timeOut \in TimeOuts
  BY SettingsAssumption DEF SettingsAssumption
<1>3. port' \in Ports /\ timeOut' \in TimeOuts /\ options' \in OptionValues \cup {None}
  BY <1>1, <1>2 DEF StartServer, FromOther
<1>4. past' \in [config : Configs \cup {None, Missing}, wrong : BOOLEAN]
  BY DEF TypeOK, StartServer, CommandLines, Override
<1>5. /\ pc' \in {"loop", "exited"} /\ running' \in BOOLEAN
      /\ running' => pc' = "loop"
  BY DEF TypeOK, StartServer
<1>6. sleep' \in -MaxInt - 1 .. MaxInt /\ elapsed' \in 0 .. MaxLong
  BY SettingsAssumption DEF SettingsAssumption, StartServer
<1>7. starts' \in 0 .. MaxStarts
  BY SettingsAssumption DEF SettingsAssumption, TypeOK, StartServer
<1> QED
  BY <1>1, <1>3, <1>4, <1>5, <1>6, <1>7 DEF TypeOK, StartServer

LEMMA SleepTypeOK ==
  ASSUME TypeOK, Sleep
  PROVE  TypeOK'
<1>1. sleep' \in -MaxInt - 1 .. MaxInt
  BY SettingsAssumption, WrappedRange
     DEF SettingsAssumption, TypeOK, Sleep, Successor
<1>2. elapsed' \in 0 .. MaxLong
  BY SettingsAssumption DEF SettingsAssumption, TypeOK, Sleep
<1> QED
  BY <1>1, <1>2 DEF TypeOK, Sleep, setup

LEMMA StepTypeOK == TypeOK /\ [Next]_vars => TypeOK'
<1> SUFFICES ASSUME TypeOK, [Next]_vars PROVE TypeOK'
  OBVIOUS
<1>1. CASE \E root \in Roots, path \in ClassPaths : AddClassPathHandler(root, path)
  BY <1>1, HandlerTypeOK
<1>2. CASE \E line \in CommandLines : StartServer(line)
  BY <1>2, StartTypeOK
<1>3. CASE Sleep
  BY <1>3, SleepTypeOK
<1>4. CASE LeaveLoop
  BY <1>4 DEF TypeOK, LeaveLoop, setup
<1>5. CASE Stop
  BY <1>5 DEF TypeOK, Stop, setup
<1>6. CASE UNCHANGED vars
  BY <1>6 DEF TypeOK, vars
<1> QED
  BY <1>1, <1>2, <1>3, <1>4, <1>5, <1>6 DEF Next

\* Every reachable state is well typed; in particular the counter of the loop is
\* an int of any width.
THEOREM TypeCorrect == Spec => []TypeOK
  BY InitTypeOK, StepTypeOK, PTL DEF Spec

-----------------------------------------------------------------------------
(* The loop.                                                               *)

\* The counter never runs ahead of the sleeps: a wrap around sets it back.
Behind == sleep <= elapsed

LEMMA StepBehind == TypeOK /\ Behind /\ [Next]_vars => Behind'
<1> SUFFICES ASSUME TypeOK, Behind, [Next]_vars PROVE Behind'
  OBVIOUS
<1>1. CASE Sleep
  <2>1. sleep' <= sleep + 1 /\ sleep' <= MaxInt
    <3>1. sleep \in Int /\ MaxInt \in Nat /\ -MaxInt - 1 <= sleep /\ sleep <= MaxInt
      BY SettingsAssumption DEF SettingsAssumption, TypeOK
    <3>2. /\ Wrapped(sleep + 1, MaxInt) \in -MaxInt - 1 .. MaxInt
          /\ sleep + 1 \in -MaxInt - 1 .. MaxInt => Wrapped(sleep + 1, MaxInt) = sleep + 1
      BY <3>1, WrappedRange
    <3> QED
      BY <1>1, <3>1, <3>2 DEF Sleep, Successor
  <2> QED
    BY <1>1, <2>1, SleepTypeOK, SettingsAssumption
       DEF SettingsAssumption, TypeOK, Behind, Sleep
<1>2. CASE \E root \in Roots, path \in ClassPaths : AddClassPathHandler(root, path)
  BY <1>2 DEF Behind, AddClassPathHandler
<1>3. CASE \E line \in CommandLines : StartServer(line)
  BY <1>3 DEF Behind, StartServer
<1>4. CASE LeaveLoop \/ Stop \/ UNCHANGED vars
  BY <1>4 DEF Behind, LeaveLoop, Stop, vars
<1> QED
  BY <1>1, <1>2, <1>3, <1>4 DEF Next

\* Leaving a loop that nobody stopped means that the counter has reached the
\* limit, and the limit is the whole timeout unless it is negative.
LEMMA LeaveLate ==
  ASSUME TypeOK, Behind, [Next]_vars,
         pc = "loop", pc' # "loop", running, Sleeps <= MaxLong
  PROVE  elapsed >= Sleeps
<1>1. LeaveLoop
  BY DEF Next, vars, AddClassPathHandler, StartServer, Sleep, Stop
<1>2. Sleeps \in Int /\ sleep \in Int /\ elapsed \in Nat /\ MaxLong \in Nat
  BY SettingsAssumption DEF SettingsAssumption, TypeOK, Sleeps
<1>3. CASE Sleeps < 0
  BY <1>2, <1>3
<1>4. CASE Sleeps >= 0
  <2>1. Limit = Sleeps
    BY <1>2, <1>4, WrappedRange DEF Limit, Sleeps
  <2>2. ~(sleep < Limit)
    BY <1>1 DEF LeaveLoop, GoesOn
  <2> QED
    BY <1>2, <2>1, <2>2 DEF Behind
<1> QED
  BY <1>2, <1>3, <1>4

\* The loop never ends before its timeout unless stop() was called, for timeouts,
\* ticks and integers of every size, also when the counter wraps around.
THEOREM NeverTooEarly == Spec => NeverEarly
<1>1. Init => Behind
  BY DEF Init, Behind
<1>2. TypeOK /\ Behind /\ [Next]_vars =>
        [pc = "loop" /\ pc' # "loop" /\ running /\ Sleeps <= MaxLong
           => elapsed >= Sleeps]_vars
  BY LeaveLate
<1> QED
  BY <1>1, <1>2, InitTypeOK, StepTypeOK, StepBehind, PTL DEF Spec, NeverEarly

-----------------------------------------------------------------------------
(* Configuration files.                                                    *)

\* ConfigDecides needs that the file in force is the one last named.
Lasting == configfilename = past.config /\ ConfigDecides

LEMMA StartLasting ==
  ASSUME Lasting, NEW line \in CommandLines, StartServer(line)
  PROVE  Lasting'
<1> DEFINE file == FileAfter(line)
<1>1. configfilename' = file /\ past'.config = file
  BY DEF StartServer, FileAfter, Lasting
<1>2. ~past'.wrong /\ file # None => port' = file.port /\ timeOut' = file.timeOut
  BY DEF StartServer, FromOther
<1> QED
  BY <1>1, <1>2 DEF Lasting, ConfigDecides

LEMMA StepLasting == Lasting /\ [Next]_vars => Lasting'
<1> SUFFICES ASSUME Lasting, [Next]_vars PROVE Lasting'
  OBVIOUS
<1>1. CASE \E line \in CommandLines : StartServer(line)
  BY <1>1, StartLasting
<1>2. CASE \E root \in Roots, path \in ClassPaths : AddClassPathHandler(root, path)
  BY <1>2 DEF Lasting, ConfigDecides, AddClassPathHandler
<1>3. CASE Sleep \/ LeaveLoop \/ Stop \/ UNCHANGED vars
  BY <1>3 DEF Lasting, ConfigDecides, Sleep, LeaveLoop, Stop, setup, vars
<1> QED
  BY <1>1, <1>2, <1>3 DEF Next

\* A configuration file, once named, decides at every later start that succeeds.
THEOREM ConfigLasts == Spec => []ConfigDecides
<1>1. Init => Lasting
  BY DEF Init, Lasting, ConfigDecides
<1>2. Lasting => ConfigDecides
  BY DEF Lasting
<1> QED
  BY <1>1, <1>2, StepLasting, PTL DEF Spec
=============================================================================
