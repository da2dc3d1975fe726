---------------------------- MODULE ServerLifecycle ----------------------------
(***************************************************************************)
(* The life of RestServerImpl objects: the thread that startServer()       *)
(* creates, the threads that call startServer()/stop() through the         *)
(* starter hand-shake of TestRestServer, and the TCP ports they share.     *)
(*                                                                         *)
(* A thread is either a server thread, named like its RestServerImpl       *)
(* object, or a client.  Every step reads or writes one shared field,      *)
(* because neither stop() nor the fields it touches are synchronized.      *)
(*                                                                         *)
(* The field useServlet is FALSE, as nothing in the repository sets it: so *)
(* context is null, createServer() does not start the listener itself, and *)
(* context.deploy(httpServer), after httpServer.start(), is never called.  *)
(***************************************************************************)
EXTENDS Integers, FiniteSets

CONSTANTS
  Servers,        \* RestServerImpl objects, each started at most once
  Clients,        \* threads that start and stop servers
  NoServer,       \* what a client works on before its first startServer()
  Expiring,       \* the servers whose settings.timeOut elapses
  LastPort,       \* bound: ports are 1..LastPort
  CreateMayFail,  \* whether createServer() may end without an HttpServer
  StartMayError,  \* whether httpServer.start() may throw an Error
  Spurious        \* whether Object.wait() may return without a notify

ASSUME LifecycleAssumption ==
  /\ Servers \cap Clients = {}
  /\ NoServer \notin Servers
  /\ Expiring \subseteq Servers
  /\ LastPort \in Nat \ {0}
  /\ {CreateMayFail, StartMayError, Spurious} \subseteq BOOLEAN

VARIABLES
  pc,          \* where each thread is
  frame,       \* the caller of the stop() a thread executes
  this,        \* the server a thread works on; a server thread's never changes
  held,        \* the started servers a client may still stop
  testPort,    \* a client's next port to try
  waitSet,     \* clients waiting on the (static) semaphore
  httpServer,  \* the field: "null" or "ref"
  grizzly,     \* the HttpServer object the field refers, or referred, to
  port,        \* settings.port of each server
  running,     \* the field running
  exception,   \* the field exception
  thrown       \* the exception a server thread carries to its handler

vars == <<pc, frame, this, held, testPort, waitSet, httpServer, grizzly, port,
          running, exception, thrown>>

Threads == Servers \cup Clients
Ports == 1..LastPort
Faults == {"none", "create", "npe", "bind", "error"}
StopSteps == {"check", "shutdown", "clear", "halt", "notify"}
ServerPc == {"unborn", "create", "load", "listen", "publish", "inform", "loop",
             "catch", "uncaught", "record", "dead"} \cup StopSteps
ClientPc == {"idle", "scan", "start", "wait", "waiting", "returned"} \cup StopSteps

-----------------------------------------------------------------------------
(* Fields and threads before the first startServer().                      *)
Init ==
  /\ pc = [t \in Threads |-> IF t \in Servers THEN "unborn" ELSE "idle"]
  /\ frame = [t \in Threads |-> IF t \in Servers THEN "main" ELSE "client"]
  /\ this = [t \in Threads |-> IF t \in Servers THEN t ELSE NoServer]
  /\ held = [c \in Clients |-> {}]
  /\ testPort = [c \in Clients |-> 1]
  /\ waitSet = {}
  /\ httpServer = [s \in Servers |-> "null"]
  /\ grizzly = [s \in Servers |-> "absent"]
  /\ port = [s \in Servers |-> 1]
  /\ running = [s \in Servers |-> FALSE]
  /\ exception = [s \in Servers |-> "none"]
  /\ thrown = [s \in Servers |-> "none"]

Goto(t, from, to) == pc[t] = from /\ pc' = [pc EXCEPT ![t] = to]

Occupied(p) == \E s \in Servers : grizzly[s] = "listening" /\ port[s] = p

\* Fault: the waiter that is woken stays registered.
NotifyKeepsWaiter(after) ==
  IF waitSet = {} THEN pc' = after /\ UNCHANGED waitSet
  ELSE \E w \in waitSet : pc' = [after EXCEPT ![w] = "returned"] /\ UNCHANGED waitSet

\* notify() wakes one waiter, any of them, or nobody.
Notify(after) ==
  IF waitSet = {} THEN pc' = after /\ UNCHANGED waitSet
  ELSE \E w \in waitSet : /\ waitSet' = waitSet \ {w}
                          /\ pc' = [after EXCEPT ![w] = "returned"]

\* A server thread throws e: run() catches it, uncaughtException() gets what
\* run() does not catch, and the JVM drops what uncaughtException() throws.
HandlerOf(f) == CASE f = "main" -> "catch" [] f = "catch" -> "uncaught"
                  [] OTHER -> "dead"

Throw(s, e) ==
  /\ pc' = [pc EXCEPT ![s] = IF e = "error" THEN "uncaught"
                             ELSE HandlerOf(frame[s])]
  /\ thrown' = [thrown EXCEPT ![s] = e]

-----------------------------------------------------------------------------
(* The server thread: startWebServer() under run().                        *)
CreateServer(s) ==
  /\ \/ /\ Goto(s, "create", "load")
        /\ httpServer' = [httpServer EXCEPT ![s] = "ref"]
        /\ grizzly' = [grizzly EXCEPT ![s] = "created"]
        /\ UNCHANGED thrown
     \/ /\ CreateMayFail /\ pc[s] = "create" /\ Throw(s, "create")
        /\ UNCHANGED <<httpServer, grizzly>>
  /\ UNCHANGED <<frame, this, held, testPort, waitSet, port, running, exception>>

\* Fault: running is set before httpServer.start().
LoadRunsEarly(s) ==
  /\ httpServer[s] = "ref" /\ Goto(s, "load", "listen")
  /\ running' = [running EXCEPT ![s] = TRUE]
  /\ UNCHANGED <<frame, this, held, testPort, waitSet, httpServer, grizzly,
                 port, exception, thrown>>

\* createServer() and startWebServer() read the field again after setting it.
LoadHttpServer(s) ==
  /\ \/ httpServer[s] = "ref" /\ Goto(s, "load", "listen") /\ UNCHANGED thrown
     \/ httpServer[s] = "null" /\ pc[s] = "load" /\ Throw(s, "npe")
  /\ UNCHANGED <<frame, this, held, testPort, waitSet, httpServer, grizzly,
                 port, running, exception>>

Listen(s) ==
  /\ \/ /\ ~Occupied(port[s])
        /\ Goto(s, "listen", "publish")
        /\ grizzly' = [grizzly EXCEPT ![s] = "listening"]
        /\ UNCHANGED thrown
     \/ /\ Occupied(port[s]) /\ pc[s] = "listen" /\ Throw(s, "bind")
        /\ UNCHANGED grizzly
     \/ /\ StartMayError /\ pc[s] = "listen" /\ Throw(s, "error")
        /\ UNCHANGED grizzly
  /\ UNCHANGED <<frame, this, held, testPort, waitSet, httpServer, port,
                 running, exception>>

Publish(s) ==
  /\ Goto(s, "publish", "inform")
  /\ running' = [running EXCEPT ![s] = TRUE]
  /\ UNCHANGED <<frame, this, held, testPort, waitSet, httpServer, grizzly,
                 port, exception, thrown>>

InformStarter(s) ==
  /\ pc[s] = "inform"
  /\ Notify([pc EXCEPT ![s] = "loop"])
  /\ UNCHANGED <<frame, this, held, testPort, httpServer, grizzly, port,
                 running, exception, thrown>>

\* Fault: the timeout is ignored.
LeaveLoopUntimed(s) ==
  /\ ~running[s]
  /\ Goto(s, "loop", "check")
  /\ UNCHANGED <<frame, this, held, testPort, waitSet, httpServer, grizzly,
                 port, running, exception, thrown>>

\* Fault: no stop() after the loop.
LeaveLoopUnstopped(s) ==
  /\ ~running[s] \/ s \in Expiring
  /\ Goto(s, "loop", "dead")
  /\ UNCHANGED <<frame, this, held, testPort, waitSet, httpServer, grizzly,
                 port, running, exception, thrown>>

\* The sleep loop ends when running is cleared or the timeout has elapsed.
LeaveLoop(s) ==
  /\ ~running[s] \/ s \in Expiring
  /\ Goto(s, "loop", "check")
  /\ UNCHANGED <<frame, this, held, testPort, waitSet, httpServer, grizzly,
                 port, running, exception, thrown>>

\* Fault: stop(), and only then exception = e, as uncaughtException() does.
CatchStopsFirst(s) ==
  /\ Goto(s, "catch", "check")
  /\ frame' = [frame EXCEPT ![s] = "handler"]
  /\ UNCHANGED <<this, held, testPort, waitSet, httpServer, grizzly, port,
                 running, exception, thrown>>

\* run(): exception = e, then stop().
CatchException(s) ==
  /\ Goto(s, "catch", "check")
  /\ exception' = [exception EXCEPT ![s] = thrown[s]]
  /\ frame' = [frame EXCEPT ![s] = "catch"]
  /\ UNCHANGED <<this, held, testPort, waitSet, httpServer, grizzly, port,
                 running, thrown>>

\* uncaughtException(): stop(), and only then exception = e.
UncaughtException(s) ==
  /\ Goto(s, "uncaught", "check")
  /\ frame' = [frame EXCEPT ![s] = "handler"]
  /\ UNCHANGED <<this, held, testPort, waitSet, httpServer, grizzly, port,
                 running, exception, thrown>>

RecordUncaught(s) ==
  /\ Goto(s, "record", "dead")
  /\ exception' = [exception EXCEPT ![s] = thrown[s]]
  /\ UNCHANGED <<frame, this, held, testPort, waitSet, httpServer, grizzly,
                 port, running, thrown>>

-----------------------------------------------------------------------------
(* stop(), executed by any thread on its server.                           *)
StopReturn(t) == CASE frame[t] = "client" -> "idle"
                   [] frame[t] = "handler" -> "record"
                   [] OTHER -> "dead"

StopCheck(t) ==
  /\ pc[t] = "check"
  /\ pc' = [pc EXCEPT ![t] = IF httpServer[this[t]] = "ref" THEN "shutdown"
                             ELSE StopReturn(t)]
  /\ UNCHANGED <<frame, this, held, testPort, waitSet, httpServer, grizzly,
                 port, running, exception, thrown>>

\* Fault: the HttpServer is dropped and not shut down.
StopSkipsShutdown(t) ==
  /\ Goto(t, "shutdown", "clear")
  /\ httpServer[this[t]] = "ref"
  /\ UNCHANGED <<frame, this, held, testPort, waitSet, httpServer, grizzly,
                 port, running, exception, thrown>>

\* Fault: running is cleared before the field.
StopHaltsEarly(t) ==
  LET s == this[t] IN
  /\ Goto(t, "shutdown", "clear")
  /\ httpServer[s] = "ref"
  /\ grizzly' = [grizzly EXCEPT ![s] = IF @ = "listening" THEN "stopped" ELSE @]
  /\ running' = [running EXCEPT ![s] = FALSE]
  /\ UNCHANGED <<frame, this, held, testPort, waitSet, httpServer, port,
                 exception, thrown>>

\* shutdown() of an HttpServer that was never started does nothing.
StopShutdown(t) ==
  LET s == this[t] IN
  /\ Goto(t, "shutdown", "clear")
  /\ httpServer[s] = "ref"
  /\ grizzly' = [grizzly EXCEPT ![s] = IF @ = "listening" THEN "stopped" ELSE @]
  /\ UNCHANGED <<frame, this, held, testPort, waitSet, httpServer, port,
                 running, exception, thrown>>

\* Another stop() cleared the field after this one's test of it.
StopShutdownNull(t) ==
  /\ pc[t] = "shutdown"
  /\ httpServer[this[t]] = "null"
  /\ IF t \in Servers THEN Throw(t, "npe")
     ELSE pc' = [pc EXCEPT ![t] = "idle"] /\ UNCHANGED thrown
  /\ UNCHANGED <<frame, this, held, testPort, waitSet, httpServer, grizzly,
                 port, running, exception>>

StopClear(t) ==
  /\ Goto(t, "clear", "halt")
  /\ httpServer' = [httpServer EXCEPT ![this[t]] = "null"]
  /\ UNCHANGED <<frame, this, held, testPort, waitSet, grizzly, port, running,
                 exception, thrown>>

\* Fault: running is not reset.
StopLeavesRunning(t) ==
  /\ Goto(t, "halt", "notify")
  /\ UNCHANGED <<frame, this, held, testPort, waitSet, httpServer, grizzly,
                 port, running, exception, thrown>>

\* Fault: stop() also resets the exception.
StopResetsException(t) ==
  /\ Goto(t, "halt", "notify")
  /\ running' = [running EXCEPT ![this[t]] = FALSE]
  /\ exception' = [exception EXCEPT ![this[t]] = "none"]
  /\ UNCHANGED <<frame, this, held, testPort, waitSet, httpServer, grizzly,
                 port, thrown>>

StopHalt(t) ==
  /\ Goto(t, "halt", "notify")
  /\ running' = [running EXCEPT ![this[t]] = FALSE]
  /\ UNCHANGED <<frame, this, held, testPort, waitSet, httpServer, grizzly,
                 port, exception, thrown>>

StopNotify(t) ==
  /\ pc[t] = "notify"
  /\ Notify([pc EXCEPT ![t] = StopReturn(t)])
  /\ UNCHANGED <<frame, this, held, testPort, httpServer, grizzly, port,
                 running, exception, thrown>>

-----------------------------------------------------------------------------
(* The clients: TestRestServer.startServer() and stopServer().             *)

\* A fresh server object is chosen; a new test instance starts again at the
\* first port, the same instance goes on from the port it used last.
BeginStart(c, s, scanForAvailablePort) ==
  /\ pc[s] = "unborn"
  /\ \A d \in Clients : this[d] # s
  /\ Goto(c, "idle", IF scanForAvailablePort THEN "scan" ELSE "start")
  /\ this' = [this EXCEPT ![c] = s]
  /\ \E p \in {1, testPort[c]} : testPort' = [testPort EXCEPT ![c] = p]
  /\ UNCHANGED <<frame, held, waitSet, httpServer, grizzly, port, running,
                 exception, thrown>>

\* while (!rs.isPortAvailable(testPort)) testPort++
ScanPort(c) ==
  /\ pc[c] = "scan"
  /\ IF Occupied(testPort[c])
     THEN /\ testPort[c] < LastPort
          /\ testPort' = [testPort EXCEPT ![c] = @ + 1]
          /\ UNCHANGED pc
     ELSE Goto(c, "scan", "start") /\ UNCHANGED testPort
  /\ UNCHANGED <<frame, this, held, waitSet, httpServer, grizzly, port,
                 running, exception, thrown>>

\* Fault: startServer() does not wait for the server thread.
StartDoesNotWait(c) ==
  /\ pc[c] = "start"
  /\ pc' = [pc EXCEPT ![c] = "returned", ![this[c]] = "create"]
  /\ port' = [port EXCEPT ![this[c]] = testPort[c]]
  /\ UNCHANGED <<frame, this, held, testPort, waitSet, httpServer, grizzly,
                 running, exception, thrown>>

\* setPort(), setStarter() and startServer(): the server thread is born.
StartServer(c) ==
  /\ pc[c] = "start"
  /\ pc' = [pc EXCEPT ![c] = "wait", ![this[c]] = "create"]
  /\ port' = [port EXCEPT ![this[c]] = testPort[c]]
  /\ UNCHANGED <<frame, this, held, testPort, waitSet, httpServer, grizzly,
                 running, exception, thrown>>

Wait(c) ==
  /\ Goto(c, "wait", "waiting")
  /\ waitSet' = waitSet \cup {c}
  /\ UNCHANGED <<frame, this, held, testPort, httpServer, grizzly, port,
                 running, exception, thrown>>

SpuriousWakeup(c) ==
  /\ Spurious
  /\ Goto(c, "waiting", "returned")
  /\ waitSet' = waitSet \ {c}
  /\ UNCHANGED <<frame, this, held, testPort, httpServer, grizzly, port,
                 running, exception, thrown>>

StartReturns(c) ==
  /\ Goto(c, "returned", "idle")
  /\ held' = [held EXCEPT ![c] = @ \cup {this[c]}]
  /\ UNCHANGED <<frame, this, testPort, waitSet, httpServer, grizzly, port,
                 running, exception, thrown>>

\* stopServer(): rs.stop() once, the reference is then dropped.
BeginStop(c, s) ==
  /\ s \in held[c]
  /\ Goto(c, "idle", "check")
  /\ this' = [this EXCEPT ![c] = s]
  /\ held' = [held EXCEPT ![c] = @ \ {s}]
  /\ UNCHANGED <<frame, testPort, waitSet, httpServer, grizzly, port, running,
                 exception, thrown>>

-----------------------------------------------------------------------------
RunStep(s) == \/ CreateServer(s) \/ LoadHttpServer(s) \/ Listen(s)
              \/ Publish(s) \/ InformStarter(s) \/ LeaveLoop(s)
              \/ CatchException(s) \/ UncaughtException(s) \/ RecordUncaught(s)

StopStep(t) == \/ StopCheck(t) \/ StopShutdown(t) \/ StopShutdownNull(t)
               \/ StopClear(t) \/ StopHalt(t) \/ StopNotify(t)

ClientStep(c) == \/ ScanPort(c) \/ StartServer(c) \/ Wait(c) \/ StartReturns(c)

Next == \/ \E s \in Servers : RunStep(s)
        \/ \E t \in Threads : StopStep(t)
        \/ \E c \in Clients : \/ ClientStep(c)
                              \/ SpuriousWakeup(c)
                              \/ \E s \in Servers : \/ BeginStart(c, s, TRUE)
                                                    \/ BeginStart(c, s, FALSE)
                                                    \/ BeginStop(c, s)

Spec == Init /\ [][Next]_vars

\* A runnable thread is scheduled; a client need not start or stop anything.
Fairness == /\ \A s \in Servers : WF_vars(RunStep(s) \/ StopStep(s))
            /\ \A c \in Clients : WF_vars(ClientStep(c) \/ StopStep(c))

FairSpec == Spec /\ Fairness
-----------------------------------------------------------------------------
(* Properties.                                                             *)

\* Every variable has its type; the wait set holds exactly the waiting clients.
TypeOK ==
  /\ pc \in [Threads -> ServerPc \cup ClientPc]
  /\ \A s \in Servers : pc[s] \in ServerPc
  /\ \A c \in Clients : pc[c] \in ClientPc
  /\ frame \in [Threads -> {"main", "catch", "handler", "client"}]
  /\ \A t \in Threads : frame[t] = "client" <=> t \in Clients
  /\ this \in [Threads -> Servers \cup {NoServer}]
  /\ \A s \in Servers : this[s] = s
  /\ \A c \in Clients : pc[c] # "idle" => this[c] \in Servers
  /\ held \in [Clients -> SUBSET Servers]
  /\ testPort \in [Clients -> Ports]
  /\ waitSet \subseteq Clients
  /\ \A c \in Clients : c \in waitSet <=> pc[c] = "waiting"
  /\ httpServer \in [Servers -> {"null", "ref"}]
  /\ grizzly \in [Servers -> {"absent", "created", "listening", "stopped"}]
  /\ port \in [Servers -> Ports]
  /\ running \in [Servers -> BOOLEAN]
  /\ exception \in [Servers -> Faults]
  /\ thrown \in [Servers -> Faults]

\* When TestRestServer.startServer() returns, the server runs or getException()
\* tells why it does not.
StartedOrFailed ==
  \A c \in Clients : pc[c] = "returned" =>
    running[this[c]] \/ exception[this[c]] # "none"

\* Two stop() calls on one server never overlap so that one finds httpServer
\* null after its own test (stop() is not synchronized).
NoStopCollision ==
  \A t \in Threads : pc[t] = "shutdown" => httpServer[this[t]] = "ref"

\* A server thread does not end and leave its port bound.
NoOrphanListener ==
  \A s \in Servers : pc[s] = "dead" => grizzly[s] # "listening"

\* A started server that no client holds, starts or is stopping is down for
\* good: stop() leaves nothing that comes up later.
StoppedForGood ==
  \A s \in Servers :
    /\ pc[s] # "unborn"
    /\ \A c \in Clients : s \notin held[c] /\ (this[c] = s => pc[c] = "idle")
    => ~running[s] /\ grizzly[s] # "listening"

\* The same for the listener only, which holds also when the timeout stops the
\* server at the same time.
StoppedIsSilent ==
  \A s \in Servers :
    /\ pc[s] # "unborn"
    /\ \A c \in Clients : s \notin held[c] /\ (this[c] = s => pc[c] = "idle")
    => grizzly[s] # "listening"

\* A start that failed never makes the server look or be up.
FailedStartNeverRuns ==
  \A s \in Servers : exception[s] \in {"create", "bind", "error"} =>
    ~running[s] /\ grizzly[s] # "listening"

\* The exception a server has recorded is the one its starter will read: no
\* later failure of stop() replaces it.
ExceptionSticks ==
  [][\A s \in Servers : exception[s] # "none" => exception'[s] = exception[s]]_vars

\* A client's stop() ends the server thread, which sees running cleared.
StopEndsThread ==
  \A c \in Clients, s \in Servers :
    (pc[c] = "check" /\ this[c] = s) ~> pc[s] = "dead"

\* A server whose timeout elapses shuts itself down: its thread ends and its
\* port is free, whatever its clients do.
TimeoutShutsDown ==
  \A s \in Servers :
    (s \in Expiring /\ pc[s] = "loop") ~>
      (pc[s] = "dead" /\ grizzly[s] # "listening")

\* A starter that waits while its server finds the port in use is told so:
\* startServer() returns to its caller and the exception is a BindException.
BindFailureReported ==
  \A c \in Clients, s \in Servers :
    (pc[c] \in {"wait", "waiting"} /\ this[c] = s /\ thrown[s] = "bind") ~>
      (pc[c] = "returned" /\ exception[s] = "bind")

\* When TestRestServer.startServer() returns and the port of its server is in
\* use by another one, getException() is a BindException.
BusyPortReported ==
  \A c \in Clients, s \in Servers :
    /\ pc[c] = "returned" /\ s # this[c]
    /\ grizzly[s] = "listening" /\ port[s] = port[this[c]]
    => exception[this[c]] = "bind"
-----------------------------------------------------------------------------
(* The contract of startServer() and stop(), read off the fields.          *)
PhaseOf(s) ==
  IF pc[s] = "unborn" THEN "new"
  ELSE IF running[s] THEN "up"
  ELSE IF exception[s] # "none" THEN "failed"
  ELSE IF pc[s] \in {"create", "load", "listen", "publish", "catch"} THEN "starting"
  ELSE "down"

CallerOf(s) ==
  IF pc[s] = "unborn" THEN "out"
  ELSE IF \E c \in Clients : s \in held[c] THEN "holding"
  ELSE IF \E c \in Clients : this[c] = s /\ pc[c] \in {"wait", "waiting", "returned"}
       THEN "calling"
  ELSE IF \E c \in Clients : this[c] = s /\ pc[c] \in StopSteps THEN "stopping"
  ELSE "done"

Contract == INSTANCE StartContract WITH
              phase <- [s \in Servers |-> PhaseOf(s)],
              caller <- [s \in Servers |-> CallerOf(s)]

\* The threads, fields and notifications of RestServerImpl keep the contract.
KeepsContract == Contract!Spec
=============================================================================
