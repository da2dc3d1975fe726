------------------------- MODULE ServerLifecycleProofs -------------------------
(***************************************************************************)
(* Theorems about ServerLifecycle.  Type correctness holds for every value *)
(* of the constants; the hand-shake properties hold under the discipline   *)
(* of the test suite, where one thread starts and stops all the servers,   *)
(* no server times out, httpServer.start() throws no Error and wait() does *)
(* not wake spuriously.                                                    *)
(***************************************************************************)
EXTENDS ServerLifecycle, TLAPS

Discipline == /\ \E c : Clients = {c}
              /\ Expiring = {}
              /\ StartMayError = FALSE
              /\ Spurious = FALSE

-----------------------------------------------------------------------------
(* The inductive invariant: what a server is, seen from its one client.    *)
Fields(s, h, g, r) == httpServer[s] = h /\ grizzly[s] = g /\ running[s] = r

OwnPath(s) == frame[s] = "main" /\ exception[s] = "none"

Fresh(s) == pc[s] = "unborn" /\ OwnPath(s) /\ Fields(s, "null", "absent", FALSE)

Launching(s) ==
  /\ OwnPath(s)
  /\ \/ pc[s] = "create" /\ Fields(s, "null", "absent", FALSE)
     \/ pc[s] \in {"load", "listen"} /\ Fields(s, "ref", "created", FALSE)
     \/ pc[s] = "publish" /\ Fields(s, "ref", "listening", FALSE)
     \/ pc[s] = "inform" /\ Fields(s, "ref", "listening", TRUE)
     \/ /\ pc[s] = "catch" /\ thrown[s] # "none"
        /\ \/ Fields(s, "null", "absent", FALSE)
           \/ Fields(s, "ref", "created", FALSE)

Broken(s) == /\ frame[s] = "catch" /\ exception[s] # "none"
             /\ running[s] = FALSE /\ grizzly[s] \in {"absent", "created"}

Failing(s) == /\ Broken(s) /\ pc[s] \in StopSteps
              /\ pc[s] \in {"shutdown", "clear"} => httpServer[s] = "ref"
              /\ pc[s] \in {"halt", "notify"} => httpServer[s] = "null"

Failed(s) == Broken(s) /\ pc[s] = "dead" /\ httpServer[s] = "null"

Live(s) == pc[s] = "loop" /\ OwnPath(s) /\ Fields(s, "ref", "listening", TRUE)

Closing(s) == pc[s] = "loop" /\ OwnPath(s) /\ Fields(s, "ref", "stopped", TRUE)

Cleared(s) == pc[s] = "loop" /\ OwnPath(s) /\ Fields(s, "null", "stopped", TRUE)

Gone(s) == /\ pc[s] \in {"loop", "check", "dead"}
           /\ OwnPath(s) /\ Fields(s, "null", "stopped", FALSE)

Busy(c, s) == this[c] = s /\ pc[c] # "idle"

Situation(c, s) ==
  /\ pc[s] = "unborn" => /\ Fresh(s) /\ s \notin held[c]
                         /\ Busy(c, s) => pc[c] \in {"scan", "start"}
  /\ s \in held[c] => ~Busy(c, s) /\ (Live(s) \/ Failed(s))
  /\ Busy(c, s) =>
       /\ pc[c] \in {"scan", "start"} => pc[s] = "unborn"
       /\ pc[c] \in {"wait", "waiting"} =>
            Launching(s) \/ Failing(s) \/ Live(s) \/ Failed(s)
       /\ pc[c] \in {"returned", "check"} => Live(s) \/ Failed(s)
       /\ pc[c] = "shutdown" => Live(s)
       /\ pc[c] = "clear" => Closing(s)
       /\ pc[c] = "halt" => Cleared(s)
       /\ pc[c] = "notify" => Gone(s)
  /\ pc[s] # "unborn" /\ s \notin held[c] /\ ~Busy(c, s) => Failed(s) \/ Gone(s)

IInv == TypeOK /\ \A c \in Clients, s \in Servers : Situation(c, s)
-----------------------------------------------------------------------------
(* Type correctness.                                                       *)
USE DEF Threads, Ports, Faults, StopSteps, ServerPc, ClientPc

\* The initial fields and threads are well typed.
LEMMA InitTyped == Init => TypeOK
BY LifecycleAssumption DEF LifecycleAssumption, Init, TypeOK

\* notify() moves at most one waiter out of the wait set and to its return.
LEMMA NotifyTyped ==
  ASSUME TypeOK, NEW t \in Threads, NEW to, pc[t] \notin {"waiting", "idle"},
         to \in IF t \in Servers THEN ServerPc ELSE {"idle"},
         Notify([pc EXCEPT ![t] = to])
  PROVE  /\ pc' \in [Threads -> ServerPc \cup ClientPc]
         /\ \A s \in Servers : pc'[s] \in ServerPc
         /\ \A c \in Clients : pc'[c] \in ClientPc
         /\ \A c \in Clients : pc'[c] # "idle" => pc[c] # "idle"
         /\ waitSet' \subseteq Clients
         /\ \A c \in Clients : c \in waitSet' <=> pc'[c] = "waiting"
<1> USE LifecycleAssumption DEF LifecycleAssumption
<1>1. CASE waitSet = {}
  BY <1>1 DEF TypeOK, Notify
<1>2. CASE waitSet # {}
  <2>1. PICK w \in waitSet : /\ waitSet' = waitSet \ {w}
                            /\ pc' = [[pc EXCEPT ![t] = to] EXCEPT ![w] = "returned"]
    BY <1>2 DEF Notify
  <2>2. w \in Clients /\ w # t /\ pc[w] = "waiting"
    BY <2>1 DEF TypeOK
  <2>3. /\ pc' \in [Threads -> ServerPc \cup ClientPc]
        /\ pc'[w] = "returned" /\ pc'[t] = to
        /\ \A u \in Threads \ {t, w} : pc'[u] = pc[u]
    BY <2>1, <2>2 DEF TypeOK
  <2>4. \A s \in Servers : pc'[s] = IF s = t THEN to ELSE pc[s]
    BY <2>2, <2>3
  <2>5. \A c \in Clients : pc'[c] = IF c = w THEN "returned"
                                    ELSE IF c = t THEN to ELSE pc[c]
    BY <2>2, <2>3
  <2>6. /\ \A s \in Servers : pc'[s] \in ServerPc
        /\ \A c \in Clients : pc'[c] \in ClientPc
    BY <2>4, <2>5 DEF TypeOK
  <2>7. \A c \in Clients : pc'[c] # "idle" => pc[c] # "idle"
    BY <2>2, <2>5
  <2>8. /\ waitSet' \subseteq Clients
        /\ \A c \in Clients : c \in waitSet' <=> pc'[c] = "waiting"
    BY <2>1, <2>2, <2>5 DEF TypeOK
  <2> QED
    BY <2>3, <2>6, <2>7, <2>8
<1> QED
  BY <1>1, <1>2

\* A server thread that moves keeps what TypeOK says of the threads.
LEMMA ServerMoveTyped ==
  ASSUME TypeOK, NEW s \in Servers, NEW to \in ServerPc,
         pc' = [pc EXCEPT ![s] = to]
  PROVE  /\ pc' \in [Threads -> ServerPc \cup ClientPc]
         /\ \A d \in Servers : pc'[d] \in ServerPc
         /\ \A c \in Clients : pc'[c] = pc[c]
BY LifecycleAssumption DEF LifecycleAssumption, TypeOK

\* An exception of a server thread moves only that thread.
LEMMA ThrowTyped ==
  ASSUME TypeOK, NEW s \in Servers, NEW e \in Faults, Throw(s, e),
         UNCHANGED <<frame, this, held, testPort, waitSet, httpServer, grizzly,
                     port, running, exception>>
  PROVE  TypeOK'
<1> USE LifecycleAssumption DEF LifecycleAssumption
<1>1. PICK to \in {"catch", "uncaught", "dead"} : pc' = [pc EXCEPT ![s] = to]
  BY DEF Throw, HandlerOf
<1>2. /\ pc' \in [Threads -> ServerPc \cup ClientPc]
      /\ \A d \in Servers : pc'[d] \in ServerPc
      /\ \A c \in Clients : pc'[c] = pc[c]
  BY <1>1 DEF TypeOK
<1>3. thrown' \in [Servers -> Faults]
  BY DEF Throw, TypeOK
<1> QED
  BY <1>2, <1>3 DEF TypeOK

\* Every step of a server thread outside stop() keeps the types.
LEMMA RunStepTyped ==
  ASSUME TypeOK, NEW s \in Servers, RunStep(s)
  PROVE  TypeOK'
<1> USE LifecycleAssumption DEF LifecycleAssumption
<1>1. CASE CreateServer(s)
  <2>1. CASE Goto(s, "create", "load")
    <3>1. /\ pc' \in [Threads -> ServerPc \cup ClientPc]
          /\ \A d \in Servers : pc'[d] \in ServerPc
          /\ \A c \in Clients : pc'[c] = pc[c]
      BY <2>1, ServerMoveTyped DEF Goto
    <3>2. /\ thrown' \in [Servers -> Faults]
          /\ httpServer' \in [Servers -> {"null", "ref"}]
          /\ grizzly' \in [Servers -> {"absent", "created", "listening", "stopped"}]
          /\ UNCHANGED <<frame, this, held, testPort, waitSet, port, running,
                         exception>>
      BY <1>1 DEF CreateServer, Throw, TypeOK
    <3> QED
      BY <3>1, <3>2 DEF TypeOK
  <2>2. CASE ~Goto(s, "create", "load")
    <3>1. /\ Throw(s, "create")
          /\ UNCHANGED <<frame, this, held, testPort, waitSet, httpServer,
                         grizzly, port, running, exception>>
      BY <1>1, <2>2 DEF CreateServer
    <3> QED
      BY <3>1, ThrowTyped
  <2> QED
    BY <2>1, <2>2
<1>2. CASE LoadHttpServer(s)
  <2>1. CASE Goto(s, "load", "listen") /\ thrown' = thrown
    <3>1. /\ pc' \in [Threads -> ServerPc \cup ClientPc]
          /\ \A d \in Servers : pc'[d] \in ServerPc
          /\ \A c \in Clients : pc'[c] = pc[c]
      BY <2>1, ServerMoveTyped DEF Goto
    <3> QED
      BY <1>2, <2>1, <3>1 DEF LoadHttpServer, TypeOK
  <2>2. CASE Throw(s, "npe")
    BY <1>2, <2>2, ThrowTyped DEF LoadHttpServer
  <2> QED
    BY <1>2, <2>1, <2>2 DEF LoadHttpServer
<1>3. CASE Listen(s)
  <2>1. CASE Goto(s, "listen", "publish")
    <3>1. /\ pc' \in [Threads -> ServerPc \cup ClientPc]
          /\ \A d \in Servers : pc'[d] \in ServerPc
          /\ \A c \in Clients : pc'[c] = pc[c]
      BY <2>1, ServerMoveTyped DEF Goto
    <3>2. /\ thrown' \in [Servers -> Faults]
          /\ grizzly' \in [Servers -> {"absent", "created", "listening", "stopped"}]
          /\ UNCHANGED <<frame, this, held, testPort, waitSet, httpServer, port,
                         running, exception>>
      BY <1>3 DEF Listen, Throw, TypeOK
    <3> QED
      BY <3>1, <3>2 DEF TypeOK
  <2>2. CASE ~Goto(s, "listen", "publish")
    <3>1. /\ Throw(s, "bind") \/ Throw(s, "error")
          /\ UNCHANGED <<frame, this, held, testPort, waitSet, httpServer,
                         grizzly, port, running, exception>>
      BY <1>3, <2>2 DEF Listen
    <3> QED
      BY <3>1, ThrowTyped
  <2> QED
    BY <2>1, <2>2
<1>4. CASE Publish(s)
  BY <1>4 DEF Publish, Goto, TypeOK
<1>5. CASE InformStarter(s)
  <2>1. /\ pc' \in [Threads -> ServerPc \cup ClientPc]
        /\ \A d \in Servers : pc'[d] \in ServerPc
        /\ \A c \in Clients : pc'[c] \in ClientPc
        /\ \A c \in Clients : pc'[c] # "idle" => pc[c] # "idle"
        /\ waitSet' \subseteq Clients
        /\ \A c \in Clients : c \in waitSet' <=> pc'[c] = "waiting"
    BY <1>5, NotifyTyped DEF InformStarter
  <2> QED
    BY <1>5, <2>1 DEF InformStarter, TypeOK
<1>6. CASE LeaveLoop(s)
  BY <1>6 DEF LeaveLoop, Goto, TypeOK
<1>7. CASE CatchException(s)
  BY <1>7 DEF CatchException, Goto, TypeOK
<1>8. CASE UncaughtException(s)
  BY <1>8 DEF UncaughtException, Goto, TypeOK
<1>9. CASE RecordUncaught(s)
  BY <1>9 DEF RecordUncaught, Goto, TypeOK
<1> QED
  BY <1>1, <1>2, <1>3, <1>4, <1>5, <1>6, <1>7, <1>8, <1>9 DEF RunStep

\* Every step of stop() keeps the types, whichever thread executes it.
LEMMA StopStepTyped ==
  ASSUME TypeOK, NEW t \in Threads, StopStep(t)
  PROVE  TypeOK'
<1> USE LifecycleAssumption DEF LifecycleAssumption
<1>1. CASE StopCheck(t)
  <2>1. StopReturn(t) \in IF t \in Servers THEN {"record", "dead"} ELSE {"idle"}
    BY DEF StopReturn, TypeOK
  <2> QED
    BY <1>1, <2>1 DEF StopCheck, TypeOK
<1>2. CASE StopShutdown(t)
  BY <1>2 DEF StopShutdown, Goto, TypeOK
<1>3. CASE StopShutdownNull(t)
  <2>1. CASE t \in Servers
    BY <1>3, <2>1, ThrowTyped DEF StopShutdownNull
  <2>2. CASE t \notin Servers
    <3>1. /\ pc[t] = "shutdown" /\ pc' = [pc EXCEPT ![t] = "idle"]
          /\ UNCHANGED <<frame, this, held, testPort, waitSet, httpServer,
                         grizzly, port, running, exception, thrown>>
      BY <1>3, <2>2 DEF StopShutdownNull
    <3>2. /\ pc' \in [Threads -> ServerPc \cup ClientPc]
          /\ \A s \in Servers : pc'[s] = pc[s]
          /\ \A c \in Clients : pc'[c] = IF c = t THEN "idle" ELSE pc[c]
      BY <2>2, <3>1 DEF TypeOK
    <3> QED
      BY <3>1, <3>2 DEF TypeOK
  <2> QED
    BY <2>1, <2>2
<1>4. CASE StopClear(t)
  BY <1>4 DEF StopClear, Goto, TypeOK
<1>5. CASE StopHalt(t)
  BY <1>5 DEF StopHalt, Goto, TypeOK
<1>6. CASE StopNotify(t)
  <2>1. StopReturn(t) \in IF t \in Servers THEN ServerPc ELSE {"idle"}
    BY <1>6 DEF StopReturn, TypeOK
  <2>2. /\ pc[t] = "notify"
        /\ Notify([pc EXCEPT ![t] = StopReturn(t)])
        /\ UNCHANGED <<frame, this, held, testPort, httpServer, grizzly, port,
                        running, exception, thrown>>
    BY <1>6 DEF StopNotify
  <2>3. /\ pc' \in [Threads -> ServerPc \cup ClientPc]
        /\ \A s \in Servers : pc'[s] \in ServerPc
        /\ \A c \in Clients : pc'[c] \in ClientPc
        /\ \A c \in Clients : pc'[c] # "idle" => pc[c] # "idle"
        /\ waitSet' \subseteq Clients
        /\ \A c \in Clients : c \in waitSet' <=> pc'[c] = "waiting"
    BY <2>1, <2>2, NotifyTyped
  <2> QED
    BY <2>2, <2>3 DEF TypeOK
<1> QED
  BY <1>1, <1>2, <1>3, <1>4, <1>5, <1>6 DEF StopStep

\* Every step of a client outside stop() keeps the types.
LEMMA ClientTyped ==
  ASSUME TypeOK, NEW c \in Clients,
         \/ ClientStep(c) \/ SpuriousWakeup(c)
         \/ \E s \in Servers : \/ BeginStart(c, s, TRUE) \/ BeginStart(c, s, FALSE)
                               \/ BeginStop(c, s)
  PROVE  TypeOK'
<1> USE LifecycleAssumption DEF LifecycleAssumption
<1>1. CASE ScanPort(c)
  BY <1>1 DEF ScanPort, Goto, TypeOK
<1>2. CASE StartServer(c)
  <2>1. this[c] \in Servers /\ c \notin Servers /\ this[c] \notin Clients
    BY <1>2 DEF StartServer, TypeOK
  <2>2. /\ pc' \in [Threads -> ServerPc \cup ClientPc]
        /\ \A s \in Servers : pc'[s] = IF s = this[c] THEN "create" ELSE pc[s]
        /\ \A d \in Clients : pc'[d] = IF d = c THEN "wait" ELSE pc[d]
    BY <1>2, <2>1 DEF StartServer, TypeOK
  <2>3. port' \in [Servers -> Ports]
    BY <1>2, <2>1 DEF StartServer, TypeOK
  <2> QED
    BY <1>2, <2>1, <2>2, <2>3 DEF StartServer, TypeOK
<1>3. CASE Wait(c)
  BY <1>3 DEF Wait, Goto, TypeOK
<1>4. CASE StartReturns(c)
  BY <1>4 DEF StartReturns, Goto, TypeOK
<1>5. CASE SpuriousWakeup(c)
  BY <1>5 DEF SpuriousWakeup, Goto, TypeOK
<1>6. ASSUME NEW s \in Servers, NEW scan \in BOOLEAN, BeginStart(c, s, scan)
      PROVE  TypeOK'
  BY <1>6 DEF BeginStart, Goto, TypeOK
<1>7. ASSUME NEW s \in Servers, BeginStop(c, s)
      PROVE  TypeOK'
  BY <1>7 DEF BeginStop, Goto, TypeOK
<1> QED
  BY <1>1, <1>2, <1>3, <1>4, <1>5, <1>6, <1>7 DEF ClientStep

\* Every reachable state is well typed, for any servers, clients and faults.
THEOREM TypeCorrect == Spec => []TypeOK
<1>1. TypeOK /\ UNCHANGED vars => TypeOK'
  BY DEF vars, TypeOK
<1>2. TypeOK /\ [Next]_vars => TypeOK'
  BY <1>1, RunStepTyped, StopStepTyped, ClientTyped DEF Next
<1> QED
  BY InitTyped, <1>2, PTL DEF Spec
-----------------------------------------------------------------------------
(* The hand-shake under the discipline.                                    *)

\* A step that leaves a server and its client alone leaves its situation alone.
LEMMA SituationFrame ==
  ASSUME NEW c \in Clients, NEW z \in Servers, Situation(c, z),
         pc'[c] = pc[c], this'[c] = this[c], held'[c] = held[c],
         pc'[z] = pc[z], frame'[z] = frame[z], thrown'[z] = thrown[z],
         httpServer'[z] = httpServer[z], grizzly'[z] = grizzly[z],
         running'[z] = running[z], exception'[z] = exception[z]
  PROVE  Situation(c, z)'
BY DEF Situation, Busy, Fresh, Launching, Failing, Failed, Live, Closing,
       Cleared, Gone, Broken, OwnPath, Fields

\* A server thread that is starting or failing has its client waiting for it.
LEMMA StarterWaits ==
  ASSUME IInv, NEW c \in Clients, NEW s \in Servers,
         \/ pc[s] \in {"create", "load", "listen", "publish", "inform", "catch"}
         \/ pc[s] \in StopSteps /\ ~Gone(s)
  PROVE  /\ this[c] = s /\ pc[c] \in {"wait", "waiting"} /\ s \notin held[c]
         /\ Launching(s) \/ Failing(s)
<1>1. Situation(c, s) /\ TypeOK
  BY DEF IInv
<1> QED
  BY <1>1 DEF Situation, Busy, Live, Failed, Gone, Closing, Cleared, TypeOK

\* The situation after a step of a server whose client goes on waiting for it.
LEMMA AwaitingSituation ==
  ASSUME NEW c \in Clients, NEW s \in Servers,
         this'[c] = s, pc'[c] \in {"wait", "waiting"}, s \notin held'[c],
         \/ Launching(s)' \/ Failing(s)' \/ Live(s)' \/ Failed(s)'
  PROVE  Situation(c, s)'
BY DEF Situation, Busy, Launching, Failing, Live, Failed

\* Every step of a server thread outside stop() keeps every situation.
LEMMA RunStepSituation ==
  ASSUME Discipline, IInv, NEW s \in Servers, RunStep(s),
         NEW c \in Clients, NEW z \in Servers
  PROVE  Situation(c, z)'
<1> USE LifecycleAssumption DEF LifecycleAssumption
<1>0. TypeOK /\ Situation(c, z) /\ Situation(c, s) /\ c # s /\ c # z
  BY DEF IInv
<1>1. CASE CreateServer(s)
  <2>1. CASE z = s
    <3>1. /\ this[c] = s /\ pc[c] \in {"wait", "waiting"} /\ s \notin held[c]
          /\ Launching(s) \/ Failing(s)
      BY <1>0, <1>1, StarterWaits DEF CreateServer, Goto
    <3>2. /\ this'[c] = s /\ pc'[c] \in {"wait", "waiting"} /\ s \notin held'[c]
      BY <1>0, <1>1, <3>1 DEF CreateServer, Goto, Throw, TypeOK
    <3>3. Launching(s)'
      BY <1>0, <1>1, <3>1 DEF CreateServer, Goto, Throw, HandlerOf, TypeOK, Launching,
         Failing, OwnPath, Fields, Broken
    <3> QED
      BY <2>1, <3>2, <3>3, AwaitingSituation
  <2>2. CASE z # s
    BY <1>0, <1>1, <2>2, SituationFrame DEF CreateServer, Goto, Throw, TypeOK
  <2> QED
    BY <2>1, <2>2
<1>2. CASE LoadHttpServer(s)
  <2>1. CASE z = s
    <3>1. /\ this[c] = s /\ pc[c] \in {"wait", "waiting"} /\ s \notin held[c]
          /\ Launching(s) \/ Failing(s)
      BY <1>0, <1>2, StarterWaits DEF LoadHttpServer, Goto
    <3>2. /\ this'[c] = s /\ pc'[c] \in {"wait", "waiting"} /\ s \notin held'[c]
      BY <1>0, <1>2, <3>1 DEF LoadHttpServer, Goto, Throw, TypeOK
    <3>3. Launching(s)'
      BY <1>0, <1>2, <3>1 DEF LoadHttpServer, Goto, TypeOK, Launching,
         Failing, OwnPath, Fields, Broken
    <3> QED
      BY <2>1, <3>2, <3>3, AwaitingSituation
  <2>2. CASE z # s
    BY <1>0, <1>2, <2>2, SituationFrame DEF LoadHttpServer, Goto, Throw, TypeOK
  <2> QED
    BY <2>1, <2>2
<1>3. CASE Listen(s)
  <2>1. CASE z = s
    <3>1. /\ this[c] = s /\ pc[c] \in {"wait", "waiting"} /\ s \notin held[c]
          /\ Launching(s) \/ Failing(s)
      BY <1>0, <1>3, StarterWaits DEF Listen, Goto
    <3>2. /\ this'[c] = s /\ pc'[c] \in {"wait", "waiting"} /\ s \notin held'[c]
      BY <1>0, <1>3, <3>1 DEF Listen, Goto, Throw, TypeOK
    <3>3. Launching(s)'
      BY <1>0, <1>3, <3>1 DEF Listen, Goto, Throw, HandlerOf, Discipline, TypeOK, Launching,
         Failing, OwnPath, Fields, Broken
    <3> QED
      BY <2>1, <3>2, <3>3, AwaitingSituation
  <2>2. CASE z # s
    BY <1>0, <1>3, <2>2, SituationFrame DEF Listen, Goto, Throw, TypeOK
  <2> QED
    BY <2>1, <2>2
<1>4. CASE Publish(s)
  <2>1. CASE z = s
    <3>1. /\ this[c] = s /\ pc[c] \in {"wait", "waiting"} /\ s \notin held[c]
          /\ Launching(s) \/ Failing(s)
      BY <1>0, <1>4, StarterWaits DEF Publish, Goto
    <3>2. /\ this'[c] = s /\ pc'[c] \in {"wait", "waiting"} /\ s \notin held'[c]
      BY <1>0, <1>4, <3>1 DEF Publish, Goto, Throw, TypeOK
    <3>3. Launching(s)'
      BY <1>0, <1>4, <3>1 DEF Publish, Goto, TypeOK, Launching,
         Failing, OwnPath, Fields, Broken
    <3> QED
      BY <2>1, <3>2, <3>3, AwaitingSituation
  <2>2. CASE z # s
    <3>1. /\ pc'[c] = pc[c] /\ pc'[z] = pc[z] /\ running'[z] = running[z]
          /\ UNCHANGED <<frame, this, held, httpServer, grizzly, exception, thrown>>
      BY <1>0, <1>4, <2>2 DEF Publish, Goto, TypeOK
    <3> QED
      BY <1>0, <3>1, SituationFrame
  <2> QED
    BY <2>1, <2>2
<1>5. CASE InformStarter(s)
  <2>1. /\ this[c] = s /\ pc[c] \in {"wait", "waiting"} /\ s \notin held[c]
        /\ pc[s] = "inform" /\ OwnPath(s) /\ Fields(s, "ref", "listening", TRUE)
    BY <1>0, <1>5, StarterWaits DEF InformStarter, Launching, Failing
  <2>2. waitSet \subseteq {c}
    BY <1>0 DEF TypeOK, Discipline
  <2>3. /\ pc'[s] = "loop" /\ pc'[c] \in {"wait", "waiting", "returned"}
        /\ z # s => pc'[z] = pc[z]
    BY <1>0, <1>5, <2>1, <2>2 DEF InformStarter, Notify, TypeOK
  <2>4. UNCHANGED <<frame, this, held, httpServer, grizzly, running, exception, thrown>>
    BY <1>5 DEF InformStarter
  <2>5. CASE z = s
    BY <1>0, <2>1, <2>3, <2>4, <2>5 DEF Situation, Busy, Live, OwnPath, Fields
  <2>6. CASE z # s
    BY <1>0, <2>1, <2>3, <2>4, <2>6 DEF Situation, Busy, Fresh, Live, Failed,
       Gone, Broken, OwnPath, Fields
  <2> QED
    BY <2>5, <2>6
<1>6. CASE LeaveLoop(s)
  <2>1. CASE z = s
    BY <1>0, <1>6, <2>1 DEF LeaveLoop, Goto, Discipline,
       TypeOK, Situation, Busy, Launching, Failing, Failed, Live, Closing,
       Cleared, Gone, OwnPath, Fields, Broken
  <2>2. CASE z # s
    BY <1>0, <1>6, <2>2, SituationFrame DEF LeaveLoop, Goto, TypeOK
  <2> QED
    BY <2>1, <2>2
<1>7. CASE CatchException(s)
  <2>1. CASE z = s
    <3>1. /\ this[c] = s /\ pc[c] \in {"wait", "waiting"} /\ s \notin held[c]
          /\ Launching(s) \/ Failing(s)
      BY <1>0, <1>7, StarterWaits DEF CatchException, Goto
    <3>2. /\ this'[c] = s /\ pc'[c] \in {"wait", "waiting"} /\ s \notin held'[c]
      BY <1>0, <1>7, <3>1 DEF CatchException, Goto, Throw, TypeOK
    <3>3. Failing(s)'
      BY <1>0, <1>7, <3>1 DEF CatchException, Goto, TypeOK, Launching,
         Failing, OwnPath, Fields, Broken
    <3> QED
      BY <2>1, <3>2, <3>3, AwaitingSituation
  <2>2. CASE z # s
    BY <1>0, <1>7, <2>2, SituationFrame DEF CatchException, Goto, TypeOK
  <2> QED
    BY <2>1, <2>2
<1>8. ~UncaughtException(s) /\ ~RecordUncaught(s)
  BY <1>0 DEF UncaughtException, RecordUncaught, Goto, TypeOK, Situation, Busy,
     Launching, Failing, Failed, Live, Closing, Cleared, Gone
<1> QED
  BY <1>1, <1>2, <1>3, <1>4, <1>5, <1>6, <1>7, <1>8 DEF RunStep

\* A step of a client on one server leaves the situation of the others alone.
LEMMA OtherSituation ==
  ASSUME NEW c \in Clients, NEW z \in Servers, Situation(c, z),
         ~Busy(c, z), ~Busy(c, z)', z \in held'[c] <=> z \in held[c],
         pc'[z] = pc[z], frame'[z] = frame[z],
         httpServer'[z] = httpServer[z], grizzly'[z] = grizzly[z],
         running'[z] = running[z], exception'[z] = exception[z]
  PROVE  Situation(c, z)'
BY DEF Situation, Fresh, Failed, Live, Gone, Broken, OwnPath, Fields

\* A server thread's stop(), after a failure or after the loop, keeps every
\* situation.
LEMMA ServerStopSituation ==
  ASSUME Discipline, IInv, NEW s \in Servers, StopStep(s),
         NEW c \in Clients, NEW z \in Servers
  PROVE  Situation(c, z)'
<1> USE LifecycleAssumption DEF LifecycleAssumption
<1>0. /\ TypeOK /\ Situation(c, z) /\ Situation(c, s) /\ c # s /\ c # z
      /\ this[s] = s /\ pc[s] \in StopSteps
  BY DEF IInv, TypeOK, StopStep, StopCheck, StopShutdown, StopShutdownNull,
     StopClear, StopHalt, StopNotify, Goto
<1>1. CASE Gone(s)
  <2>1. /\ pc[s] = "check" /\ httpServer[s] = "null" /\ frame[s] = "main"
        /\ StopCheck(s)
    BY <1>0, <1>1 DEF Gone, OwnPath, Fields, StopStep, StopShutdown, StopClear,
       StopHalt, StopNotify, StopShutdownNull, Goto
  <2>2. /\ pc' = [pc EXCEPT ![s] = "dead"]
        /\ UNCHANGED <<frame, this, held, httpServer, grizzly, running, exception, thrown>>
    BY <1>0, <2>1 DEF StopCheck, StopReturn
  <2>3. pc'[c] = pc[c] /\ (z # s => pc'[z] = pc[z]) /\ pc'[s] = "dead"
    BY <1>0, <2>2 DEF TypeOK
  <2>4. CASE z = s
    <3>1. Gone(s)'
      BY <1>1, <2>2, <2>3 DEF Gone, OwnPath, Fields
    <3> QED
      BY <1>0, <1>1, <2>1, <2>2, <2>3, <2>4, <3>1 DEF Situation, Busy, Gone,
         Live, Failed, Launching, Failing, Closing, Cleared, OwnPath, Fields,
         Broken
  <2>5. CASE z # s
    BY <1>0, <2>2, <2>3, <2>5, SituationFrame
  <2> QED
    BY <2>4, <2>5
<1>2. CASE ~Gone(s)
  <2>1. /\ this[c] = s /\ pc[c] \in {"wait", "waiting"} /\ s \notin held[c]
        /\ Failing(s)
    BY <1>0, <1>2, StarterWaits DEF Launching
  <2>2. waitSet \subseteq {c}
    BY <1>0 DEF TypeOK, Discipline
  <2>3. ~StopShutdownNull(s)
    BY <1>0, <2>1 DEF StopShutdownNull, Failing
  <2>4. CASE StopNotify(s)
    <3>1. /\ pc'[s] = "dead" /\ pc'[c] \in {"wait", "waiting", "returned"}
          /\ z # s => pc'[z] = pc[z]
      BY <1>0, <2>1, <2>2, <2>4 DEF StopNotify, StopReturn, Notify, TypeOK,
         Failing, Broken
    <3>2. UNCHANGED <<frame, this, held, httpServer, grizzly, running, exception, thrown>>
      BY <2>4 DEF StopNotify
    <3>3. Failed(s)'
      BY <2>1, <2>4, <3>1, <3>2 DEF Failing, Failed, Broken, StopNotify
    <3>4. CASE z = s
      BY <1>0, <2>1, <3>1, <3>2, <3>3, <3>4 DEF Situation, Busy, Failed
    <3>5. CASE z # s
      BY <1>0, <2>1, <3>1, <3>2, <3>5, OtherSituation DEF Busy
    <3> QED
      BY <3>4, <3>5
  <2>5. CASE StopCheck(s) \/ StopShutdown(s) \/ StopClear(s) \/ StopHalt(s)
    <3>1. /\ pc'[c] = pc[c] /\ (z # s => pc'[z] = pc[z])
          /\ UNCHANGED <<frame, this, held, exception, thrown>>
      BY <1>0, <2>5 DEF StopCheck, StopShutdown, StopClear, StopHalt, Goto, TypeOK
    <3>2. z # s => /\ httpServer'[z] = httpServer[z] /\ grizzly'[z] = grizzly[z]
                   /\ running'[z] = running[z]
      BY <1>0, <2>5 DEF StopCheck, StopShutdown, StopClear, StopHalt, TypeOK
    <3>3. Failing(s)' \/ Failed(s)'
      <4>1. CASE StopCheck(s)
        BY <1>0, <2>1, <4>1 DEF StopCheck, StopReturn, Failing, Failed, Broken, TypeOK
      <4>2. CASE StopShutdown(s)
        BY <1>0, <2>1, <4>2 DEF StopShutdown, Goto, Failing, Broken, TypeOK
      <4>3. CASE StopClear(s)
        BY <1>0, <2>1, <4>3 DEF StopClear, Goto, Failing, Broken, TypeOK
      <4>4. CASE StopHalt(s)
        BY <1>0, <2>1, <4>4 DEF StopHalt, Goto, Failing, Broken, TypeOK
      <4> QED
        BY <2>5, <4>1, <4>2, <4>3, <4>4
    <3>4. CASE z = s
      BY <2>1, <3>1, <3>3, <3>4, AwaitingSituation
    <3>5. CASE z # s
      BY <1>0, <3>1, <3>2, <3>5, SituationFrame
    <3> QED
      BY <3>4, <3>5
  <2> QED
    BY <2>3, <2>4, <2>5 DEF StopStep
<1> QED
  BY <1>1, <1>2

\* A client's stop() keeps every situation.
LEMMA ClientStopSituation ==
  ASSUME Discipline, IInv, NEW c \in Clients, StopStep(c), NEW z \in Servers
  PROVE  Situation(c, z)'
<1> USE LifecycleAssumption DEF LifecycleAssumption
<1> DEFINE s == this[c]
<1>0. /\ TypeOK /\ Situation(c, z) /\ c # z /\ pc[c] \in StopSteps
      /\ frame[c] = "client" /\ c \notin Servers
  BY DEF IInv, TypeOK, StopStep, StopCheck, StopShutdown, StopShutdownNull,
     StopClear, StopHalt, StopNotify, Goto
<1>1. s \in Servers /\ Situation(c, s) /\ Busy(c, s) /\ s \notin held[c] /\ c # s
  BY <1>0 DEF IInv, TypeOK, Situation, Busy
<1>2. waitSet = {}
  BY <1>0 DEF TypeOK, Discipline
<1>3. ~StopShutdownNull(c)
  BY <1>0, <1>1 DEF StopShutdownNull, Situation, Busy, Live, Fields
<1>4. UNCHANGED <<frame, this, held, exception, thrown>>
  BY <1>0, <1>3 DEF StopStep, StopCheck, StopShutdown, StopClear, StopHalt,
     StopNotify
<1>5. /\ pc'[z] = pc[z] /\ pc'[s] = pc[s]
      /\ z # s => /\ httpServer'[z] = httpServer[z] /\ grizzly'[z] = grizzly[z]
                  /\ running'[z] = running[z]
  BY <1>0, <1>1, <1>2, <1>3 DEF StopStep, StopCheck, StopShutdown, StopClear,
     StopHalt, StopNotify, StopReturn, Notify, Goto, TypeOK
<1>6. CASE z # s
  BY <1>0, <1>4, <1>5, <1>6, OtherSituation DEF Busy
<1>7. CASE z = s
  <2>1. CASE StopCheck(c)
    <3>1. \/ Live(s) /\ httpServer[s] = "ref"
          \/ Failed(s) /\ httpServer[s] = "null"
      <4>1. Live(s) \/ Failed(s)
        BY <1>0, <1>1, <2>1 DEF StopCheck, Situation, Busy
      <4> QED
        BY <4>1 DEF Live, Failed, Fields
    <3>2. pc'[c] = IF httpServer[s] = "ref" THEN "shutdown" ELSE "idle"
      <4>1. StopReturn(c) = "idle"
        BY <1>0 DEF StopReturn
      <4> QED
        BY <1>0, <2>1, <4>1 DEF StopCheck, TypeOK
    <3>3. (Live(s) => Live(s)') /\ (Failed(s) => Failed(s)')
      BY <1>4, <1>5, <2>1 DEF StopCheck, Live, Failed, OwnPath, Fields, Broken
    <3>4. CASE Live(s) /\ httpServer[s] = "ref"
      <4>1. pc'[c] = "shutdown" /\ Live(s)'
        BY <3>2, <3>3, <3>4
      <4> QED
        BY <1>1, <1>4, <1>7, <4>1 DEF Situation, Busy, Live
    <3>5. CASE Failed(s) /\ httpServer[s] = "null"
      <4>1. pc'[c] = "idle" /\ Failed(s)'
        BY <3>2, <3>3, <3>5
      <4> QED
        BY <1>1, <1>4, <1>7, <4>1 DEF Situation, Busy, Failed
    <3> QED
      BY <3>1, <3>4, <3>5
  <2>2. CASE StopShutdown(c)
    <3>1. Live(s) /\ pc'[c] = "clear"
      BY <1>0, <1>1, <2>2 DEF StopShutdown, Goto, Situation, Busy, TypeOK
    <3>2. Closing(s)'
      BY <1>0, <1>1, <1>4, <1>5, <2>2, <3>1 DEF StopShutdown, Goto, Live, Closing,
         OwnPath, Fields, TypeOK
    <3> QED
      BY <1>1, <1>4, <1>7, <3>1, <3>2 DEF Situation, Busy, Closing
  <2>3. CASE StopClear(c)
    <3>1. Closing(s) /\ pc'[c] = "halt"
      BY <1>0, <1>1, <2>3 DEF StopClear, Goto, Situation, Busy, TypeOK
    <3>2. Cleared(s)'
      BY <1>0, <1>1, <1>4, <1>5, <2>3, <3>1 DEF StopClear, Goto, Closing, Cleared,
         OwnPath, Fields, TypeOK
    <3> QED
      BY <1>1, <1>4, <1>7, <3>1, <3>2 DEF Situation, Busy, Cleared
  <2>4. CASE StopHalt(c)
    <3>1. Cleared(s) /\ pc'[c] = "notify"
      BY <1>0, <1>1, <2>4 DEF StopHalt, Goto, Situation, Busy, TypeOK
    <3>2. Gone(s)'
      BY <1>0, <1>1, <1>4, <1>5, <2>4, <3>1 DEF StopHalt, Goto, Cleared, Gone,
         OwnPath, Fields, TypeOK
    <3> QED
      BY <1>1, <1>4, <1>7, <3>1, <3>2 DEF Situation, Busy, Gone
  <2>5. CASE StopNotify(c)
    <3>1. Gone(s) /\ pc'[c] = "idle"
      BY <1>0, <1>1, <1>2, <2>5 DEF StopNotify, StopReturn, Notify, Situation,
         Busy, TypeOK
    <3>2. Gone(s)'
      BY <1>4, <1>5, <2>5, <3>1 DEF StopNotify, Gone, OwnPath, Fields
    <3> QED
      BY <1>1, <1>4, <1>7, <3>1, <3>2 DEF Situation, Busy, Gone
  <2> QED
    BY <1>3, <2>1, <2>2, <2>3, <2>4, <2>5 DEF StopStep
<1> QED
  BY <1>6, <1>7

\* Every step of a client outside stop() keeps every situation.
LEMMA ClientSituation ==
  ASSUME Discipline, IInv, NEW c \in Clients, NEW z \in Servers,
         \/ ClientStep(c)
         \/ \E s \in Servers : \/ BeginStart(c, s, TRUE) \/ BeginStart(c, s, FALSE)
                               \/ BeginStop(c, s)
  PROVE  Situation(c, z)'
<1> USE LifecycleAssumption DEF LifecycleAssumption
<1>0. TypeOK /\ Situation(c, z) /\ c # z
  BY DEF IInv
<1>1. CASE ScanPort(c)
  BY <1>0, <1>1 DEF ScanPort, Goto, TypeOK, Situation, Busy, Fresh, Failed,
     Live, Gone, Broken, OwnPath, Fields
<1>2. CASE StartServer(c)
  <2>1. /\ this[c] \in Servers /\ Fresh(this[c]) /\ this[c] \notin held[c]
    BY <1>0, <1>2 DEF StartServer, IInv, TypeOK, Situation, Busy
  <2>2. /\ pc'[c] = "wait" /\ pc'[this[c]] = "create"
        /\ z # this[c] => pc'[z] = pc[z]
        /\ UNCHANGED <<frame, this, held, httpServer, grizzly, running, exception, thrown>>
    BY <1>0, <1>2, <2>1 DEF StartServer, TypeOK
  <2>3. CASE z = this[c]
    <3>1. Launching(z)'
      BY <2>1, <2>2, <2>3 DEF Fresh, Launching, OwnPath, Fields
    <3> QED
      BY <2>1, <2>2, <2>3, <3>1, AwaitingSituation
  <2>4. CASE z # this[c]
    BY <1>0, <2>2, <2>4, OtherSituation DEF Busy
  <2> QED
    BY <2>3, <2>4
<1>3. CASE Wait(c)
  <2>1. /\ pc[c] = "wait" /\ pc'[c] = "waiting" /\ pc'[z] = pc[z]
        /\ UNCHANGED <<frame, this, held, httpServer, grizzly, running, exception, thrown>>
    BY <1>0, <1>3 DEF Wait, Goto, TypeOK
  <2> QED
    BY <1>0, <2>1 DEF Situation, Busy, Fresh, Launching, Failing, Failed, Live,
       Gone, Broken, OwnPath, Fields
<1>4. CASE StartReturns(c)
  <2>1. /\ pc[c] = "returned" /\ pc'[c] = "idle" /\ pc'[z] = pc[z]
        /\ held'[c] = held[c] \cup {this[c]}
        /\ UNCHANGED <<frame, this, httpServer, grizzly, running, exception, thrown>>
    BY <1>0, <1>4 DEF StartReturns, Goto, TypeOK
  <2> QED
    BY <1>0, <2>1 DEF Situation, Busy, Fresh, Failed, Live, Gone, Broken,
       OwnPath, Fields
<1>5. ASSUME NEW s \in Servers, NEW scan \in BOOLEAN, BeginStart(c, s, scan)
      PROVE  Situation(c, z)'
  <2>1. /\ pc[s] = "unborn" /\ pc[c] = "idle" /\ pc'[c] \in {"scan", "start"}
        /\ this'[c] = s /\ pc'[z] = pc[z]
        /\ UNCHANGED <<frame, held, httpServer, grizzly, running, exception, thrown>>
    BY <1>0, <1>5 DEF BeginStart, Goto, TypeOK
  <2> QED
    BY <1>0, <2>1 DEF Situation, Busy, Fresh, Failed, Live, Gone, Broken,
       OwnPath, Fields
<1>6. ASSUME NEW s \in Servers, BeginStop(c, s)
      PROVE  Situation(c, z)'
  <2>1. /\ s \in held[c] /\ pc[c] = "idle" /\ pc'[c] = "check"
        /\ this'[c] = s /\ pc'[z] = pc[z] /\ held'[c] = held[c] \ {s}
        /\ UNCHANGED <<frame, httpServer, grizzly, running, exception, thrown>>
    BY <1>0, <1>6 DEF BeginStop, Goto, TypeOK
  <2> QED
    BY <1>0, <2>1 DEF Situation, Busy, Fresh, Failed, Live, Gone, Broken,
       OwnPath, Fields
<1> QED
  BY <1>1, <1>2, <1>3, <1>4, <1>5, <1>6 DEF ClientStep

\* The inductive invariant holds initially and is kept by every step.
LEMMA Inductive ==
  ASSUME Discipline
  PROVE  (Init => IInv) /\ (IInv /\ [Next]_vars => IInv')
<1>1. Init => IInv
  BY InitTyped, LifecycleAssumption DEF LifecycleAssumption, IInv, Init,
     Situation, Busy, Fresh, OwnPath, Fields
<1>2. ASSUME IInv, [Next]_vars, NEW c \in Clients, NEW z \in Servers
      PROVE  Situation(c, z)'
  <2>1. CASE UNCHANGED vars
    BY <1>2, <2>1, SituationFrame DEF vars, IInv
  <2>2. ASSUME NEW s \in Servers, RunStep(s) PROVE Situation(c, z)'
    BY <1>2, <2>2, RunStepSituation
  <2>3. ASSUME NEW s \in Servers, StopStep(s) PROVE Situation(c, z)'
    BY <1>2, <2>3, ServerStopSituation
  <2>4. \A d \in Clients : d = c
    BY DEF Discipline
  <2>5. CASE StopStep(c)
    BY <1>2, <2>5, ClientStopSituation
  <2>6. ASSUME \/ ClientStep(c)
               \/ \E s \in Servers : \/ BeginStart(c, s, TRUE)
                                     \/ BeginStart(c, s, FALSE)
                                     \/ BeginStop(c, s)
        PROVE  Situation(c, z)'
    BY <1>2, <2>6, ClientSituation
  <2>7. ~SpuriousWakeup(c)
    BY DEF SpuriousWakeup, Discipline
  <2> QED
    BY <1>2, <2>1, <2>2, <2>3, <2>4, <2>5, <2>6, <2>7 DEF Next
<1>3. ASSUME IInv, [Next]_vars PROVE TypeOK'
  <2>1. CASE UNCHANGED vars
    BY <1>3, <2>1 DEF vars, IInv, TypeOK
  <2> QED
    BY <1>3, <2>1, RunStepTyped, StopStepTyped, ClientTyped DEF Next, IInv
<1> QED
  BY <1>1, <1>2, <1>3 DEF IInv

-----------------------------------------------------------------------------
\* Under the discipline startServer() returns to its caller only when the
\* server runs or its exception is recorded.
THEOREM StartIsSettled == Discipline => (Spec => []StartedOrFailed)
<1> SUFFICES ASSUME Discipline PROVE Spec => []StartedOrFailed
  OBVIOUS
<1>1. IInv => StartedOrFailed
  BY DEF IInv, TypeOK, StartedOrFailed, Situation, Busy, Live, Failed, Broken,
     Fields
<1> QED
  BY Inductive, <1>1, PTL DEF Spec

\* Under the discipline the stop() calls of a server's own thread and of the
\* test thread never collide.
THEOREM StopsNeverCollide == Discipline => (Spec => []NoStopCollision)
<1> SUFFICES ASSUME Discipline PROVE Spec => []NoStopCollision
  OBVIOUS
<1>1. ASSUME IInv PROVE NoStopCollision
  <2>1. ASSUME NEW s \in Servers, pc[s] = "shutdown"
        PROVE  httpServer[this[s]] = "ref"
    <3>1. PICK c \in Clients : TRUE
      BY DEF Discipline
    <3>2. Failing(s)
      BY <1>1, <2>1, <3>1, StarterWaits DEF Launching, Gone
    <3> QED
      BY <1>1, <2>1, <3>2 DEF IInv, TypeOK, Failing
  <2>2. \A c \in Clients : pc[c] = "shutdown" => httpServer[this[c]] = "ref"
    BY <1>1 DEF IInv, TypeOK, Situation, Busy, Live, Fields
  <2> QED
    BY <2>1, <2>2 DEF NoStopCollision
<1> QED
  BY Inductive, <1>1, PTL DEF Spec

\* Under the discipline no server thread ends and leaves its port bound.
THEOREM PortsAreReleased == Discipline => (Spec => []NoOrphanListener)
<1> SUFFICES ASSUME Discipline PROVE Spec => []NoOrphanListener
  OBVIOUS
<1>1. ASSUME IInv, NEW c \in Clients, NEW s \in Servers, pc[s] = "dead"
      PROVE  Failed(s) \/ Gone(s)
  <2>1. Situation(c, s) /\ pc[c] \in ClientPc
    BY <1>1 DEF IInv, TypeOK
  <2> QED
    BY <1>1, <2>1 DEF Situation, Busy, Fresh, Launching, Failing, Live, Closing,
       Cleared
<1>2. IInv => NoOrphanListener
  BY <1>1 DEF NoOrphanListener, Failed, Gone, Broken, Fields, Discipline
<1> QED
  BY Inductive, <1>2, PTL DEF Spec

\* Under the discipline a stopped server stays down: its stop() leaves nothing
\* that comes up later.
THEOREM StopIsFinal == Discipline => (Spec => []StoppedForGood)
<1> SUFFICES ASSUME Discipline PROVE Spec => []StoppedForGood
  OBVIOUS
<1>1. IInv => StoppedForGood
  BY DEF IInv, StoppedForGood, Situation, Busy, Failed, Gone, Broken, Fields,
     Discipline
<1> QED
  BY Inductive, <1>1, PTL DEF Spec
=============================================================================
