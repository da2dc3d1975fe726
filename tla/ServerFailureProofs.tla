-------------------------- MODULE ServerFailureProofs --------------------------
(***************************************************************************)
(* Theorems about ServerLifecycle beyond the discipline of                 *)
(* ServerLifecycleProofs.  A start that failed never makes its server run, *)
(* whatever the threads, timeouts, Errors and spurious wake-ups are.  With *)
(* one server and one client, as in main() or in a single test, stop()     *)
(* leaves no listener behind, also when the timeout stops the server at    *)
(* the same time and when httpServer.start() throws an Error.              *)
(***************************************************************************)
EXTENDS ServerLifecycleProofs

USE DEF Threads, Ports, Faults, StopSteps, ServerPc, ClientPc

-----------------------------------------------------------------------------
(* Failed starts.                                                          *)

\* A server is born once: a client about to give birth to it is the only one
\* that knows it, and a server that a client holds is born.
Births ==
  /\ \A c \in Clients : pc[c] \in {"scan", "start"} =>
       /\ pc[this[c]] = "unborn"
       /\ \A d \in Clients \ {c} : this[d] # this[c]
  /\ \A c \in Clients : pc[c] \notin {"idle", "scan", "start"} => pc[this[c]] # "unborn"
  /\ \A c \in Clients : \A s \in held[c] : pc[s] # "unborn"

NotUp(s) == ~running[s] /\ grizzly[s] # "listening"

\* A server is not up before listen has succeeded, nothing has failed before a
\* catch, and what has failed in the start is not up.
Attempt(s) ==
  /\ pc[s] \in {"unborn", "create", "load", "listen"} => NotUp(s)
  /\ pc[s] \in {"unborn", "create", "load", "listen", "publish", "inform", "loop"} =>
       exception[s] = "none" /\ thrown[s] = "none"
  /\ {exception[s], thrown[s]} \cap {"create", "bind", "error"} # {} => NotUp(s)

FInv == TypeOK /\ Births /\ \A s \in Servers : Attempt(s)

\* A step of a server thread, or a stop() by a client, keeps an attempt.
LEMMA RunStepAttempt ==
  ASSUME FInv, NEW s \in Servers, RunStep(s), NEW z \in Servers
  PROVE  Attempt(z)'
<1> USE LifecycleAssumption DEF LifecycleAssumption
<1>0. TypeOK /\ Attempt(z)
  BY DEF FInv
<1>1. CASE CreateServer(s)
  BY <1>0, <1>1 DEF CreateServer, Goto, Throw, HandlerOf, TypeOK, Attempt, NotUp
<1>2. CASE LoadHttpServer(s)
  BY <1>0, <1>2 DEF LoadHttpServer, Goto, Throw, HandlerOf, TypeOK, Attempt, NotUp
<1>3. CASE Listen(s)
  BY <1>0, <1>3 DEF Listen, Goto, Throw, HandlerOf, TypeOK, Attempt, NotUp
<1>4. CASE Publish(s)
  BY <1>0, <1>4 DEF Publish, Goto, TypeOK, Attempt, NotUp
<1>5. CASE InformStarter(s)
  <2>1. /\ pc[s] = "inform" /\ pc'[z] = IF z = s THEN "loop" ELSE pc[z]
        /\ UNCHANGED <<grizzly, running, exception, thrown>>
    BY <1>0, <1>5 DEF InformStarter, Notify, TypeOK
  <2> QED
    BY <1>0, <2>1 DEF Attempt, NotUp
<1>6. CASE LeaveLoop(s)
  BY <1>0, <1>6 DEF LeaveLoop, Goto, TypeOK, Attempt, NotUp
<1>7. CASE CatchException(s)
  BY <1>0, <1>7 DEF CatchException, Goto, TypeOK, Attempt, NotUp
<1>8. CASE UncaughtException(s)
  BY <1>0, <1>8 DEF UncaughtException, Goto, TypeOK, Attempt, NotUp
<1>9. CASE RecordUncaught(s)
  BY <1>0, <1>9 DEF RecordUncaught, Goto, TypeOK, Attempt, NotUp
<1> QED
  BY <1>1, <1>2, <1>3, <1>4, <1>5, <1>6, <1>7, <1>8, <1>9 DEF RunStep

\* stop() only takes a server down, and the thread that executes it is past its
\* start.
LEMMA StopStepAttempt ==
  ASSUME FInv, NEW t \in Threads, StopStep(t), NEW z \in Servers
  PROVE  Attempt(z)'
<1> USE LifecycleAssumption DEF LifecycleAssumption
<1>0. /\ TypeOK /\ Attempt(z)
      /\ pc[t] \in StopSteps
      /\ StopReturn(t) \in IF t \in Servers THEN {"record", "dead"} ELSE {"idle"}
  BY DEF FInv, StopStep, StopCheck, StopShutdown, StopShutdownNull, StopClear,
     StopHalt, StopNotify, Goto, StopReturn, TypeOK
<1>1. CASE StopCheck(t)
  BY <1>0, <1>1 DEF StopCheck, TypeOK, Attempt, NotUp
<1>2. CASE StopShutdown(t)
  BY <1>0, <1>2 DEF StopShutdown, Goto, TypeOK, Attempt, NotUp
<1>3. CASE StopShutdownNull(t)
  BY <1>0, <1>3 DEF StopShutdownNull, Throw, HandlerOf, TypeOK, Attempt, NotUp
<1>4. CASE StopClear(t)
  BY <1>0, <1>4 DEF StopClear, Goto, TypeOK, Attempt, NotUp
<1>5. CASE StopHalt(t)
  BY <1>0, <1>5 DEF StopHalt, Goto, TypeOK, Attempt, NotUp
<1>6. CASE StopNotify(t)
  <2>1. /\ pc'[z] = IF z = t THEN StopReturn(t) ELSE pc[z]
        /\ UNCHANGED <<grizzly, running, exception, thrown>>
    BY <1>0, <1>6 DEF StopNotify, Notify, TypeOK
  <2> QED
    BY <1>0, <2>1 DEF Attempt, NotUp
<1> QED
  BY <1>1, <1>2, <1>3, <1>4, <1>5, <1>6 DEF StopStep

\* A client that starts a server finds it unborn, so it does not start it twice.
LEMMA ClientAttempt ==
  ASSUME FInv, NEW c \in Clients, NEW z \in Servers,
         \/ ClientStep(c) \/ SpuriousWakeup(c)
         \/ \E s \in Servers : \/ BeginStart(c, s, TRUE) \/ BeginStart(c, s, FALSE)
                               \/ BeginStop(c, s)
  PROVE  Attempt(z)'
<1> USE LifecycleAssumption DEF LifecycleAssumption
<1>0. TypeOK /\ Births /\ Attempt(z) /\ c # z
  BY DEF FInv
<1>1. UNCHANGED <<grizzly, running, exception, thrown>>
  BY DEF ClientStep, ScanPort, StartServer, Wait, StartReturns, SpuriousWakeup,
     BeginStart, BeginStop
<1>2. pc'[z] = pc[z] \/ (pc[z] = "unborn" /\ pc'[z] = "create")
  <2>1. CASE StartServer(c)
    <3>1. pc[this[c]] = "unborn" /\ this[c] \in Servers /\ c \notin Servers
      BY <1>0, <2>1 DEF StartServer, Births, TypeOK
    <3> QED
      BY <1>0, <2>1, <3>1 DEF StartServer, TypeOK
  <2> QED
    BY <1>0, <2>1 DEF ClientStep, ScanPort, Wait, StartReturns, SpuriousWakeup,
       BeginStart, BeginStop, Goto, TypeOK
<1> QED
  BY <1>0, <1>1, <1>2 DEF Attempt, NotUp

\* A thread that moves on keeps who knows which server, if it stays born and
\* is not about to give birth.
LEMMA BirthsKept ==
  ASSUME TypeOK, Births, UNCHANGED <<this, held>>,
         \A s \in Servers : pc'[s] = "unborn" <=> pc[s] = "unborn",
         \A c \in Clients : /\ pc'[c] \in {"scan", "start"} => pc[c] \in {"scan", "start"}
                            /\ pc'[c] \notin {"idle", "scan", "start"} =>
                                 pc[c] \notin {"idle", "scan", "start"}
  PROVE  Births'
<1>1. ASSUME NEW c \in Clients, pc'[c] # "idle"
      PROVE  this[c] \in Servers
  <2>1. pc[c] # "idle"
    BY <1>1
  <2> QED
    BY <2>1 DEF TypeOK
<1>2. \A c \in Clients : held[c] \subseteq Servers
  BY DEF TypeOK
<1>3. \A c \in Clients : pc'[c] \in {"scan", "start"} =>
        /\ pc'[this'[c]] = "unborn"
        /\ \A d \in Clients \ {c} : this'[d] # this'[c]
  BY <1>1 DEF Births
<1>4. \A c \in Clients : pc'[c] \notin {"idle", "scan", "start"} =>
        pc'[this'[c]] # "unborn"
  BY <1>1 DEF Births
<1>5. \A c \in Clients : \A s \in held'[c] : pc'[s] # "unborn"
  BY <1>2 DEF Births
<1> QED
  BY <1>3, <1>4, <1>5 DEF Births

\* Every step of a server thread and every step of stop() keeps the births.
LEMMA ThreadBirths ==
  ASSUME FInv, NEW t \in Threads, StopStep(t) \/ (t \in Servers /\ RunStep(t))
  PROVE  Births'
<1> USE LifecycleAssumption DEF LifecycleAssumption
<1>0. TypeOK /\ Births
  BY DEF FInv
<1>1. UNCHANGED <<this, held>>
  BY DEF StopStep, StopCheck, StopShutdown, StopShutdownNull, StopClear, StopHalt,
     StopNotify, RunStep, CreateServer, LoadHttpServer, Listen, Publish,
     InformStarter, LeaveLoop, CatchException, UncaughtException, RecordUncaught
<1>2. StopReturn(t) \in IF t \in Servers THEN {"record", "dead"} ELSE {"idle"}
  BY <1>0 DEF StopReturn, TypeOK
<1>3. CASE StopNotify(t) \/ (t \in Servers /\ InformStarter(t))
  <2>1. PICK after : /\ Notify(after)
                     /\ \E to \in {"loop", StopReturn(t)} :
                          /\ after = [pc EXCEPT ![t] = to]
                          /\ to # "loop" \/ t \in Servers
                     /\ pc[t] \in {"notify", "inform"}
    BY <1>3, <1>2 DEF StopNotify, InformStarter
  <2>2. \A u \in Threads : \/ pc'[u] = pc[u]
                           \/ u = t /\ pc'[u] = after[u]
                           \/ u \in waitSet /\ pc'[u] = "returned"
    BY <1>0, <2>1 DEF Notify, TypeOK
  <2>3. \A u \in Threads : u \in waitSet => u \in Clients /\ pc[u] = "waiting"
    BY <1>0 DEF TypeOK
  <2>4. after[t] \in IF t \in Servers THEN {"loop", "record", "dead"} ELSE {"idle"}
    BY <1>0, <1>2, <2>1 DEF TypeOK
  <2> QED
    BY <1>0, <1>1, <2>1, <2>2, <2>3, <2>4, BirthsKept
<1>4. CASE StopStep(t) /\ ~StopNotify(t)
  <2>1. PICK to : /\ pc' = [pc EXCEPT ![t] = to]
                  /\ to # "unborn"
                  /\ t \in Clients => to \notin {"scan", "start"}
                  /\ pc[t] \in StopSteps
    BY <1>0, <1>2, <1>4 DEF StopStep, StopCheck, StopShutdown, StopShutdownNull,
       StopClear, StopHalt, Goto, Throw, HandlerOf, TypeOK
  <2>2. \A u \in Threads : pc'[u] = IF u = t THEN to ELSE pc[u]
    BY <1>0, <2>1 DEF TypeOK
  <2>3. /\ \A s \in Servers : pc'[s] = "unborn" <=> pc[s] = "unborn"
        /\ \A c \in Clients : /\ pc'[c] \in {"scan", "start"} => pc'[c] = pc[c]
                              /\ pc'[c] = pc[c] \/ pc[c] \in StopSteps
    BY <2>1, <2>2
  <2> QED
    BY <1>0, <1>1, <2>3, BirthsKept
<1>5. CASE t \in Servers /\ RunStep(t) /\ ~InformStarter(t)
  <2>1. \E to : /\ pc' = [pc EXCEPT ![t] = to]
               /\ to # "unborn" /\ pc[t] # "unborn"
    BY <1>0, <1>5 DEF RunStep, CreateServer, LoadHttpServer, Listen, Publish,
       LeaveLoop, CatchException, UncaughtException, RecordUncaught, Goto, Throw,
       HandlerOf, TypeOK
  <2>2. /\ \A s \in Servers : pc'[s] = "unborn" <=> pc[s] = "unborn"
        /\ \A c \in Clients : pc'[c] = pc[c]
    BY <1>0, <1>5, <2>1 DEF TypeOK
  <2> QED
    BY <1>0, <1>1, <2>2, BirthsKept
<1> QED
  BY <1>3, <1>4, <1>5

\* A client claims an unborn server that no client knows, or stops one it holds.
LEMMA ClientBirths ==
  ASSUME FInv, NEW c \in Clients,
         \/ ClientStep(c) \/ SpuriousWakeup(c)
         \/ \E s \in Servers : \/ BeginStart(c, s, TRUE) \/ BeginStart(c, s, FALSE)
                               \/ BeginStop(c, s)
  PROVE  Births'
<1> USE LifecycleAssumption DEF LifecycleAssumption
<1>0. TypeOK /\ Births /\ c \notin Servers
  BY DEF FInv
<1>1. CASE ScanPort(c)
  BY <1>0, <1>1 DEF ScanPort, Goto, TypeOK, Births
<1>2. CASE StartServer(c)
  <2>1. /\ this[c] \in Servers /\ pc[this[c]] = "unborn"
        /\ \A d \in Clients \ {c} : this[d] # this[c]
        /\ UNCHANGED <<this, held>>
    BY <1>0, <1>2 DEF StartServer, TypeOK, Births
  <2>2. /\ \A s \in Servers : pc'[s] = IF s = this[c] THEN "create" ELSE pc[s]
        /\ \A d \in Clients : pc'[d] = IF d = c THEN "wait" ELSE pc[d]
    BY <1>0, <1>2, <2>1 DEF StartServer, TypeOK
  <2>3. \A d \in Clients : pc[d] # "idle" => this[d] \in Servers
    BY <1>0 DEF TypeOK
  <2>4. \A d \in Clients : held[d] \subseteq Servers
    BY <1>0 DEF TypeOK
  <2> QED
    BY <1>0, <2>1, <2>2, <2>3, <2>4 DEF Births
<1>3. CASE Wait(c)
  BY <1>0, <1>3 DEF Wait, Goto, TypeOK, Births
<1>4. CASE StartReturns(c)
  BY <1>0, <1>4 DEF StartReturns, Goto, TypeOK, Births
<1>5. CASE SpuriousWakeup(c)
  BY <1>0, <1>5 DEF SpuriousWakeup, Goto, TypeOK, Births
<1>6. ASSUME NEW s \in Servers, NEW scan \in BOOLEAN, BeginStart(c, s, scan)
      PROVE  Births'
  BY <1>0, <1>6 DEF BeginStart, Goto, TypeOK, Births
<1>7. ASSUME NEW s \in Servers, BeginStop(c, s)
      PROVE  Births'
  BY <1>0, <1>7 DEF BeginStop, Goto, TypeOK, Births
<1> QED
  BY <1>1, <1>2, <1>3, <1>4, <1>5, <1>6, <1>7 DEF ClientStep

\* What a failed start rests on holds initially and is kept by every step.
LEMMA FailureInductive == (Init => FInv) /\ (FInv /\ [Next]_vars => FInv')
<1>1. Init => FInv
  BY InitTyped, LifecycleAssumption
     DEF LifecycleAssumption, FInv, Init, Births, Attempt, NotUp
<1>2. ASSUME FInv, [Next]_vars PROVE TypeOK'
  <2>1. CASE UNCHANGED vars
    BY <1>2, <2>1 DEF vars, FInv, TypeOK
  <2> QED
    BY <1>2, <2>1, RunStepTyped, StopStepTyped, ClientTyped DEF Next, FInv
<1>3. ASSUME FInv, [Next]_vars PROVE Births'
  <2>1. CASE UNCHANGED vars
    BY <1>3, <2>1 DEF vars, FInv, Births
  <2> QED
    BY <1>3, <2>1, ThreadBirths, ClientBirths DEF Next
<1>4. ASSUME FInv, [Next]_vars, NEW z \in Servers PROVE Attempt(z)'
  <2>1. CASE UNCHANGED vars
    BY <1>4, <2>1 DEF vars, FInv, Attempt, NotUp
  <2> QED
    BY <1>4, <2>1, RunStepAttempt, StopStepAttempt, ClientAttempt DEF Next
<1> QED
  BY <1>1, <1>2, <1>3, <1>4 DEF FInv

\* A start that failed never makes its server look or be up, for any servers,
\* clients, timeouts, faults and wake-ups.
THEOREM FailureIsFinal == Spec => []FailedStartNeverRuns
<1>1. FInv => FailedStartNeverRuns
  BY DEF FInv, Attempt, NotUp, FailedStartNeverRuns
<1> QED
  BY FailureInductive, <1>1, PTL DEF Spec

-----------------------------------------------------------------------------
(* One server and one client.                                              *)

Alone == /\ \E s \in Servers, c \in Clients : Servers = {s} /\ Clients = {c}
         /\ Spurious = FALSE

\* The client is waiting until the server is past the point where it may still
\* come up, and a listening server is one that a stop() will still shut down.
Watched(c, s) ==
  /\ pc[s] = "unborn" => pc[c] \in {"idle", "scan", "start"} /\ s \notin held[c]
  /\ pc[s] \in {"create", "load", "listen", "publish", "inform"} =>
       pc[c] \in {"wait", "waiting"} /\ s \notin held[c]
  /\ pc[s] # "unborn" => this[c] = s /\ pc[c] \notin {"scan", "start"}
  /\ pc[s] \in {"unborn", "create", "load", "listen"} => grizzly[s] # "listening"
  /\ pc[s] \in {"listen", "publish"} \/ grizzly[s] = "listening" => httpServer[s] = "ref"
  /\ pc[s] \in {"catch", "uncaught", "clear", "halt", "notify", "record", "dead"} =>
       grizzly[s] # "listening"
  /\ pc[c] \in {"clear", "halt", "notify"} => grizzly[s] # "listening"
  /\ pc[s] # "unborn" /\ s \notin held[c] /\ pc[c] = "idle" => grizzly[s] # "listening"
  /\ s \in held[c] => pc[c] = "idle"

AInv == TypeOK /\ \A c \in Clients, s \in Servers : Watched(c, s)

\* A step of the server thread keeps the watch.
LEMMA RunStepWatched ==
  ASSUME Alone, AInv, NEW c \in Clients, NEW s \in Servers, RunStep(s)
  PROVE  Watched(c, s)'
<1> USE LifecycleAssumption DEF LifecycleAssumption
<1>0. /\ TypeOK /\ Watched(c, s) /\ c # s
      /\ \A z \in Servers : z = s
      /\ \A d \in Clients : d = c
  BY DEF AInv, Alone
<1>1. CASE CreateServer(s)
  BY <1>0, <1>1 DEF CreateServer, Goto, Throw, HandlerOf, TypeOK, Watched
<1>2. CASE LoadHttpServer(s)
  BY <1>0, <1>2 DEF LoadHttpServer, Goto, Throw, HandlerOf, TypeOK, Watched
<1>3. CASE Listen(s)
  BY <1>0, <1>3 DEF Listen, Goto, Throw, HandlerOf, TypeOK, Watched
<1>4. CASE Publish(s)
  BY <1>0, <1>4 DEF Publish, Goto, TypeOK, Watched
<1>5. CASE InformStarter(s)
  <2>1. /\ pc[s] = "inform" /\ pc'[s] = "loop"
        /\ pc'[c] \in {pc[c], "returned"}
        /\ UNCHANGED <<this, held, grizzly, httpServer>>
    BY <1>0, <1>5 DEF InformStarter, Notify, TypeOK
  <2> QED
    BY <1>0, <2>1 DEF Watched
<1>6. CASE LeaveLoop(s)
  BY <1>0, <1>6 DEF LeaveLoop, Goto, TypeOK, Watched
<1>7. CASE CatchException(s)
  BY <1>0, <1>7 DEF CatchException, Goto, TypeOK, Watched
<1>8. CASE UncaughtException(s)
  BY <1>0, <1>8 DEF UncaughtException, Goto, TypeOK, Watched
<1>9. CASE RecordUncaught(s)
  BY <1>0, <1>9 DEF RecordUncaught, Goto, TypeOK, Watched
<1> QED
  BY <1>1, <1>2, <1>3, <1>4, <1>5, <1>6, <1>7, <1>8, <1>9 DEF RunStep

\* A stop() by either thread, also two at once, keeps the watch.
LEMMA StopStepWatched ==
  ASSUME Alone, AInv, NEW c \in Clients, NEW s \in Servers,
         NEW t \in Threads, StopStep(t)
  PROVE  Watched(c, s)'
<1> USE LifecycleAssumption DEF LifecycleAssumption
<1>0. /\ TypeOK /\ Watched(c, s) /\ c # s
      /\ t = s \/ t = c
      /\ waitSet \subseteq {c}
  BY DEF AInv, Alone, TypeOK
<1>1. /\ this[t] = s /\ pc[t] \in StopSteps
      /\ StopReturn(t) \in IF t = s THEN {"record", "dead"} ELSE {"idle"}
  <2>1. pc[t] \in StopSteps
    BY DEF StopStep, StopCheck, StopShutdown, StopShutdownNull, StopClear,
       StopHalt, StopNotify, Goto
  <2>2. this[t] = s
    BY <1>0, <2>1 DEF Alone, TypeOK
  <2> QED
    BY <1>0, <2>1, <2>2 DEF StopReturn, TypeOK
<1>2. pc[s] \notin {"unborn", "create", "load", "listen", "publish", "inform"}
  BY <1>0, <1>1 DEF Watched
<1>3. CASE StopCheck(t)
  BY <1>0, <1>1, <1>2, <1>3 DEF StopCheck, TypeOK, Watched
<1>4. CASE StopShutdown(t)
  BY <1>0, <1>1, <1>2, <1>4 DEF StopShutdown, Goto, TypeOK, Watched
<1>5. CASE StopShutdownNull(t)
  BY <1>0, <1>1, <1>2, <1>5 DEF StopShutdownNull, Throw, HandlerOf, TypeOK, Watched
<1>6. CASE StopClear(t)
  BY <1>0, <1>1, <1>2, <1>6 DEF StopClear, Goto, TypeOK, Watched
<1>7. CASE StopHalt(t)
  BY <1>0, <1>1, <1>2, <1>7 DEF StopHalt, Goto, TypeOK, Watched
<1>8. CASE StopNotify(t)
  <2>1. /\ pc[t] = "notify"
        /\ pc'[s] = IF t = s THEN StopReturn(t) ELSE pc[s]
        /\ \/ pc'[c] = IF t = c THEN StopReturn(t) ELSE pc[c]
           \/ pc[c] = "waiting" /\ pc'[c] = "returned"
        /\ UNCHANGED <<this, held, grizzly, httpServer>>
    BY <1>0, <1>8 DEF StopNotify, Notify, TypeOK
  <2> QED
    BY <1>0, <1>1, <1>2, <2>1 DEF Watched
<1> QED
  BY <1>3, <1>4, <1>5, <1>6, <1>7, <1>8 DEF StopStep

\* A step of the client outside stop() keeps the watch.
LEMMA ClientWatched ==
  ASSUME Alone, AInv, NEW c \in Clients, NEW s \in Servers,
         \/ ClientStep(c)
         \/ \E z \in Servers : \/ BeginStart(c, z, TRUE) \/ BeginStart(c, z, FALSE)
                               \/ BeginStop(c, z)
  PROVE  Watched(c, s)'
<1> USE LifecycleAssumption DEF LifecycleAssumption
<1>0. /\ TypeOK /\ Watched(c, s) /\ c # s
      /\ \A z \in Servers : z = s
      /\ pc[c] # "idle" => this[c] = s
  BY DEF AInv, Alone, TypeOK
<1>1. CASE ScanPort(c)
  BY <1>0, <1>1 DEF ScanPort, Goto, TypeOK, Watched
<1>2. CASE StartServer(c)
  BY <1>0, <1>2 DEF StartServer, TypeOK, Watched
<1>3. CASE Wait(c)
  BY <1>0, <1>3 DEF Wait, Goto, TypeOK, Watched
<1>4. CASE StartReturns(c)
  BY <1>0, <1>4 DEF StartReturns, Goto, TypeOK, Watched
<1>5. CASE \E z \in Servers : BeginStart(c, z, TRUE) \/ BeginStart(c, z, FALSE)
  BY <1>0, <1>5 DEF BeginStart, Goto, TypeOK, Watched
<1>6. CASE \E z \in Servers : BeginStop(c, z)
  BY <1>0, <1>6 DEF BeginStop, Goto, TypeOK, Watched
<1> QED
  BY <1>1, <1>2, <1>3, <1>4, <1>5, <1>6 DEF ClientStep

\* The watch over the one server holds initially and is kept by every step.
LEMMA AloneInductive ==
  ASSUME Alone
  PROVE  (Init => AInv) /\ (AInv /\ [Next]_vars => AInv')
<1>1. Init => AInv
  BY InitTyped, LifecycleAssumption DEF LifecycleAssumption, AInv, Init, Watched
<1>2. ASSUME AInv, [Next]_vars PROVE TypeOK'
  <2>1. CASE UNCHANGED vars
    BY <1>2, <2>1 DEF vars, AInv, TypeOK
  <2> QED
    BY <1>2, <2>1, RunStepTyped, StopStepTyped, ClientTyped DEF Next, AInv
<1>3. ASSUME AInv, [Next]_vars, NEW c \in Clients, NEW s \in Servers
      PROVE  Watched(c, s)'
  <2>1. CASE UNCHANGED vars
    BY <1>3, <2>1 DEF vars, AInv, Watched
  <2>2. (\A z \in Servers : z = s) /\ (\A d \in Clients : d = c)
    BY DEF Alone
  <2>3. ~SpuriousWakeup(c)
    BY DEF SpuriousWakeup, Alone
  <2> QED
    BY <1>3, <2>1, <2>2, <2>3, RunStepWatched, StopStepWatched, ClientWatched DEF Next
<1> QED
  BY <1>1, <1>2, <1>3 DEF AInv

\* With one server and one client, a server that its client has stopped does not
\* listen, also when its timeout stops it at the same time and when its start
\* failed in any way.
THEOREM StopIsSilent == Alone => (Spec => []StoppedIsSilent)
<1> SUFFICES ASSUME Alone PROVE Spec => []StoppedIsSilent
  OBVIOUS
<1>1. AInv => StoppedIsSilent
  BY DEF AInv, TypeOK, Watched, StoppedIsSilent, Alone
<1> QED
  BY AloneInductive, <1>1, PTL DEF Spec

\* With one server and one client, the server thread does not end and leave its
\* port bound, whichever of the two stops it.
THEOREM PortIsReleasedAlone == Alone => (Spec => []NoOrphanListener)
<1> SUFFICES ASSUME Alone PROVE Spec => []NoOrphanListener
  OBVIOUS
<1>1. AInv => NoOrphanListener
  BY DEF AInv, Watched, NoOrphanListener, Alone
<1> QED
  BY AloneInductive, <1>1, PTL DEF Spec
=============================================================================
