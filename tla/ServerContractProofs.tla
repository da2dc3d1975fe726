-------------------------- MODULE ServerContractProofs --------------------------
(***************************************************************************)
(* ServerLifecycle implements StartContract, and a recorded exception is   *)
(* final, under the discipline of ServerLifecycleProofs and from its       *)
(* inductive invariant.  A step of a thread moves the phase and the caller *)
(* of at most one server; the lemmas say which transition of the contract  *)
(* that is.                                                                *)
(***************************************************************************)
EXTENDS ServerLifecycleProofs

USE DEF Threads, Ports, Faults, StopSteps, ServerPc, ClientPc

\* What a step does to one server, seen through the mapping.
Same(s) == PhaseOf(s)' = PhaseOf(s) /\ CallerOf(s)' = CallerOf(s)

Moved(s) ==
  \/ /\ PhaseOf(s) = "new" /\ PhaseOf(s)' = "starting"
     /\ CallerOf(s) = "out" /\ CallerOf(s)' = "calling"
  \/ /\ PhaseOf(s) = "starting" /\ PhaseOf(s)' \in {"up", "failed"}
     /\ CallerOf(s)' = CallerOf(s)
  \/ /\ PhaseOf(s) \in {"up", "failed"} /\ PhaseOf(s)' = PhaseOf(s)
     /\ CallerOf(s) = "calling" /\ CallerOf(s)' = "holding"
  \/ /\ PhaseOf(s)' = PhaseOf(s)
     /\ CallerOf(s) = "holding" /\ CallerOf(s)' = "stopping"
  \/ /\ PhaseOf(s) = "up" /\ PhaseOf(s)' = "down"
     /\ CallerOf(s) = "stopping" /\ CallerOf(s)' = "stopping"
  \/ /\ PhaseOf(s) \in {"down", "failed"} /\ PhaseOf(s)' = PhaseOf(s)
     /\ CallerOf(s) = "stopping" /\ CallerOf(s)' = "done"

\* What the one client c does with server s.
CallerBy(c, s) ==
  IF pc[s] = "unborn" THEN "out"
  ELSE IF s \in held[c] THEN "holding"
  ELSE IF this[c] = s /\ pc[c] \in {"wait", "waiting", "returned"} THEN "calling"
  ELSE IF this[c] = s /\ pc[c] \in StopSteps THEN "stopping"
  ELSE "done"

\* With one client the caller of a server is that client.
LEMMA OneCaller ==
  ASSUME Discipline, NEW c \in Clients, NEW s \in Servers
  PROVE  CallerOf(s) = CallerBy(c, s) /\ CallerOf(s)' = CallerBy(c, s)'
<1>1. Clients = {c}
  BY DEF Discipline
<1> QED
  BY <1>1 DEF CallerOf, CallerBy

\* A step that moves one server by the contract and no other is a step of it.
LEMMA ContractStep ==
  ASSUME NEW s \in Servers, Same(s) \/ Moved(s),
         \A z \in Servers \ {s} : Same(z)
  PROVE  [Contract!Next]_(Contract!contractVars)
<1> DEFINE phase == [z \in Servers |-> PhaseOf(z)]
           caller == [z \in Servers |-> CallerOf(z)]
<1>1. /\ phase' = [phase EXCEPT ![s] = PhaseOf(s)']
      /\ caller' = [caller EXCEPT ![s] = CallerOf(s)']
  BY DEF Same
<1>2. phase[s] = PhaseOf(s) /\ caller[s] = CallerOf(s)
  OBVIOUS
<1>3. /\ PhaseOf(s)' = PhaseOf(s) => phase' = phase
      /\ CallerOf(s)' = CallerOf(s) => caller' = caller
  BY <1>1
<1> HIDE DEF phase, caller
<1>4. CASE Same(s)
  BY <1>3, <1>4 DEF Same, Contract!contractVars, phase, caller
<1>5. CASE Moved(s)
  <2>1. Contract!Call(s) \/ Contract!ComeUp(s) \/ Contract!Fail(s) \/ Contract!Return(s)
        \/ Contract!Stop(s) \/ Contract!GoDown(s) \/ Contract!Stopped(s)
    BY <1>1, <1>2, <1>3, <1>5 DEF Moved, Contract!Call, Contract!ComeUp,
       Contract!Fail, Contract!Return, Contract!Stop, Contract!GoDown,
       Contract!Stopped, Contract!Phase, Contract!Caller, phase, caller
  <2> QED
    BY <2>1 DEF Contract!Next
<1> QED
  BY <1>4, <1>5

\* A step that leaves the fields of a server and its caller alone.
LEMMA SameView ==
  ASSUME Discipline, NEW c \in Clients, NEW z \in Servers,
         pc'[z] = pc[z], running'[z] = running[z], exception'[z] = exception[z],
         z \in held'[c] <=> z \in held[c],
         \/ pc'[c] = pc[c] /\ this'[c] = this[c]
         \/ ~Busy(c, z) /\ ~Busy(c, z)'
  PROVE  Same(z)
<1>1. PhaseOf(z)' = PhaseOf(z)
  BY DEF PhaseOf
<1>2. CallerBy(c, z)' = CallerBy(c, z)
  BY DEF CallerBy, Busy
<1> QED
  BY <1>1, <1>2, OneCaller DEF Same

\* A step of a server whose client goes on waiting for it.
LEMMA StillCalling ==
  ASSUME Discipline, NEW c \in Clients, NEW s \in Servers,
         pc[s] # "unborn", pc'[s] # "unborn",
         this[c] = s, pc[c] \in {"wait", "waiting", "returned"}, s \notin held[c],
         this'[c] = s, pc'[c] \in {"wait", "waiting", "returned"}, s \notin held'[c]
  PROVE  CallerOf(s) = "calling" /\ CallerOf(s)' = "calling"
BY OneCaller DEF CallerBy

\* A server thread outside stop() comes up, fails, or shows its caller nothing.
LEMMA RunStepContract ==
  ASSUME Discipline, IInv, NEW s \in Servers, RunStep(s)
  PROVE  (Same(s) \/ Moved(s)) /\ \A z \in Servers \ {s} : Same(z)
<1> USE LifecycleAssumption DEF LifecycleAssumption
<1>1. PICK c \in Clients : Clients = {c}
  BY DEF Discipline
<1>2. TypeOK /\ Situation(c, s) /\ c # s
  BY DEF IInv
<1>3. CASE LeaveLoop(s)
  <2>1. /\ pc[s] = "loop" /\ pc'[s] = "check" /\ running[s] = FALSE
        /\ pc'[c] = pc[c] /\ \A z \in Servers \ {s} : pc'[z] = pc[z]
        /\ UNCHANGED <<this, held, running, exception>>
    BY <1>2, <1>3 DEF LeaveLoop, Goto, TypeOK, Discipline
  <2>2. exception[s] = "none"
    <3>1. pc[c] \in ClientPc
      BY <1>2 DEF TypeOK
    <3>2. Gone(s)
      BY <1>2, <2>1, <3>1 DEF Situation, Busy, Launching, Failing, Failed, Live,
         Closing, Cleared, Fields
    <3> QED
      BY <3>2 DEF Gone, OwnPath
  <2>3. Same(s)
    <3>1. PhaseOf(s)' = PhaseOf(s)
      BY <2>1, <2>2 DEF PhaseOf
    <3>2. CallerBy(c, s)' = CallerBy(c, s)
      BY <2>1 DEF CallerBy
    <3> QED
      BY <3>1, <3>2, OneCaller DEF Same
  <2>4. \A z \in Servers \ {s} : Same(z)
    BY <2>1, SameView
  <2> QED
    BY <2>3, <2>4
<1>4. CASE ~LeaveLoop(s)
  <2>1. ~UncaughtException(s) /\ ~RecordUncaught(s)
    BY <1>2 DEF UncaughtException, RecordUncaught, Goto, TypeOK, Situation, Busy,
       Launching, Failing, Failed, Live, Closing, Cleared, Gone
  <2>2. pc[s] \in {"create", "load", "listen", "publish", "inform", "catch"}
    BY <1>4, <2>1 DEF RunStep, CreateServer, LoadHttpServer, Listen, Publish,
       InformStarter, CatchException, Goto
  <2>3. /\ this[c] = s /\ pc[c] \in {"wait", "waiting"} /\ s \notin held[c]
        /\ Launching(s)
    BY <2>2, StarterWaits DEF Failing
  <2>4. /\ pc'[c] \in {"wait", "waiting", "returned"} /\ pc'[s] # "unborn"
        /\ \A z \in Servers \ {s} : pc'[z] = pc[z]
        /\ UNCHANGED <<this, held>>
    <3>1. CASE InformStarter(s)
      <4>1. waitSet \subseteq {c}
        BY <1>1, <1>2 DEF TypeOK
      <4> QED
        BY <1>2, <2>3, <3>1, <4>1 DEF InformStarter, Notify, TypeOK
    <3>2. CASE CreateServer(s)
      BY <1>2, <2>3, <3>2 DEF CreateServer, Goto, Throw, HandlerOf, TypeOK
    <3>3. CASE LoadHttpServer(s)
      BY <1>2, <2>3, <3>3 DEF LoadHttpServer, Goto, Throw, HandlerOf, TypeOK
    <3>4. CASE Listen(s)
      BY <1>2, <2>3, <3>4 DEF Listen, Goto, Throw, HandlerOf, TypeOK
    <3>5. CASE Publish(s)
      BY <1>2, <2>3, <3>5 DEF Publish, Goto, TypeOK
    <3>6. CASE CatchException(s)
      BY <1>2, <2>3, <3>6 DEF CatchException, Goto, TypeOK
    <3> QED
      BY <1>4, <2>1, <3>1, <3>2, <3>3, <3>4, <3>5, <3>6 DEF RunStep
  <2>5. CallerOf(s) = "calling" /\ CallerOf(s)' = "calling"
    BY <2>2, <2>3, <2>4, StillCalling
  <2>6. \/ PhaseOf(s)' = PhaseOf(s)
        \/ PhaseOf(s) = "starting" /\ PhaseOf(s)' \in {"up", "failed"}
    <3>1. CASE CreateServer(s)
      BY <1>2, <2>3, <3>1 DEF CreateServer, Goto, Throw, HandlerOf, TypeOK,
         Launching, OwnPath, Fields, PhaseOf
    <3>2. CASE LoadHttpServer(s)
      BY <1>2, <2>3, <3>2 DEF LoadHttpServer, Goto, Throw, HandlerOf, TypeOK,
         Launching, OwnPath, Fields, PhaseOf
    <3>3. CASE Listen(s)
      BY <1>2, <2>3, <3>3 DEF Listen, Goto, Throw, HandlerOf, Discipline, TypeOK,
         Launching, OwnPath, Fields, PhaseOf
    <3>4. CASE Publish(s)
      BY <1>2, <2>3, <3>4 DEF Publish, Goto, TypeOK, Launching, OwnPath, Fields,
         PhaseOf
    <3>5. CASE InformStarter(s)
      BY <2>2, <2>3, <2>4, <3>5 DEF InformStarter, Launching, OwnPath, Fields,
         PhaseOf
    <3>6. CASE CatchException(s)
      BY <1>2, <2>3, <3>6 DEF CatchException, Goto, TypeOK, Launching, OwnPath,
         Fields, PhaseOf
    <3> QED
      BY <1>4, <2>1, <3>1, <3>2, <3>3, <3>4, <3>5, <3>6 DEF RunStep
  <2>7. ASSUME NEW z \in Servers \ {s} PROVE Same(z)
    <3>1. running'[z] = running[z] /\ exception'[z] = exception[z]
      BY <1>2, <1>4, <2>1 DEF RunStep, CreateServer, LoadHttpServer, Listen,
         Publish, InformStarter, CatchException, TypeOK
    <3>2. ~Busy(c, z) /\ ~Busy(c, z)'
      BY <2>3, <2>4 DEF Busy
    <3> QED
      BY <2>4, <3>1, <3>2, SameView
  <2> QED
    BY <2>5, <2>6, <2>7 DEF Same, Moved
<1> QED
  BY <1>3, <1>4

\* A server thread's own stop() shows its caller nothing.
LEMMA ServerStopContract ==
  ASSUME Discipline, IInv, NEW s \in Servers, StopStep(s)
  PROVE  \A z \in Servers : Same(z)
<1> USE LifecycleAssumption DEF LifecycleAssumption
<1>1. PICK c \in Clients : Clients = {c}
  BY DEF Discipline
<1>2. /\ TypeOK /\ Situation(c, s) /\ c # s
      /\ this[s] = s /\ pc[s] \in StopSteps
  BY DEF IInv, TypeOK, StopStep, StopCheck, StopShutdown, StopShutdownNull,
     StopClear, StopHalt, StopNotify, Goto
<1>3. CASE Gone(s)
  <2>1. /\ pc[s] = "check" /\ httpServer[s] = "null" /\ frame[s] = "main"
        /\ StopCheck(s)
    BY <1>2, <1>3 DEF Gone, OwnPath, Fields, StopStep, StopShutdown, StopClear,
       StopHalt, StopNotify, StopShutdownNull, Goto
  <2>2. /\ pc' = [pc EXCEPT ![s] = "dead"]
        /\ UNCHANGED <<this, held, running, exception>>
    BY <1>2, <2>1 DEF StopCheck, StopReturn
  <2>3. /\ pc'[c] = pc[c] /\ pc'[s] = "dead"
        /\ \A z \in Servers \ {s} : pc'[z] = pc[z]
    BY <1>2, <2>2 DEF TypeOK
  <2>4. Same(s)
    <3>1. PhaseOf(s)' = PhaseOf(s)
      BY <1>3, <2>1, <2>2, <2>3 DEF PhaseOf, Gone, OwnPath, Fields
    <3>2. CallerBy(c, s)' = CallerBy(c, s)
      BY <2>1, <2>2, <2>3 DEF CallerBy
    <3> QED
      BY <3>1, <3>2, OneCaller DEF Same
  <2>5. \A z \in Servers \ {s} : Same(z)
    BY <2>2, <2>3, SameView
  <2> QED
    BY <2>4, <2>5
<1>4. CASE ~Gone(s)
  <2>1. /\ this[c] = s /\ pc[c] \in {"wait", "waiting"} /\ s \notin held[c]
        /\ Failing(s)
    BY <1>2, <1>4, StarterWaits DEF Launching
  <2>2. ~StopShutdownNull(s)
    BY <1>2, <2>1 DEF StopShutdownNull, Failing
  <2>3. /\ pc'[c] \in {"wait", "waiting", "returned"} /\ pc'[s] # "unborn"
        /\ \A z \in Servers \ {s} : pc'[z] = pc[z]
        /\ UNCHANGED <<this, held, exception>>
    <3>1. CASE StopNotify(s)
      <4>1. waitSet \subseteq {c}
        BY <1>1, <1>2 DEF TypeOK
      <4> QED
        BY <1>2, <2>1, <3>1, <4>1 DEF StopNotify, StopReturn, Notify, TypeOK,
           Failing, Broken
    <3>2. CASE StopCheck(s) \/ StopShutdown(s) \/ StopClear(s) \/ StopHalt(s)
      BY <1>2, <2>1, <3>2 DEF StopCheck, StopReturn, StopShutdown, StopClear,
         StopHalt, Goto, TypeOK
    <3> QED
      BY <2>2, <3>1, <3>2 DEF StopStep
  <2>4. running' = running
    <3>1. CASE StopHalt(s)
      BY <1>2, <2>1, <3>1 DEF StopHalt, TypeOK, Failing, Broken
    <3> QED
      BY <2>2, <3>1 DEF StopStep, StopNotify, StopCheck, StopShutdown, StopClear
  <2>5. CallerOf(s) = "calling" /\ CallerOf(s)' = "calling"
    BY <1>2, <2>1, <2>3, StillCalling
  <2>6. PhaseOf(s) = "failed" /\ PhaseOf(s)' = "failed"
    BY <2>1, <2>3, <2>4 DEF PhaseOf, Failing, Broken
  <2>7. ASSUME NEW z \in Servers \ {s} PROVE Same(z)
    <3>1. ~Busy(c, z) /\ ~Busy(c, z)'
      BY <2>1, <2>3 DEF Busy
    <3> QED
      BY <2>3, <2>4, <3>1, SameView
  <2> QED
    BY <2>5, <2>6, <2>7 DEF Same
<1> QED
  BY <1>3, <1>4

\* A client's stop() takes its server down and then lets it go.
LEMMA ClientStopContract ==
  ASSUME Discipline, IInv, NEW c \in Clients, StopStep(c)
  PROVE  \E s \in Servers : (Same(s) \/ Moved(s)) /\ \A z \in Servers \ {s} : Same(z)
<1> USE LifecycleAssumption DEF LifecycleAssumption
<1>1. /\ TypeOK /\ pc[c] \in StopSteps /\ frame[c] = "client" /\ c \notin Servers
  BY DEF IInv, TypeOK, StopStep, StopCheck, StopShutdown, StopShutdownNull,
     StopClear, StopHalt, StopNotify, Goto
<1>2. PICK s \in Servers : /\ this[c] = s /\ Situation(c, s) /\ Busy(c, s)
                           /\ s \notin held[c] /\ c # s
  BY <1>1 DEF IInv, TypeOK, Situation, Busy
<1>3. waitSet = {} /\ this[c] = s
  BY <1>1, <1>2 DEF TypeOK, Discipline
<1>4. ~StopShutdownNull(c)
  BY <1>1, <1>2, <1>3 DEF StopShutdownNull, Situation, Busy, Live, Fields
<1>5. /\ UNCHANGED <<this, held, exception>>
      /\ \A z \in Servers : pc'[z] = pc[z]
      /\ \A z \in Servers \ {s} : running'[z] = running[z]
  BY <1>1, <1>2, <1>3, <1>4 DEF StopStep, StopCheck, StopShutdown, StopClear,
     StopHalt, StopNotify, StopReturn, Notify, Goto, TypeOK
<1>6. ASSUME NEW z \in Servers \ {s} PROVE Same(z)
  <2>1. ~Busy(c, z) /\ ~Busy(c, z)'
    BY <1>3, <1>5 DEF Busy
  <2> QED
    BY <1>5, <2>1, SameView
<1>7. pc[s] # "unborn" /\ CallerBy(c, s) = "stopping"
  <2>1. pc[s] # "unborn"
    BY <1>1, <1>2 DEF Situation
  <2> QED
    BY <1>1, <1>2, <1>3, <2>1 DEF CallerBy
<1>8. CallerBy(c, s)' = IF pc'[c] \in StopSteps THEN "stopping"
                        ELSE IF pc'[c] \in {"wait", "waiting", "returned"}
                             THEN "calling" ELSE "done"
  BY <1>2, <1>3, <1>5, <1>7 DEF CallerBy
<1>9. Same(s) \/ Moved(s)
  <2>1. CASE StopCheck(c)
    <3>1. (Live(s) \/ Failed(s)) /\ running' = running
      BY <1>1, <1>2, <2>1 DEF StopCheck, Situation, Busy
    <3>2. pc'[c] = IF httpServer[s] = "ref" THEN "shutdown" ELSE "idle"
      <4>1. StopReturn(c) = "idle"
        BY <1>1 DEF StopReturn
      <4> QED
        BY <1>1, <1>3, <2>1, <4>1 DEF StopCheck, TypeOK
    <3>3. PhaseOf(s)' = PhaseOf(s)
      BY <1>2, <1>5, <3>1 DEF PhaseOf
    <3>4. CASE Live(s)
      BY <1>2, <1>7, <1>8, <3>2, <3>3, <3>4, OneCaller DEF Live, Fields, Same
    <3>5. CASE Failed(s)
      <4>1. PhaseOf(s) = "failed"
        BY <3>5 DEF Failed, Broken, PhaseOf
      <4>2. CallerBy(c, s)' = "done"
        BY <1>8, <3>2, <3>5 DEF Failed
      <4> QED
        BY <1>2, <1>7, <3>3, <4>1, <4>2, OneCaller DEF Moved
    <3> QED
      BY <3>1, <3>4, <3>5
  <2>2. CASE StopShutdown(c) \/ StopClear(c)
    <3>1. /\ pc'[c] \in {"clear", "halt"} /\ running' = running
      BY <1>1, <2>2 DEF StopShutdown, StopClear, Goto, TypeOK
    <3>2. PhaseOf(s)' = PhaseOf(s)
      BY <1>2, <1>5, <3>1 DEF PhaseOf
    <3>3. CallerBy(c, s)' = "stopping"
      BY <1>8, <3>1
    <3> QED
      BY <1>2, <1>7, <3>2, <3>3, OneCaller DEF Same
  <2>3. CASE StopHalt(c)
    <3>1. Cleared(s) /\ pc'[c] = "notify" /\ running'[s] = FALSE
      BY <1>1, <1>2, <1>3, <2>3 DEF StopHalt, Goto, Situation, Busy, TypeOK
    <3>2. PhaseOf(s) = "up" /\ PhaseOf(s)' = "down"
      BY <1>2, <1>5, <3>1 DEF PhaseOf, Cleared, OwnPath, Fields
    <3>3. CallerBy(c, s)' = "stopping"
      BY <1>8, <3>1
    <3> QED
      BY <1>2, <1>7, <3>2, <3>3, OneCaller DEF Moved
  <2>4. CASE StopNotify(c)
    <3>1. Gone(s) /\ pc'[c] = "idle" /\ running' = running
      BY <1>1, <1>2, <1>3, <2>4 DEF StopNotify, StopReturn, Notify, Situation,
         Busy, TypeOK
    <3>2. PhaseOf(s) = "down" /\ PhaseOf(s)' = "down"
      BY <1>2, <1>5, <3>1 DEF PhaseOf, Gone, OwnPath, Fields
    <3>3. CallerBy(c, s)' = "done"
      BY <1>8, <3>1
    <3> QED
      BY <1>2, <1>7, <3>2, <3>3, OneCaller DEF Moved
  <2> QED
    BY <1>4, <2>1, <2>2, <2>3, <2>4 DEF StopStep
<1> QED
  BY <1>2, <1>6, <1>9

\* A client outside stop() calls, returns with a settled server, or begins to
\* stop one.
LEMMA ClientContract ==
  ASSUME Discipline, IInv, NEW c \in Clients,
         \/ ClientStep(c)
         \/ \E s \in Servers : \/ BeginStart(c, s, TRUE) \/ BeginStart(c, s, FALSE)
                               \/ BeginStop(c, s)
  PROVE  \/ \A z \in Servers : Same(z)
         \/ \E s \in Servers : Moved(s) /\ \A z \in Servers \ {s} : Same(z)
<1> USE LifecycleAssumption DEF LifecycleAssumption
<1>1. TypeOK /\ c \notin Servers
  BY DEF IInv
<1>2. \A z \in Servers : Situation(c, z)
  BY DEF IInv
<1>3. CASE ScanPort(c) \/ Wait(c)
  <2>1. /\ UNCHANGED <<this, held, running, exception>>
        /\ \A z \in Servers : pc'[z] = pc[z]
        /\ \/ pc[c] = "scan" /\ pc'[c] \in {"scan", "start"}
           \/ pc[c] = "wait" /\ pc'[c] = "waiting"
    BY <1>1, <1>3 DEF ScanPort, Wait, Goto, TypeOK
  <2>2. ASSUME NEW z \in Servers PROVE Same(z)
    <3>1. PhaseOf(z)' = PhaseOf(z)
      BY <2>1 DEF PhaseOf
    <3>2. CallerBy(c, z)' = CallerBy(c, z)
      BY <2>1 DEF CallerBy
    <3> QED
      BY <3>1, <3>2, OneCaller DEF Same
  <2> QED
    BY <2>2
<1>4. CASE StartServer(c)
  <2>1. PICK s \in Servers : this[c] = s /\ Fresh(s) /\ s \notin held[c]
    BY <1>1, <1>2, <1>4 DEF StartServer, TypeOK, Situation, Busy
  <2>2. /\ pc'[c] = "wait" /\ pc'[s] = "create"
        /\ \A z \in Servers \ {s} : pc'[z] = pc[z]
        /\ UNCHANGED <<this, held, running, exception>>
    BY <1>1, <1>4, <2>1 DEF StartServer, TypeOK
  <2>3. PhaseOf(s) = "new" /\ PhaseOf(s)' = "starting"
    BY <2>1, <2>2 DEF PhaseOf, Fresh, OwnPath, Fields
  <2>4. CallerBy(c, s) = "out" /\ CallerBy(c, s)' = "calling"
    BY <2>1, <2>2 DEF CallerBy, Fresh
  <2>5. Moved(s)
    BY <2>1, <2>3, <2>4, OneCaller DEF Moved
  <2>6. ASSUME NEW z \in Servers \ {s} PROVE Same(z)
    <3>1. ~Busy(c, z) /\ ~Busy(c, z)'
      BY <2>1, <2>2 DEF Busy
    <3> QED
      BY <2>2, <3>1, SameView
  <2> QED
    BY <2>5, <2>6
<1>5. CASE StartReturns(c)
  <2>1. PICK s \in Servers : /\ this[c] = s /\ s \notin held[c] /\ pc[s] # "unborn"
                             /\ Live(s) \/ Failed(s)
    BY <1>1, <1>2, <1>5 DEF StartReturns, Goto, TypeOK, Situation, Busy, Live, Failed
  <2>2. /\ pc[c] = "returned" /\ pc'[c] = "idle"
        /\ held'[c] = held[c] \cup {s}
        /\ \A z \in Servers : pc'[z] = pc[z]
        /\ UNCHANGED <<this, running, exception>>
    BY <1>1, <1>5, <2>1 DEF StartReturns, Goto, TypeOK
  <2>3. PhaseOf(s) \in {"up", "failed"} /\ PhaseOf(s)' = PhaseOf(s)
    BY <2>1, <2>2 DEF PhaseOf, Live, Failed, Broken, OwnPath, Fields
  <2>4. CallerBy(c, s) = "calling" /\ CallerBy(c, s)' = "holding"
    BY <2>1, <2>2 DEF CallerBy
  <2>5. Moved(s)
    BY <2>1, <2>3, <2>4, OneCaller DEF Moved
  <2>6. ASSUME NEW z \in Servers \ {s} PROVE Same(z)
    <3>1. ~Busy(c, z) /\ ~Busy(c, z)'
      BY <2>1, <2>2 DEF Busy
    <3> QED
      BY <2>2, <3>1, SameView
  <2> QED
    BY <2>5, <2>6
<1>6. ASSUME NEW s \in Servers, NEW scan \in BOOLEAN, BeginStart(c, s, scan),
             NEW z \in Servers
      PROVE  Same(z)
  <2>1. /\ pc[s] = "unborn" /\ pc[c] = "idle" /\ this'[c] = s
        /\ \A d \in Servers : pc'[d] = pc[d]
        /\ UNCHANGED <<held, running, exception>>
    BY <1>1, <1>6 DEF BeginStart, Goto, TypeOK
  <2>2. CASE z = s
    <3>1. PhaseOf(z)' = PhaseOf(z) /\ CallerBy(c, z)' = CallerBy(c, z)
      BY <2>1, <2>2 DEF PhaseOf, CallerBy
    <3> QED
      BY <3>1, OneCaller DEF Same
  <2>3. CASE z # s
    <3>1. ~Busy(c, z) /\ ~Busy(c, z)'
      BY <2>1, <2>3 DEF Busy
    <3> QED
      BY <2>1, <3>1, SameView
  <2> QED
    BY <2>2, <2>3
<1>7. ASSUME NEW s \in Servers, BeginStop(c, s)
      PROVE  Moved(s) /\ \A z \in Servers \ {s} : Same(z)
  <2>1. /\ s \in held[c] /\ pc[c] = "idle" /\ pc'[c] = "check" /\ this'[c] = s
        /\ held'[c] = held[c] \ {s}
        /\ \A z \in Servers : pc'[z] = pc[z]
        /\ UNCHANGED <<running, exception>>
    BY <1>1, <1>7 DEF BeginStop, Goto, TypeOK
  <2>2. pc[s] # "unborn"
    BY <1>2, <2>1 DEF Situation
  <2>3. PhaseOf(s)' = PhaseOf(s)
    BY <2>1 DEF PhaseOf
  <2>4. CallerBy(c, s) = "holding" /\ CallerBy(c, s)' = "stopping"
    BY <2>1, <2>2 DEF CallerBy
  <2>5. ASSUME NEW z \in Servers \ {s} PROVE Same(z)
    <3>1. ~Busy(c, z) /\ ~Busy(c, z)'
      BY <2>1 DEF Busy
    <3> QED
      BY <2>1, <3>1, SameView
  <2> QED
    BY <2>3, <2>4, <2>5, OneCaller DEF Moved
<1> QED
  BY <1>3, <1>4, <1>5, <1>6, <1>7 DEF ClientStep

\* Every step of the threads is a step of the contract or invisible to it.
LEMMA StepKeepsContract ==
  ASSUME Discipline, IInv, [Next]_vars
  PROVE  [Contract!Next]_(Contract!contractVars)
<1>1. CASE UNCHANGED vars
  BY <1>1 DEF vars, Contract!contractVars, PhaseOf, CallerOf
<1>2. ASSUME NEW s \in Servers, RunStep(s)
      PROVE  [Contract!Next]_(Contract!contractVars)
  BY <1>2, RunStepContract, ContractStep
<1>3. ASSUME NEW s \in Servers, StopStep(s)
      PROVE  [Contract!Next]_(Contract!contractVars)
  BY <1>3, ServerStopContract, ContractStep
<1>4. ASSUME NEW c \in Clients, StopStep(c)
      PROVE  [Contract!Next]_(Contract!contractVars)
  BY <1>4, ClientStopContract, ContractStep
<1>5. ASSUME NEW c \in Clients,
             \/ ClientStep(c)
             \/ \E s \in Servers : \/ BeginStart(c, s, TRUE)
                                   \/ BeginStart(c, s, FALSE)
                                   \/ BeginStop(c, s)
      PROVE  [Contract!Next]_(Contract!contractVars)
  <2>1. \/ \A z \in Servers : Same(z)
        \/ \E s \in Servers : Moved(s) /\ \A z \in Servers \ {s} : Same(z)
    BY <1>5, ClientContract
  <2>2. CASE \A z \in Servers : Same(z)
    BY <2>2 DEF Same, Contract!contractVars
  <2> QED
    BY <2>1, <2>2, ContractStep
<1>6. \A c \in Clients : ~SpuriousWakeup(c)
  BY DEF SpuriousWakeup, Discipline
<1> QED
  BY <1>1, <1>2, <1>3, <1>4, <1>5, <1>6 DEF Next

\* The threads that startServer(), run() and stop() execute keep StartContract
\* towards their caller, under the discipline.
THEOREM Refinement == Discipline => (Spec => KeepsContract)
<1> SUFFICES ASSUME Discipline PROVE Spec => KeepsContract
  OBVIOUS
<1>1. Init => Contract!Init
  BY LifecycleAssumption DEF LifecycleAssumption, Init, Contract!Init, PhaseOf, CallerOf
<1>2. IInv /\ [Next]_vars => [Contract!Next]_(Contract!contractVars)
  BY StepKeepsContract
<1> QED
  BY Inductive, <1>1, <1>2, PTL DEF Spec, KeepsContract, Contract!Spec

\* Under the discipline the exception that run() recorded is final: no later
\* step of run(), stop() or uncaughtException() replaces it.
THEOREM RecordedForGood == Discipline => (Spec => ExceptionSticks)
<1> DEFINE Sticks == \A s \in Servers :
                       exception[s] # "none" => exception'[s] = exception[s]
<1> SUFFICES ASSUME Discipline PROVE Spec => ExceptionSticks
  OBVIOUS
<1>1. ASSUME IInv, Next PROVE Sticks
  <2>1. PICK c \in Clients : TRUE
    BY DEF Discipline
  <2>2. ASSUME NEW s \in Servers PROVE ~RecordUncaught(s)
    <3>1. Situation(c, s) /\ TypeOK
      BY <1>1 DEF IInv
    <3> QED
      BY <3>1 DEF RecordUncaught, Goto, TypeOK, Situation, Busy,
         Launching, Failing, Failed, Live, Closing, Cleared, Gone
  <2>3. ASSUME NEW s \in Servers, CatchException(s) PROVE Sticks
    <3>1. Launching(s)
      BY <1>1, <2>1, <2>3, StarterWaits DEF CatchException, Goto, Failing
    <3>2. exception[s] = "none"
      BY <3>1 DEF Launching, OwnPath
    <3> QED
      BY <1>1, <2>3, <3>2 DEF CatchException, IInv, TypeOK
  <2>4. ASSUME exception' # exception
        PROVE  \E s \in Servers : CatchException(s) \/ RecordUncaught(s)
    BY <1>1, <2>4 DEF Next, RunStep, StopStep, ClientStep, CreateServer,
       LoadHttpServer, Listen, Publish, InformStarter, LeaveLoop,
       UncaughtException, StopCheck, StopShutdown, StopShutdownNull, StopClear,
       StopHalt, StopNotify, ScanPort, StartServer, Wait, StartReturns,
       SpuriousWakeup, BeginStart, BeginStop
  <2> QED
    BY <2>2, <2>3, <2>4
<1>2. IInv /\ [Next]_vars => [Sticks]_vars
  BY <1>1
<1> QED
  BY Inductive, <1>2, PTL DEF Spec, ExceptionSticks
=============================================================================
