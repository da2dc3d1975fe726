----------------------------- MODULE StartContract -----------------------------
(***************************************************************************)
(* What startServer() and stop() promise to the thread that calls them,    *)
(* without threads, fields or notifications: the caller gets its server    *)
(* back only once it is up or has failed, a server goes down only while    *)
(* its caller stops it, and when stop() is over it is down.                *)
(***************************************************************************)
CONSTANT Servers

VARIABLES phase,   \* what the server is
          caller   \* what its caller is doing with it

contractVars == <<phase, caller>>

Phases == {"new", "starting", "up", "failed", "down"}
CallerStates == {"out", "calling", "holding", "stopping", "done"}

Init == /\ phase = [s \in Servers |-> "new"]
        /\ caller = [s \in Servers |-> "out"]

Phase(s, from, to) == phase[s] = from /\ phase' = [phase EXCEPT ![s] = to]
Caller(s, from, to) == caller[s] = from /\ caller' = [caller EXCEPT ![s] = to]

Call(s) == Phase(s, "new", "starting") /\ Caller(s, "out", "calling")

ComeUp(s) == Phase(s, "starting", "up") /\ UNCHANGED caller

Fail(s) == Phase(s, "starting", "failed") /\ UNCHANGED caller

Return(s) == /\ phase[s] \in {"up", "failed"}
             /\ Caller(s, "calling", "holding") /\ UNCHANGED phase

Stop(s) == Caller(s, "holding", "stopping") /\ UNCHANGED phase

GoDown(s) == /\ caller[s] = "stopping"
             /\ Phase(s, "up", "down") /\ UNCHANGED caller

Stopped(s) == /\ phase[s] \in {"down", "failed"}
              /\ Caller(s, "stopping", "done") /\ UNCHANGED phase

Next == \E s \in Servers : \/ Call(s) \/ ComeUp(s) \/ Fail(s) \/ Return(s)
                           \/ Stop(s) \/ GoDown(s) \/ Stopped(s)

Spec == Init /\ [][Next]_contractVars
=============================================================================
