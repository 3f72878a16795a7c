-------------------------------- MODULE Rpc --------------------------------
(***************************************************************************)
(* What sendRequest() promises its callers, without sockets, frames,       *)
(* correlation ids or timers: a request that was accepted settles once,    *)
(* and soon or late it does; if it resolves, it resolves with the response *)
(* to this request.                                                        *)
(***************************************************************************)
CONSTANT Requests

VARIABLES pc, result

vars == <<pc, result>>

Init ==
    /\ pc = [r \in Requests |-> "new"]
    /\ result = [r \in Requests |-> {}]

\* A request is accepted, or refused at once.
Call(r) ==
    /\ pc[r] = "new"
    /\ \E outcome \in {"waiting", "rejected"} : pc' = [pc EXCEPT ![r] = outcome]
    /\ UNCHANGED result

\* The requests rs are answered.
Resolve(rs) ==
    /\ \A r \in rs : pc[r] = "waiting"
    /\ pc' = [r \in Requests |-> IF r \in rs THEN "resolved" ELSE pc[r]]
    /\ result' = [r \in Requests |-> IF r \in rs THEN {r} ELSE result[r]]

\* The requests rs fail, together if their connection breaks.
Reject(rs) ==
    /\ \A r \in rs : pc[r] = "waiting"
    /\ pc' = [r \in Requests |-> IF r \in rs THEN "rejected" ELSE pc[r]]
    /\ UNCHANGED result

Next ==
    \/ \E r \in Requests : Call(r)
    \/ \E rs \in SUBSET Requests : Resolve(rs) \/ Reject(rs)

\* What must never happen.
Safety == Init /\ [][Next]_vars

\* What must happen, too: a request that waits settles.
Spec ==
    /\ Safety
    /\ \A r \in Requests : WF_vars(Resolve({r}) \/ Reject({r}))
=============================================================================
