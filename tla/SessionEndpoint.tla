-------------------------- MODULE SessionEndpoint --------------------------
(***************************************************************************)
(* What a session has of its manifest plane, with nothing of how callers   *)
(* queue for it: one endpoint at a time on the session's secret, closed    *)
(* before the next one is bound and never bound again. It is withdrawn     *)
(* before it is closed, so that nobody is handed a closed one. The end of  *)
(* an epoch withdraws what is published and turns away whoever asked       *)
(* before.                                                                 *)
(***************************************************************************)
EXTENDS Naturals

CONSTANTS
    Endpoints,
    NoEndpoint

VARIABLES
    published,  \* the endpoint that callers are handed, or NoEndpoint
    askedIn,    \* the epoch in which it was asked for, 0 if there is none
    running,    \* endpoints bound and not closed
    fresh,      \* endpoints never bound
    epoch

vars == <<published, askedIn, running, fresh, epoch>>

Init ==
    /\ published = NoEndpoint
    /\ askedIn = 0
    /\ running = {}
    /\ fresh = Endpoints
    /\ epoch = 0

Publish(e) ==
    /\ running = {}
    /\ e \in fresh
    /\ published' = e
    /\ askedIn' = epoch
    /\ running' = {e}
    /\ fresh' = fresh \ {e}
    /\ UNCHANGED epoch

Withdrawn == published' = NoEndpoint /\ askedIn' = 0

Withdraw == Withdrawn /\ UNCHANGED <<running, fresh, epoch>>

EndEpoch ==
    /\ epoch' = epoch + 1
    /\ Withdrawn
    /\ UNCHANGED <<running, fresh>>

Close(e) ==
    /\ e # published
    /\ running' = running \ {e}
    /\ UNCHANGED <<published, askedIn, fresh, epoch>>

Next ==
    \/ Withdraw \/ EndEpoch
    \/ \E e \in Endpoints : Publish(e) \/ Close(e)

Spec == Init /\ [][Next]_vars

=============================================================================
