-------------------------- MODULE ManifestExchange --------------------------
(***************************************************************************)
(* What the manifest plane promises the two ends of a redemption: the      *)
(* owner serves a request on one connection at a time, and it counts a     *)
(* manifest as delivered only when the asker holds one it accepted. Either *)
(* end may give up at any time, and neither changes its mind.              *)
(***************************************************************************)
CONSTANTS
    Conns,  \* connections both of whose ends keep the protocol
    Ids     \* request ids

VARIABLES
    request,  \* the request each connection is for, once it was dialled
    owner,    \* the owner's view of each connection
    asker     \* the asker's view

vars == <<request, owner, asker>>

Init ==
    /\ request \in [Conns -> Ids]
    /\ owner = [c \in Conns |-> "open"]
    /\ asker = [c \in Conns |-> "open"]

Serve(c) ==
    /\ owner[c] = "open"
    /\ \A d \in Conns : owner[d] = "serving" => request[d] # request[c]
    /\ owner' = [owner EXCEPT ![c] = "serving"]
    /\ UNCHANGED <<request, asker>>

Accept(c) ==
    /\ asker[c] = "open"
    /\ owner[c] # "open"
    /\ asker' = [asker EXCEPT ![c] = "accepted"]
    /\ UNCHANGED <<request, owner>>

Deliver(c) ==
    /\ owner[c] = "serving"
    /\ asker[c] = "accepted"
    /\ owner' = [owner EXCEPT ![c] = "delivered"]
    /\ UNCHANGED <<request, asker>>

OwnerGivesUp(c) ==
    /\ owner[c] \in {"open", "serving"}
    /\ owner' = [owner EXCEPT ![c] = "undelivered"]
    /\ UNCHANGED <<request, asker>>

AskerGivesUp(c) ==
    /\ asker[c] = "open"
    /\ asker' = [asker EXCEPT ![c] = "empty"]
    /\ UNCHANGED <<request, owner>>

Next ==
    \E c \in Conns :
        Serve(c) \/ Accept(c) \/ Deliver(c) \/ OwnerGivesUp(c) \/ AskerGivesUp(c)

Spec == Init /\ [][Next]_vars

=============================================================================
