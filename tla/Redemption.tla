----------------------------- MODULE Redemption -----------------------------
(***************************************************************************)
(* What the ask trace promises the full-list redemptions of one node, with *)
(* nothing of how it is stored: an ask is recorded once; of the tickets    *)
(* that arrive for it, one at most is ever held or dialled, by however     *)
(* many redeemers and however often; an ask that was closed is not taken   *)
(* up again. A redeemer may let go of a ticket at any time, and any number *)
(* of them do at once when the program ends.                               *)
(***************************************************************************)
CONSTANTS
    Redeemers,  \* who redeems tickets
    Asks,       \* records of a key and a nonce
    Tickets,    \* records of the key and nonce of an ask and the id of a request
    NoTicket

VARIABLES
    asked,     \* the asks recorded: key and nonce
    holds,     \* the ticket each redeemer was granted, or NoTicket
    dialled,   \* the tickets whose address was dialled
    answered,  \* the nonces whose manifest arrived
    closed     \* the nonces that are done with

vars == <<asked, holds, dialled, answered, closed>>

AskOf(t) == [key |-> t.key, nonce |-> t.nonce]

\* Two tickets for one ask.
Rivals(s, t) == s.nonce = t.nonce /\ s.id # t.id

InUse == dialled \cup ({holds[r] : r \in Redeemers} \ {NoTicket})

Init ==
    /\ asked = {}
    /\ holds = [r \in Redeemers |-> NoTicket]
    /\ dialled = {}
    /\ answered = {}
    /\ closed = {}

\* A nonce is used for one ask.
Record(q) ==
    /\ \A p \in asked : p.nonce # q.nonce
    /\ asked' = asked \cup {q}
    /\ UNCHANGED <<holds, dialled, answered, closed>>

Take(r, t) ==
    /\ holds[r] = NoTicket
    /\ AskOf(t) \in asked
    /\ t.nonce \notin closed
    /\ \A s \in InUse : ~Rivals(s, t)
    /\ holds' = [holds EXCEPT ![r] = t]
    /\ UNCHANGED <<asked, dialled, answered, closed>>

Dial(r) ==
    /\ holds[r] # NoTicket
    /\ dialled' = dialled \cup {holds[r]}
    /\ UNCHANGED <<asked, holds, answered, closed>>

Receive(r) ==
    /\ holds[r] \in dialled
    /\ answered' = answered \cup {holds[r].nonce}
    /\ UNCHANGED <<asked, holds, dialled, closed>>

Close(r) ==
    /\ holds[r] \in dialled
    /\ holds[r].nonce \in answered
    /\ closed' = closed \cup {holds[r].nonce}
    /\ holds' = [holds EXCEPT ![r] = NoTicket]
    /\ UNCHANGED <<asked, dialled, answered>>

LetGo(some) ==
    /\ UNCHANGED <<dialled, answered, closed, asked>>
    /\ holds' = [r \in Redeemers |-> IF r \in some THEN NoTicket ELSE holds[r]]

Next ==
    \/ \E some \in SUBSET Redeemers : LetGo(some)
    \/ \E r \in Redeemers :
          \/ Dial(r) \/ Receive(r) \/ Close(r)
          \/ \E t \in Tickets : Take(r, t)
    \/ \E q \in Asks : Record(q)

Spec == Init /\ [][Next]_vars

=============================================================================
