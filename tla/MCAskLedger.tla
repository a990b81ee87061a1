---------------------------- MODULE MCAskLedger ----------------------------
(***************************************************************************)
(* AskLedger on a small instance: one peer and its own collections. Two    *)
(* scenes share the variables: the driver by itself, under the budgets of  *)
(* the .cfg, and the driver with the Chat page under tighter ones, which   *)
(* keep the interleavings of the two within reach.                         *)
(***************************************************************************)
EXTENDS AskLedger, TLC

CONSTANTS peer

MCPeerOf == [k \in Keys |-> peer]
MCAuthorOf == [k \in Keys |-> peer]

VARIABLE scene

\* One dial and no backoff to wait for, one wrap a poll, one tick (enough for an ask to
\* expire under a redemption), no lost write, no restart.
Races ==
    INSTANCE AskLedger WITH
        DialCap <- 1, BatchSize <- 1, MaxTime <- 1,
        MaxLostWrites <- 0, MaxRestarts <- 0

ScenesInit == scene \in {"driver", "races"} /\ Init

ScenesNext ==
    \* The Chat page is not open.
    \/ /\ scene = "driver" /\ UNCHANGED <<scene, page>>
       /\ Next
       /\ \A c \in Chats : UNCHANGED proc[c]
    \/ scene = "races" /\ UNCHANGED scene /\ Races!Next

ScenesSpec == ScenesInit /\ [][ScenesNext]_<<scene, vars>>

Symmetry == Permutations(Ids) \cup Permutations(Chats)

=============================================================================
