-------------------------- MODULE EnumerationQueue --------------------------
(***************************************************************************)
(* The loop that reads, one at a time and oldest first, the listings of    *)
(* contacts that were never enumerated (enumeration_queue.rs), with the    *)
(* commands that add, read and remove contacts under it.                   *)
(*                                                                         *)
(* last_fetched is a position: "line" holds the contacts, the one whose    *)
(* stamp is oldest first, and a stamp of now moves a contact to the end.   *)
(* The rows themselves, and who overwrites whom, are ContactStore's.       *)
(***************************************************************************)
EXTENDS Naturals, Sequences, FiniteSets, SequencesExt

CONSTANTS
    Contacts,
    MaxChanges,   \* bound of the model: changes from outside in one run
    NoContact

ASSUME QueueAssumption == NoContact \notin Contacts /\ MaxChanges \in Nat

VARIABLES
    line,      \* the stored contacts, oldest last_fetched first
    status,    \* [Contacts -> ListingsStatus]; "Legacy" is the old stub's Fetched
    hasKeys,   \* an identity is loaded
    broken,    \* contacts whose share code cannot be rebuilt: every resolve errs
    phase,     \* where the loop is
    reading,   \* the contact it resolves, or NoContact
    changes

queueVars == <<line, status, hasKeys, broken, phase, reading, changes>>

Phases == {"off", "healing", "picking", "reading", "deferring", "spacing", "idling"}

QueueTypeOK ==
    /\ line \in Seq(Contacts) /\ IsInjective(line)
    /\ status \in [Contacts -> {"Pending", "Legacy", "Classified"}]
    /\ hasKeys \in BOOLEAN
    /\ broken \subseteq Contacts
    /\ phase \in Phases
    /\ reading \in Contacts \cup {NoContact}
    /\ (reading # NoContact) = (phase \in {"reading", "deferring"})
    /\ changes \in 0..MaxChanges

Stored == ToSet(line)

Pending(c) == c \in Stored /\ status[c] = "Pending"

\* Some contacts were stored by an earlier session, perhaps by an old build.
QueueInit ==
    /\ \E old \in SUBSET Contacts : line = SetToSeq(old)
    /\ status \in [Contacts -> {"Pending", "Legacy"}]
    /\ hasKeys \in BOOLEAN
    /\ broken \in SUBSET Contacts
    /\ phase = "off"
    /\ reading = NoContact
    /\ changes = MaxChanges

\* spawn_enumeration_queue, at the start of the app.
AppStarts ==
    /\ phase = "off"
    /\ phase' = "healing"
    /\ UNCHANGED <<line, status, hasKeys, broken, reading, changes>>

ToBack(c) == Append(Remove(line, c), c)

\* legacy_stub_default: a topic stub that claims an empty list nobody read.
Healed(c) == status[c] = "Legacy" /\ c \in Stored

\* heal_pending_never_enumerated, once at the loop's start. An error leaves the
\* rest as it is until the next start.
Heal ==
    /\ phase = "healing"
    /\ status' = [c \in Contacts |-> IF Healed(c) THEN "Pending" ELSE status[c]]
    /\ phase' = "picking"
    /\ UNCHANGED <<line, hasKeys, broken, reading, changes>>

\* pick_next_pending: the oldest stamp.
Picked(c) ==
    /\ Pending(c)
    /\ \A i \in DOMAIN line : Pending(line[i]) => \E j \in 1..i : line[j] = c

\* enumerate_next_pending: an identity, the list, the pick.
Pick(c) ==
    /\ phase = "picking"
    /\ hasKeys
    /\ Picked(c)
    /\ phase' = "reading"
    /\ reading' = c
    /\ UNCHANGED <<line, status, hasKeys, broken, changes>>

NothingToPick ==
    /\ phase = "picking"
    /\ ~hasKeys \/ \A c \in Contacts : ~Pending(c)
    /\ phase' = "idling"
    /\ UNCHANGED <<line, status, hasKeys, broken, reading, changes>>

\* The resolve answers: the row is saved with an earned state and a new stamp,
\* even when the contact was removed meanwhile.
Classify ==
    /\ phase = "reading"
    /\ reading \notin broken
    /\ line' = ToBack(reading)
    /\ status' = [status EXCEPT ![reading] = "Classified"]
    /\ phase' = "spacing"
    /\ reading' = NoContact
    /\ UNCHANGED <<hasKeys, broken, changes>>

\* The resolve errs: no relay client, or a share code that cannot be rebuilt.
ResolveFails ==
    /\ phase = "reading"
    /\ phase' = "deferring"
    /\ UNCHANGED <<line, status, hasKeys, broken, reading, changes>>

\* Mutant of Deferred, for PendingHasItsTurn.
KeptInFront == line

\* mark_failed_retry, on the row as it stands by then.
Deferred == IF reading \in Stored THEN ToBack(reading) ELSE line

DeferFailed ==
    /\ phase = "deferring"
    /\ line' = Deferred
    /\ phase' = "idling"
    /\ reading' = NoContact
    /\ UNCHANGED <<status, hasKeys, broken, changes>>

\* ENUMERATION_SPACING or IDLE_INTERVAL has passed.
Wake ==
    /\ phase \in {"spacing", "idling"}
    /\ phase' = "picking"
    /\ UNCHANGED <<line, status, hasKeys, broken, reading, changes>>

AppExits ==
    /\ phase # "off"
    /\ changes > 0
    /\ changes' = changes - 1
    /\ phase' = "off"
    /\ reading' = NoContact
    /\ UNCHANGED <<line, status, hasKeys, broken>>

-----------------------------------------------------------------------------
(* What others do to the contacts *)

\* A topic's roster, or a request the user accepts: a stub that claims nothing.
AddStub(c) ==
    /\ changes > 0
    /\ changes' = changes - 1
    /\ c \notin Stored
    /\ line' = Append(line, c)
    /\ status' = [status EXCEPT ![c] = "Pending"]
    /\ UNCHANGED <<hasKeys, broken, phase, reading>>

\* unfollow_contact.
RemoveContact(c) ==
    /\ changes > 0
    /\ changes' = changes - 1
    /\ c \in Stored
    /\ line' = Remove(line, c)
    /\ UNCHANGED <<status, hasKeys, broken, phase, reading>>

\* The user opens the contact: refresh_contact does what the queue does.
RefreshClick(c) ==
    /\ changes > 0
    /\ changes' = changes - 1
    /\ hasKeys
    /\ c \in Stored \ broken
    /\ line' = ToBack(c)
    /\ status' = [status EXCEPT ![c] = "Classified"]
    /\ UNCHANGED <<hasKeys, broken, phase, reading>>

\* The user creates or imports an identity.
Unlock ==
    /\ ~hasKeys
    /\ hasKeys' = TRUE
    /\ UNCHANGED <<line, status, broken, phase, reading, changes>>

QueueNext ==
    \/ Heal \/ NothingToPick \/ Classify \/ ResolveFails \/ DeferFailed \/ Wake
    \/ AppStarts \/ AppExits \/ Unlock
    \/ \E c \in Contacts : Pick(c) \/ AddStub(c) \/ RemoveContact(c) \/ RefreshClick(c)

QueueSpec == QueueInit /\ [][QueueNext]_queueVars

\* The loop runs on for as long as the app does.
QueueLoopFairness ==
    /\ WF_queueVars(Heal) /\ WF_queueVars(NothingToPick)
    /\ WF_queueVars(DeferFailed) /\ WF_queueVars(Wake)
    /\ WF_queueVars(Classify \/ ResolveFails)
    /\ WF_queueVars(\E c \in Contacts : Pick(c))

\* Relays that are asked again and again answer some time. Nothing is assumed of a
\* contact that is broken.
QueueFairness == QueueLoopFairness /\ SF_queueVars(Classify)

QueueFairSpec == QueueSpec /\ QueueFairness

-----------------------------------------------------------------------------
(* Properties *)

\* In the queue, or an old stub that the start of the loop is about to put there.
Waits(c) == Pending(c) \/ (phase = "healing" /\ Healed(c))

\* The line keeps its contacts, each once; and while the app runs, a contact that
\* waits is classified or removed in the end, however many contacts there are of
\* which every read fails. An old stub that claims an empty list nobody read waits
\* from the next start on.
PendingHasItsTurn ==
    /\ []QueueTypeOK
    /\ \A c \in Contacts :
          hasKeys /\ Waits(c) /\ c \notin broken /\ phase # "off" ~>
              c \notin Stored \/ status[c] = "Classified" \/ phase = "off"

=============================================================================
