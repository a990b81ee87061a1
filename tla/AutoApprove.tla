---------------------------- MODULE AutoApprove ----------------------------
(***************************************************************************)
(* The auto-approve loop (hb-app/src/auto_approve.rs): it polls the inbox, *)
(* answers manifest asks with a ticket and access asks with a key grant,   *)
(* paces the tickets, remembers what it answered and retries what failed.  *)
(*                                                                         *)
(* An ask is one nonce of one asker. Relays keep its wrap and hand it back *)
(* at every poll whose window covers it, until they drop it. One poll is   *)
(* one tick of the pacing clock.                                           *)
(***************************************************************************)
EXTENDS Integers, Sequences, FiniteSets

LOCAL INSTANCE Functions

CONSTANTS
    ManifestAsks,  \* asks for a collection
    AccessAsks,    \* asks for the browse key
    PairOf,        \* the pace key of a manifest ask: peer, author and slug
    Cooldown,      \* AUTO_APPROVE_PER_PAIR_COOLDOWN_SECS, in polls
    GlobalMax,     \* AUTO_APPROVE_GLOBAL_MAX
    Window,        \* AUTO_APPROVE_GLOBAL_WINDOW_SECS, in polls
    AttemptsMax,   \* SERVE_ATTEMPTS_MAX
    AttemptKeysMax,\* SERVE_ATTEMPT_KEYS_MAX
    SeenMax,       \* SEEN_REQUESTS_MAX
    HoldMax,       \* DEFERRED_MAX
    Margin,        \* DM_FETCH_MARGIN_SECS, in steps of a stamp
    MaxStamp,      \* bound: latest outer stamp of a wrap
    MaxCrashes,    \* bound: restarts of the process
    MaxChanges      \* bound: how often a relay drops a wrap, an asker
                   \* grows or shrinks, or is blocked or unblocked

Asks == ManifestAsks \cup AccessAsks
Pairs == {PairOf[a] : a \in ManifestAsks}

ASSUME AutoConstants ==
    /\ ManifestAsks \cap AccessAsks = {}
    /\ IsFiniteSet(Asks)
    /\ PairOf \in [ManifestAsks -> Pairs]
    /\ {Cooldown, Window, Margin, MaxStamp, MaxCrashes, MaxChanges} \subseteq Nat
    /\ {GlobalMax, AttemptsMax, AttemptKeysMax, SeenMax, HoldMax} \subseteq Nat \ {0}

VARIABLES
    unsent,   \* asks still to be sent
    relay,    \* asks whose wrap some relay holds
    stamp,    \* the outer stamp of a wrap
    big,      \* access askers whose teaser is at least as large as ours
    blocked,  \* access askers the user blocks
    changes,
    \* on disk
    answered, \* the saved memory of answered asks
    \* in the process
    cursor,   \* newest_seen_outer
    seen,     \* seen_request_ids
    dirty,    \* seen_dirty
    attempts, \* serve_attempts; 0 is no entry
    held,     \* deferred
    pace,     \* polls until the pair may be served again
    window,   \* approvals in the global window, by the polls they stay in it
    pc,       \* "asleep" or "polling"
    access,   \* access asks of this poll still to be decided
    replays,  \* held asks taken up by this poll, oldest first
    fresh,    \* manifest asks fetched by this poll
    crashes,
    \* history
    served,   \* answers since the memory was last empty or loaded
    settled   \* asks answered or given up at some time

environment == <<unsent, relay, stamp, big, blocked, changes>>
autoVars == <<unsent, relay, stamp, big, blocked, changes, answered, cursor, seen, dirty, attempts,
              held, pace, window, pc, access, replays, fresh, crashes, served, settled>>

None == [a \in Asks |-> 0]
NoApproval == [n \in 1..Window |-> 0]

AutoInit ==
    /\ unsent = Asks /\ relay = {} /\ stamp = None
    /\ big = {} /\ blocked = {} /\ changes = 0
    /\ answered = {}
    /\ cursor = 0 /\ seen = {} /\ dirty = FALSE /\ attempts = None
    /\ held = <<>> /\ pace = [p \in Pairs |-> 0] /\ window = NoApproval
    /\ pc = "asleep" /\ access = {} /\ replays = <<>> /\ fresh = {}
    /\ crashes = 0 /\ served = None /\ settled = {}

\* The hold queue has every ask once, and none that the loop has answered: a
\* replay is not checked against the memory, so a second copy would be served.
HeldOnce ==
    /\ \A i, j \in DOMAIN held : held[i] = held[j] => i = j
    /\ \A i \in DOMAIN held : held[i] \notin seen

AutoTypeOK ==
    /\ unsent \subseteq Asks /\ relay \subseteq Asks /\ stamp \in [Asks -> 0..MaxStamp]
    /\ big \subseteq AccessAsks /\ blocked \subseteq AccessAsks
    /\ changes \in 0..MaxChanges /\ answered \subseteq Asks
    /\ cursor \in 0..MaxStamp /\ seen \subseteq Asks /\ dirty \in BOOLEAN
    /\ attempts \in [Asks -> 0..AttemptsMax - 1]
    /\ held \in Seq(ManifestAsks) /\ HeldOnce
    /\ replays \in Seq(ManifestAsks)
    /\ pace \in [Pairs -> 0..Cooldown] /\ window \in [1..Window -> Nat]
    /\ pc \in {"asleep", "polling"} /\ access \subseteq AccessAsks
    /\ fresh \subseteq ManifestAsks /\ crashes \in 0..MaxCrashes
    /\ served \in [Asks -> Nat] /\ settled \subseteq Asks

-----------------------------------------------------------------------------
\* The askers and the relays.

\* The stamp of a wrap is drawn from the 48 hours before it is sent.
Send(a) ==
    /\ a \in unsent
    /\ \E s \in 0..MaxStamp : stamp' = [stamp EXCEPT ![a] = s]
    /\ unsent' = unsent \ {a}
    /\ relay' = relay \cup {a}
    /\ UNCHANGED <<big, blocked, changes, answered, cursor, seen, dirty, attempts, held, pace,
                   window, pc, access, replays, fresh, crashes, served, settled>>

RelayDrops(a) ==
    /\ a \in relay /\ changes < MaxChanges
    /\ changes' = changes + 1
    /\ relay' = relay \ {a}
    /\ UNCHANGED <<unsent, stamp, big, blocked, answered, cursor, seen, dirty, attempts,
                   held, pace, window, pc, access, replays, fresh, crashes, served, settled>>

\* An asker's published size passes ours, or falls behind it; or the user
\* blocks or unblocks the asker.
AskerSwings(a) ==
    /\ changes < MaxChanges
    /\ changes' = changes + 1
    /\ \/ /\ big' = IF a \in big THEN big \ {a} ELSE big \cup {a}
          /\ UNCHANGED blocked
       \/ /\ blocked' = IF a \in blocked THEN blocked \ {a} ELSE blocked \cup {a}
          /\ UNCHANGED big
    /\ UNCHANGED <<unsent, relay, stamp, answered, cursor, seen, dirty, attempts, held, pace,
                   window, pc, access, replays, fresh, crashes, served, settled>>

-----------------------------------------------------------------------------
\* A poll.

\* auto_approve_inbox_since: the filter leaves out what is older than the
\* newest wrap seen by more than the margin.
InWindow(a) == a \in relay /\ stamp[a] + Margin >= cursor

\* Time passes: in an await of a poll, in the sleep after it, or over a poll that
\* cannot connect, fails to fetch or brings nothing. Such a poll ends where it
\* is, and does not take up the held asks.
Tick ==
    /\ pace' = [p \in Pairs |-> IF pace[p] > 0 THEN pace[p] - 1 ELSE 0]
    /\ window' = [n \in 1..Window |-> IF n < Window THEN window[n + 1] ELSE 0]
    /\ UNCHANGED <<environment, answered, cursor, seen, dirty, attempts, held, pc, access,
                   replays, fresh, crashes, served, settled>>

NewestOf(batch) == CHOOSE s \in {stamp[a] : a \in batch} : \A a \in batch : stamp[a] <= s

\* The relays hand back any part of what the window covers: each may time out.
\* The cursor moves first; the blocked set is read once per poll; the hold
\* queue is drained and goes before what has just come.
Fetch(batch) ==
    /\ pc = "asleep" /\ batch # {} /\ \A a \in batch : InWindow(a)
    /\ pc' = "polling"
    /\ cursor' = IF NewestOf(batch) > cursor THEN NewestOf(batch) ELSE cursor
    /\ access' = {a \in batch \cap AccessAsks : a \notin blocked}
    /\ replays' = held
    /\ held' = <<>>
    /\ fresh' = batch \cap ManifestAsks
    /\ UNCHANGED <<environment, answered, seen, dirty, attempts, pace, window, crashes,
                   served, settled>>

\* remember_answered: at the cap the whole memory is cleared, with the key that
\* has just been added.
Remembered(a) ==
    LET more == seen \cup {a} IN IF Cardinality(more) > SeenMax THEN {} ELSE more

AttemptKeys(f) == {a \in Asks : f[a] > 0}

\* What is known of serves since the memory was emptied.
ServedWith(a, n) ==
    IF Remembered(a) = {} THEN None ELSE [served EXCEPT ![a] = @ + n]

\* Mutant of NoteServed, for ServedOnce: an ask that had to be tried again is
\* not remembered.
NoteServedAtOnce(a) ==
    /\ attempts' = [attempts EXCEPT ![a] = 0]
    /\ seen' = IF attempts[a] = 0 THEN Remembered(a) ELSE seen
    /\ served' = ServedWith(a, 1)
    /\ dirty' = TRUE
    /\ settled' = settled \cup {a}

\* apply_serve_outcome(Served).
NoteServed(a) ==
    /\ attempts' = [attempts EXCEPT ![a] = 0]
    /\ seen' = Remembered(a)
    /\ served' = ServedWith(a, 1)
    /\ dirty' = TRUE
    /\ settled' = settled \cup {a}

\* Mutant of NoteFailed, for AskSettles: the give-up bound is never reached.
NoteFailedForEver(a) ==
    /\ attempts' = [attempts EXCEPT ![a] = IF @ + 1 < AttemptsMax THEN @ + 1 ELSE @]
    /\ UNCHANGED <<seen, served, dirty, settled>>

\* apply_serve_outcome(Failed): the attempt is counted, all counts are cleared
\* when there are too many, and the last one makes the ask answered.
NoteFailed(a) ==
    LET counted == [attempts EXCEPT ![a] = @ + 1]
        kept == IF Cardinality(AttemptKeys(counted)) > AttemptKeysMax THEN None ELSE counted
    IN IF counted[a] < AttemptsMax
       THEN /\ attempts' = kept
            /\ UNCHANGED <<seen, served, dirty, settled>>
       ELSE /\ attempts' = [kept EXCEPT ![a] = 0]
            /\ seen' = Remembered(a)
            /\ served' = ServedWith(a, 0)
            /\ dirty' = TRUE
            /\ settled' = settled \cup {a}

-----------------------------------------------------------------------------
\* Access asks, decided before any manifest ask.

AccessStep(a) == pc = "polling" /\ a \in access /\ access' = access \ {a}

\* Mutant of AccessLeft, for GrownAskerGranted: a refused asker is remembered.
AccessLeftForGood(a) ==
    /\ AccessStep(a)
    /\ seen' = seen \cup {a}
    /\ UNCHANGED <<environment, answered, cursor, dirty, attempts, held, pace, window, pc,
                   replays, fresh, crashes, served, settled>>

\* Answered before, teaser not fetched, or the asker is smaller: nothing is
\* remembered.
AccessLeft(a) ==
    /\ AccessStep(a)
    /\ UNCHANGED <<environment, answered, cursor, seen, dirty, attempts, held, pace, window, pc,
                   replays, fresh, crashes, served, settled>>

MayGrant(a) == a \notin seen /\ a \in big

Grant(a) ==
    /\ AccessStep(a) /\ MayGrant(a)
    /\ NoteServed(a)
    /\ UNCHANGED <<environment, answered, cursor, held, pace, window, pc, replays, fresh, crashes>>

GrantFails(a) ==
    /\ AccessStep(a) /\ MayGrant(a)
    /\ NoteFailed(a)
    /\ UNCHANGED <<environment, answered, cursor, held, pace, window, pc, replays, fresh, crashes>>

-----------------------------------------------------------------------------
\* Manifest asks: the replays in order, then what was fetched.

\* May this ask be handled next? A replay is handled whatever the memory says.
IsNext(a, replay) ==
    /\ pc = "polling" /\ access = {}
    /\ IF replay THEN replays # <<>> /\ a = Head(replays) ELSE replays = <<>> /\ a \in fresh

TakeNext(a, replay) ==
    /\ replays' = IF replay THEN Tail(replays) ELSE replays
    /\ fresh' = IF replay THEN fresh ELSE fresh \ {a}

\* may_process.
AlreadyAnswered(a) ==
    /\ IsNext(a, FALSE) /\ a \in seen
    /\ TakeNext(a, FALSE)
    /\ UNCHANGED <<environment, answered, cursor, seen, dirty, attempts, held, pace, window, pc,
                   access, crashes, served, settled>>

Processed(a, replay) == IsNext(a, replay) /\ (replay \/ a \notin seen)

\* AutoApproveCaps::allows.
Allowed(a) == pace[PairOf[a]] = 0 /\ SumFunction(window) < GlobalMax

InHold(a) == \E i \in DOMAIN held : held[i] = a

\* Over budget: held, unless the queue is full or holds it already.
Defer(a, replay) ==
    /\ Processed(a, replay) /\ ~Allowed(a)
    /\ TakeNext(a, replay)
    /\ held' = IF Len(held) < HoldMax /\ ~InHold(a) THEN Append(held, a) ELSE held
    /\ UNCHANGED <<environment, answered, cursor, seen, dirty, attempts, pace, window, pc, access,
                   crashes, served, settled>>

\* The hold queue without an ask, which it has once at most.
WithoutHeld(a) ==
    IF ~InHold(a)
    THEN held
    ELSE LET n == CHOOSE i \in DOMAIN held : held[i] = a
         IN [i \in 1..Len(held) - 1 |-> held[IF i < n THEN i ELSE i + 1]]

\* The ticket is minted and sent: the caps are charged.
Serve(a, replay) ==
    /\ Processed(a, replay) /\ Allowed(a)
    /\ TakeNext(a, replay)
    /\ NoteServed(a)
    /\ pace' = [pace EXCEPT ![PairOf[a]] = Cooldown]
    /\ window' = [window EXCEPT ![Window] = @ + 1]
    /\ held' = WithoutHeld(a)
    /\ UNCHANGED <<environment, answered, cursor, pc, access, crashes>>

\* The serve fails: no budget is spent, and a held ask is not put back.
TicketFails(a, replay) ==
    /\ Processed(a, replay) /\ Allowed(a)
    /\ TakeNext(a, replay)
    /\ NoteFailed(a)
    /\ held' = IF attempts[a] + 1 >= AttemptsMax THEN WithoutHeld(a) ELSE held
    /\ UNCHANGED <<environment, answered, cursor, pace, window, pc, access, crashes>>

\* The memory is saved once per poll, as well as may be, and the loop sleeps.
EndPoll(saved) ==
    /\ pc = "polling" /\ access = {} /\ replays = <<>> /\ fresh = {}
    /\ saved => dirty
    /\ answered' = IF saved THEN seen ELSE answered
    /\ dirty' = (dirty /\ ~saved)
    /\ pc' = "asleep"
    /\ UNCHANGED <<environment, cursor, seen, attempts, held, pace, window, access, replays, fresh, crashes,
                   served, settled>>

\* The process ends and starts again: only the saved memory survives.
Crash ==
    /\ crashes < MaxCrashes
    /\ crashes' = crashes + 1
    /\ cursor' = 0 /\ seen' = answered /\ dirty' = FALSE /\ attempts' = None
    /\ held' = <<>> /\ pace' = [p \in Pairs |-> 0] /\ window' = NoApproval
    /\ pc' = "asleep" /\ access' = {} /\ replays' = <<>> /\ fresh' = {}
    /\ served' = None
    /\ UNCHANGED <<environment, answered, settled>>

PollStep ==
    \/ \E a \in AccessAsks : AccessLeft(a) \/ Grant(a) \/ GrantFails(a)
    \/ \E a \in ManifestAsks : AlreadyAnswered(a)
    \/ \E a \in ManifestAsks, replay \in BOOLEAN :
          Defer(a, replay) \/ Serve(a, replay) \/ TicketFails(a, replay)
    \/ \E saved \in BOOLEAN : EndPoll(saved)

AutoNext ==
    \/ \E a \in Asks : Send(a) \/ RelayDrops(a)
    \/ \E a \in AccessAsks : AskerSwings(a)
    \/ Tick
    \/ \E batch \in SUBSET Asks : Fetch(batch)
    \/ PollStep
    \/ Crash

AutoSpec == AutoInit /\ [][AutoNext]_autoVars

\* The loop goes on. A wrap that stays at a relay and in the window is handed
\* back again and again, and the teaser of its sender is not unreadable for ever.
AutoFairness ==
    /\ WF_autoVars(PollStep)
    /\ WF_autoVars(Tick)
    /\ \A a \in Asks : SF_autoVars(\E batch \in SUBSET Asks : a \in batch /\ Fetch(batch))
    /\ \A a \in AccessAsks : SF_autoVars(Grant(a) \/ GrantFails(a))

AutoFairSpec == AutoSpec /\ AutoFairness

-----------------------------------------------------------------------------
\* The hold queue, the memory and the counts of attempts stay within their caps.
CapsHold ==
    /\ Len(held) <= HoldMax
    /\ Cardinality(seen) <= SeenMax
    /\ Cardinality(AttemptKeys(attempts)) <= AttemptKeysMax

\* "An answered ask must never be re-served": not before the memory overflows
\* or the process restarts, whatever the relays hand back, and within the caps.
ServedOnce == AutoTypeOK /\ CapsHold /\ \A a \in Asks : served[a] <= 1

\* A manifest ask whose wrap the relays keep and the window covers is answered
\* or given up: neither pacing, nor a full hold queue, nor failures, nor a
\* restart lose it.
AskSettles == \A a \in ManifestAsks : InWindow(a) ~> (a \in settled \/ ~InWindow(a))

\* A refused asker "may grow later, and their re-ask should then succeed": an
\* asker that is large enough from some time on, not blocked and still heard
\* of gets its grant, or its grant failed AttemptsMax times.
GrownAskerGranted ==
    \A a \in AccessAsks :
        <>[](InWindow(a) /\ a \in big \ blocked) => <>(a \in settled)

\* "Every request is served eventually ... only now or shortly", and "it has to
\* be held here or it is lost": a held ask is answered.
HeldIsServed == \A a \in ManifestAsks : InHold(a) ~> a \in settled

=============================================================================
