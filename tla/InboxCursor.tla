---------------------------- MODULE InboxCursor ----------------------------
(***************************************************************************)
(* The window of the chat's inbox poll (commands/chat.rs): which gift      *)
(* wraps a poll asks for, which it decodes, and how far the stored cursor  *)
(* then moves. The outer stamp of a wrap is not its time: NIP-59 dates it  *)
(* up to 48 hours back, and a wrap of somebody else's making may bear any  *)
(* stamp. A poll hears of its window what the relays that answered gave    *)
(* it. What a decoded message becomes is DmInbox's concern.                *)
(***************************************************************************)
EXTENDS Naturals, FiniteSets, FiniteSetsExt

CONSTANTS
    Wraps,        \* messages to us, dated as NIP-59 has it
    Foreign,      \* wraps that do not decode, of any date
    PollSlots,    \* polls that may overlap
    Margin,       \* DM_FETCH_MARGIN_SECS, which is also the reach of NIP-59
    MaxNow,       \* bound of the model: the clock stops here
    MaxRestarts,  \* bound of the model
    Unsent        \* the stamp of a wrap no relay has yet

ASSUME CursorAssumption ==
    /\ Wraps \cap Foreign = {}
    /\ Margin \in Nat /\ MaxNow \in Nat /\ MaxRestarts \in Nat
    /\ Unsent \notin Nat

VARIABLES
    now,
    stamp,     \* [wrap -> outer created_at, or Unsent]
    cursor,    \* DmCache.newest_seen_outer
    seen,      \* DmCache.seen_wraps
    failed,    \* FAILED_WRAPS, in memory
    poll,      \* [PollSlots -> the poll in flight]
    restarts,
    missed     \* history: unread messages some poll was not given, though in its window

cursorVars == <<now, stamp, cursor, seen, failed, poll, restarts, missed>>

AllWraps == Wraps \cup Foreign

Stamps == 0..(MaxNow + 1)

NoPoll == [pc |-> "idle", now |-> 0, since |-> 0, batch |-> {}]

CursorTypeOK ==
    /\ now \in 0..MaxNow
    /\ stamp \in [AllWraps -> Stamps \cup {Unsent}]
    /\ cursor \in 0..now
    /\ seen \subseteq Wraps
    /\ failed \subseteq Foreign
    /\ poll \in [PollSlots -> [pc : {"idle", "asking", "merging"}, now : 0..MaxNow,
                               since : 0..MaxNow, batch : SUBSET AllWraps]]
    /\ restarts \in 0..MaxRestarts
    /\ missed \subseteq Wraps

CursorInit ==
    /\ now = 0
    /\ stamp = [w \in AllWraps |-> Unsent]
    /\ cursor = 0
    /\ seen = {}
    /\ failed = {}
    /\ poll = [p \in PollSlots |-> NoPoll]
    /\ restarts = 0
    /\ missed = {}

OnRelay == {w \in AllWraps : stamp[w] # Unsent}

Behind(t) == IF t > Margin THEN t - Margin ELSE 0

-----------------------------------------------------------------------------
(* The world *)

ClockTicks ==
    /\ now < MaxNow
    /\ now' = now + 1
    /\ UNCHANGED <<stamp, cursor, seen, failed, poll, restarts, missed>>

\* A peer writes to us.
PostWrap(w) ==
    /\ w \in Wraps \ OnRelay
    /\ \E t \in Behind(now)..now : stamp' = [stamp EXCEPT ![w] = t]
    /\ UNCHANGED <<now, cursor, seen, failed, poll, restarts, missed>>

PostForeign(w) ==
    /\ w \in Foreign \ OnRelay
    /\ \E t \in Stamps : stamp' = [stamp EXCEPT ![w] = t]
    /\ UNCHANGED <<now, cursor, seen, failed, poll, restarts, missed>>

-----------------------------------------------------------------------------
(* get_messages *)

\* dm_inbox_filter: the cursor, never one of the future, less the margin.
Since(at) == Behind(Min({cursor, at}))

\* The clock is read before the fetch, and the cursor without the cache's lock.
StartPoll(p) ==
    /\ poll[p].pc = "idle"
    /\ poll' = [poll EXCEPT ![p] = [pc |-> "asking", now |-> now,
                                    since |-> Since(now), batch |-> {}]]
    /\ UNCHANGED <<now, stamp, cursor, seen, failed, restarts, missed>>

\* Messages on a relay that are not decoded yet.
Unread == (Wraps \cap OnRelay) \ seen

InWindow(p) == {w \in OnRelay : stamp[w] >= poll[p].since}

\* RelayClient::fetch answers with what some of the relays gave: one that is down or
\* slow gives nothing, and none gives more than the filter's limit.
FetchWindow(p) ==
    /\ poll[p].pc = "asking"
    /\ \E batch \in SUBSET InWindow(p) :
          /\ poll' = [poll EXCEPT ![p].pc = "merging", ![p].batch = batch]
          /\ missed' = missed \cup ((InWindow(p) \cap Unread) \ batch)
    /\ UNCHANGED <<now, stamp, cursor, seen, failed, restarts>>

FetchFailed(p) ==
    /\ poll[p].pc = "asking"
    /\ poll' = [poll EXCEPT ![p] = NoPoll]
    /\ UNCHANGED <<now, stamp, cursor, seen, failed, restarts, missed>>

\* Mutant of Clamped, for PartsTypeOK.
NotClamped(p, w) == stamp[w]

\* A stamp counts at most as the time the poll began.
Clamped(p, w) == Min({stamp[w], poll[p].now})

\* The wraps whose outcome is final: decoded now or before, or known to fail. A
\* wrap that fails for the first time is not among them.
Settled(p) == (poll[p].batch \cap Wraps) \cup (poll[p].batch \cap failed)

\* Mutant of Decoded, for EveryWrapDecoded.
DecodedNewer(p) == {w \in poll[p].batch \cap Wraps : stamp[w] > cursor}

Decoded(p) == poll[p].batch \cap Wraps

\* merge_wraps_into_cache, under DM_CACHE_LOCK on the cache loaded under it.
MergeWraps(p) ==
    /\ poll[p].pc = "merging"
    /\ seen' = seen \cup Decoded(p)
    /\ failed' = failed \cup (poll[p].batch \cap Foreign)
    /\ cursor' = Max({Min({cursor, poll[p].now})} \cup {Clamped(p, w) : w \in Settled(p)})
    /\ poll' = [poll EXCEPT ![p] = NoPoll]
    /\ UNCHANGED <<now, stamp, restarts, missed>>

AppRestarts ==
    /\ restarts < MaxRestarts
    /\ restarts' = restarts + 1
    /\ failed' = {}
    /\ poll' = [p \in PollSlots |-> NoPoll]
    /\ UNCHANGED <<now, stamp, cursor, seen, missed>>

CursorNext ==
    \/ ClockTicks \/ AppRestarts
    \/ \E w \in AllWraps : PostWrap(w) \/ PostForeign(w)
    \/ \E p \in PollSlots : StartPoll(p) \/ FetchWindow(p) \/ FetchFailed(p) \/ MergeWraps(p)

CursorSpec == CursorInit /\ [][CursorNext]_cursorVars

\* The chat polls for as long as there is something to read, and a poll that has
\* its answer merges it.
CursorLoopFairness ==
    \A p \in PollSlots :
        WF_cursorVars(Unread # {} /\ StartPoll(p)) /\ WF_cursorVars(MergeWraps(p))

\* Some poll is given the message w.
Given(w) == \E p \in PollSlots : FetchWindow(p) /\ w \in poll'[p].batch

\* Relays that are asked for a message again and again give it some time.
CursorFairness == CursorLoopFairness /\ \A w \in Wraps : SF_cursorVars(Given(w))

CursorFairSpec == CursorSpec /\ CursorFairness

-----------------------------------------------------------------------------
(* Properties *)

\* A message that the window of the next poll leaves out before it is decoded.
Stranded(w) == w \in Unread /\ stamp[w] < Behind(cursor)

\* The cursor strands no message that every poll whose window held it was given,
\* whatever wraps of others pushed the cursor, however polls overlap and whenever the
\* message arrived (merge_wraps_into_cache, dm_inbox_filter).
StrandedWereMissed == \A w \in Wraps : Stranded(w) => w \in missed

\* What the comment of merge_wraps_into_cache promises, also for a message on a relay
\* that was silent while another answered: "the cursor never advances past a wrap that
\* might still be decodable".
NoStrandedWrap == \A w \in Wraps : ~Stranded(w)

\* Every message that a relay has is decoded in the end, however many polls were not
\* given it, unless the cursor left it behind; wraps that never decode do not wedge
\* the poll (get_messages, merge_wraps_into_cache).
EveryWrapDecoded == \A w \in Wraps : w \in OnRelay ~> w \in seen \/ Stranded(w)

=============================================================================
