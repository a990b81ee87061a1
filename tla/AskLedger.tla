----------------------------- MODULE AskLedger -----------------------------
(***************************************************************************)
(* The asker's side of a full-list request: the durable ask trace          *)
(* (store.rs, manifest_asks.json under MANIFEST_ASKS_LOCK) and the tasks   *)
(* that read and write it concurrently: the commands that send an ask      *)
(* (commands/chat.rs), the redemptions of the Chat page, and the           *)
(* background fetch driver, which expires entries, drains the tickets that *)
(* arrived and asks again (fetch_driver.rs, commands/fulfil.rs).           *)
(*                                                                         *)
(* Time counts in units of one driver poll. A ticket is identified by the  *)
(* request id its issuer minted; peers may issue several tickets for one   *)
(* ask, and the relay replays them for as long as it likes.                *)
(***************************************************************************)
EXTENDS Naturals, FiniteSets

CONSTANTS
    Keys,         \* peer|author|slug keys of the trace
    PeerOf,       \* [Keys -> peers]: the first segment of a key
    AuthorOf,     \* [Keys -> authors]: the second segment
    Ids,          \* request ids
    Users,        \* ask commands in flight at once, besides the driver's own
    Chats,        \* redemptions the Chat page may have in flight at once
    Driver,       \* the fetch driver's task
    DialCap,      \* REDEEM_DIAL_CAP
    BackoffBase,  \* REDEEM_DIAL_BACKOFF_BASE_SECS
    Grace,        \* MANIFEST_ASK_LIVENESS_GRACE_SECS
    Retention,    \* MANIFEST_ASK_RETENTION_SECS
    MaxAsks,      \* bound of the model: asks sent in one run
    MaxTime,      \* bound of the model: the clock
    BatchSize,    \* bound of the model: wraps one inbox fetch returns
    MaxRestarts,  \* bound of the model: crashes and quits
    MaxLostWrites, \* bound of the model: best-effort writes that fail
    NONE

ASSUME KeyAssumption ==
    PeerOf \in [Keys -> UNION {{PeerOf[k]} : k \in Keys}]
        /\ AuthorOf \in [Keys -> UNION {{AuthorOf[k]} : k \in Keys}]
ASSUME NoneAssumption == NONE \notin Ids \cup Keys
ASSUME TaskAssumption == Driver \notin Users \cup Chats
ASSUME CapAssumption == DialCap # 0
ASSUME BoundAssumption ==
    {DialCap, BackoffBase, Grace, Retention, MaxAsks, MaxTime, BatchSize,
     MaxRestarts, MaxLostWrites}
        \subseteq Nat

VARIABLES
    now,        \* wall clock
    minted,     \* asks sent so far; the nonce of the n-th is n
    sentTo,     \* the key each nonce was sent for
    ask,        \* the ask trace on disk
    asker,      \* ask commands between the send and the record
    tickets,    \* tickets issued, all on the relay
    proc,       \* redemptions in flight
    driver,     \* the fetch driver's poll
    page,       \* the Chat page: its copy of the trace and its ledger
    recorded,   \* history: every ask recorded
    dialled,    \* history: tickets whose address was dialled
    delivered,  \* history: nonces whose manifest was cached
    settled,    \* history: nonces of the redemptions whose spend was written
    dials,      \* history: the driver's dials of each nonce
    failed,     \* history: the driver's granted attempts that failed, by nonce
    attended,   \* history: the Chat page has redeemed a ticket
    restarts,   \* crashes and quits so far
    lostWrites  \* best-effort writes that failed so far

history == <<recorded, dialled, delivered, settled, dials, failed, attended>>

faults == <<restarts, lostWrites>>

vars == <<now, minted, sentTo, ask, asker, tickets, proc, driver, page, history, faults>>

Nonces == 1 .. MaxAsks
Askers == Users \cup {Driver}
Redeemers == Chats \cup {Driver}
Ticket == [id : Ids, key : Keys, nonce : Nonces]

\* An absent entry is one with nonce 0; claimedBy NONE is claimed_by: None.
NoAsk == [nonce |-> 0, claimedBy |-> NONE, spent |-> FALSE,
          attempts |-> 0, lastFail |-> 0, sentAt |-> 0]

NotAsking == [key |-> NONE, nonce |-> 0]

NotRedeeming == [pc |-> "idle", id |-> NONE, key |-> NONE, nonce |-> 0, mine |-> FALSE]

\* The driver's task between polls, and after the drain of a poll.
Sleeping == [pc |-> "sleeping", snap |-> [k \in Keys |-> NoAsk], allow |-> {},
             now |-> 0, fetched |-> {}, left |-> 0]

Discovering == [Sleeping EXCEPT !.pc = "discovering"]

FreshPage == [loaded |-> FALSE, nonces |-> [k \in Keys |-> 0],
              state |-> [i \in Ids |-> "new"], spent |-> {}]

Ask == [nonce : 0 .. MaxAsks, claimedBy : Ids \cup {NONE}, spent : BOOLEAN,
        attempts : Nat, lastFail : Nat, sentAt : Nat]

Redemption == [pc : {"idle", "started", "claimed", "dialling", "accepted", "failed", "noted"},
               id : Ids \cup {NONE}, key : Keys \cup {NONE},
               nonce : 0 .. MaxAsks, mine : BOOLEAN]

Poll == [pc : {"sleeping", "expired", "loaded", "draining", "discovering"},
         snap : [Keys -> Ask], allow : SUBSET {PeerOf[k] : k \in Keys},
         now : Nat, fetched : SUBSET Ticket, left : Nat]

Page == [loaded : BOOLEAN, nonces : [Keys -> 0 .. MaxAsks],
         state : [Ids -> {"new", "redeeming", "done", "failed"}],
         spent : SUBSET Nonces]

TypeOK ==
    /\ now \in Nat
    /\ minted \in 0 .. MaxAsks
    /\ sentTo \in [Nonces -> Keys \cup {NONE}]
    /\ ask \in [Keys -> Ask]
    /\ asker \in [Askers -> [key : Keys \cup {NONE}, nonce : 0 .. MaxAsks]]
    /\ tickets \subseteq Ticket
    /\ proc \in [Redeemers -> Redemption]
    /\ driver \in Poll
    /\ page \in Page
    /\ recorded \subseteq [key : Keys, nonce : Nonces, at : Nat]
    /\ dialled \subseteq Ticket
    /\ delivered \subseteq Nonces
    /\ settled \subseteq Nonces
    /\ dials \in [Nonces -> Nat]
    /\ failed \in [Nonces -> Nat]
    /\ attended \in BOOLEAN
    /\ restarts \in Nat
    /\ lostWrites \in Nat

Init ==
    /\ now = 0
    /\ minted = 0
    /\ sentTo = [n \in Nonces |-> NONE]
    /\ ask = [k \in Keys |-> NoAsk]
    /\ asker = [a \in Askers |-> NotAsking]
    /\ tickets = {}
    /\ proc = [r \in Redeemers |-> NotRedeeming]
    /\ driver = Sleeping
    /\ page = FreshPage
    /\ recorded = {}
    /\ dialled = {}
    /\ delivered = {}
    /\ settled = {}
    /\ dials = [n \in Nonces |-> 0]
    /\ failed = [n \in Nonces |-> 0]
    /\ attended = FALSE
    /\ restarts = 0
    /\ lostWrites = 0

Present(k) == ask[k].nonce # 0

\* The ticket a redemption is about.
TicketOf(r) == [id |-> proc[r].id, key |-> proc[r].key, nonce |-> proc[r].nonce]

(***************************************************************************)
(* Sending an ask: the nonce is minted and sent, then recorded in a later  *)
(* step. The driver asks for unheld collections at the end of a poll.      *)
(***************************************************************************)
SendAsk(a, k) ==
    /\ asker[a] = NotAsking
    /\ a = Driver => driver.pc = "discovering"
    /\ minted < MaxAsks
    /\ minted' = minted + 1
    /\ sentTo' = [sentTo EXCEPT ![minted + 1] = k]
    /\ asker' = [asker EXCEPT ![a] = [key |-> k, nonce |-> minted + 1]]
    /\ UNCHANGED <<now, ask, tickets, proc, driver, page, history, faults>>

\* record_manifest_ask: a re-ask replaces the entry, its claim and its budget.
Renewed(k, n) == [NoAsk EXCEPT !.nonce = n, !.sentAt = now]

RecordAsk(a) ==
    LET k == asker[a].key
        n == asker[a].nonce
    IN  /\ asker[a] # NotAsking
        /\ ask' = [ask EXCEPT ![k] = Renewed(k, n)]
        /\ recorded' = recorded \cup {[key |-> k, nonce |-> n, at |-> now]}
        /\ asker' = [asker EXCEPT ![a] = NotAsking]
        /\ UNCHANGED <<now, minted, sentTo, tickets, proc, driver, page, dialled,
                       delivered, settled, dials, failed, attended, faults>>

\* The command fails although the relay took the message: nothing is recorded.
AbandonAsk(a) ==
    /\ asker[a] # NotAsking
    /\ asker' = [asker EXCEPT ![a] = NotAsking]
    /\ UNCHANGED <<now, minted, sentTo, ask, tickets, proc, driver, page, history, faults>>

\* The asked peer answers an ask it received, as often as it likes, each time
\* with a ticket under a fresh request id.
IssueTicket(n, i) ==
    /\ n <= minted
    /\ \A t \in tickets : t.id # i
    /\ tickets' = tickets \cup {[id |-> i, key |-> sentTo[n], nonce |-> n]}
    /\ UNCHANGED <<now, minted, sentTo, ask, asker, proc, driver, page, history, faults>>

(***************************************************************************)
(* The store's claim, spend and failure note, each one locked              *)
(* load-modify-save.                                                       *)
(***************************************************************************)
\* Mutant of Admits, for OneTicketPerAsk: any ticket with the nonce may dial.
AdmitsAnyTicket(entry, nonce, id) == entry.nonce = nonce /\ ~entry.spent

\* Mutant of Admits, for DialsAnswerRecordedAsks: the key alone is matched.
AdmitsAnyNonce(entry, nonce, id) ==
    entry.nonce # 0 /\ ~entry.spent /\ entry.claimedBy \in {NONE, id}

\* claim_manifest_ask answers Granted.
Admits(entry, nonce, id) ==
    /\ entry.nonce = nonce
    /\ ~entry.spent
    /\ entry.claimedBy \in {NONE, id}

\* Mutant of Spent, for SpentByOwnDelivery: the nonce is not compared.
SpentWhicheverNonce(entry, nonce) ==
    IF entry.nonce # 0 THEN [entry EXCEPT !.spent = TRUE] ELSE entry

\* spend_manifest_ask.
Spent(entry, nonce) ==
    IF entry.nonce = nonce THEN [entry EXCEPT !.spent = TRUE] ELSE entry

\* Mutant of Noted, for OwnBudgetHolds: whose claim it is is not compared.
NotedForAnyTicket(entry, id) ==
    IF entry.nonce = 0 \/ entry.spent
    THEN entry
    ELSE [entry EXCEPT !.attempts = @ + 1, !.lastFail = now]

\* note_failed_dial: only a failure of the ticket that holds the claim counts.
Noted(entry, id) ==
    IF entry.spent \/ entry.claimedBy # id
    THEN entry
    ELSE [entry EXCEPT !.attempts = @ + 1, !.lastFail = now]

(***************************************************************************)
(* One redemption, as redeem_manifest_ticket_with_progress runs it for the *)
(* Chat page and for the driver: claim, dial, fetch and accept, spend.     *)
(***************************************************************************)
\* The end of a redemption on the side that asked for it: the driver goes on
\* to note a failure, the page's ledger settles unless the page was left.
Released(r) ==
    IF r = Driver
    THEN UNCHANGED page
    ELSE page' = IF proc[r].mine
                 THEN [page EXCEPT !.state = [@ EXCEPT ![proc[r].id] = "failed"]]
                 ELSE page

Fail(r) ==
    /\ proc' = [proc EXCEPT ![r] = IF r = Driver THEN [@ EXCEPT !.pc = "failed"]
                                                 ELSE NotRedeeming]
    /\ Released(r)

Advance(r, pc) == proc' = [proc EXCEPT ![r] = [@ EXCEPT !.pc = pc]]

\* Mutant of ClaimGranted, for KeepsRedemption: the grant is not written to the trace.
ClaimUnwritten(r) ==
    /\ proc[r].pc = "started"
    /\ Admits(ask[proc[r].key], proc[r].nonce, proc[r].id)
    /\ Advance(r, "claimed")
    /\ UNCHANGED <<now, minted, sentTo, ask, asker, tickets, driver, page, history, faults>>

ClaimGranted(r) ==
    /\ proc[r].pc = "started"
    /\ Admits(ask[proc[r].key], proc[r].nonce, proc[r].id)
    /\ ask' = [ask EXCEPT ![proc[r].key] = [@ EXCEPT !.claimedBy = proc[r].id]]
    /\ Advance(r, "claimed")
    /\ UNCHANGED <<now, minted, sentTo, asker, tickets, driver, page, history, faults>>

\* Unsolicited, Spent or ClaimedByAnother.
ClaimRefused(r) ==
    /\ proc[r].pc = "started"
    /\ ~Admits(ask[proc[r].key], proc[r].nonce, proc[r].id)
    /\ Fail(r)
    /\ UNCHANGED <<now, minted, sentTo, ask, asker, tickets, driver, history, faults>>

Counted(count, r) ==
    IF r = Driver THEN [count EXCEPT ![proc[r].nonce] = @ + 1] ELSE count

\* ensure_endpoint and the throttle are behind it; the ticket's address is dialled.
Dial(r) ==
    /\ proc[r].pc = "claimed"
    /\ Advance(r, "dialling")
    /\ dialled' = dialled \cup {TicketOf(r)}
    /\ dials' = Counted(dials, r)
    /\ UNCHANGED <<now, minted, sentTo, ask, asker, tickets, driver, page, recorded,
                   delivered, settled, failed, attended, faults>>

\* No endpoint, no answer, a broken stream, a manifest the gate refused, or one it
\* cached but whose acknowledgement could not be sent.
AttemptFails(r) ==
    /\ proc[r].pc \in {"claimed", "dialling", "accepted"}
    /\ Fail(r)
    /\ failed' = Counted(failed, r)
    /\ UNCHANGED <<now, minted, sentTo, ask, asker, tickets, driver, recorded, dialled,
                   delivered, settled, dials, attended, faults>>

\* The manifest arrived, passed the gate and is cached.
Accept(r) ==
    /\ proc[r].pc = "dialling"
    /\ Advance(r, "accepted")
    /\ delivered' = delivered \cup {proc[r].nonce}
    /\ UNCHANGED <<now, minted, sentTo, ask, asker, tickets, driver, page, recorded,
                   dialled, settled, dials, failed, attended, faults>>

\* The redemption returns Ok, whether or not the spend could be written.
Succeed(r) ==
    /\ proc[r].pc = "accepted"
    /\ proc' = [proc EXCEPT ![r] = NotRedeeming]
    /\ IF r = Driver
       THEN driver' = [driver EXCEPT !.left = @ - 1] /\ UNCHANGED page
       ELSE /\ UNCHANGED driver
            /\ page' = IF proc[r].mine
                       THEN [page EXCEPT !.state = [@ EXCEPT ![proc[r].id] = "done"],
                                         !.spent = @ \cup {proc[r].nonce},
                                         !.loaded = FALSE,
                                         !.nonces = FreshPage.nonces]
                       ELSE page
    /\ UNCHANGED <<now, minted, sentTo, asker, tickets, recorded, dialled, delivered,
                   dials, failed, attended>>

SpendAsk(r) ==
    /\ proc[r].pc = "accepted"
    /\ ask' = [ask EXCEPT ![proc[r].key] = Spent(@, proc[r].nonce)]
    /\ settled' = settled \cup {proc[r].nonce}
    /\ Succeed(r)
    /\ UNCHANGED faults

SpendFails(r) ==
    /\ lostWrites < MaxLostWrites /\ UNCHANGED restarts
    /\ lostWrites' = lostWrites + 1
    /\ Succeed(r)
    /\ UNCHANGED <<ask, settled>>

(***************************************************************************)
(* The Chat page: a ticket is redeemed when it is first rendered, gated by *)
(* the page's copy of the trace and by its RedemptionLedger, both of which *)
(* live as long as the page component.                                     *)
(***************************************************************************)
LoadAsks ==
    /\ ~page.loaded
    /\ page' = [page EXCEPT !.loaded = TRUE, !.nonces = [k \in Keys |-> ask[k].nonce]]
    /\ UNCHANGED <<now, minted, sentTo, ask, asker, tickets, proc, driver, history, faults>>

\* #asksInFlight.
InFlightOnPage(n) == \E c \in Chats : proc[c].mine /\ proc[c].nonce = n

\* claim and claimRetry: a new or a failed ticket, of an ask neither spent nor
\* in flight here.
ChatRedeem(c, t) ==
    /\ proc[c].pc = "idle"
    /\ page.loaded
    /\ page.nonces[t.key] = t.nonce
    /\ page.state[t.id] \in {"new", "failed"}
    /\ t.nonce \notin page.spent
    /\ ~InFlightOnPage(t.nonce)
    /\ proc' = [proc EXCEPT ![c] = [pc |-> "started", id |-> t.id, key |-> t.key,
                                    nonce |-> t.nonce, mine |-> TRUE]]
    /\ page' = [page EXCEPT !.state = [@ EXCEPT ![t.id] = "redeeming"]]
    /\ attended' = TRUE
    /\ UNCHANGED <<now, minted, sentTo, ask, asker, tickets, driver, recorded, dialled,
                   delivered, settled, dials, failed, faults>>

\* The user leaves the page and comes back; redemptions in flight go on.
RemountPage ==
    /\ page # FreshPage
    /\ page' = FreshPage
    /\ proc' = [r \in Redeemers |-> [proc[r] EXCEPT !.mine = FALSE]]
    /\ UNCHANGED <<now, minted, sentTo, ask, asker, tickets, driver, history, faults>>

(***************************************************************************)
(* The driver's poll: expire, drain the tickets, discover.                 *)
(***************************************************************************)
\* manifest_ask_is_expired.
Expired(k) == now >= ask[k].sentAt + Retention

\* Mutant of Unlisted, for InFlightAskKept: a claimed ask may go at once.
UnlistedThoughClaimed(k, author, listed) ==
    AuthorOf[k] = author /\ k \notin listed /\ now >= ask[k].sentAt + Grace

\* manifest_ask_is_unlisted: not while it is claimed and unspent, nor young.
Unlisted(k, author, listed) ==
    /\ AuthorOf[k] = author
    /\ k \notin listed
    /\ ask[k].spent \/ ask[k].claimedBy = NONE
    /\ now >= ask[k].sentAt + Grace

Evict(dead) == ask' = [k \in Keys |-> IF Present(k) /\ k \in dead THEN NoAsk ELSE ask[k]]

\* evict_expired_manifest_asks.
StartPoll ==
    /\ driver.pc = "sleeping"
    /\ Evict({k \in Keys : Expired(k)})
    /\ driver' = [driver EXCEPT !.pc = "expired"]
    /\ UNCHANGED <<now, minted, sentTo, asker, tickets, proc, page, history, faults>>

\* The poll's one reading of the trace and of the clock.
LoadSnapshot ==
    /\ driver.pc = "expired"
    /\ driver' = IF \E k \in Keys : Present(k)
                 THEN [driver EXCEPT !.pc = "loaded", !.snap = ask, !.now = now,
                                     !.allow = {PeerOf[k] : k \in {j \in Keys : Present(j)}}]
                 ELSE Discovering
    /\ UNCHANGED <<now, minted, sentTo, ask, asker, tickets, proc, page, history, faults>>

\* The inbox as the relay answers it: any subset of the wraps, in any order.
FetchInbox ==
    /\ driver.pc = "loaded"
    /\ driver' = [driver EXCEPT !.pc = "draining", !.fetched = tickets, !.left = BatchSize]
    /\ UNCHANGED <<now, minted, sentTo, ask, asker, tickets, proc, page, history, faults>>

FetchFails ==
    /\ driver.pc = "loaded"
    /\ driver' = Discovering
    /\ UNCHANGED <<now, minted, sentTo, ask, asker, tickets, proc, page, history, faults>>

\* redeem_backoff_for and redeem_dial_ready.
Backoff(attempts) == IF attempts = 0 THEN 0 ELSE BackoffBase * 2 ^ (attempts - 1)

DialReady(entry, at) ==
    /\ entry.attempts < DialCap
    /\ at >= entry.lastFail + Backoff(entry.attempts)

\* Mutant of Redeemable, for AnswerSettles: a claimed ask is never retried.
RedeemableUnclaimed(t) ==
    LET entry == driver.snap[t.key]
    IN  entry.nonce # 0 =>
            ~entry.spent /\ entry.claimedBy = NONE /\ DialReady(entry, driver.now)

\* A spent ask is skipped, one in backoff or exhausted is skipped; an ask
\* missing from the snapshot is left to the claim.
Redeemable(t) ==
    LET entry == driver.snap[t.key]
    IN  entry.nonce # 0 => ~entry.spent /\ DialReady(entry, driver.now)

Draining == driver.pc = "draining" /\ proc[Driver].pc = "idle"

DriverRedeem(t) ==
    /\ Draining
    /\ driver.left > 0
    /\ t \in driver.fetched
    /\ PeerOf[t.key] \in driver.allow
    /\ Redeemable(t)
    /\ proc' = [proc EXCEPT ![Driver] = [pc |-> "started", id |-> t.id, key |-> t.key,
                                         nonce |-> t.nonce, mine |-> FALSE]]
    /\ UNCHANGED <<now, minted, sentTo, ask, asker, tickets, driver, page, history, faults>>

NoteFailure ==
    /\ proc[Driver].pc = "failed"
    /\ Advance(Driver, "noted")
    /\ \/ /\ ask' = [ask EXCEPT ![proc[Driver].key] = Noted(@, proc[Driver].id)]
          /\ UNCHANGED faults
       \/ /\ lostWrites < MaxLostWrites /\ UNCHANGED restarts
          /\ lostWrites' = lostWrites + 1
          /\ UNCHANGED ask
    /\ UNCHANGED <<now, minted, sentTo, asker, tickets, driver, page, history>>

\* mirror_noted_dial: the entry is read back, so the rest of the poll sees it.
Mirrored(k) == ask[k]

MirrorFailure ==
    /\ proc[Driver].pc = "noted"
    /\ driver' = [driver EXCEPT
                     !.snap = [@ EXCEPT ![proc[Driver].key] = Mirrored(proc[Driver].key)],
                     !.left = @ - 1]
    /\ proc' = [proc EXCEPT ![Driver] = NotRedeeming]
    /\ UNCHANGED <<now, minted, sentTo, ask, asker, tickets, page, history, faults>>

EndDrain ==
    /\ Draining
    /\ driver' = Discovering
    /\ UNCHANGED <<now, minted, sentTo, ask, asker, tickets, proc, page, history, faults>>

\* evict_unlisted_manifest_asks, for one author whose listing arrived.
EvictUnlisted(author, listed) ==
    /\ driver.pc = "discovering"
    /\ asker[Driver] = NotAsking
    /\ Evict({k \in Keys : Unlisted(k, author, listed)})
    /\ UNCHANGED <<now, minted, sentTo, asker, tickets, proc, driver, page, history, faults>>

EndPoll ==
    /\ driver.pc = "discovering"
    /\ asker[Driver] = NotAsking
    /\ driver' = Sleeping
    /\ UNCHANGED <<now, minted, sentTo, ask, asker, tickets, proc, page, history, faults>>

Tick ==
    /\ now < MaxTime
    /\ now' = now + 1
    /\ UNCHANGED <<minted, sentTo, ask, asker, tickets, proc, driver, page, history, faults>>

\* A crash or a quit: only the trace and the cache survive.
Restart ==
    /\ restarts < MaxRestarts
    /\ restarts' = restarts + 1
    /\ UNCHANGED lostWrites
    /\ asker' = [a \in Askers |-> NotAsking]
    /\ proc' = [r \in Redeemers |-> NotRedeeming]
    /\ driver' = Sleeping
    /\ page' = FreshPage
    /\ UNCHANGED <<now, minted, sentTo, ask, tickets, history>>

Redeem(r) ==
    \/ ClaimGranted(r) \/ ClaimRefused(r)
    \/ Dial(r) \/ AttemptFails(r) \/ Accept(r)
    \/ SpendAsk(r) \/ SpendFails(r)

Next ==
    \/ \E a \in Askers : RecordAsk(a) \/ AbandonAsk(a) \/ \E k \in Keys : SendAsk(a, k)
    \/ \E n \in Nonces, i \in Ids : IssueTicket(n, i)
    \/ \E r \in Redeemers : Redeem(r)
    \/ LoadAsks \/ RemountPage
    \/ \E c \in Chats, t \in tickets : ChatRedeem(c, t)
    \/ StartPoll \/ LoadSnapshot \/ FetchInbox \/ FetchFails
    \/ \E t \in tickets : DriverRedeem(t)
    \/ NoteFailure \/ MirrorFailure \/ EndDrain
    \/ \E author \in {AuthorOf[k] : k \in Keys}, listed \in SUBSET Keys :
          EvictUnlisted(author, listed)
    \/ EndPoll \/ Tick \/ Restart

Spec == Init /\ [][Next]_vars

\* Time passes; the driver's loop runs for the life of the process; every wait in it
\* has a deadline; a fetch that answers may bring each ticket a relay still holds.
LoopFairness ==
    /\ WF_vars(StartPoll) /\ WF_vars(LoadSnapshot)
    /\ \A t \in Ticket : SF_vars(DriverRedeem(t))
    /\ WF_vars(Redeem(Driver)) /\ WF_vars(NoteFailure) /\ WF_vars(MirrorFailure)
    /\ WF_vars(EndDrain) /\ WF_vars(EndPoll) /\ WF_vars(Tick)
    /\ \A a \in Askers : WF_vars(RecordAsk(a) \/ AbandonAsk(a))

\* The inbox that is asked again and again answers some time.
Fairness == LoopFairness /\ SF_vars(FetchInbox)

FairSpec == Spec /\ Fairness

(***************************************************************************)
(* Properties                                                              *)
(***************************************************************************)
\* The redemptions that hold a granted claim.
Admitted == {"claimed", "dialling", "accepted"}

\* One ask admits one ticket: whatever tickets a peer issues for a nonce, across
\* both redeemers, retries, evictions and restarts, only one is ever dialled.
OneTicketPerAsk == \A s, t \in dialled : s.nonce = t.nonce => s.id = t.id

\* Every dial answers an ask this node recorded, for the collection it recorded.
DialsAnswerRecordedAsks ==
    \A t \in dialled : \E q \in recorded : q.key = t.key /\ q.nonce = t.nonce

\* An ask is spent only by a delivery of its own nonce: the late completion of
\* an older ticket never spends the re-ask that replaced it.
SpentByOwnDelivery == \A k \in Keys : ask[k].spent => ask[k].nonce \in delivered

\* The dial budget of an ask counts no more than the attempts that were granted
\* for that very ask and failed: refusals and older asks' failures are not charged.
FailuresCharged ==
    \A k \in Keys : Present(k) => ask[k].attempts <= failed[ask[k].nonce]

\* The unattended loop dials an ask at most DialCap times, one more for each
\* restart or lost write that can lose a failure note.
DialBudget == \A n \in Nonces : dials[n] <= DialCap + restarts + lostWrites

\* The driver stays inside its budget, whatever runs beside it, and one that has had the
\* trace to itself is charged for its own failures alone. Beside the Chat page a refusal
\* may be charged to the ask (store.rs:1467 takes the page's claim for the driver's).
OwnBudgetHolds == DialBudget /\ (~attended => FailuresCharged)

\* Eviction spares what is in use: a redemption that holds a claim still finds its
\* ask, unless the ask was answered, renewed or past its retention.
InFlightAskKept ==
    \A r \in Redeemers : proc[r].pc \in Admitted =>
        \/ ask[proc[r].key].nonce = proc[r].nonce
        \/ proc[r].nonce \in delivered
        \/ \E p \in recorded :
              /\ p.key = proc[r].key
              /\ p.nonce = proc[r].nonce
              /\ \/ now >= p.at + Retention
                 \/ \E q \in recorded : q.key = p.key /\ q.nonce # p.nonce /\ q.at >= p.at

\* Once a redemption has written its spend, no claim of that ask is granted again,
\* by either redeemer, across re-asks, evictions and restarts.
SettledAskStaysClosed ==
    [][\A r \in Redeemers :
          proc[r].pc = "started" /\ proc'[r].pc = "claimed"
             => proc[r].nonce \notin settled]_vars

\* A ticket that answers the current ask does not lie there: the unattended loop
\* gets the ask delivered or uses up its dials, unless the ask is renewed or evicted
\* first (or the model's clock stops inside a backoff).
Over(t) ==
    LET entry == ask[t.key]
    IN  \/ entry.nonce # t.nonce \/ entry.spent \/ entry.attempts >= DialCap
        \/ now = MaxTime /\ ~DialReady(entry, now)

AnswerSettles ==
    \A t \in Ticket : t \in tickets /\ ask[t.key].nonce = t.nonce ~> Over(t)

-----------------------------------------------------------------------------
(* The trace as Redemption sees it: records, grants and what became of them *)

NoTicket == [id |-> NONE, key |-> NONE, nonce |-> 0]

AsksView == {[key |-> q.key, nonce |-> q.nonce] : q \in recorded}

HoldsView == [r \in Redeemers |-> IF proc[r].pc \in Admitted THEN TicketOf(r) ELSE NoTicket]

Redeeming ==
    INSTANCE Redemption WITH
        Asks <- [key : Keys, nonce : Nonces], Tickets <- Ticket, asked <- AsksView, holds <- HoldsView,
        answered <- delivered, closed <- settled

\* The locked trace, its evictions and its lost writes, with a page and a driver that
\* decide on copies of it, redeem each ask as Redemption says.
KeepsRedemption == Redeeming!Spec

=============================================================================
