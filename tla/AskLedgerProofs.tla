-------------------------- MODULE AskLedgerProofs --------------------------
(***************************************************************************)
(* Safety of the ask trace, for every number of keys, tickets, concurrent  *)
(* ask commands and redemptions, every interleaving with evictions,        *)
(* restarts and lost writes, and every value of the caps and windows.      *)
(*                                                                         *)
(* The argument: a nonce is recorded at most once, right after it was      *)
(* sent. While an entry with that nonce exists it names the ticket that    *)
(* claimed it; when the entry is overwritten or evicted the nonce never    *)
(* comes back. So the tickets that ever held a claim of a nonce agree.     *)
(***************************************************************************)
EXTENDS AskLedger, TLAPS

\* A command between send and record holds a nonce that was minted.
AskersSent ==
    \A a \in Askers : asker[a] # NotAsking =>
        asker[a].key \in Keys /\ asker[a].nonce \in 1 .. minted

SentSomewhere == \A n \in 1 .. minted : sentTo[n] \in Keys

BusyHasTicket == \A r \in Redeemers : proc[r].pc # "idle" => TicketOf(r) \in Ticket

\* The driver redeems inside a drain, on a message it still has to consume.
DriverDraining ==
    proc[Driver].pc # "idle" => driver.pc = "draining" /\ driver.left > 0

TypeInv ==
    /\ TypeOK
    /\ AskersSent
    /\ SentSomewhere
    /\ BusyHasTicket
    /\ DriverDraining

-----------------------------------------------------------------------------
(* Type correctness *)

LEMMA BoundsAreNat ==
    /\ MaxAsks \in Nat /\ MaxTime \in Nat /\ BatchSize \in Nat
    /\ Retention \in Nat /\ Grace \in Nat
BY BoundAssumption

LEMMA IdleRecords ==
    /\ NoAsk \in Ask
    /\ NotRedeeming \in Redemption
    /\ Sleeping \in Poll
    /\ Discovering \in Poll
    /\ FreshPage \in Page
<1>1. 0 \in 0 .. MaxAsks
    BY BoundsAreNat
<1>2. NoAsk \in Ask
    BY <1>1 DEF NoAsk, Ask
<1>3. NotRedeeming \in Redemption
    BY <1>1 DEF NotRedeeming, Redemption
<1>4. Sleeping \in Poll
    BY <1>2 DEF Sleeping, Poll
<1>5. Discovering \in Poll
    BY <1>4 DEF Discovering, Poll
<1>6. FreshPage \in Page
    BY <1>1 DEF FreshPage, Page
<1> QED BY <1>2, <1>3, <1>4, <1>5, <1>6

LEMMA InitTypeInv == Init => TypeInv
<1> SUFFICES ASSUME Init PROVE TypeInv
    OBVIOUS
<1>1. 0 \in 0 .. MaxAsks
    BY BoundsAreNat
<1>2. NotAsking \in [key : Keys \cup {NONE}, nonce : 0 .. MaxAsks]
    BY <1>1 DEF NotAsking
<1>3. TypeOK
    BY <1>1, <1>2, IdleRecords DEF Init, TypeOK
<1>4. Driver \in Redeemers
    BY DEF Redeemers
<1>5. 1 .. minted = {}
    BY DEF Init
<1> QED BY <1>3, <1>4, <1>5
        DEF TypeInv, Init, AskersSent, SentSomewhere, BusyHasTicket, DriverDraining,
            NotRedeeming

\* The operations of the store keep an entry an entry.
LEMMA EntryTypes ==
    ASSUME TypeOK
    PROVE  /\ \A k \in Keys, n \in Nonces : Renewed(k, n) \in Ask
           /\ \A e \in Ask, n \in Nonces : Spent(e, n) \in Ask
           /\ \A e \in Ask, i \in Ids : Noted(e, i) \in Ask
<1>1. ASSUME NEW k \in Keys, NEW n \in Nonces PROVE Renewed(k, n) \in Ask
  <2>1. now \in Nat /\ n \in 0 .. MaxAsks
      BY <1>1, BoundsAreNat DEF TypeOK, Nonces
  <2> QED BY <2>1, IdleRecords DEF Renewed, Ask
<1>2. ASSUME NEW e \in Ask, NEW n \in Nonces PROVE Spent(e, n) \in Ask
    BY <1>2 DEF Spent, Ask
<1>3. ASSUME NEW e \in Ask, NEW i \in Ids PROVE Noted(e, i) \in Ask
  <2>1. now \in Nat /\ e.attempts + 1 \in Nat
      BY <1>3 DEF TypeOK, Ask
  <2>2. [e EXCEPT !.attempts = @ + 1, !.lastFail = now] \in Ask
      BY <1>3, <2>1 DEF Ask
  <2> QED BY <1>3, <2>2 DEF Noted
<1> QED BY <1>1, <1>2, <1>3

LEMMA AskCommandTypes ==
    ASSUME TypeInv, NEW a \in Askers,
           RecordAsk(a) \/ AbandonAsk(a) \/ \E k \in Keys : SendAsk(a, k)
    PROVE  TypeInv'
<1>0. NotAsking \in [key : Keys \cup {NONE}, nonce : 0 .. MaxAsks]
    BY BoundsAreNat DEF NotAsking
<1>1. ASSUME NEW k \in Keys, SendAsk(a, k) PROVE TypeInv'
  <2>1. minted + 1 \in Nonces /\ minted + 1 \in 0 .. MaxAsks
      BY <1>1, BoundsAreNat DEF SendAsk, Nonces, TypeInv, TypeOK
  <2>2. asker' \in [Askers -> [key : Keys \cup {NONE}, nonce : 0 .. MaxAsks]]
      BY <1>1, <2>1 DEF SendAsk, TypeInv, TypeOK
  <2>3. sentTo' \in [Nonces -> Keys \cup {NONE}]
      BY <1>1, <2>1 DEF SendAsk, TypeInv, TypeOK
  <2>4. TypeOK'
      BY <1>1, <2>1, <2>2, <2>3 DEF SendAsk, TypeInv, TypeOK, history, faults
  <2>5. AskersSent'
    <3>1. \A b \in Askers : b # a => asker'[b] = asker[b]
        BY <1>1 DEF SendAsk, TypeInv, TypeOK
    <3>2. asker'[a].key = k /\ asker'[a].nonce = minted + 1
        BY <1>1 DEF SendAsk, TypeInv, TypeOK
    <3>3. minted' = minted + 1 /\ minted \in Nat
        BY <1>1, BoundsAreNat DEF SendAsk, TypeInv, TypeOK
    <3> QED BY <3>1, <3>2, <3>3 DEF AskersSent, TypeInv
  <2>6. SentSomewhere'
    <3>1. \A n \in 1 .. minted' : n = minted + 1 \/ n \in 1 .. minted
        BY <1>1, BoundsAreNat DEF SendAsk, TypeInv, TypeOK
    <3>2. \A n \in 1 .. minted : n \in Nonces /\ n # minted + 1
        BY BoundsAreNat DEF TypeInv, TypeOK, Nonces
    <3> QED BY <1>1, <2>1, <3>1, <3>2 DEF SendAsk, TypeInv, TypeOK, SentSomewhere
  <2> QED BY <1>1, <2>4, <2>5, <2>6
          DEF SendAsk, TypeInv, BusyHasTicket, DriverDraining, TicketOf
<1>2. CASE RecordAsk(a)
  <2>1. asker[a].key \in Keys /\ asker[a].nonce \in Nonces
      BY <1>2, BoundsAreNat DEF RecordAsk, TypeInv, TypeOK, AskersSent, Nonces
  <2>2. ask' \in [Keys -> Ask]
      BY <1>2, <2>1, EntryTypes DEF RecordAsk, TypeInv, TypeOK
  <2>3. recorded' \subseteq [key : Keys, nonce : Nonces, at : Nat]
      BY <1>2, <2>1 DEF RecordAsk, TypeInv, TypeOK
  <2>4. asker' \in [Askers -> [key : Keys \cup {NONE}, nonce : 0 .. MaxAsks]]
      BY <1>0, <1>2 DEF RecordAsk, TypeInv, TypeOK
  <2>5. TypeOK'
      BY <1>2, <2>2, <2>3, <2>4 DEF RecordAsk, TypeInv, TypeOK, faults
  <2> QED BY <1>2, <2>5 DEF RecordAsk, TypeInv, TypeOK, AskersSent, SentSomewhere,
                            BusyHasTicket, DriverDraining, TicketOf
<1>3. CASE AbandonAsk(a)
  <2>1. TypeOK'
      BY <1>0, <1>3 DEF AbandonAsk, TypeInv, TypeOK, history, faults
  <2> QED BY <1>3, <2>1 DEF AbandonAsk, TypeInv, TypeOK, AskersSent, SentSomewhere,
                            BusyHasTicket, DriverDraining, TicketOf
<1> QED BY <1>1, <1>2, <1>3

LEMMA IssueTicketTypes ==
    ASSUME TypeInv, NEW n \in Nonces, NEW i \in Ids, IssueTicket(n, i)
    PROVE  TypeInv'
<1>1. n \in 1 .. minted
    BY BoundsAreNat DEF IssueTicket, TypeInv, TypeOK, Nonces
<1>2. [id |-> i, key |-> sentTo[n], nonce |-> n] \in Ticket
    BY <1>1 DEF TypeInv, SentSomewhere, Ticket
<1>3. TypeOK'
    BY <1>2 DEF IssueTicket, TypeInv, TypeOK, history, faults
<1> QED BY <1>3 DEF IssueTicket, TypeInv, AskersSent, SentSomewhere, BusyHasTicket,
                    DriverDraining, TicketOf

\* What a step of a redemption reads: its ticket, and who it may be.
LEMMA BusyFields ==
    ASSUME TypeInv, NEW r \in Redeemers, proc[r].pc # "idle"
    PROVE  proc[r].id \in Ids /\ proc[r].key \in Keys /\ proc[r].nonce \in Nonces
BY DEF TypeInv, BusyHasTicket, TicketOf, Ticket

\* Moving a redemption to another busy pc keeps the record and its ticket.
LEMMA AdvanceTypes ==
    ASSUME TypeInv, NEW r \in Redeemers, proc[r].pc # "idle",
           NEW pc \in {"claimed", "dialling", "accepted", "failed", "noted"},
           Advance(r, pc)
    PROVE  /\ proc' \in [Redeemers -> Redemption]
           /\ \A s \in Redeemers : proc'[s].pc # "idle" =>
                 proc[s].pc # "idle" /\ TicketOf(s)' = TicketOf(s)
<1>1. [proc[r] EXCEPT !.pc = pc] \in Redemption
    BY DEF TypeInv, TypeOK, Redemption
<1>2. proc' \in [Redeemers -> Redemption]
    BY <1>1 DEF Advance, TypeInv, TypeOK
<1>3. ASSUME NEW s \in Redeemers, proc'[s].pc # "idle"
      PROVE  proc[s].pc # "idle" /\ TicketOf(s)' = TicketOf(s)
  <2>1. CASE s = r
    <3>1. proc'[s] = [proc[r] EXCEPT !.pc = pc]
        BY <2>1 DEF Advance, TypeInv, TypeOK
    <3>2. /\ proc'[s].id = proc[s].id /\ proc'[s].key = proc[s].key
          /\ proc'[s].nonce = proc[s].nonce
        BY <2>1, <3>1 DEF TypeInv, TypeOK, Redemption
    <3> QED BY <2>1, <3>2 DEF TicketOf
  <2>2. CASE s # r
    <3>1. proc'[s] = proc[s]
        BY <2>2 DEF Advance, TypeInv, TypeOK
    <3> QED BY <1>3, <3>1 DEF TicketOf
  <2> QED BY <2>1, <2>2
<1> QED BY <1>2, <1>3

\* A failed redemption is noted by the driver, or over.
LEMMA FailTypes ==
    ASSUME TypeInv, NEW r \in Redeemers, proc[r].pc # "idle", Fail(r)
    PROVE  /\ proc' \in [Redeemers -> Redemption]
           /\ \A s \in Redeemers : proc'[s].pc # "idle" =>
                 proc[s].pc # "idle" /\ TicketOf(s)' = TicketOf(s)
           /\ page' \in Page
<1>1. page' \in Page
  <2>1. proc[r].id \in Ids
      BY BusyFields
  <2>2. [page.state EXCEPT ![proc[r].id] = "failed"]
            \in [Ids -> {"new", "redeeming", "done", "failed"}]
      BY <2>1 DEF TypeInv, TypeOK, Page
  <2>3. [page EXCEPT !.state = [@ EXCEPT ![proc[r].id] = "failed"]] \in Page
      BY <2>2 DEF TypeInv, TypeOK, Page
  <2> QED BY <2>3 DEF Fail, Released, TypeInv, TypeOK
<1>2. CASE r = Driver
  <2>1. Advance(r, "failed")
      BY <1>2 DEF Fail, Advance
  <2> QED BY <1>1, <2>1, AdvanceTypes
<1>3. CASE r # Driver
  <2>1. proc' = [proc EXCEPT ![r] = NotRedeeming]
      BY <1>3 DEF Fail
  <2>2. proc' \in [Redeemers -> Redemption]
      BY <2>1, IdleRecords DEF TypeInv, TypeOK
  <2>3. \A s \in Redeemers : proc'[s].pc # "idle" => s # r /\ proc'[s] = proc[s]
      BY <2>1 DEF TypeInv, TypeOK, NotRedeeming
  <2> QED BY <1>1, <2>2, <2>3 DEF TicketOf
<1> QED BY <1>2, <1>3

\* Nothing but a redemption, the poll and the histories moves in these steps.
LEMMA RedeemTypes ==
    ASSUME TypeInv, NEW r \in Redeemers, Redeem(r)
    PROVE  TypeInv'
<1>0. proc[r].pc # "idle"
    BY DEF Redeem, ClaimGranted, ClaimRefused, Dial, AttemptFails, Accept, SpendAsk,
           SpendFails, Succeed
<1>1. proc[r].id \in Ids /\ proc[r].key \in Keys /\ proc[r].nonce \in Nonces
    BY <1>0, BusyFields
<1>2. TicketOf(r) \in Ticket
    BY <1>0 DEF TypeInv, BusyHasTicket
<1>3. ASSUME NEW c \in [Nonces -> Nat] PROVE Counted(c, r) \in [Nonces -> Nat]
    BY <1>1 DEF Counted
<1>4. Driver \in Redeemers
    BY DEF Redeemers
<1>5. CASE ClaimGranted(r)
  <2>1. [ask[proc[r].key] EXCEPT !.claimedBy = proc[r].id] \in Ask
      BY <1>1 DEF TypeInv, TypeOK, Ask
  <2>2. ask' \in [Keys -> Ask]
      BY <1>5, <2>1 DEF ClaimGranted, TypeInv, TypeOK
  <2>3. Advance(r, "claimed")
      BY <1>5 DEF ClaimGranted
  <2>4. TypeOK'
      BY <1>0, <1>5, <2>2, <2>3, AdvanceTypes DEF ClaimGranted, TypeInv, TypeOK, history, faults
  <2> QED BY <1>0, <1>4, <1>5, <2>3, <2>4, AdvanceTypes
          DEF ClaimGranted, TypeInv, AskersSent, SentSomewhere, BusyHasTicket, DriverDraining
<1>6. CASE ClaimRefused(r)
  <2>1. Fail(r)
      BY <1>6 DEF ClaimRefused
  <2>2. TypeOK'
      BY <1>0, <1>6, <2>1, FailTypes DEF ClaimRefused, TypeInv, TypeOK, history, faults
  <2> QED BY <1>0, <1>4, <1>6, <2>1, <2>2, FailTypes
          DEF ClaimRefused, TypeInv, AskersSent, SentSomewhere, BusyHasTicket, DriverDraining
<1>7. CASE Dial(r)
  <2>1. Advance(r, "dialling") /\ dialled' \subseteq Ticket /\ dials' \in [Nonces -> Nat]
      BY <1>2, <1>3, <1>7 DEF Dial, TypeInv, TypeOK
  <2>2. TypeOK'
      BY <1>0, <1>7, <2>1, AdvanceTypes DEF Dial, TypeInv, TypeOK, faults
  <2> QED BY <1>0, <1>4, <1>7, <2>1, <2>2, AdvanceTypes
          DEF Dial, TypeInv, AskersSent, SentSomewhere, BusyHasTicket, DriverDraining
<1>8. CASE AttemptFails(r)
  <2>1. Fail(r) /\ failed' \in [Nonces -> Nat]
      BY <1>3, <1>8 DEF AttemptFails, TypeInv, TypeOK
  <2>2. TypeOK'
      BY <1>0, <1>8, <2>1, FailTypes DEF AttemptFails, TypeInv, TypeOK, faults
  <2> QED BY <1>0, <1>4, <1>8, <2>1, <2>2, FailTypes
          DEF AttemptFails, TypeInv, AskersSent, SentSomewhere, BusyHasTicket, DriverDraining
<1>9. CASE Accept(r)
  <2>1. Advance(r, "accepted") /\ delivered' \subseteq Nonces
      BY <1>1, <1>9 DEF Accept, TypeInv, TypeOK
  <2>2. TypeOK'
      BY <1>0, <1>9, <2>1, AdvanceTypes DEF Accept, TypeInv, TypeOK, faults
  <2> QED BY <1>0, <1>4, <1>9, <2>1, <2>2, AdvanceTypes
          DEF Accept, TypeInv, AskersSent, SentSomewhere, BusyHasTicket, DriverDraining
<1>10. CASE SpendAsk(r) \/ SpendFails(r)
  <2>1. Succeed(r)
      BY <1>10 DEF SpendAsk, SpendFails
  <2>2. proc' \in [Redeemers -> Redemption]
      BY <2>1, IdleRecords DEF Succeed, TypeInv, TypeOK
  <2>3. \A s \in Redeemers : proc'[s].pc # "idle" => s # r /\ proc'[s] = proc[s]
      BY <2>1 DEF Succeed, TypeInv, TypeOK, NotRedeeming
  <2>4. r = Driver => driver.pc = "draining" /\ driver.left \in Nat /\ driver.left > 0
      BY <1>0, <1>4 DEF TypeInv, TypeOK, DriverDraining, Poll
  <2>5. driver' \in Poll
    <3>1. r = Driver => [driver EXCEPT !.left = @ - 1] \in Poll
        BY <2>4 DEF TypeInv, TypeOK, Poll
    <3> QED BY <2>1, <3>1 DEF Succeed, TypeInv, TypeOK
  <2>6. page' \in Page
    <3>1. [page.state EXCEPT ![proc[r].id] = "done"]
              \in [Ids -> {"new", "redeeming", "done", "failed"}]
        BY <1>1 DEF TypeInv, TypeOK, Page
    <3>2. page.spent \cup {proc[r].nonce} \in SUBSET Nonces
        BY <1>1 DEF TypeInv, TypeOK, Page
    <3>3. FreshPage.nonces \in [Keys -> 0 .. MaxAsks]
        BY IdleRecords DEF Page
    <3>4. [page EXCEPT !.state = [@ EXCEPT ![proc[r].id] = "done"],
                       !.spent = @ \cup {proc[r].nonce},
                       !.loaded = FALSE,
                       !.nonces = FreshPage.nonces] \in Page
        BY <3>1, <3>2, <3>3 DEF TypeInv, TypeOK, Page
    <3> QED BY <2>1, <3>4 DEF Succeed, TypeInv, TypeOK
  <2>7. ask' \in [Keys -> Ask]
    <3>1. ask[proc[r].key] \in Ask
        BY <1>1 DEF TypeInv, TypeOK
    <3>2. Spent(ask[proc[r].key], proc[r].nonce) \in Ask
        BY <1>1, <3>1, EntryTypes DEF TypeInv
    <3> QED BY <1>10, <3>2 DEF SpendAsk, SpendFails, TypeInv, TypeOK
  <2>8. restarts' \in Nat /\ lostWrites' \in Nat
    <3>1. CASE SpendAsk(r)
        BY <3>1 DEF SpendAsk, TypeInv, TypeOK, faults
    <3>2. CASE SpendFails(r)
        BY <3>2 DEF SpendFails, TypeInv, TypeOK
    <3> QED BY <1>10, <3>1, <3>2
  <2>9. settled' \subseteq Nonces
      BY <1>1, <1>10 DEF SpendAsk, SpendFails, TypeInv, TypeOK
  <2>10. TypeOK'
      BY <2>1, <2>2, <2>5, <2>6, <2>7, <2>8, <2>9 DEF Succeed, TypeInv, TypeOK
  <2>11. DriverDraining'
      BY <1>4, <2>1, <2>3 DEF Succeed, TypeInv, DriverDraining
  <2> QED BY <2>1, <2>3, <2>10, <2>11
          DEF Succeed, TypeInv, AskersSent, SentSomewhere, BusyHasTicket, TicketOf
<1> QED BY <1>5, <1>6, <1>7, <1>8, <1>9, <1>10 DEF Redeem

LEMMA PageTypes ==
    ASSUME TypeInv,
           LoadAsks \/ RemountPage \/ \E c \in Chats, t \in tickets : ChatRedeem(c, t)
    PROVE  TypeInv'
<1>0. Driver \in Redeemers /\ Driver \notin Chats /\ Chats \subseteq Redeemers
    BY TaskAssumption DEF Redeemers
<1>1. CASE LoadAsks
  <2>1. [k \in Keys |-> ask[k].nonce] \in [Keys -> 0 .. MaxAsks]
      BY DEF TypeInv, TypeOK, Ask
  <2>2. [page EXCEPT !.loaded = TRUE, !.nonces = [k \in Keys |-> ask[k].nonce]] \in Page
      BY <2>1 DEF TypeInv, TypeOK, Page
  <2>3. TypeOK'
      BY <1>1, <2>2 DEF LoadAsks, TypeInv, TypeOK, history, faults
  <2> QED BY <1>1, <2>3 DEF LoadAsks, TypeInv, AskersSent, SentSomewhere, BusyHasTicket,
                            DriverDraining, TicketOf
<1>2. CASE RemountPage
  <2>1. ASSUME NEW r \in Redeemers PROVE [proc[r] EXCEPT !.mine = FALSE] \in Redemption
      BY DEF TypeInv, TypeOK, Redemption
  <2>2. proc' \in [Redeemers -> Redemption]
      BY <1>2, <2>1 DEF RemountPage
  <2>3. \A r \in Redeemers : /\ proc'[r].pc = proc[r].pc
                             /\ TicketOf(r)' = TicketOf(r)
      BY <1>2 DEF RemountPage, TicketOf, TypeInv, TypeOK, Redemption
  <2>4. TypeOK'
      BY <1>2, <2>2, IdleRecords DEF RemountPage, TypeInv, TypeOK, history, faults
  <2> QED BY <1>0, <1>2, <2>3, <2>4 DEF RemountPage, TypeInv, AskersSent, SentSomewhere,
                                        BusyHasTicket, DriverDraining
<1>3. ASSUME NEW c \in Chats, NEW t \in tickets, ChatRedeem(c, t) PROVE TypeInv'
  <2> DEFINE started == [pc |-> "started", id |-> t.id, key |-> t.key,
                         nonce |-> t.nonce, mine |-> TRUE]
  <2>1. t.id \in Ids /\ t.key \in Keys /\ t.nonce \in Nonces /\ t.nonce \in 0 .. MaxAsks
      BY BoundsAreNat DEF TypeInv, TypeOK, Ticket, Nonces
  <2>2. started \in Redemption
      BY <2>1 DEF Redemption
  <2>3. proc' = [proc EXCEPT ![c] = started]
      BY <1>3 DEF ChatRedeem
  <2>4. proc' \in [Redeemers -> Redemption]
      BY <2>2, <2>3 DEF TypeInv, TypeOK
  <2>5. [page.state EXCEPT ![t.id] = "redeeming"]
            \in [Ids -> {"new", "redeeming", "done", "failed"}]
      BY <2>1 DEF TypeInv, TypeOK, Page
  <2>6. [page EXCEPT !.state = [@ EXCEPT ![t.id] = "redeeming"]] \in Page
      BY <2>5 DEF TypeInv, TypeOK, Page
  <2>7. TypeOK'
      BY <1>3, <2>4, <2>6 DEF ChatRedeem, TypeInv, TypeOK, history, faults
  <2>8. \A r \in Redeemers : r # c => proc'[r] = proc[r]
      BY <2>3 DEF TypeInv, TypeOK
  <2>9. proc'[c] = started
      BY <1>0, <2>3 DEF TypeInv, TypeOK
  <2>10. BusyHasTicket'
    <3>1. TicketOf(c)' \in Ticket
        BY <2>1, <2>9 DEF TicketOf, Ticket
    <3> QED BY <2>8, <3>1 DEF TypeInv, BusyHasTicket, TicketOf
  <2> QED BY <1>0, <1>3, <2>7, <2>8, <2>10 DEF ChatRedeem, TypeInv, AskersSent,
                                               SentSomewhere, DriverDraining
<1> QED BY <1>1, <1>2, <1>3

LEMMA EvictTypes ==
    ASSUME TypeInv, NEW dead, Evict(dead)
    PROVE  ask' \in [Keys -> Ask]
BY IdleRecords DEF Evict, TypeInv, TypeOK

\* A step of the poll outside a redemption changes at most the trace and the poll.
LEMMA PollStepTypes ==
    ASSUME TypeInv, driver' \in Poll, ask' \in [Keys -> Ask],
           proc[Driver].pc = "idle",
           UNCHANGED <<now, minted, sentTo, asker, tickets, proc, page, history, faults>>
    PROVE  TypeInv'
<1>1. TypeOK'
    BY DEF TypeInv, TypeOK, history, faults
<1> QED BY <1>1 DEF TypeInv, AskersSent, SentSomewhere, BusyHasTicket, DriverDraining, TicketOf

LEMMA PollTypes ==
    ASSUME TypeInv,
           \/ StartPoll \/ LoadSnapshot \/ FetchInbox \/ FetchFails \/ EndDrain \/ EndPoll
           \/ \E author \in {AuthorOf[k] : k \in Keys}, listed \in SUBSET Keys :
                 EvictUnlisted(author, listed)
    PROVE  TypeInv'
<1>0. proc[Driver].pc = "idle"
    BY DEF StartPoll, LoadSnapshot, FetchInbox, FetchFails, EndDrain, Draining, EndPoll,
           EvictUnlisted, TypeInv, DriverDraining
<1>1. driver \in Poll /\ ask \in [Keys -> Ask]
    BY DEF TypeInv, TypeOK
<1>2. CASE StartPoll
  <2>1. [driver EXCEPT !.pc = "expired"] \in Poll
      BY <1>1 DEF Poll
  <2> QED BY <1>0, <1>2, <2>1, EvictTypes, PollStepTypes DEF StartPoll
<1>3. CASE LoadSnapshot
  <2>1. {PeerOf[k] : k \in {j \in Keys : Present(j)}} \in SUBSET {PeerOf[k] : k \in Keys}
      OBVIOUS
  <2>2. [driver EXCEPT !.pc = "loaded", !.snap = ask, !.now = now,
                       !.allow = {PeerOf[k] : k \in {j \in Keys : Present(j)}}] \in Poll
      BY <1>1, <2>1 DEF Poll, TypeInv, TypeOK
  <2>3. driver' \in Poll
      BY <1>3, <2>2, IdleRecords DEF LoadSnapshot
  <2> QED BY <1>0, <1>1, <1>3, <2>3, PollStepTypes DEF LoadSnapshot
<1>4. CASE FetchInbox
  <2>1. [driver EXCEPT !.pc = "draining", !.fetched = tickets, !.left = BatchSize] \in Poll
      BY <1>1, BoundsAreNat DEF Poll, TypeInv, TypeOK
  <2> QED BY <1>0, <1>1, <1>4, <2>1, PollStepTypes DEF FetchInbox
<1>5. CASE FetchFails
    BY <1>0, <1>1, <1>5, IdleRecords, PollStepTypes DEF FetchFails
<1>6. CASE EndDrain
    BY <1>0, <1>1, <1>6, IdleRecords, PollStepTypes DEF EndDrain
<1>7. CASE EndPoll
    BY <1>0, <1>1, <1>7, IdleRecords, PollStepTypes DEF EndPoll
<1>8. ASSUME NEW author, NEW listed, EvictUnlisted(author, listed) PROVE TypeInv'
    BY <1>0, <1>1, <1>8, EvictTypes, PollStepTypes DEF EvictUnlisted
<1> QED BY <1>2, <1>3, <1>4, <1>5, <1>6, <1>7, <1>8

LEMMA DriverRedeemTypes ==
    ASSUME TypeInv, NEW t \in tickets, DriverRedeem(t)
    PROVE  TypeInv'
<1> DEFINE started == [pc |-> "started", id |-> t.id, key |-> t.key,
                       nonce |-> t.nonce, mine |-> FALSE]
<1>0. Driver \in Redeemers
    BY DEF Redeemers
<1>1. t.id \in Ids /\ t.key \in Keys /\ t.nonce \in Nonces /\ t.nonce \in 0 .. MaxAsks
    BY BoundsAreNat DEF TypeInv, TypeOK, Ticket, Nonces
<1>2. started \in Redemption
    BY <1>1 DEF Redemption
<1>3. proc' = [proc EXCEPT ![Driver] = started]
    BY DEF DriverRedeem
<1>4. proc' \in [Redeemers -> Redemption]
    BY <1>2, <1>3 DEF TypeInv, TypeOK
<1>5. TypeOK'
    BY <1>4 DEF DriverRedeem, TypeInv, TypeOK, history, faults
<1>6. (\A r \in Redeemers : r # Driver => proc'[r] = proc[r]) /\ proc'[Driver] = started
    BY <1>0, <1>3 DEF TypeInv, TypeOK
<1>7. BusyHasTicket'
  <2>1. TicketOf(Driver)' \in Ticket
      BY <1>1, <1>6 DEF TicketOf, Ticket
  <2> QED BY <1>6, <2>1 DEF TypeInv, BusyHasTicket, TicketOf
<1>8. DriverDraining'
    BY DEF DriverRedeem, Draining, DriverDraining
<1> QED BY <1>5, <1>7, <1>8 DEF DriverRedeem, TypeInv, AskersSent, SentSomewhere

LEMMA NoteTypes ==
    ASSUME TypeInv, NoteFailure \/ MirrorFailure
    PROVE  TypeInv'
<1>0. Driver \in Redeemers /\ proc[Driver].pc # "idle"
    BY DEF Redeemers, NoteFailure, MirrorFailure
<1>1. proc[Driver].id \in Ids /\ proc[Driver].key \in Keys /\ proc[Driver].nonce \in Nonces
    BY <1>0, BusyFields
<1>2. CASE NoteFailure
  <2>1. Advance(Driver, "noted")
      BY <1>2 DEF NoteFailure
  <2>2. ask' \in [Keys -> Ask]
    <3>1. ask[proc[Driver].key] \in Ask
        BY <1>1 DEF TypeInv, TypeOK
    <3>2. Noted(ask[proc[Driver].key], proc[Driver].id) \in Ask
        BY <1>1, <3>1, EntryTypes DEF TypeInv
    <3> QED BY <1>2, <3>2 DEF NoteFailure, TypeInv, TypeOK
  <2>3. restarts' \in Nat /\ lostWrites' \in Nat
      BY <1>2 DEF NoteFailure, TypeInv, TypeOK, faults
  <2>4. TypeOK'
      BY <1>0, <1>2, <2>1, <2>2, <2>3, AdvanceTypes DEF NoteFailure, TypeInv, TypeOK, history
  <2> QED BY <1>0, <1>2, <2>1, <2>4, AdvanceTypes
          DEF NoteFailure, TypeInv, AskersSent, SentSomewhere, BusyHasTicket, DriverDraining
<1>3. CASE MirrorFailure
  <2> DEFINE snap == [driver.snap EXCEPT ![proc[Driver].key] = Mirrored(proc[Driver].key)]
  <2>1. snap \in [Keys -> Ask]
      BY <1>1 DEF Mirrored, TypeInv, TypeOK, Poll
  <2>2. driver.left - 1 \in Nat
      BY <1>0 DEF TypeInv, TypeOK, Poll, DriverDraining
  <2>3. driver' \in Poll
    <3>1. driver' = [driver EXCEPT !.snap = snap, !.left = driver.left - 1]
        BY <1>3 DEF MirrorFailure
    <3> HIDE DEF snap
    <3> QED BY <2>1, <2>2, <3>1 DEF TypeInv, TypeOK, Poll
  <2>4. proc' \in [Redeemers -> Redemption]
      BY <1>3, IdleRecords DEF MirrorFailure, TypeInv, TypeOK
  <2>5. TypeOK'
      BY <1>3, <2>3, <2>4 DEF MirrorFailure, TypeInv, TypeOK, history, faults
  <2>6. \A s \in Redeemers : proc'[s].pc # "idle" => s # Driver /\ proc'[s] = proc[s]
      BY <1>3 DEF MirrorFailure, TypeInv, TypeOK, NotRedeeming
  <2> QED BY <1>0, <1>3, <2>5, <2>6 DEF MirrorFailure, TypeInv, AskersSent, SentSomewhere,
                                        BusyHasTicket, DriverDraining, TicketOf
<1> QED BY <1>2, <1>3

LEMMA EnvironmentTypes ==
    ASSUME TypeInv, Tick \/ Restart
    PROVE  TypeInv'
<1>1. CASE Tick
  <2>1. TypeOK'
      BY <1>1 DEF Tick, TypeInv, TypeOK, history, faults
  <2> QED BY <1>1, <2>1 DEF Tick, TypeInv, AskersSent, SentSomewhere, BusyHasTicket,
                            DriverDraining, TicketOf
<1>2. CASE Restart
  <2>1. NotAsking \in [key : Keys \cup {NONE}, nonce : 0 .. MaxAsks]
      BY BoundsAreNat DEF NotAsking
  <2>2. TypeOK'
      BY <1>2, <2>1, IdleRecords DEF Restart, TypeInv, TypeOK, history
  <2> QED BY <1>2, <2>2 DEF Restart, TypeInv, AskersSent, SentSomewhere, BusyHasTicket,
                            DriverDraining, NotRedeeming, Redeemers
<1> QED BY <1>1, <1>2

LEMMA TypeInvStep == TypeInv /\ [Next]_vars => TypeInv'
<1> SUFFICES ASSUME TypeInv, [Next]_vars PROVE TypeInv'
    OBVIOUS
<1>1. CASE Next
    BY <1>1, AskCommandTypes, IssueTicketTypes, RedeemTypes, PageTypes, PollTypes,
       DriverRedeemTypes, NoteTypes, EnvironmentTypes DEF Next
<1>2. CASE UNCHANGED vars
    BY <1>2 DEF vars, history, faults, TypeInv, TypeOK, AskersSent, SentSomewhere,
                BusyHasTicket, DriverDraining, TicketOf
<1> QED BY <1>1, <1>2

LEMMA TypeInvariant == Spec => []TypeInv
BY InitTypeInv, TypeInvStep, PTL DEF Spec

\* The trace, the ledger of the page, the poll and every redemption keep their
\* types, for every instance.
THEOREM TypeCorrect == Spec => []TypeOK
<1>1. TypeInv => TypeOK
    BY DEF TypeInv
<1> QED BY <1>1, TypeInvariant, PTL

-----------------------------------------------------------------------------
(* One ask, one ticket *)

\* The tickets that were dialled or may be: those that hold a granted claim.
Held == dialled \cup {TicketOf(r) : r \in {s \in Redeemers : proc[s].pc \in Admitted}}

RecordedOnce ==
    /\ \A q \in recorded : q.nonce <= minted
    /\ \A a \in Askers, q \in recorded : asker[a] # NotAsking => q.nonce # asker[a].nonce
    /\ \A a, b \in Askers :
          asker[a] # NotAsking /\ asker[b] # NotAsking /\ asker[a].nonce = asker[b].nonce
             => a = b
    /\ \A p, q \in recorded : p.nonce = q.nonce => p.key = q.key

EntriesRecorded ==
    \A k \in Keys : Present(k) =>
        \E q \in recorded : q.key = k /\ q.nonce = ask[k].nonce

\* While an entry has the nonce of a held ticket, it names that ticket.
HeldAreClaims ==
    \A t \in Held :
        /\ \E q \in recorded : q.key = t.key /\ q.nonce = t.nonce
        /\ \A k \in Keys : ask[k].nonce = t.nonce => ask[k].claimedBy = t.id

HeldAgree == \A s, t \in Held : s.nonce = t.nonce => s.id = t.id

AcceptedDelivered ==
    \A r \in Redeemers : proc[r].pc = "accepted" => proc[r].nonce \in delivered

ClaimInv ==
    /\ TypeInv
    /\ RecordedOnce
    /\ EntriesRecorded
    /\ HeldAreClaims
    /\ HeldAgree
    /\ AcceptedDelivered
    /\ SpentByOwnDelivery

LEMMA InitClaimInv == Init => ClaimInv
<1> SUFFICES ASSUME Init PROVE ClaimInv
    OBVIOUS
<1>1. Held = {}
    BY DEF Init, Held, Admitted, NotRedeeming
<1> QED BY <1>1, InitTypeInv
        DEF Init, ClaimInv, RecordedOnce, EntriesRecorded, Present, HeldAreClaims, HeldAgree,
            AcceptedDelivered, SpentByOwnDelivery, NoAsk, NotRedeeming

\* Steps that record and claim nothing: held tickets stay held or are let go,
\* entries keep nonce and claim or are evicted.
LEMMA QuietStep ==
    ASSUME ClaimInv, TypeInv',
           recorded' = recorded, minted' = minted, delivered \subseteq delivered',
           dialled' \subseteq Held,
           \A r \in Redeemers : proc'[r].pc \in Admitted =>
               proc[r].pc \in Admitted /\ TicketOf(r)' = TicketOf(r),
           \A r \in Redeemers : proc'[r].pc = "accepted" =>
               \/ proc[r].pc = "accepted" /\ proc'[r].nonce = proc[r].nonce
               \/ proc'[r].nonce \in delivered',
           \A a \in Askers : asker'[a] = asker[a] \/ asker'[a] = NotAsking,
           \A k \in Keys :
               \/ ask'[k] = NoAsk
               \/ /\ ask'[k].nonce = ask[k].nonce
                  /\ ask'[k].claimedBy = ask[k].claimedBy
                  /\ ask'[k].spent => ask[k].spent \/ ask[k].nonce \in delivered
    PROVE  ClaimInv'
<1>1. Held' \subseteq Held
    BY DEF Held
<1>2. \A t \in Held : t.nonce # 0
  <2>1. Held \subseteq Ticket
      BY DEF Held, ClaimInv, TypeInv, TypeOK, BusyHasTicket, Admitted
  <2> QED BY <2>1, BoundsAreNat DEF Ticket, Nonces
<1>3. RecordedOnce'
    BY DEF ClaimInv, RecordedOnce
<1>4. EntriesRecorded'
    BY DEF ClaimInv, EntriesRecorded, Present, NoAsk
<1>5. HeldAreClaims'
    BY <1>1, <1>2 DEF ClaimInv, HeldAreClaims, NoAsk
<1>6. HeldAgree'
    BY <1>1 DEF ClaimInv, HeldAgree
<1>7. AcceptedDelivered'
    BY DEF ClaimInv, AcceptedDelivered
<1>8. SpentByOwnDelivery'
    BY DEF ClaimInv, SpentByOwnDelivery, NoAsk
<1> QED BY <1>3, <1>4, <1>5, <1>6, <1>7, <1>8 DEF ClaimInv

LEMMA SendAskClaims ==
    ASSUME ClaimInv, TypeInv', NEW a \in Askers, NEW k \in Keys, SendAsk(a, k)
    PROVE  ClaimInv'
<1>1. minted \in Nat /\ minted' = minted + 1
    BY BoundsAreNat DEF SendAsk, ClaimInv, TypeInv, TypeOK
<1>2. \A b \in Askers : b # a => asker'[b] = asker[b]
    BY DEF SendAsk, ClaimInv, TypeInv, TypeOK
<1>3. asker'[a].nonce = minted + 1
    BY DEF SendAsk, ClaimInv, TypeInv, TypeOK
<1>4. \A b \in Askers : asker[b] # NotAsking => asker[b].nonce \in Nat /\ asker[b].nonce <= minted
    BY <1>1 DEF ClaimInv, TypeInv, AskersSent
<1>5. \A q \in recorded : q.nonce \in Nat /\ q.nonce <= minted
    BY BoundsAreNat DEF ClaimInv, RecordedOnce, TypeInv, TypeOK, Nonces
<1>6. recorded' = recorded
    BY DEF SendAsk, history
<1>7. RecordedOnce'
  <2>1. \A q \in recorded' : q.nonce <= minted'
      BY <1>1, <1>5, <1>6
  <2>2. \A b \in Askers, q \in recorded' : asker'[b] # NotAsking => q.nonce # asker'[b].nonce
      BY <1>1, <1>2, <1>3, <1>5, <1>6 DEF ClaimInv, RecordedOnce
  <2>3. \A b, c \in Askers :
            asker'[b] # NotAsking /\ asker'[c] # NotAsking /\ asker'[b].nonce = asker'[c].nonce
               => b = c
      BY <1>1, <1>2, <1>3, <1>4 DEF ClaimInv, RecordedOnce
  <2>4. \A p, q \in recorded' : p.nonce = q.nonce => p.key = q.key
      BY <1>6 DEF ClaimInv, RecordedOnce
  <2> QED BY <2>1, <2>2, <2>3, <2>4 DEF RecordedOnce
<1> QED BY <1>7 DEF SendAsk, history, ClaimInv, EntriesRecorded, Present, HeldAreClaims,
                    HeldAgree, Held, TicketOf, AcceptedDelivered, SpentByOwnDelivery

LEMMA RecordAskClaims ==
    ASSUME ClaimInv, TypeInv', NEW a \in Askers, RecordAsk(a)
    PROVE  ClaimInv'
<1> DEFINE k == asker[a].key
           n == asker[a].nonce
           q == [key |-> k, nonce |-> n, at |-> now]
<1>1. k \in Keys /\ n \in 1 .. minted /\ asker[a] # NotAsking
    BY DEF RecordAsk, ClaimInv, TypeInv, AskersSent
<1>2. recorded' = recorded \cup {q} /\ q.key = k /\ q.nonce = n
    BY DEF RecordAsk
<1>3. ask'[k].nonce = n /\ ~ask'[k].spent
    BY <1>1 DEF RecordAsk, Renewed, NoAsk, ClaimInv, TypeInv, TypeOK
<1>4. \A j \in Keys : j # k => ask'[j] = ask[j]
    BY DEF RecordAsk, ClaimInv, TypeInv, TypeOK
<1>5. Held' = Held
    BY DEF RecordAsk, Held, TicketOf
<1>6. RecordedOnce'
  <2>1. asker'[a] = NotAsking /\ \A b \in Askers : b # a => asker'[b] = asker[b]
      BY DEF RecordAsk, ClaimInv, TypeInv, TypeOK
  <2>2. minted' = minted /\ n <= minted
      BY <1>1, BoundsAreNat DEF RecordAsk, ClaimInv, TypeInv, TypeOK
  <2>3. \A p \in recorded' : p.nonce <= minted'
      BY <1>2, <2>2 DEF ClaimInv, RecordedOnce
  <2>4. \A b \in Askers, p \in recorded' : asker'[b] # NotAsking => p.nonce # asker'[b].nonce
      BY <1>1, <1>2, <2>1 DEF ClaimInv, RecordedOnce
  <2>5. \A b, c \in Askers :
            asker'[b] # NotAsking /\ asker'[c] # NotAsking /\ asker'[b].nonce = asker'[c].nonce
               => b = c
      BY <2>1 DEF ClaimInv, RecordedOnce
  <2>6. \A p \in recorded : p.nonce # n
      BY <1>1 DEF ClaimInv, RecordedOnce
  <2>7. \A p, s \in recorded' : p.nonce = s.nonce => p.key = s.key
      BY <1>2, <2>6 DEF ClaimInv, RecordedOnce
  <2> QED BY <2>3, <2>4, <2>5, <2>7 DEF RecordedOnce
<1>7. EntriesRecorded'
  <2>1. SUFFICES ASSUME NEW j \in Keys, ask'[j].nonce # 0
                 PROVE  \E p \in recorded' : p.key = j /\ p.nonce = ask'[j].nonce
      BY DEF EntriesRecorded, Present
  <2>2. CASE j = k
      BY <1>2, <1>3, <2>2
  <2>3. CASE j # k
      BY <1>2, <1>4, <2>1, <2>3 DEF ClaimInv, EntriesRecorded, Present
  <2> QED BY <2>2, <2>3
<1>8. \A t \in Held : t.nonce # n
    BY <1>1 DEF ClaimInv, HeldAreClaims, RecordedOnce
<1>9. HeldAreClaims'
    BY <1>2, <1>3, <1>4, <1>5, <1>8 DEF ClaimInv, HeldAreClaims
<1>10. SpentByOwnDelivery'
    BY <1>3, <1>4 DEF RecordAsk, ClaimInv, SpentByOwnDelivery
<1> QED BY <1>5, <1>6, <1>7, <1>9, <1>10 DEF RecordAsk, ClaimInv, HeldAgree, AcceptedDelivered

\* The gate: the claim is granted only to the ticket the nonce's claim may name.
LEMMA ClaimGrantedClaims ==
    ASSUME ClaimInv, TypeInv', NEW r \in Redeemers, ClaimGranted(r)
    PROVE  ClaimInv'
<1> DEFINE t == TicketOf(r)
<1>1. t \in Ticket /\ t.id = proc[r].id /\ t.key = proc[r].key /\ t.nonce = proc[r].nonce
    BY DEF ClaimGranted, ClaimInv, TypeInv, BusyHasTicket, TicketOf
<1>2. t.key \in Keys /\ t.id \in Ids /\ t.id # NONE /\ t.nonce # 0
    BY <1>1, NoneAssumption, BoundsAreNat DEF Ticket, Nonces
<1>3. /\ ask[t.key].nonce = t.nonce
      /\ ask[t.key].claimedBy \in {NONE, t.id}
      /\ ~ask[t.key].spent
    BY <1>1 DEF ClaimGranted, Admits
<1>4. /\ ask'[t.key].nonce = t.nonce
      /\ ask'[t.key].claimedBy = t.id
      /\ ~ask'[t.key].spent
    BY <1>1, <1>2, <1>3 DEF ClaimGranted, ClaimInv, TypeInv, TypeOK, Ask
<1>5. \A j \in Keys : j # t.key => ask'[j] = ask[j]
    BY <1>1 DEF ClaimGranted, ClaimInv, TypeInv, TypeOK
<1>6. \A s \in Redeemers : s # r => proc'[s] = proc[s]
    BY DEF ClaimGranted, Advance, ClaimInv, TypeInv, TypeOK
<1>7. proc'[r].pc = "claimed" /\ TicketOf(r)' = t
    BY DEF ClaimGranted, Advance, TicketOf, ClaimInv, TypeInv, TypeOK, Redemption
<1>8. Held' \subseteq Held \cup {t}
    BY <1>6, <1>7 DEF ClaimGranted, history, Held, TicketOf
<1>9. \E q \in recorded : q.key = t.key /\ q.nonce = t.nonce
    BY <1>2, <1>3 DEF ClaimInv, EntriesRecorded, Present
<1>10. \A j \in Keys : ask[j].nonce = t.nonce => j = t.key
  <2>1. SUFFICES ASSUME NEW j \in Keys, ask[j].nonce = t.nonce PROVE j = t.key
      OBVIOUS
  <2>2. PICK q \in recorded : q.key = j /\ q.nonce = t.nonce
      BY <1>2, <2>1 DEF ClaimInv, EntriesRecorded, Present
  <2>3. PICK p \in recorded : p.key = t.key /\ p.nonce = t.nonce
      BY <1>9
  <2> QED BY <2>2, <2>3 DEF ClaimInv, RecordedOnce
<1>11. \A s \in Held : s.nonce = t.nonce => s.id = t.id
  <2>1. SUFFICES ASSUME NEW s \in Held, s.nonce = t.nonce PROVE s.id = t.id
      OBVIOUS
  <2>2. ask[t.key].claimedBy = s.id
      BY <1>2, <1>3, <2>1 DEF ClaimInv, HeldAreClaims
  <2>3. s.id # NONE
    <3>1. Held \subseteq Ticket
        BY DEF Held, ClaimInv, TypeInv, TypeOK, BusyHasTicket, Admitted
    <3> QED BY <2>1, <3>1, NoneAssumption DEF Ticket
  <2> QED BY <1>3, <2>2, <2>3
<1>12. UNCHANGED <<minted, asker, recorded, delivered>>
    BY DEF ClaimGranted, history
<1>13. RecordedOnce'
    BY <1>12 DEF ClaimInv, RecordedOnce
<1>14. EntriesRecorded'
  <2>1. \A j \in Keys : ask'[j].nonce = ask[j].nonce
      BY <1>3, <1>4, <1>5
  <2> QED BY <1>12, <2>1 DEF ClaimInv, EntriesRecorded, Present
<1>15. HeldAreClaims'
  <2>1. SUFFICES ASSUME NEW s \in Held'
                 PROVE  /\ \E q \in recorded : q.key = s.key /\ q.nonce = s.nonce
                        /\ \A j \in Keys : ask'[j].nonce = s.nonce => ask'[j].claimedBy = s.id
      BY <1>12 DEF HeldAreClaims
  <2>2. CASE s = t
      BY <1>4, <1>5, <1>9, <1>10, <2>2
  <2>3. CASE s \in Held
      BY <1>3, <1>4, <1>5, <1>11, <2>3 DEF ClaimInv, HeldAreClaims
  <2> QED BY <1>8, <2>2, <2>3
<1>16. HeldAgree'
    BY <1>8, <1>11 DEF ClaimInv, HeldAgree
<1>17. AcceptedDelivered'
    BY <1>6, <1>7, <1>12 DEF ClaimInv, AcceptedDelivered
<1>18. SpentByOwnDelivery'
    BY <1>4, <1>5, <1>12 DEF ClaimInv, SpentByOwnDelivery
<1> QED BY <1>13, <1>14, <1>15, <1>16, <1>17, <1>18 DEF ClaimInv

\* A redemption's steps after its claim, and a refused claim.
LEMMA RedeemClaims ==
    ASSUME ClaimInv, TypeInv', NEW r \in Redeemers, Redeem(r)
    PROVE  ClaimInv'
<1>1. CASE ClaimGranted(r)
    BY <1>1, ClaimGrantedClaims
<1>2. CASE ClaimRefused(r) \/ AttemptFails(r)
  <2>1. \A s \in Redeemers : proc'[s].pc \in Admitted => proc'[s] = proc[s]
    <3>1. CASE r = Driver
        BY <1>2, <3>1 DEF ClaimRefused, AttemptFails, Fail, Admitted, ClaimInv, TypeInv, TypeOK,
                          Redemption
    <3>2. CASE r # Driver
        BY <1>2, <3>2 DEF ClaimRefused, AttemptFails, Fail, Admitted, NotRedeeming, ClaimInv,
                          TypeInv, TypeOK
    <3> QED BY <3>1, <3>2
  <2>2. UNCHANGED <<recorded, minted, delivered, dialled, asker, ask>>
      BY <1>2 DEF ClaimRefused, AttemptFails, history
  <2>3. dialled' \subseteq Held
      BY <2>2 DEF Held
  <2> QED BY <2>1, <2>2, <2>3, QuietStep DEF TicketOf, Admitted
<1>3. CASE Dial(r)
  <2>1. proc[r].pc = "claimed" /\ proc' = [proc EXCEPT ![r] = [@ EXCEPT !.pc = "dialling"]]
      BY <1>3 DEF Dial, Advance
  <2>2. /\ proc'[r].pc = "dialling" /\ TicketOf(r)' = TicketOf(r)
        /\ \A s \in Redeemers : s # r => proc'[s] = proc[s]
      BY <2>1 DEF TicketOf, ClaimInv, TypeInv, TypeOK, Redemption
  <2>3. UNCHANGED <<recorded, minted, delivered, asker, ask>>
      BY <1>3 DEF Dial
  <2>4. dialled' \subseteq Held
      BY <1>3, <2>1 DEF Dial, Held, Admitted
  <2> QED BY <2>1, <2>2, <2>3, <2>4, QuietStep DEF TicketOf, Admitted
<1>4. CASE Accept(r)
  <2>1. proc[r].pc = "dialling" /\ proc' = [proc EXCEPT ![r] = [@ EXCEPT !.pc = "accepted"]]
      BY <1>4 DEF Accept, Advance
  <2>2. /\ proc'[r].pc = "accepted" /\ TicketOf(r)' = TicketOf(r)
        /\ proc'[r].nonce = proc[r].nonce
        /\ \A s \in Redeemers : s # r => proc'[s] = proc[s]
      BY <2>1 DEF TicketOf, ClaimInv, TypeInv, TypeOK, Redemption
  <2>3. UNCHANGED <<recorded, minted, dialled, asker, ask>>
      BY <1>4 DEF Accept
  <2>4. delivered' = delivered \cup {proc[r].nonce}
      BY <1>4 DEF Accept
  <2>5. dialled' \subseteq Held
      BY <2>3 DEF Held
  <2> QED BY <2>1, <2>2, <2>3, <2>4, <2>5, QuietStep DEF TicketOf, Admitted
<1>5. CASE SpendAsk(r) \/ SpendFails(r)
  <2>1. proc[r].pc = "accepted" /\ proc' = [proc EXCEPT ![r] = NotRedeeming]
      BY <1>5 DEF SpendAsk, SpendFails, Succeed
  <2>2. \A s \in Redeemers : proc'[s].pc \in Admitted => proc'[s] = proc[s]
      BY <2>1 DEF Admitted, NotRedeeming, ClaimInv, TypeInv, TypeOK
  <2>3. UNCHANGED <<recorded, minted, dialled, delivered, asker>>
      BY <1>5 DEF SpendAsk, SpendFails, Succeed
  <2>4. proc[r].nonce \in delivered
      BY <2>1 DEF ClaimInv, AcceptedDelivered
  <2>5. \A k \in Keys :
            /\ ask'[k].nonce = ask[k].nonce /\ ask'[k].claimedBy = ask[k].claimedBy
            /\ ask'[k].spent => ask[k].spent \/ ask[k].nonce \in delivered
      BY <1>5, <2>4 DEF SpendAsk, SpendFails, Spent, ClaimInv, TypeInv, TypeOK, Ask
  <2>6. dialled' \subseteq Held
      BY <2>3 DEF Held
  <2> QED BY <2>2, <2>3, <2>5, <2>6, QuietStep DEF TicketOf, Admitted
<1> QED BY <1>1, <1>2, <1>3, <1>4, <1>5 DEF Redeem

\* Steps outside the redemptions that neither record an ask nor claim one.
QuietAction ==
    \/ \E a \in Askers : AbandonAsk(a)
    \/ \E n \in Nonces, i \in Ids : IssueTicket(n, i)
    \/ LoadAsks \/ RemountPage
    \/ \E c \in Chats, t \in tickets : ChatRedeem(c, t)
    \/ StartPoll \/ LoadSnapshot \/ FetchInbox \/ FetchFails
    \/ \E t \in tickets : DriverRedeem(t)
    \/ NoteFailure \/ MirrorFailure \/ EndDrain
    \/ \E author \in {AuthorOf[k] : k \in Keys}, listed \in SUBSET Keys :
          EvictUnlisted(author, listed)
    \/ EndPoll \/ Tick \/ Restart

LEMMA QuietActionClaims ==
    ASSUME ClaimInv, TypeInv', QuietAction
    PROVE  ClaimInv'
<1>1. UNCHANGED <<recorded, minted, delivered, dialled>>
    BY DEF QuietAction, AbandonAsk, IssueTicket, LoadAsks, RemountPage, ChatRedeem, StartPoll,
           LoadSnapshot, FetchInbox, FetchFails, DriverRedeem, NoteFailure, MirrorFailure,
           EndDrain, EvictUnlisted, EndPoll, Tick, Restart, history
<1>2. dialled' \subseteq Held
    BY <1>1 DEF Held
<1>3. \A a \in Askers : asker'[a] = asker[a] \/ asker'[a] = NotAsking
    BY DEF QuietAction, AbandonAsk, IssueTicket, LoadAsks, RemountPage, ChatRedeem, StartPoll,
           LoadSnapshot, FetchInbox, FetchFails, DriverRedeem, NoteFailure, MirrorFailure,
           EndDrain, EvictUnlisted, EndPoll, Tick, Restart, ClaimInv, TypeInv, TypeOK
<1>4. \A k \in Keys :
          \/ ask'[k] = NoAsk
          \/ /\ ask'[k].nonce = ask[k].nonce
             /\ ask'[k].claimedBy = ask[k].claimedBy
             /\ ask'[k].spent => ask[k].spent
  <2>1. CASE \E dead \in SUBSET Keys : Evict(dead)
      BY <2>1 DEF Evict
  <2>2. CASE NoteFailure
    <3>1. \A i : \A e \in Ask : Noted(e, i).nonce = e.nonce
                            /\ Noted(e, i).claimedBy = e.claimedBy
                            /\ Noted(e, i).spent = e.spent
        BY DEF Noted, Ask
    <3>2. ask' = [ask EXCEPT ![proc[Driver].key] = Noted(@, proc[Driver].id)] \/ ask' = ask
        BY <2>2 DEF NoteFailure
    <3>3. ask \in [Keys -> Ask]
        BY DEF ClaimInv, TypeInv, TypeOK
    <3> QED BY <3>1, <3>2, <3>3
  <2>3. CASE ask' = ask
      BY <2>3
  <2>4. (\E dead \in SUBSET Keys : Evict(dead)) \/ NoteFailure \/ ask' = ask
    <3>1. {k \in Keys : Expired(k)} \in SUBSET Keys
        OBVIOUS
    <3>2. \A author, listed : {k \in Keys : Unlisted(k, author, listed)} \in SUBSET Keys
        OBVIOUS
    <3> QED BY <3>1, <3>2
            DEF QuietAction, AbandonAsk, IssueTicket, LoadAsks, RemountPage, ChatRedeem,
                StartPoll, LoadSnapshot, FetchInbox, FetchFails, DriverRedeem, MirrorFailure,
                EndDrain, EvictUnlisted, EndPoll, Tick, Restart
  <2> QED BY <2>1, <2>2, <2>3, <2>4
<1>5. \A r \in Redeemers :
          /\ proc'[r].pc \in Admitted =>
                proc[r].pc = proc'[r].pc /\ TicketOf(r)' = TicketOf(r)
  <2>1. CASE RemountPage
      BY <2>1 DEF RemountPage, TicketOf, ClaimInv, TypeInv, TypeOK, Redemption
  <2>2. CASE \E c \in Chats, t \in tickets : ChatRedeem(c, t)
      BY <2>2 DEF ChatRedeem, TicketOf, Admitted, ClaimInv, TypeInv, TypeOK
  <2>3. CASE \E t \in tickets : DriverRedeem(t)
      BY <2>3 DEF DriverRedeem, TicketOf, Admitted, ClaimInv, TypeInv, TypeOK
  <2>4. CASE NoteFailure
      BY <2>4 DEF NoteFailure, Advance, TicketOf, Admitted, ClaimInv, TypeInv, TypeOK
  <2>5. CASE MirrorFailure
      BY <2>5 DEF MirrorFailure, TicketOf, Admitted, NotRedeeming, ClaimInv, TypeInv, TypeOK
  <2>6. CASE Restart
      BY <2>6 DEF Restart, Admitted, NotRedeeming
  <2>7. CASE proc' = proc
      BY <2>7 DEF TicketOf
  <2>8. QuietAction =>
            \/ RemountPage \/ \E c \in Chats, t \in tickets : ChatRedeem(c, t)
            \/ \E t \in tickets : DriverRedeem(t)
            \/ NoteFailure \/ MirrorFailure \/ Restart \/ proc' = proc
      BY DEF QuietAction, AbandonAsk, IssueTicket, LoadAsks, StartPoll, LoadSnapshot,
             FetchInbox, FetchFails, EndDrain, EvictUnlisted, EndPoll, Tick
  <2> QED BY <2>1, <2>2, <2>3, <2>4, <2>5, <2>6, <2>7, <2>8
<1>6. \A r \in Redeemers : proc'[r].pc = "accepted" =>
          proc[r].pc = "accepted" /\ proc'[r].nonce = proc[r].nonce
    BY <1>5 DEF Admitted, TicketOf
<1> QED BY <1>1, <1>2, <1>3, <1>4, <1>5, <1>6, QuietStep

LEMMA ClaimInvStep == ClaimInv /\ [Next]_vars => ClaimInv'
<1> SUFFICES ASSUME ClaimInv, [Next]_vars PROVE ClaimInv'
    OBVIOUS
<1>1. TypeInv'
    BY TypeInvStep DEF ClaimInv
<1>2. CASE \E a \in Askers, k \in Keys : SendAsk(a, k)
    BY <1>1, <1>2, SendAskClaims
<1>3. CASE \E a \in Askers : RecordAsk(a)
    BY <1>1, <1>3, RecordAskClaims
<1>4. CASE \E r \in Redeemers : Redeem(r)
    BY <1>1, <1>4, RedeemClaims
<1>5. CASE QuietAction
    BY <1>1, <1>5, QuietActionClaims
<1>6. CASE UNCHANGED vars
    BY <1>1, <1>6 DEF vars, history, ClaimInv, RecordedOnce, EntriesRecorded, Present,
                      HeldAreClaims, HeldAgree, Held, TicketOf, AcceptedDelivered,
                      SpentByOwnDelivery
<1> QED BY <1>2, <1>3, <1>4, <1>5, <1>6 DEF Next, QuietAction

LEMMA ClaimInvariant == Spec => []ClaimInv
BY InitClaimInv, ClaimInvStep, PTL DEF Spec

\* Whatever tickets a peer issues for an ask, across both redeemers, retries,
\* evictions, re-asks and restarts, at most one of them is ever dialled.
THEOREM AtMostOneTicketDialled == Spec => []OneTicketPerAsk
<1>1. ClaimInv => OneTicketPerAsk
    BY DEF ClaimInv, HeldAgree, Held, OneTicketPerAsk
<1> QED BY <1>1, ClaimInvariant, PTL

\* No address is dialled but in answer to an ask this node recorded, for the
\* collection it recorded the ask for.
THEOREM OnlyRecordedAsksDialled == Spec => []DialsAnswerRecordedAsks
<1>1. ClaimInv => DialsAnswerRecordedAsks
    BY DEF ClaimInv, HeldAreClaims, Held, DialsAnswerRecordedAsks
<1> QED BY <1>1, ClaimInvariant, PTL

\* An ask is closed only by a delivery of its own: never by the late end of a
\* redemption of an ask it replaced.
THEOREM AskSpentByItsDelivery == Spec => []SpentByOwnDelivery
<1>1. ClaimInv => SpentByOwnDelivery
    BY DEF ClaimInv
<1> QED BY <1>1, ClaimInvariant, PTL

-----------------------------------------------------------------------------
(* A settled ask stays closed *)

\* A nonce whose spend was written is one that was recorded, and as long as an entry
\* has it, the entry is spent.
SettledInv ==
    /\ \A k \in Keys : ask[k].nonce \in settled => ask[k].spent
    /\ \A n \in settled : \E q \in recorded : q.nonce = n

CloseInv == ClaimInv /\ SettledInv

\* Steps that settle nothing, and that keep or evict entries.
LEMMA NothingSettled ==
    ASSUME CloseInv, settled' = settled, recorded \subseteq recorded',
           \A k \in Keys :
               \/ ask'[k] = NoAsk
               \/ ask'[k].nonce = ask[k].nonce /\ (ask[k].spent => ask'[k].spent)
    PROVE  SettledInv'
<1>1. NoAsk.nonce \notin settled
    BY BoundsAreNat DEF NoAsk, Nonces, CloseInv, ClaimInv, TypeInv, TypeOK
<1> QED BY <1>1 DEF CloseInv, SettledInv

LEMMA RecordAskSettled ==
    ASSUME CloseInv, NEW a \in Askers, RecordAsk(a)
    PROVE  SettledInv'
<1>1. /\ asker[a].key \in Keys /\ asker[a] # NotAsking
      /\ ask'[asker[a].key].nonce = asker[a].nonce
      /\ \A k \in Keys : k # asker[a].key => ask'[k] = ask[k]
    BY DEF RecordAsk, Renewed, NoAsk, CloseInv, ClaimInv, TypeInv, TypeOK, AskersSent
<1>2. asker[a].nonce \notin settled
    BY <1>1 DEF CloseInv, SettledInv, ClaimInv, RecordedOnce
<1>3. settled' = settled /\ recorded \subseteq recorded'
    BY DEF RecordAsk
<1> QED BY <1>1, <1>2, <1>3 DEF CloseInv, SettledInv

\* The spend of a redemption reaches the only entry that can have its nonce.
LEMMA SpendAskSettled ==
    ASSUME CloseInv, NEW r \in Redeemers, SpendAsk(r)
    PROVE  SettledInv'
<1> DEFINE t == TicketOf(r)
<1>1. t \in Held /\ t.key = proc[r].key /\ t.nonce = proc[r].nonce
    BY DEF SpendAsk, Succeed, Held, Admitted, TicketOf
<1>2. PICK q \in recorded : q.key = t.key /\ q.nonce = t.nonce
    BY <1>1 DEF CloseInv, ClaimInv, HeldAreClaims
<1>3. t.nonce # 0
    BY <1>2, BoundsAreNat DEF CloseInv, ClaimInv, TypeInv, TypeOK, Nonces
<1>4. ASSUME NEW k \in Keys, ask[k].nonce = t.nonce PROVE k = t.key
  <2>1. PICK p \in recorded : p.key = k /\ p.nonce = t.nonce
      BY <1>3, <1>4 DEF CloseInv, ClaimInv, EntriesRecorded, Present
  <2> QED BY <1>2, <2>1 DEF CloseInv, ClaimInv, RecordedOnce
<1>5. \A k \in Keys :
          /\ ask'[k].nonce = ask[k].nonce
          /\ ask[k].spent => ask'[k].spent
          /\ k = t.key /\ ask[k].nonce = t.nonce => ask'[k].spent
    BY <1>1 DEF SpendAsk, Spent, CloseInv, ClaimInv, TypeInv, TypeOK, Ask
<1>6. settled' = settled \cup {t.nonce} /\ recorded' = recorded
    BY <1>1 DEF SpendAsk, Succeed
<1> QED BY <1>2, <1>4, <1>5, <1>6 DEF CloseInv, SettledInv

LEMMA SettledStep == CloseInv /\ [Next]_vars => SettledInv'
<1> SUFFICES ASSUME CloseInv, [Next]_vars PROVE SettledInv'
    OBVIOUS
<1>1. CASE \E a \in Askers : RecordAsk(a)
    BY <1>1, RecordAskSettled
<1>2. CASE \E r \in Redeemers : SpendAsk(r)
    BY <1>2, SpendAskSettled
<1>3. CASE \E dead \in SUBSET Keys : Evict(dead) /\ UNCHANGED <<settled, recorded>>
  <2>1. \A k \in Keys : ask'[k] = NoAsk \/ ask'[k] = ask[k]
      BY <1>3 DEF Evict
  <2> QED BY <1>3, <2>1, NothingSettled
<1>4. CASE \E r \in Redeemers : ClaimGranted(r)
  <2>1. \A k \in Keys : ask'[k].nonce = ask[k].nonce /\ ask'[k].spent = ask[k].spent
      BY <1>4 DEF ClaimGranted, CloseInv, ClaimInv, TypeInv, TypeOK, Ask
  <2> QED BY <1>4, <2>1, NothingSettled DEF ClaimGranted, history
<1>5. CASE NoteFailure
  <2>1. \A k \in Keys : ask'[k].nonce = ask[k].nonce /\ ask'[k].spent = ask[k].spent
    <3>1. \A i : \A e \in Ask : Noted(e, i).nonce = e.nonce /\ Noted(e, i).spent = e.spent
        BY DEF Noted, Ask
    <3>2. ask' = [ask EXCEPT ![proc[Driver].key] = Noted(@, proc[Driver].id)] \/ ask' = ask
        BY <1>5 DEF NoteFailure
    <3>3. ask \in [Keys -> Ask]
        BY DEF CloseInv, ClaimInv, TypeInv, TypeOK
    <3> QED BY <3>1, <3>2, <3>3
  <2> QED BY <1>5, <2>1, NothingSettled DEF NoteFailure, history
<1>6. CASE UNCHANGED <<ask, settled, recorded>>
    BY <1>6, NothingSettled
<1>7. \/ \E a \in Askers : RecordAsk(a)
      \/ \E r \in Redeemers : SpendAsk(r) \/ ClaimGranted(r)
      \/ \E dead \in SUBSET Keys : Evict(dead) /\ UNCHANGED <<settled, recorded>>
      \/ NoteFailure
      \/ UNCHANGED <<ask, settled, recorded>>
  <2>1. {k \in Keys : Expired(k)} \in SUBSET Keys
      OBVIOUS
  <2>2. \A author, listed : {k \in Keys : Unlisted(k, author, listed)} \in SUBSET Keys
      OBVIOUS
  <2>3. CASE \E r \in Redeemers : Redeem(r)
      BY <2>3 DEF Redeem, ClaimRefused, Dial, AttemptFails, Accept, SpendFails, Succeed, history
  <2>4. CASE \E a \in Askers : RecordAsk(a) \/ AbandonAsk(a) \/ \E k \in Keys : SendAsk(a, k)
      BY <2>4 DEF AbandonAsk, SendAsk, history
  <2>5. CASE QuietAction
      BY <2>1, <2>2, <2>5
         DEF QuietAction, AbandonAsk, IssueTicket, LoadAsks, RemountPage, ChatRedeem, StartPoll,
             LoadSnapshot, FetchInbox, FetchFails, DriverRedeem, MirrorFailure, EndDrain,
             EvictUnlisted, EndPoll, Tick, Restart, history
  <2>6. CASE UNCHANGED vars
      BY <2>6 DEF vars, history
  <2> QED BY <2>3, <2>4, <2>5, <2>6 DEF Next, QuietAction
<1> QED BY <1>1, <1>2, <1>3, <1>4, <1>5, <1>6, <1>7

LEMMA CloseInvariant == Spec => []CloseInv
<1>1. Init => CloseInv
    BY InitClaimInv DEF Init, CloseInv, SettledInv
<1>2. CloseInv /\ [Next]_vars => CloseInv'
    BY ClaimInvStep, SettledStep DEF CloseInv
<1> QED BY <1>1, <1>2, PTL DEF Spec

\* A redemption holds a claim from its own grant only.
LEMMA OnlyGrantsClaim ==
    ASSUME TypeOK, Next, NEW r \in Redeemers,
           proc[r].pc = "started", proc'[r].pc = "claimed"
    PROVE  ClaimGranted(r)
<1> USE DEF TypeOK
<1>1. CASE \E s \in Redeemers : Redeem(s)
  <2>1. PICK s \in Redeemers : Redeem(s)
      BY <1>1
  <2>2. CASE s # r
      BY <2>1, <2>2 DEF Redeem, ClaimGranted, ClaimRefused, Dial, AttemptFails, Accept,
                        SpendAsk, SpendFails, Succeed, Fail, Advance
  <2>3. CASE s = r /\ ClaimRefused(r)
    <3>1. CASE r = Driver
        BY <2>3, <3>1 DEF ClaimRefused, Fail, Redemption
    <3>2. CASE r # Driver
        BY <2>3, <3>2 DEF ClaimRefused, Fail, NotRedeeming
    <3> QED BY <3>1, <3>2
  <2>4. ~Dial(r) /\ ~AttemptFails(r) /\ ~Accept(r) /\ ~SpendAsk(r) /\ ~SpendFails(r)
      BY DEF Dial, AttemptFails, Accept, SpendAsk, SpendFails, Succeed
  <2> QED BY <2>1, <2>2, <2>3, <2>4 DEF Redeem
<1>2. CASE RemountPage
    BY <1>2 DEF RemountPage, Redemption
<1>3. CASE \E c \in Chats, t \in tickets : ChatRedeem(c, t)
    BY <1>3 DEF ChatRedeem
<1>4. CASE \E t \in tickets : DriverRedeem(t)
    BY <1>4 DEF DriverRedeem
<1>5. CASE NoteFailure
    BY <1>5 DEF NoteFailure, Advance
<1>6. CASE MirrorFailure
    BY <1>6 DEF MirrorFailure, NotRedeeming
<1>7. CASE Restart
    BY <1>7 DEF Restart, NotRedeeming
<1>8. proc' # proc
    OBVIOUS
<1>9. \/ \E s \in Redeemers : Redeem(s)
      \/ RemountPage \/ \E c \in Chats, t \in tickets : ChatRedeem(c, t)
      \/ \E t \in tickets : DriverRedeem(t)
      \/ NoteFailure \/ MirrorFailure \/ Restart
    BY <1>8 DEF Next, SendAsk, RecordAsk, AbandonAsk, IssueTicket, LoadAsks, StartPoll,
                LoadSnapshot, FetchInbox, FetchFails, EndDrain, EvictUnlisted, EndPoll, Tick
<1> QED BY <1>1, <1>2, <1>3, <1>4, <1>5, <1>6, <1>7, <1>9

\* An ask whose spend was written is never claimed again, by either redeemer, with
\* whatever ticket, across re-asks, evictions and restarts.
THEOREM SettledAsksStayClosed == Spec => SettledAskStaysClosed
<1> DEFINE Closed ==
        \A r \in Redeemers :
            proc[r].pc = "started" /\ proc'[r].pc = "claimed" => proc[r].nonce \notin settled
<1>1. CloseInv /\ [Next]_vars => [Closed]_vars
  <2> SUFFICES ASSUME CloseInv, Next, NEW r \in Redeemers,
                      proc[r].pc = "started", proc'[r].pc = "claimed"
               PROVE  proc[r].nonce \notin settled
      OBVIOUS
  <2>1. ClaimGranted(r)
      BY OnlyGrantsClaim DEF CloseInv, ClaimInv, TypeInv
  <2>2. /\ proc[r].key \in Keys
        /\ ask[proc[r].key].nonce = proc[r].nonce /\ ~ask[proc[r].key].spent
    <3>1. TicketOf(r) \in Ticket
        BY <2>1 DEF ClaimGranted, CloseInv, ClaimInv, TypeInv, BusyHasTicket
    <3> QED BY <2>1, <3>1 DEF ClaimGranted, Admits, TicketOf, Ticket
  <2> QED BY <2>2 DEF CloseInv, SettledInv
<1> QED BY <1>1, CloseInvariant, PTL DEF Spec, SettledAskStaysClosed

-----------------------------------------------------------------------------
(* Eviction spares what is in use *)

\* The entry of an ask is as old as its record, and no record is of the future.
RecordTimed ==
    /\ \A q \in recorded : q.at <= now
    /\ \A k \in Keys : Present(k) =>
          \E p \in recorded : p.key = k /\ p.nonce = ask[k].nonce /\ p.at = ask[k].sentAt

KeptInv == ClaimInv /\ RecordTimed /\ InFlightAskKept

\* No redemption comes to hold a claim but by its own grant.
LEMMA RedeemHolds ==
    ASSUME TypeInv, NEW r \in Redeemers, Redeem(r), NEW s \in Redeemers,
           proc'[s].pc \in Admitted
    PROVE  \/ s = r /\ ClaimGranted(r)
           \/ proc[s].pc \in Admitted /\ TicketOf(s)' = TicketOf(s)
<1>1. CASE s # r
  <2>1. proc'[s] = proc[s]
      BY <1>1 DEF Redeem, ClaimGranted, ClaimRefused, Dial, AttemptFails, Accept, SpendAsk,
                  SpendFails, Succeed, Fail, Advance, TypeInv, TypeOK
  <2> QED BY <2>1 DEF TicketOf
<1>2. CASE s = r /\ (ClaimRefused(r) \/ AttemptFails(r))
  <2>1. proc'[r].pc \in {"failed", "idle"}
      BY <1>2 DEF ClaimRefused, AttemptFails, Fail, NotRedeeming, TypeInv, TypeOK, Redemption
  <2> QED BY <1>2, <2>1 DEF Admitted
<1>3. CASE s = r /\ (SpendAsk(r) \/ SpendFails(r))
  <2>1. proc'[r].pc = "idle"
      BY <1>3 DEF SpendAsk, SpendFails, Succeed, NotRedeeming, TypeInv, TypeOK
  <2> QED BY <1>3, <2>1 DEF Admitted
<1>4. CASE s = r /\ (Dial(r) \/ Accept(r))
  <2>1. \E pc : Advance(r, pc)
      BY <1>4 DEF Dial, Accept
  <2>2. TicketOf(r)' = TicketOf(r)
      BY <2>1 DEF Advance, TicketOf, TypeInv, TypeOK, Redemption
  <2> QED BY <1>4, <2>2 DEF Dial, Accept, Admitted
<1> QED BY <1>1, <1>2, <1>3, <1>4 DEF Redeem

LEMMA QuietHolds ==
    ASSUME TypeInv, QuietAction, NEW r \in Redeemers, proc'[r].pc \in Admitted
    PROVE  proc[r].pc = proc'[r].pc /\ TicketOf(r)' = TicketOf(r)
<1> USE DEF TypeInv, TypeOK
<1>1. CASE RemountPage
    BY <1>1 DEF RemountPage, TicketOf, Redemption
<1>2. CASE \E c \in Chats, t \in tickets : ChatRedeem(c, t)
    BY <1>2 DEF ChatRedeem, TicketOf, Admitted
<1>3. CASE \E t \in tickets : DriverRedeem(t)
    BY <1>3 DEF DriverRedeem, TicketOf, Admitted
<1>4. CASE NoteFailure
    BY <1>4 DEF NoteFailure, Advance, TicketOf, Admitted
<1>5. CASE MirrorFailure
    BY <1>5 DEF MirrorFailure, TicketOf, Admitted, NotRedeeming
<1>6. CASE Restart
    BY <1>6 DEF Restart, Admitted, NotRedeeming
<1>7. CASE proc' = proc
    BY <1>7 DEF TicketOf
<1>8. \/ RemountPage \/ \E c \in Chats, t \in tickets : ChatRedeem(c, t)
      \/ \E t \in tickets : DriverRedeem(t)
      \/ NoteFailure \/ MirrorFailure \/ Restart \/ proc' = proc
    BY DEF QuietAction, AbandonAsk, IssueTicket, LoadAsks, StartPoll, LoadSnapshot,
           FetchInbox, FetchFails, EndDrain, EvictUnlisted, EndPoll, Tick
<1> QED BY <1>1, <1>2, <1>3, <1>4, <1>5, <1>6, <1>7, <1>8

\* What may become of an entry without a re-ask: it stays, or it is evicted after its
\* retention or while it is not in use.
StaysOrGoes(k) ==
    \/ ask'[k].nonce = ask[k].nonce /\ ask'[k].sentAt = ask[k].sentAt
    \/ /\ ask'[k] = NoAsk
       /\ Expired(k) \/ ask[k].spent \/ ask[k].claimedBy = NONE

\* The claim of a redemption is gone for one of the reasons InFlightAskKept gives.
ClaimOver(r) ==
    \/ ask[proc[r].key].nonce = proc[r].nonce
    \/ proc[r].nonce \in delivered
    \/ \E p \in recorded :
          /\ p.key = proc[r].key
          /\ p.nonce = proc[r].nonce
          /\ \/ now >= p.at + Retention
             \/ \E q \in recorded : q.key = p.key /\ q.nonce # p.nonce /\ q.at >= p.at

\* A ticket that a redemption held and still holds, when no ask is recorded.
LEMMA HeldStays ==
    ASSUME KeptInv, NEW r \in Redeemers, proc[r].pc \in Admitted,
           TicketOf(r)' = TicketOf(r),
           recorded' = recorded, delivered \subseteq delivered',
           now' \in Nat, now <= now',
           \A k \in Keys : StaysOrGoes(k)
    PROVE  ClaimOver(r)'
<1> DEFINE k == proc[r].key
           n == proc[r].nonce
<1>1. /\ TicketOf(r) \in Ticket /\ TicketOf(r) \in Held
      /\ k \in Keys /\ n \in Nonces /\ proc[r].id \in Ids
      /\ proc'[r].key = k /\ proc'[r].nonce = n
    BY DEF KeptInv, ClaimInv, TypeInv, BusyHasTicket, Admitted, TicketOf, Ticket, Held
<1>2. ClaimOver(r)
    BY DEF KeptInv, InFlightAskKept, ClaimOver
<1>3. now \in Nat /\ \A p \in recorded : p.at \in Nat
    BY DEF KeptInv, ClaimInv, TypeInv, TypeOK
<1>4. CASE n \in delivered
    BY <1>1, <1>4 DEF ClaimOver
<1>5. CASE \E p \in recorded :
               /\ p.key = k /\ p.nonce = n
               /\ \/ now >= p.at + Retention
                  \/ \E q \in recorded : q.key = p.key /\ q.nonce # p.nonce /\ q.at >= p.at
  <2>1. PICK p \in recorded :
               /\ p.key = k /\ p.nonce = n
               /\ \/ now >= p.at + Retention
                  \/ \E q \in recorded : q.key = p.key /\ q.nonce # p.nonce /\ q.at >= p.at
      BY <1>5
  <2>2. now >= p.at + Retention => now' >= p.at + Retention
      BY <1>3, BoundsAreNat
  <2> QED BY <1>1, <2>1, <2>2 DEF ClaimOver
<1>6. CASE ask[k].nonce = n /\ ask'[k].nonce = n
    BY <1>1, <1>6 DEF ClaimOver
<1>7. CASE ask[k].nonce = n /\ ask'[k].nonce # n
  <2>1. Expired(k) \/ ask[k].spent \/ ask[k].claimedBy = NONE
      BY <1>1, <1>7 DEF StaysOrGoes
  <2>2. ask[k].claimedBy = proc[r].id
      BY <1>1, <1>7 DEF KeptInv, ClaimInv, HeldAreClaims, TicketOf
  <2>3. CASE ask[k].spent
      BY <1>1, <1>4, <1>7, <2>3 DEF KeptInv, ClaimInv, SpentByOwnDelivery
  <2>4. CASE Expired(k)
    <3>1. Present(k)
        BY <1>1, <1>7, BoundsAreNat DEF Present, Nonces
    <3>2. PICK p \in recorded : p.key = k /\ p.nonce = n /\ p.at = ask[k].sentAt
        BY <1>1, <1>7, <3>1 DEF KeptInv, RecordTimed
    <3> QED BY <1>5, <2>4, <3>2 DEF Expired
  <2> QED BY <1>1, <2>1, <2>2, <2>3, <2>4, NoneAssumption
<1> QED BY <1>2, <1>4, <1>5, <1>6, <1>7 DEF ClaimOver

LEMMA TimesStay ==
    ASSUME KeptInv, recorded' = recorded, now' \in Nat, now <= now',
           \A k \in Keys : StaysOrGoes(k)
    PROVE  RecordTimed'
<1>1. now \in Nat /\ \A q \in recorded : q.at \in Nat /\ q.at <= now
    BY DEF KeptInv, ClaimInv, TypeInv, TypeOK, RecordTimed
<1>2. \A q \in recorded' : q.at <= now'
    BY <1>1
<1>3. \A k \in Keys : Present(k)' => ask'[k].nonce = ask[k].nonce /\ ask'[k].sentAt = ask[k].sentAt
    BY DEF StaysOrGoes, Present, NoAsk
<1>4. \A k \in Keys : Present(k)' =>
          \E p \in recorded' : p.key = k /\ p.nonce = ask'[k].nonce /\ p.at = ask'[k].sentAt
    BY <1>3 DEF KeptInv, RecordTimed, Present
<1> QED BY <1>2, <1>4 DEF RecordTimed

\* A re-ask replaces an entry under the redemptions that hold its claim.
LEMMA RecordAskKept ==
    ASSUME KeptInv, NEW a \in Askers, RecordAsk(a)
    PROVE  RecordTimed' /\ InFlightAskKept'
<1> DEFINE k == asker[a].key
           n == asker[a].nonce
           q == [key |-> k, nonce |-> n, at |-> now]
<1>1. k \in Keys /\ n \in Nonces /\ asker[a] # NotAsking /\ now \in Nat
    BY BoundsAreNat DEF RecordAsk, KeptInv, ClaimInv, TypeInv, TypeOK, AskersSent, Nonces
<1>2. /\ recorded' = recorded \cup {q} /\ q.key = k /\ q.nonce = n /\ q.at = now
      /\ UNCHANGED <<now, proc, delivered>>
    BY DEF RecordAsk
<1>3. ask'[k].nonce = n /\ ask'[k].sentAt = now
    BY <1>1 DEF RecordAsk, Renewed, NoAsk, KeptInv, ClaimInv, TypeInv, TypeOK
<1>4. \A j \in Keys : j # k => ask'[j] = ask[j]
    BY DEF RecordAsk, KeptInv, ClaimInv, TypeInv, TypeOK
<1>5. RecordTimed'
  <2>1. \A p \in recorded' : p.at <= now'
      BY <1>1, <1>2 DEF KeptInv, RecordTimed
  <2>2. \A j \in Keys : Present(j)' =>
            \E p \in recorded' : p.key = j /\ p.nonce = ask'[j].nonce /\ p.at = ask'[j].sentAt
    <3> SUFFICES ASSUME NEW j \in Keys, Present(j)'
                 PROVE  \E p \in recorded' :
                            p.key = j /\ p.nonce = ask'[j].nonce /\ p.at = ask'[j].sentAt
        OBVIOUS
    <3>1. CASE j = k
      <4>1. q \in recorded'
          BY <1>2
      <4> QED BY <1>2, <1>3, <3>1, <4>1
    <3>2. CASE j # k
      <4>1. ask'[j] = ask[j]
          BY <1>4, <3>2
      <4>2. PICK p \in recorded : p.key = j /\ p.nonce = ask[j].nonce /\ p.at = ask[j].sentAt
          BY <4>1 DEF KeptInv, RecordTimed, Present
      <4>3. p \in recorded'
          BY <1>2
      <4> QED BY <4>1, <4>2, <4>3
    <3> QED BY <3>1, <3>2
  <2> QED BY <2>1, <2>2 DEF RecordTimed
<1>6. ASSUME NEW r \in Redeemers, proc'[r].pc \in Admitted PROVE ClaimOver(r)'
  <2>1. /\ TicketOf(r) \in Ticket /\ proc[r].pc \in Admitted
        /\ proc[r].key \in Keys /\ proc[r].nonce \in Nonces
      BY <1>2, <1>6
         DEF KeptInv, ClaimInv, TypeInv, BusyHasTicket, Admitted, TicketOf, Ticket
  <2>2. ClaimOver(r)
      BY <2>1 DEF KeptInv, InFlightAskKept, ClaimOver
  <2>3. CASE ask[proc[r].key].nonce = proc[r].nonce /\ proc[r].key = k
    <3>1. Present(k)
        BY <2>1, <2>3, BoundsAreNat DEF Present, Nonces
    <3>2. PICK p \in recorded : p.key = k /\ p.nonce = proc[r].nonce /\ p.at <= now
        BY <1>1, <2>3, <3>1 DEF KeptInv, RecordTimed
    <3>3. q.nonce # p.nonce
        BY <1>1, <3>2 DEF KeptInv, ClaimInv, RecordedOnce
    <3>4. p.at \in Nat
        BY <3>2 DEF KeptInv, ClaimInv, TypeInv, TypeOK
    <3>5. q \in recorded' /\ q.key = p.key /\ q.at >= p.at
        BY <1>1, <1>2, <3>2, <3>4
    <3> QED BY <1>2, <2>3, <3>2, <3>3, <3>5 DEF ClaimOver
  <2>4. CASE ~(ask[proc[r].key].nonce = proc[r].nonce /\ proc[r].key = k)
      BY <1>2, <1>4, <2>1, <2>2, <2>4 DEF ClaimOver
  <2> QED BY <2>3, <2>4
<1> QED BY <1>5, <1>6 DEF InFlightAskKept, ClaimOver

\* Entries keep nonce and age through every other step, or are evicted as StaysOrGoes
\* says.
LEMMA EntriesStayOrGo ==
    ASSUME TypeInv, [Next]_vars, ~\E a \in Askers : RecordAsk(a)
    PROVE  /\ \A k \in Keys : StaysOrGoes(k)
           /\ UNCHANGED recorded
           /\ delivered \subseteq delivered'
           /\ now' \in Nat /\ now <= now'
<1>1. ask \in [Keys -> Ask] /\ now \in Nat
    BY DEF TypeInv, TypeOK
<1>2. ASSUME ask' = ask
      PROVE  \A k \in Keys : StaysOrGoes(k)
    BY <1>2 DEF StaysOrGoes
<1>3. ASSUME \E r \in Redeemers : ClaimGranted(r) \/ SpendAsk(r)
      PROVE  \A k \in Keys : StaysOrGoes(k)
    BY <1>1, <1>3 DEF ClaimGranted, SpendAsk, Spent, Ask, StaysOrGoes
<1>4. ASSUME NoteFailure
      PROVE  \A k \in Keys : StaysOrGoes(k)
  <2>1. \A i : \A e \in Ask : Noted(e, i).nonce = e.nonce /\ Noted(e, i).sentAt = e.sentAt
      BY DEF Noted, Ask
  <2>2. ask' = [ask EXCEPT ![proc[Driver].key] = Noted(@, proc[Driver].id)] \/ ask' = ask
      BY <1>4 DEF NoteFailure
  <2> QED BY <1>1, <2>1, <2>2 DEF StaysOrGoes
<1>5. ASSUME StartPoll
      PROVE  \A k \in Keys : StaysOrGoes(k)
    BY <1>5 DEF StartPoll, Evict, StaysOrGoes
<1>6. ASSUME NEW author, NEW listed, EvictUnlisted(author, listed)
      PROVE  \A k \in Keys : StaysOrGoes(k)
    BY <1>6 DEF EvictUnlisted, Evict, Unlisted, StaysOrGoes
<1>7. \/ \E r \in Redeemers : ClaimGranted(r) \/ SpendAsk(r)
      \/ NoteFailure \/ StartPoll \/ (\E author, listed : EvictUnlisted(author, listed))
      \/ ask' = ask
    BY DEF Next, AbandonAsk, SendAsk, IssueTicket, Redeem, ClaimRefused, Dial, AttemptFails,
           Accept, SpendFails, LoadAsks, RemountPage, ChatRedeem, LoadSnapshot, FetchInbox,
           FetchFails, DriverRedeem, MirrorFailure, EndDrain, EndPoll, Tick, Restart, vars
<1>8. UNCHANGED recorded /\ delivered \subseteq delivered'
    BY DEF Next, AbandonAsk, SendAsk, IssueTicket, Redeem, ClaimGranted, ClaimRefused, Dial,
           AttemptFails, Accept, SpendAsk, SpendFails, Succeed, LoadAsks, RemountPage,
           ChatRedeem, StartPoll, LoadSnapshot, FetchInbox, FetchFails, DriverRedeem,
           NoteFailure, MirrorFailure, EndDrain, EvictUnlisted, EndPoll, Tick, Restart, vars,
           history
<1>9. now' = now \/ now' = now + 1
    BY DEF Next, AbandonAsk, SendAsk, IssueTicket, Redeem, ClaimGranted, ClaimRefused, Dial,
           AttemptFails, Accept, SpendAsk, SpendFails, Succeed, LoadAsks, RemountPage,
           ChatRedeem, StartPoll, LoadSnapshot, FetchInbox, FetchFails, DriverRedeem,
           NoteFailure, MirrorFailure, EndDrain, EvictUnlisted, EndPoll, Tick, Restart, vars
<1> QED BY <1>1, <1>2, <1>3, <1>4, <1>5, <1>6, <1>7, <1>8, <1>9

LEMMA KeptStep == KeptInv /\ [Next]_vars => RecordTimed' /\ InFlightAskKept'
<1> SUFFICES ASSUME KeptInv, [Next]_vars PROVE RecordTimed' /\ InFlightAskKept'
    OBVIOUS
<1>1. CASE \E a \in Askers : RecordAsk(a)
    BY <1>1, RecordAskKept
<1>2. CASE ~\E a \in Askers : RecordAsk(a)
  <2>0. TypeInv
      BY DEF KeptInv, ClaimInv
  <2>1. /\ \A k \in Keys : StaysOrGoes(k)
        /\ UNCHANGED recorded
        /\ delivered \subseteq delivered'
        /\ now' \in Nat /\ now <= now'
      BY <1>2, <2>0, EntriesStayOrGo
  <2>2. RecordTimed'
      BY <2>1, TimesStay
  <2>3. ASSUME NEW r \in Redeemers, proc'[r].pc \in Admitted PROVE ClaimOver(r)'
    <3>1. CASE ClaimGranted(r)
      <4>1. proc[r].key \in Keys
          BY <2>0, <3>1, BusyFields DEF ClaimGranted
      <4>2. ask'[proc[r].key].nonce = proc[r].nonce /\ TicketOf(r)' = TicketOf(r)
          BY <2>0, <3>1, <4>1 DEF ClaimGranted, Admits, Advance, TicketOf, TypeInv, TypeOK, Ask,
                                  Redemption
      <4> QED BY <4>2 DEF ClaimOver, TicketOf
    <3>2. CASE ~ClaimGranted(r)
      <4>1. CASE \E s \in Redeemers : Redeem(s)
          BY <2>0, <2>3, <3>2, <4>1, RedeemHolds, <2>1, HeldStays
      <4>2. CASE QuietAction
        <5>1. proc[r].pc = proc'[r].pc /\ TicketOf(r)' = TicketOf(r)
            BY <2>0, <2>3, <4>2, QuietHolds
        <5> QED BY <2>1, <2>3, <5>1, HeldStays
      <4>3. CASE (\E a \in Askers, k \in Keys : SendAsk(a, k)) \/ UNCHANGED vars
        <5>1. proc' = proc
            BY <4>3 DEF SendAsk, vars
        <5>2. TicketOf(r)' = TicketOf(r) /\ proc[r].pc \in Admitted
            BY <2>3, <5>1 DEF TicketOf
        <5> QED BY <2>1, <5>2, HeldStays
      <4> QED BY <1>2, <4>1, <4>2, <4>3 DEF Next, QuietAction
    <3> QED BY <3>1, <3>2
  <2> QED BY <2>2, <2>3 DEF InFlightAskKept, ClaimOver
<1> QED BY <1>1, <1>2

LEMMA KeptInvariant == Spec => []KeptInv
<1>1. Init => KeptInv
    BY InitClaimInv DEF Init, KeptInv, RecordTimed, Present, NoAsk, InFlightAskKept, Admitted,
                        NotRedeeming
<1>2. KeptInv /\ [Next]_vars => KeptInv'
    BY ClaimInvStep, KeptStep DEF KeptInv
<1> QED BY <1>1, <1>2, PTL DEF Spec

\* A redemption that holds a claim finds its ask until it is answered, renewed or past
\* its retention, however the evictions of the driver fall.
THEOREM EvictionSparesUse == Spec => []InFlightAskKept
<1>1. KeptInv => InFlightAskKept
    BY DEF KeptInv
<1> QED BY <1>1, KeptInvariant, PTL

-----------------------------------------------------------------------------
(* The dial budget *)

\* A ticket is known by its id; what a redemption is about and what an entry names are
\* tickets that were issued, for that key and that nonce.
TicketInv ==
    /\ \A s, t \in tickets : s.id = t.id => s = t
    /\ \A r \in Redeemers : proc[r].pc # "idle" => TicketOf(r) \in tickets
    /\ \A k \in Keys : ask[k].claimedBy # NONE =>
          \E t \in tickets : t.id = ask[k].claimedBy /\ t.key = k /\ t.nonce = ask[k].nonce

\* All but the claim, the spend and the failures of an entry.
SameAsk(k) == ask'[k].nonce = ask[k].nonce

\* What a step may do to an entry.
EntryGranted(k, r) ==
    /\ ClaimGranted(r) /\ proc[r].key = k
    /\ ask[k].nonce = proc[r].nonce /\ ~ask[k].spent /\ ask[k].claimedBy \in {NONE, proc[r].id}
    /\ SameAsk(k) /\ ask'[k].claimedBy = proc[r].id
    /\ ask'[k].spent = ask[k].spent /\ ask'[k].attempts = ask[k].attempts

EntrySpent(k, r) ==
    /\ SpendAsk(r) /\ proc[r].key = k /\ ask[k].nonce = proc[r].nonce
    /\ SameAsk(k) /\ ask'[k].claimedBy = ask[k].claimedBy
    /\ ask'[k].spent /\ ask'[k].attempts = ask[k].attempts

EntryNoted(k) ==
    /\ NoteFailure /\ proc[Driver].key = k
    /\ ~ask[k].spent /\ ask[k].claimedBy = proc[Driver].id
    /\ SameAsk(k) /\ ask'[k].claimedBy = ask[k].claimedBy
    /\ ask'[k].spent = ask[k].spent /\ ask'[k].attempts = ask[k].attempts + 1

EntryRenewed(k, a) ==
    /\ RecordAsk(a) /\ asker[a] # NotAsking /\ asker[a].key = k
    /\ ask'[k].nonce = asker[a].nonce /\ ask'[k].claimedBy = NONE
    /\ ~ask'[k].spent /\ ask'[k].attempts = 0

LEMMA EntryMoves ==
    ASSUME TypeInv, [Next]_vars, NEW k \in Keys
    PROVE  \/ ask'[k] = ask[k]
           \/ ask'[k] = NoAsk
           \/ \E a \in Askers : EntryRenewed(k, a)
           \/ \E r \in Redeemers : EntryGranted(k, r) \/ EntrySpent(k, r)
           \/ EntryNoted(k)
<1>1. ask \in [Keys -> Ask]
    BY DEF TypeInv, TypeOK
<1>2. CASE ask' = ask
    BY <1>2
<1>3. ASSUME NEW a \in Askers, RecordAsk(a)
      PROVE  ask'[k] = ask[k] \/ EntryRenewed(k, a)
  <2>1. ask' = [ask EXCEPT ![asker[a].key] = Renewed(asker[a].key, asker[a].nonce)]
      BY <1>3 DEF RecordAsk
  <2>2. CASE asker[a].key = k
    <3>1. ask'[k] = Renewed(k, asker[a].nonce)
        BY <1>1, <2>1, <2>2
    <3> QED BY <1>3, <2>2, <3>1 DEF EntryRenewed, Renewed, NoAsk, RecordAsk
  <2>3. CASE asker[a].key # k
      BY <1>1, <2>1, <2>3
  <2> QED BY <2>2, <2>3
<1>4. ASSUME NEW r \in Redeemers, ClaimGranted(r)
      PROVE  ask'[k] = ask[k] \/ EntryGranted(k, r)
    BY <1>1, <1>4 DEF ClaimGranted, Admits, EntryGranted, SameAsk, Ask
<1>5. ASSUME NEW r \in Redeemers, SpendAsk(r)
      PROVE  ask'[k] = ask[k] \/ EntrySpent(k, r)
    BY <1>1, <1>5 DEF SpendAsk, Spent, EntrySpent, SameAsk, Ask
<1>6. ASSUME NoteFailure
      PROVE  ask'[k] = ask[k] \/ EntryNoted(k)
  <2>1. ask' = [ask EXCEPT ![proc[Driver].key] = Noted(@, proc[Driver].id)] \/ ask' = ask
      BY <1>6 DEF NoteFailure
  <2>2. CASE ask'[k] # ask[k]
    <3>1. proc[Driver].key = k /\ ask'[k] = Noted(ask[k], proc[Driver].id)
        BY <1>1, <2>1, <2>2
    <3>2. ~ask[k].spent /\ ask[k].claimedBy = proc[Driver].id
        BY <2>2, <3>1 DEF Noted
    <3>3. ask'[k] = [ask[k] EXCEPT !.attempts = ask[k].attempts + 1, !.lastFail = now]
        BY <3>1, <3>2 DEF Noted
    <3>4. /\ ask'[k].nonce = ask[k].nonce /\ ask'[k].claimedBy = ask[k].claimedBy
          /\ ask'[k].spent = ask[k].spent /\ ask'[k].attempts = ask[k].attempts + 1
        BY <1>1, <3>3 DEF Ask
    <3> QED BY <1>6, <3>1, <3>2, <3>4 DEF EntryNoted, SameAsk
  <2> QED BY <2>2
<1>7. ASSUME NEW dead, Evict(dead)
      PROVE  ask'[k] = ask[k] \/ ask'[k] = NoAsk
    BY <1>7 DEF Evict
<1>8. \/ \E a \in Askers : RecordAsk(a)
      \/ \E r \in Redeemers : ClaimGranted(r) \/ SpendAsk(r)
      \/ NoteFailure \/ (\E dead : Evict(dead))
      \/ ask' = ask
    BY DEF Next, AbandonAsk, SendAsk, IssueTicket, Redeem, ClaimRefused, Dial, AttemptFails,
           Accept, SpendFails, LoadAsks, RemountPage, ChatRedeem, StartPoll, LoadSnapshot,
           FetchInbox, FetchFails, DriverRedeem, MirrorFailure, EndDrain, EvictUnlisted, EndPoll,
           Tick, Restart, vars
<1> QED BY <1>2, <1>3, <1>4, <1>5, <1>6, <1>7, <1>8

\* What a step may do to the driver's redemption.
SameRun ==
    /\ proc'[Driver].pc = proc[Driver].pc
    /\ TicketOf(Driver)' = TicketOf(Driver)

LEMMA DriverMoves ==
    ASSUME TypeInv, [Next]_vars
    PROVE  \/ SameRun /\ ~Redeem(Driver) /\ UNCHANGED <<dials, failed>>
           \/ Redeem(Driver)
           \/ (\E t \in tickets : DriverRedeem(t))
           \/ NoteFailure \/ MirrorFailure \/ Restart
<1>0. Driver \in Redeemers /\ Driver \notin Chats
    BY TaskAssumption DEF Redeemers
<1>1. SUFFICES ASSUME ~Redeem(Driver), ~\E t \in tickets : DriverRedeem(t), ~NoteFailure,
                      ~MirrorFailure, ~Restart
               PROVE  SameRun /\ UNCHANGED <<dials, failed>>
    OBVIOUS
<1>2. ASSUME NEW r \in Redeemers, Redeem(r)
      PROVE  proc'[Driver] = proc[Driver] /\ UNCHANGED <<dials, failed>>
  <2>1. r # Driver
      BY <1>1, <1>2
  <2> QED BY <1>0, <1>2, <2>1
          DEF Redeem, ClaimGranted, ClaimRefused, Dial, AttemptFails, Accept, SpendAsk,
              SpendFails, Succeed, Fail, Advance, Counted, history, TypeInv, TypeOK
<1>3. CASE RemountPage
    BY <1>0, <1>3 DEF RemountPage, SameRun, TicketOf, history, TypeInv, TypeOK, Redemption
<1>4. CASE \E c \in Chats, t \in tickets : ChatRedeem(c, t)
    BY <1>0, <1>4 DEF ChatRedeem, SameRun, TicketOf, TypeInv, TypeOK
<1>5. CASE proc' = proc /\ UNCHANGED <<dials, failed>>
    BY <1>5 DEF SameRun, TicketOf
<1>6. \/ \E r \in Redeemers : Redeem(r)
      \/ RemountPage \/ \E c \in Chats, t \in tickets : ChatRedeem(c, t)
      \/ proc' = proc /\ UNCHANGED <<dials, failed>>
    BY <1>1 DEF Next, SendAsk, RecordAsk, AbandonAsk, IssueTicket, LoadAsks, StartPoll,
                LoadSnapshot, FetchInbox, FetchFails, EndDrain, EvictUnlisted, EndPoll, Tick,
                vars, history
<1> QED BY <1>2, <1>3, <1>4, <1>5, <1>6 DEF SameRun, TicketOf

\* What a step may do to the snapshot of a poll.
LEMMA SnapshotMoves ==
    ASSUME TypeInv, [Next]_vars, driver'.pc \in {"loaded", "draining"}
    PROVE  \/ LoadSnapshot /\ driver'.snap = ask
           \/ /\ MirrorFailure
              /\ driver.pc \in {"loaded", "draining"}
              /\ driver'.snap =
                    [driver.snap EXCEPT ![proc[Driver].key] = Mirrored(proc[Driver].key)]
           \/ /\ ~MirrorFailure
              /\ driver.pc \in {"loaded", "draining"}
              /\ driver'.snap = driver.snap
<1>0. driver \in Poll /\ Driver \in Redeemers
    BY DEF TypeInv, TypeOK, Redeemers
<1>1. CASE LoadSnapshot
  <2>1. driver' # Discovering
      BY DEF Discovering, Sleeping
  <2>2. driver' = [driver EXCEPT !.pc = "loaded", !.snap = ask, !.now = now,
                                 !.allow = {PeerOf[k] : k \in {j \in Keys : Present(j)}}]
      BY <1>1, <2>1 DEF LoadSnapshot
  <2> QED BY <1>0, <1>1, <2>2 DEF Poll
<1>2. CASE MirrorFailure
  <2>1. driver.pc = "draining"
      BY <1>0, <1>2 DEF MirrorFailure, TypeInv, DriverDraining
  <2> DEFINE s == [driver.snap EXCEPT ![proc[Driver].key] = Mirrored(proc[Driver].key)]
  <2>2. driver' = [driver EXCEPT !.snap = s, !.left = driver.left - 1]
      BY <1>2 DEF MirrorFailure
  <2>3. driver'.snap = s
    <3> HIDE DEF s
    <3> QED BY <1>0, <2>2 DEF Poll
  <2> QED BY <1>2, <2>1, <2>3
<1>3. CASE ~MirrorFailure /\ FetchInbox
  <2>1. driver' = [driver EXCEPT !.pc = "draining", !.fetched = tickets, !.left = BatchSize]
      BY <1>3 DEF FetchInbox
  <2>2. driver'.snap = driver.snap
      BY <1>0, <2>1 DEF Poll
  <2>3. driver.pc = "loaded"
      BY <1>3 DEF FetchInbox
  <2> QED BY <1>3, <2>2, <2>3
<1>4. CASE ~MirrorFailure /\ \E r \in Redeemers : Redeem(r)
  <2>1. driver' = driver \/ driver' = [driver EXCEPT !.left = @ - 1]
      BY <1>4 DEF Redeem, ClaimGranted, ClaimRefused, Dial, AttemptFails, Accept, SpendAsk,
                  SpendFails, Succeed
  <2>2. driver'.snap = driver.snap /\ driver'.pc = driver.pc
      BY <1>0, <2>1 DEF Poll
  <2> QED BY <1>4, <2>2
<1>5. CASE ~MirrorFailure /\ driver' = driver
    BY <1>5
<1>6. driver' \notin {Sleeping, Discovering} /\ ~StartPoll
    BY <1>0 DEF Sleeping, Discovering, StartPoll, Poll
<1>7. \/ LoadSnapshot \/ MirrorFailure \/ FetchInbox
      \/ (\E r \in Redeemers : Redeem(r)) \/ driver' = driver
    BY <1>6 DEF Next, SendAsk, RecordAsk, AbandonAsk, IssueTicket, LoadAsks, RemountPage,
                ChatRedeem, FetchFails, DriverRedeem, NoteFailure, EndDrain, EvictUnlisted,
                EndPoll, Tick, Restart, vars
<1> QED BY <1>1, <1>2, <1>3, <1>4, <1>5, <1>7

\* Restarts and lost writes are counted, never forgotten, and so is every record.
LEMMA CountsGrow ==
    ASSUME TypeInv, [Next]_vars
    PROVE  /\ restarts \in Nat /\ restarts' \in Nat /\ restarts <= restarts'
           /\ lostWrites \in Nat /\ lostWrites' \in Nat /\ lostWrites <= lostWrites'
           /\ recorded \subseteq recorded' /\ tickets \subseteq tickets'
<1>1. restarts \in Nat /\ lostWrites \in Nat
    BY DEF TypeInv, TypeOK
<1>2. /\ restarts' = restarts \/ restarts' = restarts + 1
      /\ lostWrites' = lostWrites \/ lostWrites' = lostWrites + 1
    BY DEF Next, AbandonAsk, SendAsk, RecordAsk, IssueTicket, Redeem, ClaimGranted, ClaimRefused,
           Dial, AttemptFails, Accept, SpendAsk, SpendFails, Succeed, LoadAsks, RemountPage,
           ChatRedeem, StartPoll, LoadSnapshot, FetchInbox, FetchFails, DriverRedeem,
           NoteFailure, MirrorFailure, EndDrain, EvictUnlisted, EndPoll, Tick, Restart, vars,
           faults
<1>3. recorded \subseteq recorded' /\ tickets \subseteq tickets'
    BY DEF Next, AbandonAsk, SendAsk, RecordAsk, IssueTicket, Redeem, ClaimGranted, ClaimRefused,
           Dial, AttemptFails, Accept, SpendAsk, SpendFails, Succeed, LoadAsks, RemountPage,
           ChatRedeem, StartPoll, LoadSnapshot, FetchInbox, FetchFails, DriverRedeem,
           NoteFailure, MirrorFailure, EndDrain, EvictUnlisted, EndPoll, Tick, Restart, vars,
           history
<1> QED BY <1>1, <1>2, <1>3

\* A redemption keeps its ticket, or starts with one that was issued.
LEMMA BusyStays ==
    ASSUME TypeInv, [Next]_vars, NEW r \in Redeemers, proc'[r].pc # "idle"
    PROVE  \/ TicketOf(r)' \in tickets
           \/ proc[r].pc # "idle" /\ TicketOf(r)' = TicketOf(r)
<1>0. proc \in [Redeemers -> Redemption] /\ Chats \subseteq Redeemers /\ Driver \in Redeemers
    BY DEF TypeInv, TypeOK, Redeemers
<1>1. CASE \E s \in Redeemers : Redeem(s)
  <2>1. PICK s \in Redeemers : Redeem(s)
      BY <1>1
  <2>2. proc[s].pc # "idle"
      BY <2>1 DEF Redeem, ClaimGranted, ClaimRefused, Dial, AttemptFails, Accept, SpendAsk,
                  SpendFails, Succeed
  <2>3. CASE \E pc \in {"claimed", "dialling", "accepted", "failed", "noted"} : Advance(s, pc)
      BY <2>2, <2>3, AdvanceTypes
  <2>4. CASE Fail(s)
      BY <2>2, <2>4, FailTypes
  <2>5. CASE proc' = [proc EXCEPT ![s] = NotRedeeming]
    <3>1. s # r /\ proc'[r] = proc[r]
        BY <1>0, <2>5 DEF NotRedeeming
    <3> QED BY <3>1 DEF TicketOf
  <2> QED BY <2>1, <2>3, <2>4, <2>5
          DEF Redeem, ClaimGranted, ClaimRefused, Dial, AttemptFails, Accept, SpendAsk,
              SpendFails, Succeed
<1>2. CASE RemountPage
    BY <1>0, <1>2 DEF RemountPage, TicketOf, Redemption
<1>3. ASSUME NEW t \in tickets,
             (\E c \in Chats : ChatRedeem(c, t)) \/ DriverRedeem(t)
      PROVE  TicketOf(r)' \in tickets \/ (proc[r].pc # "idle" /\ TicketOf(r)' = TicketOf(r))
  <2>1. PICK c \in Redeemers, mine \in BOOLEAN :
              proc' = [proc EXCEPT ![c] = [pc |-> "started", id |-> t.id, key |-> t.key,
                                           nonce |-> t.nonce, mine |-> mine]]
      BY <1>0, <1>3 DEF ChatRedeem, DriverRedeem
  <2>2. CASE r = c
    <3>1. TicketOf(r)' = [id |-> t.id, key |-> t.key, nonce |-> t.nonce]
        BY <1>0, <2>1, <2>2 DEF TicketOf
    <3>2. t = [id |-> t.id, key |-> t.key, nonce |-> t.nonce]
        BY DEF TypeInv, TypeOK, Ticket
    <3> QED BY <3>1, <3>2
  <2>3. CASE r # c
    <3>1. proc'[r] = proc[r]
        BY <1>0, <2>1, <2>3
    <3> QED BY <3>1 DEF TicketOf
  <2> QED BY <2>2, <2>3
<1>4. CASE NoteFailure
    BY <1>0, <1>4, AdvanceTypes DEF NoteFailure
<1>5. CASE MirrorFailure
  <2>1. r # Driver /\ proc'[r] = proc[r]
      BY <1>0, <1>5 DEF MirrorFailure, NotRedeeming
  <2> QED BY <2>1 DEF TicketOf
<1>6. CASE Restart
    BY <1>6 DEF Restart, NotRedeeming
<1>7. CASE proc' = proc
    BY <1>7 DEF TicketOf
<1>8. \/ \E s \in Redeemers : Redeem(s)
      \/ RemountPage \/ (\E c \in Chats, t \in tickets : ChatRedeem(c, t))
      \/ (\E t \in tickets : DriverRedeem(t))
      \/ NoteFailure \/ MirrorFailure \/ Restart \/ proc' = proc
    BY DEF Next, SendAsk, RecordAsk, AbandonAsk, IssueTicket, LoadAsks, StartPoll, LoadSnapshot,
           FetchInbox, FetchFails, EndDrain, EvictUnlisted, EndPoll, Tick, vars
<1> QED BY <1>1, <1>2, <1>3, <1>4, <1>5, <1>6, <1>7, <1>8

LEMMA TicketStep == TypeInv /\ TicketInv /\ [Next]_vars => TicketInv'
<1> SUFFICES ASSUME TypeInv, TicketInv, [Next]_vars PROVE TicketInv'
    OBVIOUS
<1>1. tickets \subseteq tickets'
    BY CountsGrow
<1>2. \A s, t \in tickets' : s.id = t.id => s = t
  <2>1. CASE \E n \in Nonces, i \in Ids : IssueTicket(n, i)
    <3>1. PICK n \in Nonces, i \in Ids : IssueTicket(n, i)
        BY <2>1
    <3>2. \A t \in tickets : t.id # i
        BY <3>1 DEF IssueTicket
    <3>3. tickets' = tickets \cup {[id |-> i, key |-> sentTo[n], nonce |-> n]}
        BY <3>1 DEF IssueTicket
    <3> QED BY <3>2, <3>3 DEF TicketInv
  <2>2. CASE tickets' = tickets
      BY <2>2 DEF TicketInv
  <2>3. (\E n \in Nonces, i \in Ids : IssueTicket(n, i)) \/ tickets' = tickets
      BY DEF Next, AbandonAsk, SendAsk, RecordAsk, Redeem, ClaimGranted, ClaimRefused, Dial,
             AttemptFails, Accept, SpendAsk, SpendFails, Succeed, LoadAsks, RemountPage,
             ChatRedeem, StartPoll, LoadSnapshot, FetchInbox, FetchFails, DriverRedeem,
             NoteFailure, MirrorFailure, EndDrain, EvictUnlisted, EndPoll, Tick, Restart, vars
  <2> QED BY <2>1, <2>2, <2>3
<1>3. \A r \in Redeemers : proc'[r].pc # "idle" => TicketOf(r)' \in tickets'
    BY <1>1, BusyStays DEF TicketInv
<1>4. ASSUME NEW k \in Keys, ask'[k].claimedBy # NONE
      PROVE  \E t \in tickets' :
                 t.id = ask'[k].claimedBy /\ t.key = k /\ t.nonce = ask'[k].nonce
  <2>1. CASE \E r \in Redeemers : EntryGranted(k, r)
    <3>1. PICK r \in Redeemers : EntryGranted(k, r)
        BY <2>1
    <3>2. TicketOf(r) \in tickets
        BY <3>1 DEF EntryGranted, ClaimGranted, TicketInv
    <3> QED BY <1>1, <3>1, <3>2 DEF EntryGranted, SameAsk, TicketOf
  <2>2. CASE ask'[k].claimedBy = ask[k].claimedBy /\ ask'[k].nonce = ask[k].nonce
      BY <1>1, <1>4, <2>2 DEF TicketInv
  <2>3. ask'[k] # NoAsk /\ ~\E a \in Askers : EntryRenewed(k, a)
      BY <1>4 DEF NoAsk, EntryRenewed
  <2> QED BY <2>1, <2>2, <2>3, EntryMoves DEF EntrySpent, EntryNoted, SameAsk
<1> QED BY <1>2, <1>3, <1>4 DEF TicketInv

\* An entry that names the ticket of a redemption is the entry of its ask.
LEMMA ClaimIsOwn ==
    ASSUME TypeInv, TicketInv, NEW r \in Redeemers, proc[r].pc # "idle",
           ask[proc[r].key].claimedBy = proc[r].id
    PROVE  /\ proc[r].id \in Ids /\ proc[r].id # NONE
           /\ proc[r].key \in Keys /\ proc[r].nonce \in Nonces
           /\ ask[proc[r].key].nonce = proc[r].nonce
<1>1. proc[r].id \in Ids /\ proc[r].key \in Keys /\ proc[r].nonce \in Nonces
    BY BusyFields
<1>2. proc[r].id # NONE
    BY <1>1, NoneAssumption
<1>3. PICK t \in tickets :
          t.id = proc[r].id /\ t.key = proc[r].key /\ t.nonce = ask[proc[r].key].nonce
    BY <1>1, <1>2 DEF TicketInv
<1>4. TicketOf(r) \in tickets /\ TicketOf(r).id = proc[r].id /\ TicketOf(r).nonce = proc[r].nonce
    BY DEF TicketInv, TicketOf
<1> QED BY <1>1, <1>2, <1>3, <1>4 DEF TicketInv

\* While the Chat page has redeemed nothing, a failure the driver is about to note is
\* one it was granted.
FailedCounted ==
    LET k == proc[Driver].key
    IN  proc[Driver].pc = "failed" /\ ask[k].claimedBy = proc[Driver].id /\ ~ask[k].spent
            => ask[k].attempts + 1 <= failed[proc[Driver].nonce]

ChargeInv ==
    ~attended =>
        /\ \A c \in Chats : proc[c].pc = "idle"
        /\ FailuresCharged
        /\ FailedCounted

\* As long as the page has not redeemed, it does not: only the driver moves.
LEMMA StillUnattended ==
    ASSUME TypeInv, ChargeInv, [Next]_vars, ~attended'
    PROVE  /\ ~attended
           /\ \A c \in Chats : proc[c].pc = "idle" /\ proc'[c].pc = "idle"
           /\ \A r \in Redeemers : Redeem(r) => r = Driver
<1>0. /\ proc \in [Redeemers -> Redemption] /\ Driver \in Redeemers /\ Driver \notin Chats
      /\ Chats \subseteq Redeemers
    BY TaskAssumption DEF TypeInv, TypeOK, Redeemers
<1>1. ~\E c \in Chats, t \in tickets : ChatRedeem(c, t)
    BY DEF ChatRedeem
<1>2. attended' = attended
    BY <1>1 DEF Next, AbandonAsk, SendAsk, RecordAsk, IssueTicket, Redeem, ClaimGranted,
                ClaimRefused, Dial, AttemptFails, Accept, SpendAsk, SpendFails, Succeed, LoadAsks,
                RemountPage, StartPoll, LoadSnapshot, FetchInbox, FetchFails, DriverRedeem,
                NoteFailure, MirrorFailure, EndDrain, EvictUnlisted, EndPoll, Tick, Restart, vars,
                history
<1>3. ~attended /\ \A c \in Chats : proc[c].pc = "idle"
    BY <1>2 DEF ChargeInv
<1>4. \A r \in Redeemers : Redeem(r) => r = Driver
    BY <1>3 DEF Redeem, ClaimGranted, ClaimRefused, Dial, AttemptFails, Accept, SpendAsk,
                SpendFails, Succeed, Redeemers
<1>5. ASSUME NEW c \in Chats PROVE proc'[c].pc = "idle"
  <2>0. c # Driver /\ c \in Redeemers /\ proc[c].pc = "idle"
      BY <1>0, <1>3
  <2>1. CASE Redeem(Driver)
      BY <1>0, <2>0, <2>1
         DEF Redeem, ClaimGranted, ClaimRefused, Dial, AttemptFails, Accept, SpendAsk,
             SpendFails, Succeed, Fail, Advance
  <2>2. CASE RemountPage
      BY <1>0, <2>0, <2>2 DEF RemountPage, Redemption
  <2>3. CASE \E t \in tickets : DriverRedeem(t)
      BY <1>0, <2>0, <2>3 DEF DriverRedeem
  <2>4. CASE NoteFailure
      BY <1>0, <2>0, <2>4 DEF NoteFailure, Advance
  <2>5. CASE MirrorFailure
      BY <1>0, <2>0, <2>5 DEF MirrorFailure
  <2>6. CASE Restart
      BY <2>0, <2>6 DEF Restart, NotRedeeming
  <2>7. CASE proc' = proc
      BY <2>0, <2>7
  <2>8. \/ Redeem(Driver) \/ RemountPage \/ (\E t \in tickets : DriverRedeem(t))
        \/ NoteFailure \/ MirrorFailure \/ Restart \/ proc' = proc
      BY <1>1, <1>4
         DEF Next, SendAsk, RecordAsk, AbandonAsk, IssueTicket, LoadAsks, StartPoll,
             LoadSnapshot, FetchInbox, FetchFails, EndDrain, EvictUnlisted, EndPoll, Tick, vars
  <2> QED BY <2>1, <2>2, <2>3, <2>4, <2>5, <2>6, <2>7, <2>8
<1> QED BY <1>3, <1>4, <1>5

LEMMA FailedGrows ==
    ASSUME TypeInv, [Next]_vars, NEW n \in Nonces
    PROVE  failed[n] \in Nat /\ failed'[n] \in Nat /\ failed[n] <= failed'[n]
<1>0. Driver \in Redeemers /\ failed \in [Nonces -> Nat] /\ failed' \in [Nonces -> Nat]
    BY TypeInvStep DEF Redeemers, TypeInv, TypeOK
<1>1. CASE AttemptFails(Driver)
    BY <1>0, <1>1 DEF AttemptFails, Counted
<1>2. CASE failed' = failed
    BY <1>0, <1>2
<1>3. AttemptFails(Driver) \/ failed' = failed
  <2>1. Redeem(Driver) => AttemptFails(Driver) \/ failed' = failed
      BY DEF Redeem, ClaimGranted, ClaimRefused, Dial, Accept, SpendAsk, SpendFails, Succeed,
             history
  <2>2. NoteFailure \/ MirrorFailure \/ Restart \/ (\E t \in tickets : DriverRedeem(t))
            => failed' = failed
      BY DEF NoteFailure, MirrorFailure, Restart, DriverRedeem, history
  <2> QED BY <2>1, <2>2, DriverMoves
<1> QED BY <1>1, <1>2, <1>3

LEMMA ChargeStep ==
    ASSUME ClaimInv, TicketInv, ChargeInv, [Next]_vars
    PROVE  ChargeInv'
<1> SUFFICES ASSUME ~attended' PROVE ChargeInv'
    BY DEF ChargeInv
<1>t. TypeInv /\ TypeInv'
    BY TypeInvStep DEF ClaimInv
<1>0. /\ ~attended
      /\ \A c \in Chats : proc[c].pc = "idle" /\ proc'[c].pc = "idle"
      /\ \A r \in Redeemers : Redeem(r) => r = Driver
    BY <1>t, StillUnattended
<1>1. FailuresCharged /\ FailedCounted /\ Driver \in Redeemers
    BY <1>0 DEF ChargeInv, Redeemers
<1>2. \A k \in Keys : ask[k] \in Ask /\ ask'[k] \in Ask
    BY <1>t DEF TypeInv, TypeOK
<1>3. \A k \in Keys : Present(k) => ask[k].nonce \in Nonces
    BY <1>2, BoundsAreNat DEF Present, Ask, Nonces
<1>4. FailuresCharged'
  <2> SUFFICES ASSUME NEW k \in Keys, ask'[k].nonce # 0
               PROVE  ask'[k].attempts <= failed'[ask'[k].nonce]
      BY DEF FailuresCharged, Present
  <2>0. ask'[k].nonce \in Nonces
      BY <1>2, BoundsAreNat DEF Ask, Nonces
  <2>1. /\ failed[ask'[k].nonce] \in Nat /\ failed'[ask'[k].nonce] \in Nat
        /\ failed[ask'[k].nonce] <= failed'[ask'[k].nonce]
      BY <1>t, <2>0, FailedGrows
  <2>2. CASE ask'[k].nonce = ask[k].nonce /\ ask'[k].attempts = ask[k].attempts
    <3>1. ask[k].attempts <= failed[ask[k].nonce] /\ ask[k].attempts \in Nat
        BY <1>1, <1>2, <2>2 DEF FailuresCharged, Present, Ask
    <3> QED BY <2>1, <2>2, <3>1
  <2>3. CASE ask'[k].attempts = 0
      BY <2>1, <2>3
  <2>4. CASE EntryNoted(k)
    <3>1. /\ NoteFailure /\ proc[Driver].key = k /\ ~ask[k].spent
          /\ ask[k].claimedBy = proc[Driver].id
          /\ ask'[k].nonce = ask[k].nonce /\ ask'[k].attempts = ask[k].attempts + 1
        BY <2>4 DEF EntryNoted, SameAsk
    <3>2. proc[Driver].pc = "failed"
        BY <3>1 DEF NoteFailure
    <3>3. ask[k].nonce = proc[Driver].nonce
        BY <1>t, <1>1, <3>1, <3>2, ClaimIsOwn
    <3>4. ask[k].attempts + 1 <= failed[proc[Driver].nonce]
        BY <1>1, <3>1, <3>2 DEF FailedCounted
    <3>5. ask[k].attempts \in Nat
        BY <1>2 DEF Ask
    <3> QED BY <2>1, <3>1, <3>3, <3>4, <3>5
  <2>5. ask'[k] # NoAsk
      BY DEF NoAsk
  <2> QED BY <1>t, <2>2, <2>3, <2>4, <2>5, EntryMoves
          DEF EntryGranted, EntrySpent, EntryRenewed, SameAsk
<1>5. FailedCounted'
  <2> DEFINE k == proc[Driver].key
             n == proc[Driver].nonce
             i == proc[Driver].id
  <2> SUFFICES ASSUME proc'[Driver].pc = "failed",
                      ask'[proc'[Driver].key].claimedBy = proc'[Driver].id,
                      ~ask'[proc'[Driver].key].spent
               PROVE  ask'[proc'[Driver].key].attempts + 1 <= failed'[proc'[Driver].nonce]
      BY DEF FailedCounted
  <2>1. CASE SameRun
    <3>1. /\ proc[Driver].pc = "failed" /\ proc'[Driver].key = k /\ proc'[Driver].id = i
          /\ proc'[Driver].nonce = n
        BY <2>1 DEF SameRun, TicketOf
    <3>2. k \in Keys /\ n \in Nonces /\ i \in Ids /\ i # NONE
        BY <1>t, <1>1, <3>1, BusyFields, NoneAssumption
    <3>3. failed[n] \in Nat /\ failed'[n] \in Nat /\ failed[n] <= failed'[n]
        BY <1>t, <3>2, FailedGrows
    <3>4. CASE ask'[k] = ask[k]
      <4>1. ask[k].attempts + 1 <= failed[n]
          BY <1>1, <3>1, <3>4 DEF FailedCounted
      <4>2. ask[k].attempts \in Nat
          BY <1>2, <3>2 DEF Ask
      <4> QED BY <3>1, <3>3, <3>4, <4>1, <4>2
    <3>5. CASE ask'[k] # ask[k]
      <4>1. ask'[k] # NoAsk /\ ~\E a \in Askers : EntryRenewed(k, a)
          BY <3>1, <3>2 DEF NoAsk, EntryRenewed
      <4>2. ~EntryNoted(k)
        <5>1. SUFFICES ASSUME NoteFailure PROVE FALSE
            BY DEF EntryNoted
        <5>2. proc'[Driver].pc = "noted"
            BY <1>t, <1>1, <5>1 DEF NoteFailure, Advance, TypeInv, TypeOK, Redemption
        <5> QED BY <5>2
      <4>3. ~\E r \in Redeemers : EntryGranted(k, r) \/ EntrySpent(k, r)
          BY <1>0, <3>1 DEF EntryGranted, EntrySpent, Redeem, ClaimGranted, SpendAsk, Succeed
      <4> QED BY <1>t, <3>2, <3>5, <4>1, <4>2, <4>3, EntryMoves
    <3> QED BY <3>4, <3>5
  <2>2. CASE ClaimRefused(Driver)
    <3>1. /\ proc[Driver].pc = "started" /\ ask' = ask
          /\ ~Admits(ask[k], n, i)
          /\ proc'[Driver].key = k /\ proc'[Driver].id = i
        BY <1>t, <1>1, <2>2 DEF ClaimRefused, Fail, TypeInv, TypeOK, Redemption
    <3>2. ask[k].nonce = n
        BY <1>t, <1>1, <3>1, ClaimIsOwn
    <3> QED BY <3>1, <3>2 DEF Admits
  <2>3. CASE AttemptFails(Driver)
    <3>1. /\ proc[Driver].pc # "idle" /\ ask' = ask
          /\ proc'[Driver].key = k /\ proc'[Driver].id = i /\ proc'[Driver].nonce = n
        BY <1>t, <1>1, <2>3 DEF AttemptFails, Fail, TypeInv, TypeOK, Redemption
    <3>2. ask[k].nonce = n /\ k \in Keys /\ n \in Nonces
        BY <1>t, <1>1, <3>1, ClaimIsOwn
    <3>3. failed'[n] = failed[n] + 1
        BY <1>t, <2>3, <3>2 DEF AttemptFails, Counted, TypeInv, TypeOK
    <3>4. ask[k].attempts <= failed[n] /\ ask[k].attempts \in Nat /\ failed[n] \in Nat
      <4>1. Present(k)
          BY <3>2, BoundsAreNat DEF Present, Nonces
      <4> QED BY <1>1, <1>2, <1>t, <3>2, <4>1 DEF FailuresCharged, Ask, TypeInv, TypeOK
    <3> QED BY <3>1, <3>3, <3>4
  <2>4. CASE \/ ClaimGranted(Driver) \/ Dial(Driver) \/ Accept(Driver) \/ SpendAsk(Driver)
             \/ SpendFails(Driver) \/ NoteFailure \/ MirrorFailure \/ Restart
             \/ \E t \in tickets : DriverRedeem(t)
      BY <1>t, <1>1, <2>4
         DEF ClaimGranted, Dial, Accept, Advance, SpendAsk, SpendFails, Succeed, NotRedeeming,
             NoteFailure, MirrorFailure, Restart, DriverRedeem, TypeInv, TypeOK, Redemption
  <2> QED BY <1>t, <2>1, <2>2, <2>3, <2>4, DriverMoves DEF Redeem
<1> QED BY <1>0, <1>4, <1>5 DEF ChargeInv

\* What is not in the trace is charged nothing.
AbsentUncharged == \A k \in Keys : ~Present(k) => ask[k].attempts = 0

DialsRecorded == \A n \in Nonces : dials[n] # 0 => \E q \in recorded : q.nonce = n

\* The snapshot a poll decides on is stale in many ways, but knows the attempts of every
\* entry that has any, except for the one failure that is noted and not mirrored.
SnapshotFresh ==
    driver.pc \in {"loaded", "draining"} =>
        \A k \in Keys :
            \/ ask[k].attempts = 0
            \/ driver.snap[k].nonce # 0 /\ driver.snap[k].attempts = ask[k].attempts
            \/ proc[Driver].pc = "noted" /\ proc[Driver].key = k

\* The dial under way, or failed and still to be charged to entry k.
Unnoted(k) ==
    /\ proc[Driver].key = k /\ proc[Driver].nonce = ask[k].nonce
    /\ \/ proc[Driver].pc \in {"dialling", "accepted"}
       \/ proc[Driver].pc = "failed" /\ ask[k].claimedBy = proc[Driver].id

\* Every dial of an open ask was charged, is about to be, or its note was lost.
DialsCharged ==
    \A k \in Keys : Present(k) /\ ~ask[k].spent =>
        dials[ask[k].nonce]
            <= ask[k].attempts + restarts + lostWrites + (IF Unnoted(k) THEN 1 ELSE 0)

StartedInBudget ==
    LET k == proc[Driver].key
    IN  proc[Driver].pc = "started" /\ ask[k].nonce = proc[Driver].nonce /\ ~ask[k].spent
            => ask[k].attempts < DialCap

ClaimedInBudget ==
    proc[Driver].pc = "claimed"
        => dials[proc[Driver].nonce] < DialCap + restarts + lostWrites

BudgetInv ==
    /\ AbsentUncharged
    /\ DialsRecorded
    /\ SnapshotFresh
    /\ DialsCharged
    /\ StartedInBudget
    /\ ClaimedInBudget
    /\ DialBudget

LEMMA AbsentUnchargedStep ==
    ASSUME TypeInv, TicketInv, AbsentUncharged, [Next]_vars
    PROVE  AbsentUncharged'
<1> SUFFICES ASSUME NEW k \in Keys, ask'[k].nonce = 0 PROVE ask'[k].attempts = 0
    BY DEF AbsentUncharged, Present
<1>1. ~EntryNoted(k)
  <2>1. SUFFICES ASSUME EntryNoted(k) PROVE FALSE
      OBVIOUS
  <2>2. proc[Driver].pc # "idle" /\ Driver \in Redeemers
      BY <2>1 DEF EntryNoted, NoteFailure, Redeemers
  <2>3. ask[k].nonce = proc[Driver].nonce /\ proc[Driver].nonce \in Nonces
      BY <2>1, <2>2, ClaimIsOwn DEF EntryNoted
  <2> QED BY <2>1, <2>3, BoundsAreNat DEF EntryNoted, SameAsk, Nonces
<1> QED BY <1>1, EntryMoves
        DEF AbsentUncharged, Present, EntryGranted, EntrySpent, EntryRenewed, SameAsk, NoAsk

\* Only Dial counts a dial, for the nonce of the driver's redemption.
LEMMA DialsMove ==
    ASSUME TypeInv, [Next]_vars
    PROVE  \/ UNCHANGED dials
           \/ /\ Dial(Driver)
              /\ proc[Driver].nonce \in Nonces
              /\ \A n \in Nonces :
                    dials'[n] = IF n = proc[Driver].nonce THEN dials[n] + 1 ELSE dials[n]
<1>0. Driver \in Redeemers
    BY DEF Redeemers
<1>1. CASE Dial(Driver)
  <2>1. proc[Driver].nonce \in Nonces
      BY <1>0, <1>1, BusyFields DEF Dial
  <2> QED BY <1>1, <2>1 DEF Dial, Counted, TypeInv, TypeOK
<1>2. Dial(Driver) \/ UNCHANGED dials
  <2>1. Redeem(Driver) => Dial(Driver) \/ UNCHANGED dials
      BY DEF Redeem, ClaimGranted, ClaimRefused, AttemptFails, Accept, SpendAsk, SpendFails,
             Succeed, history
  <2>2. NoteFailure \/ MirrorFailure \/ Restart \/ (\E t \in tickets : DriverRedeem(t))
            => UNCHANGED dials
      BY DEF NoteFailure, MirrorFailure, Restart, DriverRedeem, history
  <2> QED BY <2>1, <2>2, DriverMoves
<1> QED BY <1>1, <1>2

LEMMA DialsRecordedStep ==
    ASSUME ClaimInv, DialsRecorded, [Next]_vars
    PROVE  DialsRecorded'
<1>1. TypeInv /\ recorded \subseteq recorded'
    BY CountsGrow DEF ClaimInv
<1>2. CASE UNCHANGED dials
    BY <1>1, <1>2 DEF DialsRecorded
<1>3. CASE Dial(Driver) /\ \A n \in Nonces : n # proc[Driver].nonce => dials'[n] = dials[n]
  <2>1. TicketOf(Driver) \in Held
      BY <1>3 DEF Dial, Held, Admitted, Redeemers
  <2>2. \E q \in recorded : q.nonce = proc[Driver].nonce
      BY <2>1 DEF ClaimInv, HeldAreClaims, TicketOf
  <2> QED BY <1>1, <1>3, <2>2 DEF DialsRecorded
<1> QED BY <1>1, <1>2, <1>3, DialsMove

LEMMA SnapshotFreshStep ==
    ASSUME TypeInv, AbsentUncharged, SnapshotFresh, [Next]_vars
    PROVE  SnapshotFresh'
<1> SUFFICES ASSUME driver'.pc \in {"loaded", "draining"}, NEW k \in Keys
             PROVE  \/ ask'[k].attempts = 0
                    \/ driver'.snap[k].nonce # 0 /\ driver'.snap[k].attempts = ask'[k].attempts
                    \/ proc'[Driver].pc = "noted" /\ proc'[Driver].key = k
    BY DEF SnapshotFresh
<1>0. proc \in [Redeemers -> Redemption] /\ Driver \in Redeemers /\ driver \in Poll
    BY DEF TypeInv, TypeOK, Redeemers
<1>1. CASE LoadSnapshot /\ driver'.snap = ask
    BY <1>1 DEF LoadSnapshot, AbsentUncharged, Present
<1>2. CASE /\ MirrorFailure
           /\ driver.pc \in {"loaded", "draining"}
           /\ driver'.snap = [driver.snap EXCEPT ![proc[Driver].key] = Mirrored(proc[Driver].key)]
  <2>1. ask' = ask /\ proc[Driver].pc = "noted" /\ driver.snap \in [Keys -> Ask]
      BY <1>0, <1>2 DEF MirrorFailure, Poll
  <2>2. CASE k = proc[Driver].key
    <3>1. driver'.snap[k] = ask[k]
        BY <1>2, <2>1, <2>2 DEF Mirrored
    <3> QED BY <2>1, <3>1 DEF AbsentUncharged, Present
  <2>3. CASE k # proc[Driver].key
    <3>1. driver'.snap[k] = driver.snap[k]
        BY <1>2, <2>1, <2>3
    <3> QED BY <1>2, <2>1, <2>3, <3>1 DEF SnapshotFresh
  <2> QED BY <2>2, <2>3
<1>3. CASE ~MirrorFailure /\ driver.pc \in {"loaded", "draining"} /\ driver'.snap = driver.snap
  <2>1. \/ ask[k].attempts = 0
        \/ driver'.snap[k].nonce # 0 /\ driver'.snap[k].attempts = ask[k].attempts
        \/ proc[Driver].pc = "noted" /\ proc[Driver].key = k
      BY <1>3 DEF SnapshotFresh
  <2>2. ASSUME proc[Driver].pc = "noted", proc[Driver].key = k
        PROVE  proc'[Driver].pc = "noted" /\ proc'[Driver].key = k
    <3>1. ~Restart
        BY DEF Restart, Sleeping
    <3>2. ~Redeem(Driver) /\ ~NoteFailure /\ ~\E t \in tickets : DriverRedeem(t)
        BY <2>2 DEF Redeem, ClaimGranted, ClaimRefused, Dial, AttemptFails, Accept, SpendAsk,
                    SpendFails, Succeed, NoteFailure, DriverRedeem, Draining
    <3> QED BY <1>3, <2>2, <3>1, <3>2, DriverMoves DEF SameRun, TicketOf
  <2>3. CASE ask'[k].attempts \in {0, ask[k].attempts}
      BY <2>1, <2>2, <2>3
  <2>4. CASE EntryNoted(k)
    <3>1. proc'[Driver].pc = "noted" /\ proc'[Driver].key = k
        BY <1>0, <2>4 DEF EntryNoted, NoteFailure, Advance, Redemption
    <3> QED BY <3>1
  <2> QED BY <2>3, <2>4, EntryMoves DEF EntryGranted, EntrySpent, EntryRenewed, NoAsk
<1> QED BY <1>1, <1>2, <1>3, SnapshotMoves

LEMMA StartedStep ==
    ASSUME TypeInv, SnapshotFresh, StartedInBudget, [Next]_vars
    PROVE  StartedInBudget'
<1> SUFFICES ASSUME proc'[Driver].pc = "started",
                    ask'[proc'[Driver].key].nonce = proc'[Driver].nonce,
                    ~ask'[proc'[Driver].key].spent
             PROVE  ask'[proc'[Driver].key].attempts < DialCap
    BY DEF StartedInBudget
<1>0. /\ proc \in [Redeemers -> Redemption] /\ Driver \in Redeemers
      /\ DialCap \in Nat /\ DialCap # 0
    BY BoundAssumption, CapAssumption DEF TypeInv, TypeOK, Redeemers
<1>1. CASE SameRun /\ ~Redeem(Driver)
  <2> DEFINE k == proc[Driver].key
  <2>1. /\ proc[Driver].pc = "started" /\ proc'[Driver].key = k
        /\ proc'[Driver].nonce = proc[Driver].nonce
      BY <1>1 DEF SameRun, TicketOf
  <2>2. k \in Keys /\ proc[Driver].nonce \in Nonces
      BY <1>0, <2>1, BusyFields
  <2>3. CASE /\ ask'[k].nonce = ask[k].nonce /\ ask'[k].spent = ask[k].spent
             /\ ask'[k].attempts = ask[k].attempts
      BY <2>1, <2>3 DEF StartedInBudget
  <2>4. CASE ask'[k].attempts = 0
      BY <1>0, <2>1, <2>4
  <2>5. ~EntryNoted(k) /\ ~\E r \in Redeemers : EntrySpent(k, r)
      BY <2>1 DEF EntryNoted, NoteFailure, EntrySpent
  <2> QED BY <2>2, <2>3, <2>4, <2>5, EntryMoves DEF EntryGranted, EntryRenewed, SameAsk, NoAsk
<1>2. ASSUME NEW t \in tickets, DriverRedeem(t)
      PROVE  ask'[proc'[Driver].key].attempts < DialCap
  <2>1. t.key \in Keys
      BY DEF TypeInv, TypeOK, Ticket
  <2>2. proc'[Driver].key = t.key /\ ask' = ask
      BY <1>0, <1>2 DEF DriverRedeem
  <2>3. driver.pc = "draining" /\ proc[Driver].pc = "idle" /\ Redeemable(t)
      BY <1>2 DEF DriverRedeem, Draining
  <2>4. \/ ask[t.key].attempts = 0
        \/ /\ driver.snap[t.key].nonce # 0
           /\ driver.snap[t.key].attempts = ask[t.key].attempts
      BY <2>1, <2>3 DEF SnapshotFresh
  <2>5. driver.snap[t.key].nonce # 0 => driver.snap[t.key].attempts < DialCap
      BY <2>3 DEF Redeemable, DialReady
  <2> QED BY <1>0, <2>2, <2>4, <2>5
<1>3. ~Redeem(Driver) /\ ~NoteFailure /\ ~MirrorFailure /\ ~Restart
    BY <1>0 DEF Redeem, ClaimGranted, ClaimRefused, Dial, AttemptFails, Accept, SpendAsk,
                SpendFails, Succeed, Fail, Advance, NoteFailure, MirrorFailure, Restart,
                NotRedeeming, Redemption
<1> QED BY <1>1, <1>2, <1>3, DriverMoves

LEMMA ClaimedStep ==
    ASSUME TypeInv, DialsCharged, StartedInBudget, ClaimedInBudget, [Next]_vars
    PROVE  ClaimedInBudget'
<1> SUFFICES ASSUME proc'[Driver].pc = "claimed"
             PROVE  dials'[proc'[Driver].nonce] < DialCap + restarts' + lostWrites'
    BY DEF ClaimedInBudget
<1>0. /\ proc \in [Redeemers -> Redemption] /\ Driver \in Redeemers /\ DialCap \in Nat
      /\ dials \in [Nonces -> Nat]
    BY BoundAssumption DEF TypeInv, TypeOK, Redeemers
<1>1. /\ restarts \in Nat /\ restarts' \in Nat /\ restarts <= restarts'
      /\ lostWrites \in Nat /\ lostWrites' \in Nat /\ lostWrites <= lostWrites'
    BY CountsGrow
<1>2. CASE SameRun /\ UNCHANGED dials
  <2>1. proc[Driver].pc = "claimed" /\ proc'[Driver].nonce = proc[Driver].nonce
      BY <1>2 DEF SameRun, TicketOf
  <2>2. dials[proc[Driver].nonce] < DialCap + restarts + lostWrites
      BY <2>1 DEF ClaimedInBudget
  <2>3. dials[proc[Driver].nonce] \in Nat
      BY <1>0, <2>1, BusyFields
  <2> QED BY <1>0, <1>1, <1>2, <2>1, <2>2, <2>3
<1>3. CASE ClaimGranted(Driver)
  <2> DEFINE k == proc[Driver].key
             n == proc[Driver].nonce
  <2>1. k \in Keys /\ n \in Nonces
      BY <1>0, <1>3, BusyFields DEF ClaimGranted
  <2>2. proc[Driver].pc = "started" /\ ask[k].nonce = n /\ ~ask[k].spent
      BY <1>3 DEF ClaimGranted, Admits
  <2>3. proc'[Driver].nonce = n /\ dials' = dials
      BY <1>0, <1>3 DEF ClaimGranted, Advance, Redemption, history
  <2>4. Present(k) /\ ~Unnoted(k)
      BY <2>1, <2>2, BoundsAreNat DEF Present, Nonces, Unnoted
  <2>5. dials[n] <= ask[k].attempts + restarts + lostWrites + 0
      BY <2>1, <2>2, <2>4 DEF DialsCharged
  <2>6. ask[k].attempts < DialCap /\ ask[k].attempts \in Nat /\ dials[n] \in Nat
      BY <1>0, <2>1, <2>2 DEF StartedInBudget, TypeInv, TypeOK, Ask
  <2> QED BY <1>0, <1>1, <2>3, <2>5, <2>6
<1>4. Redeem(Driver) => ClaimGranted(Driver)
    BY <1>0 DEF Redeem, ClaimRefused, Dial, AttemptFails, Accept, SpendAsk, SpendFails, Succeed,
                Fail, Advance, NotRedeeming, Redemption
<1>5. ~NoteFailure /\ ~MirrorFailure /\ ~Restart /\ ~\E t \in tickets : DriverRedeem(t)
    BY <1>0 DEF NoteFailure, Advance, MirrorFailure, Restart, DriverRedeem, NotRedeeming,
                Redemption
<1> QED BY <1>2, <1>3, <1>4, <1>5, DriverMoves

LEMMA DialBudgetStep ==
    ASSUME TypeInv, ClaimedInBudget, DialBudget, [Next]_vars
    PROVE  DialBudget'
<1> SUFFICES ASSUME NEW n \in Nonces PROVE dials'[n] <= DialCap + restarts' + lostWrites'
    BY DEF DialBudget
<1>0. DialCap \in Nat /\ dials[n] \in Nat /\ dials[n] <= DialCap + restarts + lostWrites
    BY BoundAssumption DEF TypeInv, TypeOK, DialBudget
<1>1. /\ restarts \in Nat /\ restarts' \in Nat /\ restarts <= restarts'
      /\ lostWrites \in Nat /\ lostWrites' \in Nat /\ lostWrites <= lostWrites'
    BY CountsGrow
<1>2. CASE UNCHANGED dials
    BY <1>0, <1>1, <1>2
<1>3. CASE /\ Dial(Driver)
           /\ dials'[n] = IF n = proc[Driver].nonce THEN dials[n] + 1 ELSE dials[n]
  <2>1. dials[proc[Driver].nonce] < DialCap + restarts + lostWrites
      BY <1>3 DEF Dial, ClaimedInBudget
  <2> QED BY <1>0, <1>1, <1>3, <2>1
<1> QED BY <1>2, <1>3, DialsMove

\* The driver's step on its own redemption leaves no dial of an open ask uncharged.
LEMMA OwnStepCharged ==
    ASSUME ClaimInv, DialsCharged, Redeem(Driver), [Next]_vars,
           NEW k \in Keys, ask'[k] = ask[k], Present(k), ~ask[k].spent
    PROVE  dials'[ask'[k].nonce]
               <= ask'[k].attempts + restarts' + lostWrites' + (IF Unnoted(k)' THEN 1 ELSE 0)
<1> DEFINE m == ask[k].nonce
           n == proc[Driver].nonce
           extra == IF Unnoted(k) THEN 1 ELSE 0
<1>t. TypeInv
    BY DEF ClaimInv
<1>0. /\ proc \in [Redeemers -> Redemption] /\ Driver \in Redeemers
      /\ ask[k] \in Ask /\ dials \in [Nonces -> Nat]
    BY <1>t DEF TypeInv, TypeOK, Redeemers
<1>1. /\ restarts \in Nat /\ restarts' \in Nat /\ restarts <= restarts'
      /\ lostWrites \in Nat /\ lostWrites' \in Nat /\ lostWrites <= lostWrites'
    BY <1>t, CountsGrow
<1>2. m \in Nonces /\ dials[m] \in Nat /\ ask[k].attempts \in Nat
  <2>1. m \in Nonces
      BY <1>0, BoundsAreNat DEF Ask, Present, Nonces
  <2> QED BY <1>0, <2>1 DEF Ask
<1>3. dials[m] <= ask[k].attempts + restarts + lostWrites + extra
    BY DEF DialsCharged
<1>4. proc[Driver].pc \in Admitted /\ m = n
          => k = proc[Driver].key /\ ask[k].claimedBy = proc[Driver].id
  <2> SUFFICES ASSUME proc[Driver].pc \in Admitted, m = n
               PROVE  k = proc[Driver].key /\ ask[k].claimedBy = proc[Driver].id
      OBVIOUS
  <2>1. TicketOf(Driver) \in Held
      BY <1>0 DEF Held
  <2>2. PICK q \in recorded : q.key = proc[Driver].key /\ q.nonce = n
      BY <2>1 DEF ClaimInv, HeldAreClaims, TicketOf
  <2>3. PICK p \in recorded : p.key = k /\ p.nonce = m
      BY DEF ClaimInv, EntriesRecorded
  <2>4. k = proc[Driver].key
      BY <2>2, <2>3 DEF ClaimInv, RecordedOnce
  <2>5. ask[k].claimedBy = proc[Driver].id
      BY <2>1 DEF ClaimInv, HeldAreClaims, TicketOf
  <2> QED BY <2>4, <2>5
<1>5. CASE ClaimGranted(Driver) \/ ClaimRefused(Driver)
  <2>1. ~Unnoted(k) /\ dials' = dials
      BY <1>5 DEF ClaimGranted, ClaimRefused, Unnoted, history
  <2> QED BY <1>1, <1>2, <1>3, <2>1
<1>6. CASE Dial(Driver)
  <2>1. proc[Driver].pc = "claimed" /\ ~Unnoted(k)
      BY <1>6 DEF Dial, Unnoted
  <2>2. CASE m = n
    <3>1. dials'[m] = dials[m] + 1
        BY <1>0, <1>2, <1>6, <2>2 DEF Dial, Counted
    <3>2. Unnoted(k)'
      <4>1. /\ proc'[Driver].pc = "dialling" /\ proc'[Driver].key = proc[Driver].key
            /\ proc'[Driver].nonce = n
          BY <1>0, <1>6 DEF Dial, Advance, Redemption
      <4>2. k = proc[Driver].key
          BY <1>4, <2>1, <2>2 DEF Admitted
      <4> QED BY <2>2, <4>1, <4>2 DEF Unnoted
    <3> QED BY <1>1, <1>2, <1>3, <2>1, <3>1, <3>2
  <2>3. CASE m # n
    <3>1. dials'[m] = dials[m]
        BY <1>0, <1>2, <1>6, <2>3 DEF Dial, Counted
    <3> QED BY <1>1, <1>2, <1>3, <2>1, <3>1
  <2> QED BY <2>2, <2>3
<1>7. CASE AttemptFails(Driver) \/ Accept(Driver)
  <2>1. dials' = dials /\ proc[Driver].pc \in Admitted
      BY <1>7 DEF AttemptFails, Accept, Admitted, history
  <2>2. /\ proc'[Driver].pc \in {"failed", "accepted"}
        /\ proc'[Driver].key = proc[Driver].key /\ proc'[Driver].nonce = n
        /\ proc'[Driver].id = proc[Driver].id
      BY <1>0, <1>7 DEF AttemptFails, Fail, Accept, Advance, Redemption
  <2>3. Unnoted(k) => Unnoted(k)'
      BY <1>4, <2>1, <2>2 DEF Unnoted
  <2> QED BY <1>1, <1>2, <1>3, <2>1, <2>3
<1>8. CASE SpendAsk(Driver)
  <2>1. dials' = dials /\ proc[Driver].pc = "accepted"
      BY <1>8 DEF SpendAsk, Succeed
  <2>2. ~Unnoted(k)
    <3> SUFFICES ASSUME Unnoted(k) PROVE FALSE
        OBVIOUS
    <3>1. k = proc[Driver].key /\ m = n
        BY DEF Unnoted
    <3>2. ask'[k] = [ask[k] EXCEPT !.spent = TRUE]
        BY <1>t, <1>8, <3>1 DEF SpendAsk, Spent, TypeInv, TypeOK
    <3>3. ask'[k].spent
        BY <1>0, <3>2 DEF Ask
    <3> QED BY <3>3
  <2> QED BY <1>1, <1>2, <1>3, <2>1, <2>2
<1>9. CASE SpendFails(Driver)
  <2>1. dials' = dials /\ lostWrites' = lostWrites + 1
      BY <1>9 DEF SpendFails, Succeed
  <2> QED BY <1>1, <1>2, <1>3, <2>1
<1> QED BY <1>5, <1>6, <1>7, <1>8, <1>9 DEF Redeem

\* An entry that stays as it is, whoever moves.
LEMMA UntouchedCharged ==
    ASSUME ClaimInv, DialsCharged, [Next]_vars,
           NEW k \in Keys, ask'[k] = ask[k], Present(k), ~ask[k].spent
    PROVE  dials'[ask'[k].nonce]
               <= ask'[k].attempts + restarts' + lostWrites' + (IF Unnoted(k)' THEN 1 ELSE 0)
<1> DEFINE m == ask[k].nonce
           extra == IF Unnoted(k) THEN 1 ELSE 0
<1>t. TypeInv
    BY DEF ClaimInv
<1>0. /\ proc \in [Redeemers -> Redemption] /\ Driver \in Redeemers
      /\ ask[k] \in Ask /\ dials \in [Nonces -> Nat]
    BY <1>t DEF TypeInv, TypeOK, Redeemers
<1>1. /\ restarts \in Nat /\ restarts' \in Nat /\ restarts <= restarts'
      /\ lostWrites \in Nat /\ lostWrites' \in Nat /\ lostWrites <= lostWrites'
    BY <1>t, CountsGrow
<1>2. m \in Nonces /\ dials[m] \in Nat /\ ask[k].attempts \in Nat
  <2>1. m \in Nonces
      BY <1>0, BoundsAreNat DEF Ask, Present, Nonces
  <2> QED BY <1>0, <2>1 DEF Ask
<1>3. dials[m] <= ask[k].attempts + restarts + lostWrites + extra
    BY DEF DialsCharged
<1>4. CASE SameRun /\ UNCHANGED dials
  <2>1. Unnoted(k)' = Unnoted(k)
      BY <1>4 DEF SameRun, TicketOf, Unnoted
  <2> QED BY <1>1, <1>2, <1>3, <1>4, <2>1
<1>5. CASE Redeem(Driver)
    BY <1>5, OwnStepCharged
<1>6. CASE MirrorFailure \/ \E t \in tickets : DriverRedeem(t)
  <2>1. dials' = dials /\ ~Unnoted(k)
      BY <1>6 DEF MirrorFailure, DriverRedeem, Draining, Unnoted, history
  <2> QED BY <1>1, <1>2, <1>3, <2>1
<1>7. CASE NoteFailure
  <2>1. dials' = dials /\ proc[Driver].pc = "failed"
      BY <1>7 DEF NoteFailure, history
  <2>2. CASE lostWrites' = lostWrites + 1
      BY <1>1, <1>2, <1>3, <2>1, <2>2
  <2>3. CASE ask' = [ask EXCEPT ![proc[Driver].key] = Noted(@, proc[Driver].id)]
    <3>1. ~Unnoted(k)
      <4> SUFFICES ASSUME Unnoted(k) PROVE FALSE
          OBVIOUS
      <4>1. k = proc[Driver].key /\ ask[k].claimedBy = proc[Driver].id
          BY <2>1 DEF Unnoted
      <4>2. ask'[k] = [ask[k] EXCEPT !.attempts = ask[k].attempts + 1, !.lastFail = now]
          BY <1>t, <2>3, <4>1 DEF Noted, TypeInv, TypeOK
      <4>3. ask'[k].attempts = ask[k].attempts + 1
          BY <1>0, <4>2 DEF Ask
      <4> QED BY <1>2, <4>3
    <3> QED BY <1>1, <1>2, <1>3, <2>1, <3>1
  <2> QED BY <1>7, <2>2, <2>3 DEF NoteFailure
<1>8. CASE Restart
  <2>1. dials' = dials /\ restarts' = restarts + 1
      BY <1>8 DEF Restart, history
  <2> QED BY <1>1, <1>2, <1>3, <2>1
<1> QED BY <1>t, <1>4, <1>5, <1>6, <1>7, <1>8, DriverMoves

LEMMA DialsChargedStep ==
    ASSUME ClaimInv, TicketInv, DialsRecorded, DialsCharged, [Next]_vars
    PROVE  DialsCharged'
<1> SUFFICES ASSUME NEW k \in Keys, ask'[k].nonce # 0, ~ask'[k].spent
             PROVE  dials'[ask'[k].nonce]
                        <= ask'[k].attempts + restarts' + lostWrites'
                               + (IF Unnoted(k)' THEN 1 ELSE 0)
    BY DEF DialsCharged, Present
<1> DEFINE m == ask[k].nonce
           extra == IF Unnoted(k) THEN 1 ELSE 0
<1>t. TypeInv
    BY DEF ClaimInv
<1>0. /\ proc \in [Redeemers -> Redemption] /\ Driver \in Redeemers
      /\ ask[k] \in Ask /\ dials \in [Nonces -> Nat]
    BY <1>t DEF TypeInv, TypeOK, Redeemers
<1>1. /\ restarts \in Nat /\ restarts' \in Nat /\ restarts <= restarts'
      /\ lostWrites \in Nat /\ lostWrites' \in Nat /\ lostWrites <= lostWrites'
    BY <1>t, CountsGrow
<1>2. CASE ask'[k] = ask[k]
    BY <1>2, UntouchedCharged DEF Present
<1>3. ASSUME NEW a \in Askers, EntryRenewed(k, a)
      PROVE  dials'[ask'[k].nonce] = 0 /\ ask'[k].attempts = 0
  <2>1. RecordAsk(a) /\ asker[a] # NotAsking /\ ask'[k].nonce = asker[a].nonce
      BY <1>3 DEF EntryRenewed
  <2>2. asker[a].nonce \in Nonces
      BY <1>t, <2>1, BoundsAreNat DEF TypeInv, TypeOK, AskersSent, Nonces
  <2>3. dials[asker[a].nonce] = 0
      BY <2>1, <2>2 DEF DialsRecorded, ClaimInv, RecordedOnce
  <2> QED BY <1>3, <2>1, <2>3 DEF EntryRenewed, RecordAsk
<1>4. ASSUME m # 0, ~ask[k].spent, ask'[k].nonce = m, dials'[m] = dials[m]
      PROVE  /\ m \in Nonces /\ dials[m] \in Nat /\ ask[k].attempts \in Nat
             /\ dials[m] <= ask[k].attempts + restarts + lostWrites + extra
  <2>1. m \in Nonces
      BY <1>0, <1>4, BoundsAreNat DEF Ask, Nonces
  <2> QED BY <1>0, <1>4, <2>1 DEF Ask, DialsCharged, Present
<1>5. ASSUME NEW r \in Redeemers, EntryGranted(k, r)
      PROVE  dials'[ask'[k].nonce]
                 <= ask'[k].attempts + restarts' + lostWrites' + (IF Unnoted(k)' THEN 1 ELSE 0)
  <2>1. /\ ClaimGranted(r) /\ ask'[k].nonce = m /\ ask'[k].attempts = ask[k].attempts
        /\ ~ask[k].spent /\ ask[k].claimedBy \in {NONE, proc[r].id}
        /\ ask'[k].claimedBy = proc[r].id
      BY <1>5 DEF EntryGranted, SameAsk
  <2>2. dials' = dials
      BY <2>1 DEF ClaimGranted, history
  <2>3. Unnoted(k) => Unnoted(k)'
    <3> SUFFICES ASSUME Unnoted(k) PROVE Unnoted(k)'
        OBVIOUS
    <3>1. r # Driver
        BY <2>1 DEF Unnoted, ClaimGranted
    <3>2. proc'[Driver] = proc[Driver]
        BY <1>0, <2>1, <3>1 DEF ClaimGranted, Advance
    <3>3. proc[Driver].pc = "failed" => proc[Driver].id # NONE
        BY <1>t, <1>0, BusyFields, NoneAssumption
    <3> QED BY <2>1, <3>2, <3>3 DEF Unnoted
  <2>4. /\ dials[m] \in Nat /\ ask[k].attempts \in Nat
        /\ dials[m] <= ask[k].attempts + restarts + lostWrites + extra
      BY <1>4, <2>1, <2>2
  <2> QED BY <1>1, <2>1, <2>2, <2>3, <2>4
<1>6. CASE EntryNoted(k)
  <2>1. /\ NoteFailure /\ ask'[k].nonce = m /\ ask'[k].attempts = ask[k].attempts + 1
        /\ ~ask[k].spent
      BY <1>6 DEF EntryNoted, SameAsk
  <2>2. dials' = dials
      BY <2>1 DEF NoteFailure, history
  <2>3. /\ dials[m] \in Nat /\ ask[k].attempts \in Nat
        /\ dials[m] <= ask[k].attempts + restarts + lostWrites + extra
      BY <1>4, <2>1, <2>2
  <2> QED BY <1>1, <2>1, <2>2, <2>3
<1>7. ask'[k] # NoAsk /\ ~\E r \in Redeemers : EntrySpent(k, r)
    BY DEF NoAsk, EntrySpent
<1>8. CASE \E a \in Askers : EntryRenewed(k, a)
    BY <1>1, <1>3, <1>8
<1> QED BY <1>t, <1>2, <1>5, <1>6, <1>7, <1>8, EntryMoves

LedgerInv == ClaimInv /\ TicketInv /\ ChargeInv /\ BudgetInv

LEMMA InitLedgerInv == Init => LedgerInv
<1> SUFFICES ASSUME Init PROVE LedgerInv
    OBVIOUS
<1>1. ClaimInv
    BY InitClaimInv
<1>2. Driver \in Redeemers /\ Chats \subseteq Redeemers
    BY DEF Redeemers
<1>3. TicketInv
    BY <1>2 DEF Init, TicketInv, NotRedeeming, NoAsk
<1>4. ChargeInv
    BY <1>2 DEF Init, ChargeInv, NotRedeeming, FailuresCharged, FailedCounted, Present, NoAsk
<1>5. AbsentUncharged /\ DialsRecorded /\ SnapshotFresh /\ DialsCharged
    BY DEF Init, AbsentUncharged, DialsRecorded, SnapshotFresh, DialsCharged, Present, NoAsk,
           Sleeping
<1>6. StartedInBudget /\ ClaimedInBudget
    BY <1>2 DEF Init, StartedInBudget, ClaimedInBudget, NotRedeeming
<1>7. DialBudget
    BY BoundAssumption DEF Init, DialBudget
<1> QED BY <1>1, <1>3, <1>4, <1>5, <1>6, <1>7 DEF LedgerInv, BudgetInv

LEMMA LedgerInvStep == LedgerInv /\ [Next]_vars => LedgerInv'
<1> SUFFICES ASSUME LedgerInv, [Next]_vars PROVE LedgerInv'
    OBVIOUS
<1>0. ClaimInv /\ TypeInv /\ TicketInv /\ ChargeInv /\ BudgetInv
    BY DEF LedgerInv, ClaimInv
<1>1. ClaimInv' /\ TicketInv' /\ ChargeInv'
    BY <1>0, ClaimInvStep, TicketStep, ChargeStep
<1>2. AbsentUncharged' /\ DialsRecorded' /\ SnapshotFresh'
    BY <1>0, AbsentUnchargedStep, DialsRecordedStep, SnapshotFreshStep DEF BudgetInv
<1>3. DialsCharged' /\ StartedInBudget' /\ ClaimedInBudget' /\ DialBudget'
    BY <1>0, DialsChargedStep, StartedStep, ClaimedStep, DialBudgetStep DEF BudgetInv
<1> QED BY <1>1, <1>2, <1>3 DEF LedgerInv, BudgetInv

\* The unattended loop stays inside its dial budget whatever runs beside it, and an ask
\* is charged for its own failures alone as long as the Chat page has redeemed nothing.
THEOREM BudgetKept == Spec => []OwnBudgetHolds
<1>1. LedgerInv => OwnBudgetHolds
    BY DEF LedgerInv, BudgetInv, ChargeInv, OwnBudgetHolds
<1> QED BY <1>1, InitLedgerInv, LedgerInvStep, PTL DEF Spec

-----------------------------------------------------------------------------
(* The trace redeems each ask as Redemption says *)

\* What is being fetched, or was accepted, was dialled.
FetchedDialled ==
    \A r \in Redeemers : proc[r].pc \in {"dialling", "accepted"} => TicketOf(r) \in dialled

LEMMA FetchedStep == TypeInv /\ FetchedDialled /\ [Next]_vars => FetchedDialled'
<1> SUFFICES ASSUME TypeInv, FetchedDialled, [Next]_vars, NEW r \in Redeemers,
                    proc'[r].pc \in {"dialling", "accepted"}
             PROVE  TicketOf(r)' \in dialled'
    BY DEF FetchedDialled
<1>1. CASE \E s \in Redeemers : Redeem(s)
  <2>1. PICK s \in Redeemers : Redeem(s)
      BY <1>1
  <2>2. dialled \subseteq dialled'
      BY <2>1 DEF Redeem, ClaimGranted, ClaimRefused, Dial, AttemptFails, Accept, SpendAsk,
                  SpendFails, Succeed, history
  <2>3. CASE Dial(s) /\ s = r
    <3>1. TicketOf(r)' = TicketOf(r)
        BY <2>3 DEF Dial, Advance, TicketOf, TypeInv, TypeOK, Redemption
    <3> QED BY <2>3, <3>1 DEF Dial
  <2>4. CASE Accept(s) /\ s = r
    <3>1. TicketOf(r)' = TicketOf(r)
        BY <2>4 DEF Accept, Advance, TicketOf, TypeInv, TypeOK, Redemption
    <3> QED BY <2>2, <2>4, <3>1 DEF Accept, FetchedDialled
  <2>5. CASE s # r
    <3>1. proc'[r] = proc[r]
        BY <2>1, <2>5 DEF Redeem, ClaimGranted, ClaimRefused, Dial, AttemptFails, Accept,
                  SpendAsk, SpendFails, Succeed, Fail, Advance, TypeInv, TypeOK
    <3> QED BY <2>2, <3>1 DEF FetchedDialled, TicketOf
  <2>6. CASE s = r /\ ClaimGranted(r)
      BY <2>6 DEF ClaimGranted, Advance, TypeInv, TypeOK, Redemption
  <2>7. CASE s = r /\ (ClaimRefused(r) \/ AttemptFails(r))
      BY <2>7 DEF ClaimRefused, AttemptFails, Fail, NotRedeeming, TypeInv, TypeOK, Redemption
  <2>8. CASE s = r /\ (SpendAsk(r) \/ SpendFails(r))
      BY <2>8 DEF SpendAsk, SpendFails, Succeed, NotRedeeming, TypeInv, TypeOK
  <2> QED BY <2>1, <2>3, <2>4, <2>5, <2>6, <2>7, <2>8 DEF Redeem
<1>2. CASE QuietAction
  <2>1. proc[r].pc = proc'[r].pc /\ TicketOf(r)' = TicketOf(r)
      BY <1>2, QuietHolds DEF Admitted
  <2>2. dialled' = dialled
      BY <1>2 DEF QuietAction, AbandonAsk, IssueTicket, LoadAsks, RemountPage, ChatRedeem,
             StartPoll, LoadSnapshot, FetchInbox, FetchFails, DriverRedeem, NoteFailure,
             MirrorFailure, EndDrain, EvictUnlisted, EndPoll, Tick, Restart, history
  <2> QED BY <2>1, <2>2 DEF FetchedDialled
<1>3. CASE UNCHANGED <<proc, dialled>>
    BY <1>3 DEF FetchedDialled, TicketOf
<1>4. (\E a \in Askers : RecordAsk(a) \/ \E k \in Keys : SendAsk(a, k)) \/ UNCHANGED vars
        => UNCHANGED <<proc, dialled>>
    BY DEF RecordAsk, SendAsk, vars, history
<1> QED BY <1>1, <1>2, <1>3, <1>4 DEF Next, QuietAction

TakenInv == CloseInv /\ FetchedDialled

LEMMA TakenInvariant == Spec => []TakenInv
<1>1. Init => FetchedDialled
    BY DEF Init, FetchedDialled, NotRedeeming
<1>2. CloseInv => TypeInv
    BY DEF CloseInv, ClaimInv
<1> QED BY <1>1, <1>2, FetchedStep, CloseInvariant, PTL DEF Spec, TakenInv

\* A ticket in the hands of a redeemer is a ticket, and not the absence of one.
LEMMA HeldTicket ==
    ASSUME TypeInv, NEW r \in Redeemers, proc[r].pc \in Admitted
    PROVE  /\ TicketOf(r) \in Ticket /\ TicketOf(r) # NoTicket /\ TicketOf(r) \in Held
           /\ HoldsView[r] = TicketOf(r)
<1>1. TicketOf(r) \in Ticket
    BY DEF TypeInv, BusyHasTicket, Admitted
<1>2. TicketOf(r).nonce \in Nonces /\ NoTicket.nonce \notin Nonces
    BY <1>1, BoundsAreNat DEF Ticket, NoTicket, Nonces
<1> QED BY <1>1, <1>2 DEF Held, HoldsView

LEMMA InUseIsHeld ==
    ASSUME TypeInv
    PROVE  Redeeming!InUse = Held
<1>1. \A r \in Redeemers : proc[r].pc \notin Admitted => HoldsView[r] = NoTicket
    BY DEF HoldsView
<1> QED BY <1>1, HeldTicket DEF Redeeming!InUse, Held

\* Who goes on with what was granted, and who lets go of it.
LEMMA LetsGo ==
    ASSUME UNCHANGED <<recorded, dialled, delivered, settled>>,
           \A r \in Redeemers : proc'[r].pc \in Admitted =>
               proc[r].pc \in Admitted /\ TicketOf(r)' = TicketOf(r)
    PROVE  \E some \in SUBSET Redeemers : Redeeming!LetGo(some)
<1> DEFINE some == {r \in Redeemers : proc'[r].pc \notin Admitted}
<1>1. HoldsView' = [r \in Redeemers |-> IF r \in some THEN NoTicket ELSE HoldsView[r]]
    BY DEF HoldsView
<1>2. AsksView' = AsksView
    BY DEF AsksView
<1>3. Redeeming!LetGo(some)
    BY <1>1, <1>2 DEF Redeeming!LetGo
<1> QED BY <1>3

LEMMA RecordRedeems ==
    ASSUME TakenInv, NEW a \in Askers, RecordAsk(a)
    PROVE  Redeeming!Next
<1> DEFINE q == [key |-> asker[a].key, nonce |-> asker[a].nonce]
<1>1. asker[a].key \in Keys /\ asker[a].nonce \in Nonces /\ asker[a] # NotAsking
  <2>1. minted \in 0 .. MaxAsks
      BY DEF TakenInv, CloseInv, ClaimInv, TypeInv, TypeOK
  <2> QED BY <2>1, BoundsAreNat
          DEF RecordAsk, TakenInv, CloseInv, ClaimInv, TypeInv, AskersSent, Nonces
<1>2. \A p \in AsksView : p.nonce # q.nonce
    BY <1>1 DEF AsksView, TakenInv, CloseInv, ClaimInv, RecordedOnce
<1>3. AsksView' = AsksView \cup {q}
  <2> DEFINE p == [key |-> asker[a].key, nonce |-> asker[a].nonce, at |-> now]
  <2>1. recorded' = recorded \cup {p}
      BY DEF RecordAsk
  <2>2. [key |-> p.key, nonce |-> p.nonce] = q
      OBVIOUS
  <2> HIDE DEF p, q
  <2> QED BY <2>1, <2>2 DEF AsksView
<1>4. HoldsView' = HoldsView /\ UNCHANGED <<dialled, delivered, settled>>
    BY DEF RecordAsk, HoldsView, TicketOf
<1>5. Redeeming!Record(q)
    BY <1>2, <1>3, <1>4 DEF Redeeming!Record
<1>6. q \in [key : Keys, nonce : Nonces]
    BY <1>1
<1> QED BY <1>5, <1>6 DEF Redeeming!Next

\* What a grant of the trace means: the ask was recorded, is not done with, and no
\* other ticket of it is in anybody's hands.
LEMMA GrantRedeems ==
    ASSUME TakenInv, ClaimInv', NEW r \in Redeemers, ClaimGranted(r)
    PROVE  Redeeming!Next
<1> DEFINE t == TicketOf(r)
<1>0. TypeInv /\ TypeInv'
    BY DEF TakenInv, CloseInv, ClaimInv
<1>1. t \in Ticket /\ t.key = proc[r].key /\ t.nonce = proc[r].nonce /\ t.id = proc[r].id
    BY <1>0 DEF ClaimGranted, TypeInv, BusyHasTicket, TicketOf
<1>2. ask[t.key].nonce = t.nonce /\ ~ask[t.key].spent
    BY <1>1 DEF ClaimGranted, Admits
<1>3. t.key \in Keys /\ t.nonce # 0
    BY <1>1, BoundsAreNat DEF Ticket, Nonces
<1>4. Redeeming!AskOf(t) \in AsksView
  <2>1. PICK q \in recorded : q.key = t.key /\ q.nonce = t.nonce
      BY <1>2, <1>3 DEF TakenInv, CloseInv, ClaimInv, EntriesRecorded, Present
  <2> QED BY <2>1 DEF AsksView, Redeeming!AskOf
<1>5. t.nonce \notin settled
    BY <1>2, <1>3 DEF TakenInv, CloseInv, SettledInv
<1>6. /\ proc'[r].pc = "claimed" /\ TicketOf(r)' = t
      /\ \A s \in Redeemers \ {r} : proc'[s] = proc[s]
    BY <1>0 DEF ClaimGranted, Advance, TicketOf, TypeInv, TypeOK, Redemption
<1>7. UNCHANGED <<recorded, dialled, delivered, settled>>
    BY DEF ClaimGranted, history
<1>8. \A s \in Held : s \in Held' /\ t \in Held'
  <2>1. t \in Held'
      BY <1>6 DEF Held, Admitted
  <2>2. \A u \in Redeemers : proc[u].pc \in Admitted =>
            proc'[u].pc \in Admitted /\ TicketOf(u)' = TicketOf(u)
      BY <1>6 DEF ClaimGranted, TicketOf, Admitted
  <2> QED BY <1>7, <2>1, <2>2 DEF Held
<1>9. \A s \in Redeeming!InUse : ~Redeeming!Rivals(s, t)
    BY <1>0, <1>8, InUseIsHeld DEF ClaimInv, HeldAgree, Redeeming!Rivals
<1>10. HoldsView[r] = NoTicket
    BY DEF HoldsView, ClaimGranted, Admitted
<1>11. HoldsView' = [HoldsView EXCEPT ![r] = t]
    BY <1>6 DEF HoldsView, TicketOf, Admitted
<1>12. AsksView' = AsksView
    BY <1>7 DEF AsksView
<1>13. Redeeming!Take(r, t)
    BY <1>4, <1>5, <1>7, <1>9, <1>10, <1>11, <1>12 DEF Redeeming!Take
<1> QED BY <1>1, <1>13 DEF Redeeming!Next

LEMMA FetchRedeems ==
    ASSUME TakenInv, NEW r \in Redeemers, Dial(r) \/ Accept(r)
    PROVE  Redeeming!Next
<1>0. TypeInv /\ proc[r].pc \in Admitted
    BY DEF TakenInv, CloseInv, ClaimInv, Dial, Accept, Admitted
<1>1. HoldsView[r] = TicketOf(r) /\ TicketOf(r) # NoTicket
    BY <1>0, HeldTicket
<1>2. HoldsView' = HoldsView
  <2>1. \A s \in Redeemers : /\ TicketOf(s)' = TicketOf(s)
                             /\ proc'[s].pc \in Admitted <=> proc[s].pc \in Admitted
      BY <1>0 DEF Dial, Accept, Advance, TicketOf, Admitted, TypeInv, TypeOK, Redemption
  <2> QED BY <2>1 DEF HoldsView
<1>3. CASE Dial(r)
  <2>1. Redeeming!Dial(r)
      BY <1>1, <1>2, <1>3 DEF Redeeming!Dial, Dial, AsksView
  <2> QED BY <2>1 DEF Redeeming!Next
<1>4. CASE Accept(r)
  <2>1. TicketOf(r) \in dialled
      BY <1>4 DEF Accept, TakenInv, FetchedDialled
  <2>2. TicketOf(r).nonce = proc[r].nonce
      BY DEF TicketOf
  <2>3. Redeeming!Receive(r)
      BY <1>1, <1>2, <1>4, <2>1, <2>2 DEF Redeeming!Receive, Accept, AsksView
  <2> QED BY <2>3 DEF Redeeming!Next
<1> QED BY <1>3, <1>4

LEMMA SpendRedeems ==
    ASSUME TakenInv, NEW r \in Redeemers, SpendAsk(r)
    PROVE  Redeeming!Next
<1>0. TypeInv /\ proc[r].pc = "accepted"
    BY DEF TakenInv, CloseInv, ClaimInv, SpendAsk, Succeed
<1>1. HoldsView[r] = TicketOf(r) /\ TicketOf(r).nonce = proc[r].nonce
    BY <1>0, HeldTicket DEF Admitted, TicketOf
<1>2. TicketOf(r) \in dialled /\ proc[r].nonce \in delivered
    BY <1>0 DEF TakenInv, FetchedDialled, CloseInv, ClaimInv, AcceptedDelivered
<1>3. /\ proc'[r].pc = "idle" /\ \A s \in Redeemers \ {r} : proc'[s] = proc[s]
      /\ UNCHANGED <<recorded, dialled, delivered>>
      /\ settled' = settled \cup {proc[r].nonce}
    BY <1>0 DEF SpendAsk, Succeed, NotRedeeming, TypeInv, TypeOK
<1>4. HoldsView' = [HoldsView EXCEPT ![r] = NoTicket]
    BY <1>3 DEF HoldsView, TicketOf, Admitted
<1>5. Redeeming!Close(r)
    BY <1>1, <1>2, <1>3, <1>4 DEF Redeeming!Close, AsksView
<1> QED BY <1>5 DEF Redeeming!Next

\* Everything else takes no ticket up and settles nothing.
LEMMA OthersRedeem ==
    ASSUME TakenInv,
           \/ QuietAction
           \/ \E r \in Redeemers : ClaimRefused(r) \/ AttemptFails(r) \/ SpendFails(r)
           \/ \E a \in Askers, k \in Keys : SendAsk(a, k)
           \/ UNCHANGED vars
    PROVE  Redeeming!Next
<1>0. TypeInv
    BY DEF TakenInv, CloseInv, ClaimInv
<1>1. UNCHANGED <<recorded, dialled, delivered, settled>>
    BY DEF QuietAction, AbandonAsk, IssueTicket, LoadAsks, RemountPage, ChatRedeem, StartPoll,
           LoadSnapshot, FetchInbox, FetchFails, DriverRedeem, NoteFailure, MirrorFailure,
           EndDrain, EvictUnlisted, EndPoll, Tick, Restart, ClaimRefused, AttemptFails,
           SpendFails, Succeed, SendAsk, history, vars
<1>2. \A s \in Redeemers : proc'[s].pc \in Admitted =>
          proc[s].pc \in Admitted /\ TicketOf(s)' = TicketOf(s)
  <2>1. CASE QuietAction
      BY <1>0, <2>1, QuietHolds
  <2>2. CASE \E r \in Redeemers : ClaimRefused(r) \/ AttemptFails(r) \/ SpendFails(r)
    <3>1. PICK r \in Redeemers : ClaimRefused(r) \/ AttemptFails(r) \/ SpendFails(r)
        BY <2>2
    <3>2. Redeem(r) /\ ~ClaimGranted(r)
      <4>1. ClaimRefused(r) => ~ClaimGranted(r)
          BY DEF ClaimRefused, ClaimGranted
      <4>2. AttemptFails(r) \/ SpendFails(r) => proc[r].pc # "started"
          BY DEF AttemptFails, SpendFails, Succeed
      <4> QED BY <3>1, <4>1, <4>2 DEF Redeem, ClaimGranted
    <3> QED BY <1>0, <3>2, RedeemHolds
  <2>3. CASE (\E a \in Askers, k \in Keys : SendAsk(a, k)) \/ UNCHANGED vars
      BY <2>3 DEF SendAsk, vars, TicketOf
  <2> QED BY <2>1, <2>2, <2>3
<1> QED BY <1>1, <1>2, LetsGo DEF Redeeming!Next

\* The trace, with everything that reads and writes it, implements Redemption.
THEOREM ImplementsRedemption == Spec => KeepsRedemption
<1>1. Init => Redeeming!Init
    BY DEF Init, Redeeming!Init, AsksView, HoldsView, NotRedeeming, Admitted
<1>2. TakenInv /\ ClaimInv' /\ [Next]_vars => Redeeming!Next
  <2> SUFFICES ASSUME TakenInv, ClaimInv', [Next]_vars PROVE Redeeming!Next
      OBVIOUS
  <2>1. CASE \E a \in Askers : RecordAsk(a)
      BY <2>1, RecordRedeems
  <2>2. CASE \E r \in Redeemers : ClaimGranted(r)
      BY <2>2, GrantRedeems
  <2>3. CASE \E r \in Redeemers : Dial(r) \/ Accept(r)
      BY <2>3, FetchRedeems
  <2>4. CASE \E r \in Redeemers : SpendAsk(r)
      BY <2>4, SpendRedeems
  <2> QED BY <2>1, <2>2, <2>3, <2>4, OthersRedeem DEF Next, QuietAction, Redeem
<1>3. TakenInv => ClaimInv
    BY DEF TakenInv, CloseInv
<1> QED BY <1>1, <1>2, <1>3, TakenInvariant, PTL DEF Spec, KeepsRedemption, Redeeming!Spec

==============================================================================
