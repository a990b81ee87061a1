------------------------------ MODULE FetchWave ------------------------------
(***************************************************************************)
(* The refresh tier of fetch_driver.rs with the wave policy of             *)
(* peer_wave.rs, for one collection this node holds: its author, and the   *)
(* contacts that may carry a copy. A poll redeems the answers that came    *)
(* in, compares what is held with what the author lists, and asks a wave.  *)
(*                                                                         *)
(* A poll comes 300 s after the last one and the longest backoff between   *)
(* two asks of one source is 4 s, so a source with attempts left is always *)
(* ready, and WaveAction::Wait does not occur. What a redemption does with *)
(* the ask trace is the AskLedger module's subject; here it succeeds or    *)
(* fails as one step.                                                      *)
(***************************************************************************)
EXTENDS Naturals, Sequences, FiniteSets

CONSTANTS
    Carriers,     \* the contacts when the collection is first asked for, in list order
    Author,
    WaveMax,      \* WAVE_MAX_PEERS
    MaxAttempts,  \* MAX_ATTEMPTS_PER_PEER
    MaxSnapshot,  \* bound: the author publishes this many snapshots
    MaxRestarts   \* bound: so many restarts

Carrier == {Carriers[i] : i \in 1 .. Len(Carriers)}
Sources == Carrier \cup {Author}

ASSUME SourceAssumption ==
    /\ \A i, j \in 1 .. Len(Carriers) : Carriers[i] = Carriers[j] => i = j
    /\ Author \notin Carrier
ASSUME BoundAssumption == WaveMax \in Nat \ {0} /\ MaxAttempts \in Nat \ {0}
ASSUME RunAssumption == MaxSnapshot \in Nat \ {0} /\ MaxRestarts \in Nat

Snapshots == 1 .. MaxSnapshot
NoSnapshot == 0

VARIABLES
    published,  \* the author's current snapshot
    carried,    \* the copy each carrier holds
    up,         \* the sources that are there
    online,     \* this node reaches its relays and the network
    held,       \* the cached snapshot
    asks,       \* the ask trace: the fingerprint each open ask named
    tickets,    \* the sources whose ticket for the open ask is on the relay
    attempts,   \* AskState, for the process lifetime
    poll,       \* where the poll is
    inbox,      \* the tickets the drain has still to redeem
    seen,       \* the snapshot held when the poll compared
    want,       \* the fingerprint the wave asks for
    wave,       \* the sources still to ask in this poll
    restarts

world == <<published, carried, up, online, restarts>>
waveVars == <<published, carried, up, online, held, asks, tickets, attempts, poll, inbox, seen,
              want, wave, restarts>>

WaveTypeOK ==
    /\ published \in Snapshots
    /\ carried \in [Carrier -> Snapshots]
    /\ up \subseteq Sources
    /\ online \in BOOLEAN
    /\ held \in Snapshots
    /\ asks \in [Sources -> Snapshots \cup {NoSnapshot}]
    /\ tickets \subseteq Sources
    /\ attempts \in [Sources -> 0 .. MaxAttempts]
    /\ poll \in {"idle", "redeeming", "resolving", "asking"}
    /\ inbox \subseteq Sources
    /\ seen \in Snapshots
    /\ want \in Snapshots
    /\ wave \subseteq Sources
    /\ restarts \in 0 .. MaxRestarts

Copy(s) == IF s = Author THEN published ELSE carried[s]

WaveInit ==
    /\ published = 1
    /\ carried = [c \in Carrier |-> 1]
    /\ up \in SUBSET Sources
    /\ online = TRUE
    /\ held = 1
    /\ asks = [s \in Sources |-> NoSnapshot]
    /\ tickets = {}
    /\ attempts = [s \in Sources |-> 0]
    /\ poll = "idle"
    /\ inbox = {}
    /\ seen = 1
    /\ want = 1
    /\ wave = {}
    /\ restarts = 0

(***************************************************************************)
(* Everyone else.                                                          *)
(***************************************************************************)
Publish ==
    /\ published < MaxSnapshot
    /\ published' = published + 1
    /\ UNCHANGED <<carried, up, online, held, asks, tickets, attempts, poll, inbox, seen, want,
                   wave, restarts>>

CarrierRefreshes(c) ==
    /\ carried' = [carried EXCEPT ![c] = published]
    /\ UNCHANGED <<published, up, online, held, asks, tickets, attempts, poll, inbox, seen,
                   want, wave, restarts>>

ComesOrGoes(s) ==
    /\ up' = IF s \in up THEN up \ {s} ELSE up \cup {s}
    /\ UNCHANGED <<published, carried, online, held, asks, tickets, attempts, poll, inbox, seen,
                   want, wave, restarts>>

NetworkToggles ==
    /\ online' = ~online
    /\ UNCHANGED <<published, carried, up, held, asks, tickets, attempts, poll, inbox, seen,
                   want, wave, restarts>>

\* The source's auto-approve loop answers the open ask with a ticket.
Answer(s) ==
    /\ s \in up
    /\ asks[s] # NoSnapshot
    /\ s \notin tickets
    /\ tickets' = tickets \cup {s}
    /\ UNCHANGED <<world, held, asks, attempts, poll, inbox, seen, want, wave>>

(***************************************************************************)
(* Redemption: the cached copy is replaced by whatever snapshot the source *)
(* serves, and the ask is spent.                                           *)
(***************************************************************************)
Reachable(s) == online /\ s \in up

Redeemed(s) ==
    /\ s \in tickets
    /\ Reachable(s)
    /\ held' = Copy(s)
    /\ asks' = [asks EXCEPT ![s] = NoSnapshot]
    /\ tickets' = tickets \ {s}

\* The Chat page redeems a ticket, whatever the driver is doing.
PageRedeems(s) ==
    /\ Redeemed(s)
    /\ UNCHANGED <<world, attempts, poll, inbox, seen, want, wave>>

StartPoll ==
    /\ poll = "idle"
    /\ poll' = "redeeming"
    /\ inbox' = IF online THEN tickets ELSE {}
    /\ UNCHANGED <<world, held, asks, tickets, attempts, seen, want, wave>>

Redeem(s) ==
    /\ poll = "redeeming"
    /\ s \in inbox
    /\ inbox' = inbox \ {s}
    /\ Redeemed(s)
    /\ UNCHANGED <<world, attempts, poll, seen, want, wave>>

\* The dial fails, or the page has redeemed this ticket already.
RedeemFails(s) ==
    /\ poll = "redeeming"
    /\ s \in inbox
    /\ s \notin tickets \/ ~Reachable(s)
    /\ inbox' = inbox \ {s}
    /\ UNCHANGED <<world, held, asks, tickets, attempts, poll, seen, want, wave>>

(***************************************************************************)
(* The comparison and the wave.                                            *)
(***************************************************************************)
\* manifest_cache::list, after the drain.
ReadHeld ==
    /\ poll = "redeeming"
    /\ inbox = {}
    /\ seen' = held
    /\ poll' = "resolving"
    /\ UNCHANGED <<world, held, asks, tickets, attempts, inbox, want, wave>>

Ready(s) == attempts[s] < MaxAttempts

ReadyBefore(i) == {j \in 1 .. (i - 1) : Ready(Carriers[j])}

\* Mutant of Wave, for CarrierDelivers: the candidate set is cut, not the wave.
WaveOfFirstCandidates ==
    {Carriers[i] : i \in {j \in 1 .. Len(Carriers) : Ready(Carriers[j]) /\ j <= WaveMax}}
        \cup {s \in {Author} : Ready(s)}

\* Mutant of Wave, for AuthorNotBehind: the author only when no carrier is left.
WaveThenAuthor ==
    LET ready == {i \in 1 .. Len(Carriers) : Ready(Carriers[i])}
    IN  IF ready = {} THEN {s \in {Author} : Ready(s)}
        ELSE {Carriers[i] : i \in {j \in ready : Cardinality(ReadyBefore(j)) < WaveMax}}

\* next_action: the first ready carriers, and the author when ready.
Wave ==
    {Carriers[i] : i \in {j \in 1 .. Len(Carriers) :
                             Ready(Carriers[j]) /\ Cardinality(ReadyBefore(j)) < WaveMax}}
        \cup {s \in {Author} : Ready(s)}

\* The listing could not be read, or names no snapshot of the collection.
ResolveFails ==
    /\ poll = "resolving"
    /\ poll' = "idle"
    /\ UNCHANGED <<world, held, asks, tickets, attempts, inbox, seen, want, wave>>

\* Not stale, or every source is exhausted.
NothingToAsk ==
    /\ poll = "resolving"
    /\ online
    /\ seen = published \/ Wave = {}
    /\ poll' = "idle"
    /\ UNCHANGED <<world, held, asks, tickets, attempts, inbox, seen, want, wave>>

StartWave ==
    /\ poll = "resolving"
    /\ online
    /\ seen # published
    /\ Wave # {}
    /\ want' = published
    /\ wave' = Wave
    /\ poll' = "asking"
    /\ UNCHANGED <<world, held, asks, tickets, attempts, inbox, seen>>

\* note_attempt, whether or not the ask was sent.
Noted(s) ==
    /\ poll = "asking"
    /\ s \in wave
    /\ attempts' = [attempts EXCEPT ![s] = @ + 1]
    /\ wave' = wave \ {s}

\* Sent and recorded: the new nonce voids a ticket that answered the last one.
Ask(s) ==
    /\ Noted(s)
    /\ online
    /\ asks' = [asks EXCEPT ![s] = want]
    /\ tickets' = tickets \ {s}
    /\ UNCHANGED <<world, held, poll, inbox, seen, want>>

AskFails(s) ==
    /\ Noted(s)
    /\ ~online
    /\ UNCHANGED <<world, held, asks, tickets, poll, inbox, seen, want>>

EndPoll ==
    /\ poll = "asking"
    /\ wave = {}
    /\ poll' = "idle"
    /\ UNCHANGED <<world, held, asks, tickets, attempts, inbox, seen, want, wave>>

\* The trace, the cache and the relay outlive the process; AskState does not.
Restart ==
    /\ restarts < MaxRestarts
    /\ restarts' = restarts + 1
    /\ attempts' = [s \in Sources |-> 0]
    /\ poll' = "idle"
    /\ inbox' = {}
    /\ wave' = {}
    /\ UNCHANGED <<published, carried, up, online, held, asks, tickets, seen, want>>

Poll ==
    \/ StartPoll \/ ReadHeld \/ ResolveFails \/ NothingToAsk \/ StartWave \/ EndPoll
    \/ \E s \in Sources : Redeem(s) \/ RedeemFails(s) \/ Ask(s) \/ AskFails(s)

WaveNext ==
    \/ Publish \/ NetworkToggles
    \/ \E c \in Carrier : CarrierRefreshes(c)
    \/ \E s \in Sources : ComesOrGoes(s) \/ Answer(s) \/ PageRedeems(s)
    \/ Poll
    \/ Restart

WaveSpec == WaveInit /\ [][WaveNext]_waveVars

\* The loop polls for ever, a listing is not unreadable for ever, and a source that
\* stays up answers.
WaveFairness ==
    /\ WF_waveVars(Poll)
    /\ SF_waveVars(NothingToAsk \/ StartWave)
    /\ \A s \in Sources : WF_waveVars(Answer(s))

WaveFairSpec == WaveSpec /\ WaveFairness

(***************************************************************************)
(* Properties                                                              *)
(***************************************************************************)
\* The author is asked alongside the carriers: none is asked more often than the
\* author, but for the ask of the same wave that is still to go out.
AuthorNotBehind ==
    \A c \in Carrier :
        attempts[c] <= attempts[Author] + (IF Author \in wave THEN 1 ELSE 0)

\* A source with attempts left that has the current snapshot and stays gets to deliver
\* it, however many dead sources come before it in the list, whatever older answers
\* arrive first, and although every re-ask voids the ticket that answered the last ask.
CarrierDelivers ==
    \A s \in Sources :
        Ready(s) /\ Reachable(s) /\ Copy(s) = published
            ~> held = published \/ ~Reachable(s) \/ Copy(s) # published

\* An author that is always there refreshes every stale holding (fetch_driver.rs:774:
\* "the next one re-evaluates, which is what makes the give-up bound self-healing rather
\* than terminal").
SelfHeals ==
    []Reachable(Author) => (held # published ~> held = published)

=============================================================================
