--------------------------- MODULE ManifestServe ---------------------------
(***************************************************************************)
(* The manifest plane of transport.rs: the owner's accept loop and its     *)
(* handlers (transport_state.rs, ManifestPlane::serve and                  *)
(* serve_manifest_stream) against the asker's fetch_manifest, one          *)
(* connection per redemption attempt.                                      *)
(*                                                                         *)
(* Every wait has a deadline except the payload resolution, and a deadline *)
(* may fire at any time: no clock is modelled. When one end closes a       *)
(* connection, what it wrote may or may not reach the other end.           *)
(***************************************************************************)
EXTENDS Naturals, FiniteSets, Sequences

CONSTANTS
    Conns,        \* connections
    OtherAskers,  \* those dialled by some other program that speaks the protocol
    Ids,          \* request ids
    Slugs,        \* collections
    SlugOf,       \* [Ids -> Slugs]: the slug of the ticket with that request id
    Permits,      \* MAX_CONCURRENT_REDEMPTIONS
    NONE

ASSUME ConnAssumption == OtherAskers \subseteq Conns
ASSUME TicketAssumption == SlugOf \in [Ids -> Slugs] /\ NONE \notin Ids \cup Slugs
ASSUME PermitAssumption == Permits \in Nat \ {0} /\ IsFiniteSet(Conns)

VARIABLES
    open,      \* the plane's endpoint is open
    request,   \* the request frame of each connection; NONE: one the gate refuses
    queue,     \* accepted connections waiting for a permit, in order
    owner,     \* where each handler is
    asker,     \* where each fetch is
    link,      \* each connection, and who closed it
    toOwner,   \* what the asker wrote and the owner has not read
    toAsker,   \* the response the owner wrote
    inFlight,  \* ManifestPlane::in_flight
    guard,     \* the InFlightGuard each handler holds
    accepted,  \* history: the slug of the manifest each fetch accepted
    late       \* history: connections on which a deadline fired or the link was lost

vars == <<open, request, queue, owner, asker, link, toOwner, toAsker, inFlight, guard,
          accepted, late>>

Ours == Conns \ OtherAskers  \* connections both of whose ends run this code

OwnerEnd == {"delivered", "refused", "failed"}
AskerEnd == {"ok", "refused", "failed"}

NoResponse == [kind |-> "none", slug |-> NONE]
Refusal == [kind |-> "refusal", slug |-> NONE]
Manifest(slug) == [kind |-> "manifest", slug |-> slug]
Response == {NoResponse, Refusal} \cup {Manifest(s) : s \in Slugs}

TypeOK ==
    /\ open \in BOOLEAN
    /\ request \in [Conns -> Ids \cup {NONE}]
    /\ queue \in Seq(Conns)
    /\ owner \in [Conns -> {"idle", "queued", "accepting", "reading", "resolving", "sending",
                            "awaitingAck", "refusing", "flushing", "draining"} \cup OwnerEnd]
    /\ asker \in [Conns -> {"idle", "dialling", "requesting", "awaiting", "acking",
                            "draining"} \cup AskerEnd]
    /\ link \in [Conns -> {"none", "up", "closedByOwner", "closedByAsker", "lost"}]
    /\ toOwner \in [Conns -> {"none", "request", "ack"}]
    /\ toAsker \in [Conns -> Response]
    /\ inFlight \subseteq Ids
    /\ guard \in [Conns -> Ids \cup {NONE}]
    /\ accepted \in [Conns -> Slugs \cup {NONE}]
    /\ late \in [Conns -> BOOLEAN]

Init ==
    /\ open = TRUE
    /\ request \in [Conns -> Ids \cup {NONE}]
    /\ \A c \in Ours : request[c] # NONE
    /\ queue = <<>>
    /\ owner = [c \in Conns |-> "idle"]
    /\ asker = [c \in Conns |-> "idle"]
    /\ link = [c \in Conns |-> "none"]
    /\ toOwner = [c \in Conns |-> "none"]
    /\ toAsker = [c \in Conns |-> NoResponse]
    /\ inFlight = {}
    /\ guard = [c \in Conns |-> NONE]
    /\ accepted = [c \in Conns |-> NONE]
    /\ late = [c \in Conns |-> FALSE]

Owner(c, pc) == owner' = [owner EXCEPT ![c] = pc]
Asker(c, pc) == asker' = [asker EXCEPT ![c] = pc]

\* The handler's connection is dropped, or closed, with the handler.
OwnerCloses(c) ==
    link' = [link EXCEPT ![c] = IF @ = "up" THEN "closedByOwner" ELSE @]

AskerCloses(c) ==
    link' = [link EXCEPT ![c] = IF @ = "up" THEN "closedByAsker" ELSE @]

\* A wait ends because the connection is gone, or because its deadline fires first.
GivenUp(c) == late' = [late EXCEPT ![c] = @ \/ link[c] \in {"none", "up"}]

(***************************************************************************)
(* The dial, and the accept loop: the handshake is answered only once the  *)
(* connection's task has a permit.                                         *)
(***************************************************************************)
Dial(c) ==
    /\ asker[c] = "idle"
    /\ Asker(c, "dialling")
    /\ UNCHANGED <<open, request, queue, owner, link, toOwner, toAsker, inFlight, guard,
                   accepted, late>>

Arrive(c) ==
    /\ open
    /\ owner[c] = "idle"
    /\ asker[c] = "dialling"
    /\ Owner(c, "queued")
    /\ queue' = Append(queue, c)
    /\ UNCHANGED <<open, request, asker, link, toOwner, toAsker, inFlight, guard,
                   accepted, late>>

\* The tasks that hold a permit.
Holders == {c \in Conns : owner[c] \notin {"idle", "queued"} \cup OwnerEnd}

Acquire(c) ==
    /\ queue # <<>> /\ Head(queue) = c
    /\ Cardinality(Holders) < Permits
    /\ Owner(c, "accepting")
    /\ queue' = Tail(queue)
    /\ UNCHANGED <<open, request, asker, link, toOwner, toAsker, inFlight, guard,
                   accepted, late>>

Handshake(c) ==
    /\ asker[c] = "dialling"
    /\ owner[c] = "accepting"
    /\ open
    /\ Owner(c, "reading")
    /\ Asker(c, "requesting")
    /\ link' = [link EXCEPT ![c] = "up"]
    /\ UNCHANGED <<open, request, queue, toOwner, toAsker, inFlight, guard, accepted, late>>

\* The dialler has given up, the network is gone, or the endpoint closed.
HandshakeFails(c) ==
    /\ owner[c] = "accepting"
    /\ Owner(c, "failed")
    /\ GivenUp(c)
    /\ UNCHANGED <<open, request, queue, asker, link, toOwner, toAsker, inFlight, guard,
                   accepted>>

(***************************************************************************)
(* The owner: ManifestPlane::serve and serve_manifest_stream.              *)
(***************************************************************************)
\* A frame that does not parse or fails validate_redemption claims nothing.
Claimable(frame) == frame # NONE

\* Mutant of Free, for KeepsExchange: the set is not consulted.
FreeAlways(id) == TRUE

Free(id) == id \notin inFlight

ReadsRequest(c) ==
    /\ owner[c] = "reading"
    /\ toOwner[c] = "request"
    /\ toOwner' = [toOwner EXCEPT ![c] = "none"]
    /\ UNCHANGED <<open, request, queue, asker, link, toAsker, accepted, late>>

Claim(c) ==
    /\ ReadsRequest(c)
    /\ Claimable(request[c])
    /\ Free(request[c])
    /\ inFlight' = inFlight \cup {request[c]}
    /\ guard' = [guard EXCEPT ![c] = request[c]]
    /\ Owner(c, "resolving")

\* Refused: already being redeemed on another connection, or not a fit request.
RefuseRequest(c) ==
    /\ ReadsRequest(c)
    /\ ~(Claimable(request[c]) /\ Free(request[c]))
    /\ Owner(c, "refusing")
    /\ UNCHANGED <<inFlight, guard>>

\* The payload resolves to a manifest of some collection, or to an error; only one
\* that describes the ticket's collection is sent.
Resolve(c, slug) ==
    /\ owner[c] = "resolving"
    /\ Owner(c, IF slug = SlugOf[request[c]] THEN "sending" ELSE "refusing")
    /\ UNCHANGED <<open, request, queue, asker, link, toOwner, toAsker, inFlight, guard,
                   accepted, late>>

\* Mutant of SendManifest, for DeliveredIsUsable: written counts as delivered.
SendManifestAndForget(c) ==
    /\ owner[c] = "sending"
    /\ link[c] = "up"
    /\ toAsker' = [toAsker EXCEPT ![c] = Manifest(SlugOf[request[c]])]
    /\ Owner(c, "delivered")
    /\ inFlight' = inFlight \ {guard[c]}
    /\ guard' = [guard EXCEPT ![c] = NONE]
    /\ UNCHANGED <<open, request, queue, asker, link, toOwner, accepted, late>>

\* STATUS_OK, the framed manifest, and the end of the stream.
SendManifest(c) ==
    /\ owner[c] = "sending"
    /\ link[c] = "up"
    /\ toAsker' = [toAsker EXCEPT ![c] = Manifest(SlugOf[request[c]])]
    /\ Owner(c, "awaitingAck")
    /\ UNCHANGED <<open, request, queue, asker, link, toOwner, inFlight, guard, accepted, late>>

\* refuse, then drain_refusal.
SendRefusal(c) ==
    /\ owner[c] = "refusing"
    /\ link[c] = "up"
    /\ toAsker' = [toAsker EXCEPT ![c] = Refusal]
    /\ Owner(c, "flushing")
    /\ UNCHANGED <<open, request, queue, asker, link, toOwner, inFlight, guard, accepted, late>>

\* Mutant of Released, for ClaimsMatchHandlers: keyed by the request, whoever claimed it.
ReleasedRequest(c) == inFlight \ {request[c]}

\* The guards of a handler are dropped when it returns, on every path.
Released(c) == inFlight \ {guard[c]}

HandlerEnds(c, outcome) ==
    /\ Owner(c, outcome)
    /\ OwnerCloses(c)
    /\ inFlight' = Released(c)
    /\ guard' = [guard EXCEPT ![c] = NONE]
    /\ UNCHANGED <<open, request, queue, asker, toAsker, accepted>>

ReadAck(c) ==
    /\ owner[c] = "awaitingAck"
    /\ toOwner[c] = "ack"
    /\ toOwner' = [toOwner EXCEPT ![c] = "none"]
    /\ HandlerEnds(c, "delivered")
    /\ UNCHANGED late

\* No request came, or the refusal of a concurrent redemption could not be written:
\* the handler returns at once.
HandlerFails(c) ==
    /\ \/ owner[c] = "reading"
       \/ owner[c] = "refusing" /\ guard[c] = NONE /\ Claimable(request[c])
    /\ GivenUp(c)
    /\ HandlerEnds(c, "failed")
    /\ UNCHANGED toOwner

\* Any other error is drained first: a resolution that panicked, a response that
\* could not be written, an acknowledgement that never came.
ServeFails(c) ==
    /\ \/ owner[c] \in {"resolving", "sending", "awaitingAck"}
       \/ owner[c] = "refusing" /\ ~(guard[c] = NONE /\ Claimable(request[c]))
    /\ GivenUp(c)
    /\ Owner(c, "draining")
    /\ UNCHANGED <<open, request, queue, asker, link, toOwner, toAsker, inFlight, guard,
                   accepted>>

\* Mutant of DrainEnds, for ConnectionsEnd: no timer.
DrainEndsWhenClosed(c) ==
    /\ owner[c] \in {"flushing", "draining"}
    /\ link[c] # "up"
    /\ HandlerEnds(c, IF owner[c] = "flushing" THEN "refused" ELSE "failed")
    /\ UNCHANGED <<toOwner, late>>

\* drain_connection and drain_refusal: until the peer closes, or the timer fires.
DrainEnds(c) ==
    /\ owner[c] \in {"flushing", "draining"}
    /\ GivenUp(c)
    /\ HandlerEnds(c, IF owner[c] = "flushing" THEN "refused" ELSE "failed")
    /\ UNCHANGED toOwner

OwnerNext(c) ==
    \/ Acquire(c) \/ HandshakeFails(c)
    \/ Claim(c) \/ RefuseRequest(c)
    \/ \E slug \in Slugs \cup {NONE} : Resolve(c, slug)
    \/ SendManifest(c) \/ SendRefusal(c) \/ ReadAck(c)
    \/ HandlerFails(c) \/ ServeFails(c) \/ DrainEnds(c)

(***************************************************************************)
(* The asker: fetch_manifest_with_progress and fetch_over_connection.      *)
(***************************************************************************)
SendRequest(c) ==
    /\ asker[c] = "requesting"
    /\ link[c] = "up"
    /\ toOwner' = [toOwner EXCEPT ![c] = "request"]
    /\ Asker(c, "awaiting")
    /\ UNCHANGED <<open, request, queue, owner, link, toAsker, inFlight, guard, accepted, late>>

FetchEnds(c, outcome) ==
    /\ Asker(c, outcome)
    /\ AskerCloses(c)
    /\ UNCHANGED <<open, request, queue, owner, toOwner, toAsker, inFlight, guard>>

ReadRefusal(c) ==
    /\ asker[c] = "awaiting"
    /\ toAsker[c] = Refusal
    /\ FetchEnds(c, "refused")
    /\ UNCHANGED <<accepted, late>>

\* The slug binding on this side; from_wire and the caller's gate decide as well.
Names(slug, c) == slug = SlugOf[request[c]]

TakeManifest(c) ==
    /\ asker[c] = "awaiting"
    /\ toAsker[c].kind = "manifest"
    /\ Names(toAsker[c].slug, c)
    /\ accepted' = [accepted EXCEPT ![c] = toAsker[c].slug]
    /\ Asker(c, "acking")
    /\ UNCHANGED <<open, request, queue, owner, link, toOwner, toAsker, inFlight, guard, late>>

RejectManifest(c) ==
    /\ asker[c] = "awaiting"
    /\ toAsker[c].kind = "manifest"
    /\ FetchEnds(c, "failed")
    /\ UNCHANGED <<accepted, late>>

\* Mutant of SendAck, for OutcomesAgree: the asker closes right after its last write.
SendAckAndClose(c) ==
    /\ asker[c] = "acking"
    /\ link[c] = "up"
    /\ toOwner' = [toOwner EXCEPT ![c] = "ack"]
    /\ Asker(c, "ok")
    /\ AskerCloses(c)
    /\ UNCHANGED <<open, request, queue, owner, toAsker, inFlight, guard, accepted, late>>

\* Acknowledge, then wait for the owner to close.
SendAck(c) ==
    /\ asker[c] = "acking"
    /\ link[c] = "up"
    /\ toOwner' = [toOwner EXCEPT ![c] = "ack"]
    /\ Asker(c, "draining")
    /\ UNCHANGED <<open, request, queue, owner, link, toAsker, inFlight, guard, accepted, late>>

AskerDrainEnds(c) ==
    /\ asker[c] = "draining"
    /\ GivenUp(c)
    /\ FetchEnds(c, "ok")
    /\ UNCHANGED accepted

\* The dial, the request, the response or the acknowledgement did not go through.
FetchFails(c) ==
    /\ asker[c] \in {"dialling", "requesting", "awaiting", "acking"}
    /\ GivenUp(c)
    /\ FetchEnds(c, "failed")
    /\ UNCHANGED accepted

AskerNext(c) ==
    \/ SendRequest(c) \/ ReadRefusal(c) \/ TakeManifest(c) \/ RejectManifest(c)
    \/ SendAck(c) \/ AskerDrainEnds(c) \/ FetchFails(c)

(***************************************************************************)
(* Other programs and the network.                                         *)
(***************************************************************************)
\* An asker that acknowledges what it did not check.
StrayAck(c) ==
    /\ c \in OtherAskers
    /\ asker[c] = "awaiting"
    /\ toOwner[c] = "none"
    /\ link[c] = "up"
    /\ toOwner' = [toOwner EXCEPT ![c] = "ack"]
    /\ UNCHANGED <<open, request, queue, owner, asker, link, toAsker, inFlight, guard,
                   accepted, late>>

LinkLost(c) ==
    /\ link[c] = "up"
    /\ link' = [link EXCEPT ![c] = "lost"]
    /\ late' = [late EXCEPT ![c] = TRUE]
    /\ UNCHANGED <<open, request, queue, owner, asker, toOwner, toAsker, inFlight, guard,
                   accepted>>

\* close_plane: every connection of the endpoint is gone, and the accept loop ends.
PlaneCloses ==
    /\ open
    /\ open' = FALSE
    /\ link' = [c \in Conns |-> IF link[c] = "up" THEN "lost" ELSE link[c]]
    /\ late' = [c \in Conns |-> TRUE]
    /\ UNCHANGED <<request, queue, owner, asker, toOwner, toAsker, inFlight, guard, accepted>>

Next ==
    \/ \E c \in Conns :
          \/ Dial(c) \/ Arrive(c) \/ Handshake(c)
          \/ OwnerNext(c) \/ AskerNext(c)
          \/ StrayAck(c) \/ LinkLost(c)
    \/ PlaneCloses

Spec == Init /\ [][Next]_vars

\* Every handler and every fetch of this program is a task that runs: its waits are
\* answered, fail, or reach their deadline, and the payload resolution returns.
Fairness ==
    \A c \in Conns :
        /\ WF_vars(OwnerNext(c) \/ Handshake(c))
        /\ c \in Ours => WF_vars(AskerNext(c))

FairSpec == Spec /\ Fairness

(***************************************************************************)
(* Properties                                                              *)
(***************************************************************************)
\* The in-flight set is exactly what the running handlers have claimed, one each: no
\* return path leaves a request un-redeemable, and none frees another handler's claim.
ClaimsMatchHandlers ==
    /\ inFlight = {guard[c] : c \in {d \in Conns : guard[d] # NONE}}
    /\ \A c \in Conns : guard[c] # NONE => guard[c] = request[c] /\ c \in Holders

Serving == {"resolving", "sending", "awaitingAck"}

\* One request is served on one connection at a time, whatever the connections.
OneServePerRequest ==
    \A c, d \in Conns :
        owner[c] \in Serving /\ owner[d] \in Serving /\ request[c] = request[d] => c = d

\* The owner reports a delivery only when the asker accepted a manifest of the
\* ticket's collection: read, checked, and passed by the caller's gate.
DeliveredIsUsable ==
    \A c \in Ours : owner[c] = "delivered" => accepted[c] = SlugOf[request[c]]

\* Closing never truncates the last frame: when no deadline fired and the link held,
\* a fetch that succeeded was counted as delivered, and a refusal is read as a
\* refusal and not as a broken connection.
OutcomesAgree ==
    \A c \in Ours : ~late[c] =>
        /\ asker[c] = "ok" /\ owner[c] \in OwnerEnd => owner[c] = "delivered"
        /\ owner[c] = "refused" /\ asker[c] \in AskerEnd => asker[c] = "refused"

\* Every connection that waits for a permit is answered in the end, whatever the
\* peers of the connections before it do (transport_state.rs: a waiter cannot stall
\* forever), and every fetch ends, whatever the owner does.
ConnectionsEnd ==
    /\ \A c \in Conns : owner[c] = "queued" ~> owner[c] \in OwnerEnd
    /\ \A c \in Ours : asker[c] = "dialling" ~> asker[c] \in AskerEnd

\* The connections as the exchange sees them.
RequestView == [c \in Ours |-> request[c]]

OwnerView == [c \in Ours |->
    IF guard[c] # NONE THEN "serving"
    ELSE IF owner[c] = "delivered" THEN "delivered"
    ELSE IF owner[c] \in OwnerEnd \cup {"flushing"} THEN "undelivered"
    ELSE "open"]

AskerView == [c \in Ours |->
    IF accepted[c] # NONE THEN "accepted"
    ELSE IF asker[c] \in AskerEnd THEN "empty"
    ELSE "open"]

Exchange ==
    INSTANCE ManifestExchange WITH
        Conns <- Ours, request <- RequestView, owner <- OwnerView, asker <- AskerView

\* The plane implements the exchange, for the connections both of whose ends run
\* this code.
KeepsExchange == Exchange!Spec

=============================================================================
