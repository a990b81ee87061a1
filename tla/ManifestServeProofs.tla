------------------------ MODULE ManifestServeProofs ------------------------
(***************************************************************************)
(* What TLAPS proves of how an owner's list is given out. Of ManifestServe,*)
(* one redemption of a ticket over a connection: safety for any number of  *)
(* connections, tickets and permits, any mix of other programs at either   *)
(* end, and any deadlines, lost links and closing of the plane. Of         *)
(* AutoApprove, who issues the tickets: that no ask is answered twice, for *)
(* any number of asks, holds and restarts.                                 *)
(***************************************************************************)
EXTENDS ManifestServe, AutoApprove, FiniteSetTheorems, TLAPS

-----------------------------------------------------------------------------
(* A ticket redeemed over a connection: ManifestServe *)

\* What is being served is a claimable request.
ServedRequests == \A c \in Conns : owner[c] \in Serving => request[c] \in Ids

TypeInv == TypeOK /\ ServedRequests

-----------------------------------------------------------------------------
(* Type correctness *)

LEMMA ResponseKinds ==
    /\ NoResponse \in Response /\ Refusal \in Response
    /\ \A s \in Slugs : Manifest(s) \in Response
    /\ \A r \in Response : r.kind = "manifest" => r.slug \in Slugs
<1>1. NoResponse.kind # "manifest" /\ Refusal.kind # "manifest"
    BY DEF NoResponse, Refusal
<1>2. \A s \in Slugs : Manifest(s).slug = s
    BY DEF Manifest
<1> QED BY <1>1, <1>2 DEF Response

LEMMA InitTypeInv == Init => TypeInv
BY ResponseKinds DEF Init, TypeInv, TypeOK, ServedRequests, Serving

LEMMA GivenUpType ==
    ASSUME TypeOK, NEW c \in Conns, GivenUp(c)
    PROVE  late' \in [Conns -> BOOLEAN]
BY DEF GivenUp, TypeOK

LEMMA DialTypes ==
    ASSUME TypeInv, NEW c \in Conns, Dial(c) \/ Arrive(c) \/ Handshake(c)
    PROVE  TypeInv'
<1>1. CASE Dial(c)
    BY <1>1 DEF Dial, Asker, TypeInv, TypeOK, ServedRequests
<1>2. CASE Arrive(c)
    BY <1>2 DEF Arrive, Owner, TypeInv, TypeOK, ServedRequests, Serving
<1>3. CASE Handshake(c)
    BY <1>3 DEF Handshake, Owner, Asker, TypeInv, TypeOK, ServedRequests, Serving
<1> QED BY <1>1, <1>2, <1>3

LEMMA HandlerEndsTypes ==
    ASSUME TypeInv, NEW c \in Conns, NEW outcome \in OwnerEnd, HandlerEnds(c, outcome),
           toOwner' \in [Conns -> {"none", "request", "ack"}],
           late' \in [Conns -> BOOLEAN]
    PROVE  TypeInv'
<1>1. owner' = [owner EXCEPT ![c] = outcome]
    BY DEF HandlerEnds, Owner
<1>2. link' = [link EXCEPT ![c] = IF @ = "up" THEN "closedByOwner" ELSE @]
    BY DEF HandlerEnds, OwnerCloses
<1>3. inFlight' \subseteq Ids /\ guard' \in [Conns -> Ids \cup {NONE}]
    BY DEF HandlerEnds, Released, TypeInv, TypeOK
<1>4. TypeOK'
    BY <1>1, <1>2, <1>3 DEF HandlerEnds, TypeInv, TypeOK
<1>5. \A d \in Conns : owner'[d] \in Serving => owner[d] \in Serving
    BY <1>1 DEF TypeInv, TypeOK, OwnerEnd, Serving
<1> QED BY <1>4, <1>5 DEF HandlerEnds, TypeInv, ServedRequests

\* A handler that moves on without ending.
LEMMA OwnerMoves ==
    ASSUME TypeInv, NEW c \in Conns, NEW step, Owner(c, step), request' = request,
           step \in Serving => request[c] \in Ids
    PROVE  ServedRequests'
BY DEF Owner, TypeInv, TypeOK, ServedRequests

LEMMA OwnerTypes ==
    ASSUME TypeInv, NEW c \in Conns, OwnerNext(c)
    PROVE  TypeInv'
<1>1. CASE Acquire(c)
  <2>1. TypeOK'
      BY <1>1 DEF Acquire, Owner, TypeInv, TypeOK
  <2>2. ServedRequests'
      BY <1>1, OwnerMoves DEF Acquire, Serving
  <2> QED BY <2>1, <2>2 DEF TypeInv
<1>2. CASE HandshakeFails(c)
    BY <1>2, OwnerMoves, GivenUpType
       DEF HandshakeFails, Owner, OwnerEnd, Serving, TypeInv, TypeOK
<1>3. CASE Claim(c)
  <2>1. request[c] \in Ids
      BY <1>3 DEF Claim, Claimable, TypeInv, TypeOK
  <2>2. TypeOK'
      BY <1>3, <2>1 DEF Claim, ReadsRequest, Owner, TypeInv, TypeOK
  <2> QED BY <1>3, <2>1, <2>2, OwnerMoves DEF Claim, ReadsRequest, TypeInv
<1>4. CASE RefuseRequest(c)
    BY <1>4, OwnerMoves DEF RefuseRequest, ReadsRequest, Owner, Serving, TypeInv, TypeOK
<1>5. CASE \E slug \in Slugs \cup {NONE} : Resolve(c, slug)
  <2>1. PICK step \in {"sending", "refusing"} : Owner(c, step)
      BY <1>5 DEF Resolve
  <2>2. request[c] \in Ids
      BY <1>5 DEF Resolve, TypeInv, ServedRequests, Serving
  <2>3. TypeOK'
      BY <1>5, <2>1 DEF Resolve, Owner, TypeInv, TypeOK
  <2> QED BY <1>5, <2>1, <2>2, <2>3, OwnerMoves DEF Resolve, TypeInv
<1>6. CASE SendRefusal(c)
    BY <1>6, OwnerMoves, ResponseKinds DEF SendRefusal, Owner, Serving, TypeInv, TypeOK
<1>7. CASE SendManifest(c)
  <2>1. request[c] \in Ids
      BY <1>7 DEF SendManifest, TypeInv, ServedRequests, Serving
  <2>2. Manifest(SlugOf[request[c]]) \in Response
      BY <2>1, ResponseKinds, TicketAssumption
  <2>3. TypeOK'
      BY <1>7, <2>2 DEF SendManifest, Owner, TypeInv, TypeOK
  <2> QED BY <1>7, <2>1, <2>3, OwnerMoves DEF SendManifest, TypeInv
<1>8. CASE ReadAck(c)
    BY <1>8, HandlerEndsTypes DEF ReadAck, OwnerEnd, TypeInv, TypeOK
<1>9. CASE HandlerFails(c)
    BY <1>9, GivenUpType, HandlerEndsTypes DEF HandlerFails, OwnerEnd, TypeInv, TypeOK
<1>10. CASE ServeFails(c)
    BY <1>10, OwnerMoves, GivenUpType DEF ServeFails, Owner, Serving, TypeInv, TypeOK
<1>11. CASE DrainEnds(c)
    BY <1>11, GivenUpType, HandlerEndsTypes DEF DrainEnds, OwnerEnd, TypeInv, TypeOK
<1> QED BY <1>1, <1>2, <1>3, <1>4, <1>5, <1>6, <1>7, <1>8, <1>9, <1>10, <1>11 DEF OwnerNext

LEMMA AskerTypes ==
    ASSUME TypeInv, NEW c \in Conns, AskerNext(c)
    PROVE  TypeInv'
<1>1. ServedRequests'
    BY DEF AskerNext, SendRequest, ReadRefusal, TakeManifest, RejectManifest, SendAck,
           AskerDrainEnds, FetchFails, FetchEnds, TypeInv, ServedRequests
<1>2. CASE SendRequest(c) \/ SendAck(c)
    BY <1>1, <1>2 DEF SendRequest, SendAck, Asker, TypeInv, TypeOK
<1>3. CASE TakeManifest(c)
  <2>1. toAsker[c].slug \in Slugs
      BY <1>3, ResponseKinds DEF TakeManifest, TypeInv, TypeOK
  <2> QED BY <1>1, <1>3, <2>1 DEF TakeManifest, Asker, TypeInv, TypeOK
<1>4. CASE ReadRefusal(c) \/ RejectManifest(c)
    BY <1>1, <1>4 DEF ReadRefusal, RejectManifest, FetchEnds, Asker, AskerCloses, AskerEnd,
                      TypeInv, TypeOK
<1>5. CASE AskerDrainEnds(c) \/ FetchFails(c)
    BY <1>1, <1>5, GivenUpType DEF AskerDrainEnds, FetchFails, FetchEnds, Asker, AskerCloses,
                                   AskerEnd, TypeInv, TypeOK
<1> QED BY <1>2, <1>3, <1>4, <1>5 DEF AskerNext

LEMMA OthersTypes ==
    ASSUME TypeInv, NEW c \in Conns,
           StrayAck(c) \/ LinkLost(c)
    PROVE  TypeInv'
<1>1. ServedRequests'
    BY DEF StrayAck, LinkLost, TypeInv, ServedRequests
<1>2. CASE StrayAck(c)
    BY <1>1, <1>2 DEF StrayAck, TypeInv, TypeOK
<1>3. CASE LinkLost(c)
    BY <1>1, <1>3 DEF LinkLost, TypeInv, TypeOK
<1> QED BY <1>2, <1>3

LEMMA TypeInvStep == TypeInv /\ [Next]_vars => TypeInv'
<1> SUFFICES ASSUME TypeInv, [Next]_vars PROVE TypeInv'
    OBVIOUS
<1>1. CASE \E c \in Conns : Dial(c) \/ Arrive(c) \/ Handshake(c)
    BY <1>1, DialTypes
<1>2. CASE \E c \in Conns : OwnerNext(c)
    BY <1>2, OwnerTypes
<1>3. CASE \E c \in Conns : AskerNext(c)
    BY <1>3, AskerTypes
<1>4. CASE \E c \in Conns :
               StrayAck(c) \/ LinkLost(c)
    BY <1>4, OthersTypes
<1>5. CASE PlaneCloses
  <2>1. ServedRequests'
      BY <1>5 DEF PlaneCloses, TypeInv, ServedRequests
  <2> QED BY <1>5, <2>1 DEF PlaneCloses, TypeInv, TypeOK
<1>6. CASE UNCHANGED vars
    BY <1>6 DEF vars, TypeInv, TypeOK, ServedRequests
<1> QED BY <1>1, <1>2, <1>3, <1>4, <1>5, <1>6 DEF Next

LEMMA TypeInvariant == Spec => []TypeInv
BY InitTypeInv, TypeInvStep, PTL DEF Spec

\* Ours ends of every connection, what is between them and the in-flight set keep
\* their types, for every instance.
THEOREM TypeCorrect == Spec => []TypeOK
<1>1. TypeInv => TypeOK
    BY DEF TypeInv
<1> QED BY <1>1, TypeInvariant, PTL

-----------------------------------------------------------------------------
(* Claims *)

\* The queue holds the waiting connections, each once.
QueueInv ==
    /\ \A i \in 1 .. Len(queue) : owner[queue[i]] = "queued"
    /\ \A i, j \in 1 .. Len(queue) : queue[i] = queue[j] => i = j

GuardInv ==
    /\ \A c \in Conns :
          guard[c] # NONE =>
              /\ guard[c] = request[c]
              /\ owner[c] \in Serving \cup {"refusing", "flushing", "draining"}
    /\ \A c \in Conns : owner[c] \in Serving => guard[c] # NONE
    /\ \A c, d \in Conns : guard[c] # NONE /\ guard[c] = guard[d] => c = d
    /\ \A id \in Ids : id \in inFlight <=> \E c \in Conns : guard[c] = id

ServeInv == TypeInv /\ QueueInv /\ GuardInv

LEMMA InitServeInv == Init => ServeInv
BY InitTypeInv, TicketAssumption DEF Init, ServeInv, QueueInv, GuardInv, Serving

LEMMA QueueStep == ServeInv /\ [Next]_vars => QueueInv'
<1> SUFFICES ASSUME ServeInv, [Next]_vars PROVE QueueInv'
    OBVIOUS
<1> USE DEF ServeInv, TypeInv, TypeOK
<1>1. CASE \E c \in Conns : Arrive(c)
  <2>1. PICK c \in Conns : Arrive(c)
      BY <1>1
  <2>2. /\ Len(queue') = Len(queue) + 1 /\ queue'[Len(queue) + 1] = c
        /\ \A i \in 1 .. Len(queue) : queue'[i] = queue[i] /\ queue[i] \in Conns
      BY <2>1 DEF Arrive
  <2>3. \A i \in 1 .. Len(queue) : queue[i] # c
      BY <2>1 DEF Arrive, QueueInv
  <2>4. owner' = [owner EXCEPT ![c] = "queued"]
      BY <2>1 DEF Arrive, Owner
  <2>5. \A i \in 1 .. Len(queue') :
            /\ i = Len(queue) + 1 => queue'[i] = c
            /\ i # Len(queue) + 1 =>
                  i \in 1 .. Len(queue) /\ queue'[i] = queue[i] /\ queue[i] \in Conns
      BY <2>2
  <2>6. \A i \in 1 .. Len(queue') : owner'[queue'[i]] = "queued"
      BY <2>3, <2>4, <2>5 DEF QueueInv
  <2>7. \A i, j \in 1 .. Len(queue') : queue'[i] = queue'[j] => i = j
      BY <2>3, <2>5 DEF QueueInv
  <2> QED BY <2>6, <2>7 DEF QueueInv
<1>2. CASE \E c \in Conns : Acquire(c)
  <2>1. PICK c \in Conns : Acquire(c)
      BY <1>2
  <2>2. queue \in Seq(Conns) /\ queue # <<>> /\ queue' = Tail(queue) /\ queue[1] = c
      BY <2>1 DEF Acquire
  <2>3. /\ Len(queue') = Len(queue) - 1
        /\ \A i \in 1 .. Len(queue') :
              i + 1 \in 1 .. Len(queue) /\ queue'[i] = queue[i + 1] /\ queue[i + 1] \in Conns
      BY <2>2
  <2>4. \A i \in 1 .. Len(queue') : queue'[i] # c
      BY <2>2, <2>3 DEF QueueInv
  <2>5. owner' = [owner EXCEPT ![c] = "accepting"]
      BY <2>1 DEF Acquire, Owner
  <2>6. \A i \in 1 .. Len(queue') : owner'[queue'[i]] = "queued"
      BY <2>3, <2>4, <2>5 DEF QueueInv
  <2>7. ASSUME NEW i \in 1 .. Len(queue'), NEW j \in 1 .. Len(queue'), queue'[i] = queue'[j]
        PROVE  i = j
    <3>1. i + 1 = j + 1
        BY <2>3, <2>7 DEF QueueInv
    <3> QED BY <3>1
  <2> QED BY <2>6, <2>7 DEF QueueInv
<1>3. ASSUME NEW c \in Conns, owner[c] # "queued", queue' = queue,
             \A d \in Conns : d # c => owner'[d] = owner[d]
      PROVE  QueueInv'
  <2>1. \A i \in 1 .. Len(queue) : queue[i] \in Conns /\ queue[i] # c
      BY <1>3 DEF QueueInv
  <2> QED BY <1>3, <2>1 DEF QueueInv
<1>4. ASSUME UNCHANGED <<queue, owner>> PROVE QueueInv'
    BY <1>4 DEF QueueInv
<1>5. CASE \E c \in Conns : Handshake(c)
    BY <1>3, <1>4, <1>5 DEF Handshake, Owner
<1>6. CASE \E c \in Conns : OwnerNext(c) /\ ~Acquire(c)
  <2>1. PICK c \in Conns : OwnerNext(c) /\ ~Acquire(c)
      BY <1>6
  <2>2. owner[c] # "queued" /\ queue' = queue /\ \E step : Owner(c, step)
      BY <2>1 DEF OwnerNext, HandshakeFails, Claim, ReadsRequest, RefuseRequest, Resolve,
                  SendManifest, SendRefusal, ReadAck, HandlerFails, ServeFails, DrainEnds,
                  HandlerEnds
  <2> QED BY <1>3, <2>2 DEF Owner
<1>7. CASE \E c \in Conns : Dial(c) \/ AskerNext(c) \/ StrayAck(c) \/ LinkLost(c)
    BY <1>4, <1>7 DEF Dial, AskerNext, SendRequest, ReadRefusal, TakeManifest, RejectManifest,
                      SendAck, AskerDrainEnds, FetchFails, FetchEnds, StrayAck, 
                      LinkLost
<1>8. CASE PlaneCloses \/ UNCHANGED vars
    BY <1>4, <1>8 DEF PlaneCloses, vars
<1> QED BY <1>1, <1>2, <1>5, <1>6, <1>7, <1>8 DEF Next

\* A handler that moves on and keeps its guard.
LEMMA GuardKept ==
    ASSUME ServeInv, NEW c \in Conns, NEW step, Owner(c, step),
           UNCHANGED <<request, guard, inFlight>>,
           guard[c] # NONE => step \in Serving \cup {"refusing", "flushing", "draining"},
           step \in Serving => guard[c] # NONE
    PROVE  GuardInv'
<1>1. owner'[c] = step /\ \A d \in Conns : d # c => owner'[d] = owner[d]
    BY DEF Owner, ServeInv, TypeInv, TypeOK
<1> QED BY <1>1 DEF ServeInv, GuardInv

LEMMA ClaimGuards ==
    ASSUME ServeInv, NEW c \in Conns, Claim(c)
    PROVE  GuardInv'
<1>1. request[c] \in Ids /\ request[c] # NONE /\ request[c] \notin inFlight
    BY DEF Claim, Claimable, Free, ServeInv, TypeInv, TypeOK
<1>2. \A d \in Conns : guard[d] # request[c]
    BY <1>1 DEF ServeInv, GuardInv
<1>3. /\ guard'[c] = request[c] /\ owner'[c] = "resolving"
      /\ \A d \in Conns : d # c => guard'[d] = guard[d] /\ owner'[d] = owner[d]
    BY DEF Claim, Owner, ServeInv, TypeInv, TypeOK
<1>4. guard[c] = NONE
    BY DEF Claim, ReadsRequest, ServeInv, GuardInv, Serving
<1>5. request' = request /\ inFlight' = inFlight \cup {request[c]}
    BY DEF Claim, ReadsRequest
<1>6. \A d, e \in Conns : guard'[d] # NONE /\ guard'[d] = guard'[e] => d = e
    BY <1>2, <1>3 DEF ServeInv, GuardInv
<1>7. \A id \in Ids : id \in inFlight' <=> \E d \in Conns : guard'[d] = id
  <2>1. SUFFICES ASSUME NEW id \in Ids, id # request[c]
                 PROVE  (\E d \in Conns : guard[d] = id) <=> (\E d \in Conns : guard'[d] = id)
      BY <1>3, <1>5 DEF ServeInv, GuardInv
  <2>2. id # NONE
      BY TicketAssumption
  <2> QED BY <1>3, <1>4, <2>1, <2>2
<1> QED BY <1>1, <1>3, <1>5, <1>6, <1>7 DEF ServeInv, GuardInv, Serving

LEMMA HandlerEndsGuards ==
    ASSUME ServeInv, NEW c \in Conns, NEW outcome \in OwnerEnd, HandlerEnds(c, outcome)
    PROVE  GuardInv'
<1>1. /\ guard'[c] = NONE /\ owner'[c] = outcome
      /\ \A d \in Conns : d # c => guard'[d] = guard[d] /\ owner'[d] = owner[d]
    BY DEF HandlerEnds, Owner, ServeInv, TypeInv, TypeOK
<1>2. request' = request /\ inFlight' = inFlight \ {guard[c]}
    BY DEF HandlerEnds, Released
<1>3. outcome \notin Serving
    BY DEF OwnerEnd, Serving
<1>4. \A id \in Ids : id \in inFlight' <=> \E d \in Conns : guard'[d] = id
  <2>1. SUFFICES ASSUME NEW id \in Ids
                 PROVE  id \in inFlight' <=> \E d \in Conns : guard'[d] = id
      OBVIOUS
  <2>2. id # NONE
      BY TicketAssumption
  <2>3. CASE id = guard[c]
      BY <1>1, <1>2, <2>2, <2>3 DEF ServeInv, GuardInv
  <2>4. CASE id # guard[c]
    <3>1. id \in inFlight' <=> \E d \in Conns : guard[d] = id
        BY <1>2, <2>4 DEF ServeInv, GuardInv
    <3> QED BY <1>1, <2>2, <2>4, <3>1
  <2> QED BY <2>3, <2>4
<1>5. \A d, e \in Conns : guard'[d] # NONE /\ guard'[d] = guard'[e] => d = e
    BY <1>1 DEF ServeInv, GuardInv
<1> QED BY <1>1, <1>2, <1>3, <1>4, <1>5 DEF ServeInv, GuardInv

LEMMA OwnerGuards ==
    ASSUME ServeInv, NEW c \in Conns, OwnerNext(c)
    PROVE  GuardInv'
<1>1. CASE Acquire(c)
  <2>1. c = queue[1] /\ 1 \in 1 .. Len(queue)
      BY <1>1 DEF Acquire, ServeInv, TypeInv, TypeOK
  <2>2. owner[c] = "queued"
      BY <2>1 DEF ServeInv, QueueInv
  <2> QED BY <1>1, <2>2, GuardKept DEF Acquire, ServeInv, GuardInv, Serving
<1>2. CASE HandshakeFails(c)
    BY <1>2, GuardKept DEF HandshakeFails, ServeInv, GuardInv, Serving
<1>3. CASE Claim(c)
    BY <1>3, ClaimGuards
<1>4. CASE RefuseRequest(c)
    BY <1>4, GuardKept DEF RefuseRequest, ReadsRequest, ServeInv, GuardInv, Serving
<1>5. CASE \E slug \in Slugs \cup {NONE} : Resolve(c, slug)
  <2>1. PICK step \in {"sending", "refusing"} : Owner(c, step)
      BY <1>5 DEF Resolve
  <2> QED BY <1>5, <2>1, GuardKept DEF Resolve, ServeInv, GuardInv, Serving
<1>6. CASE SendManifest(c) \/ SendRefusal(c)
    BY <1>6, GuardKept DEF SendManifest, SendRefusal, ServeInv, GuardInv, Serving
<1>7. CASE ReadAck(c) \/ HandlerFails(c) \/ DrainEnds(c)
    BY <1>7, HandlerEndsGuards DEF ReadAck, HandlerFails, DrainEnds, OwnerEnd
<1>8. CASE ServeFails(c)
    BY <1>8, GuardKept DEF ServeFails, ServeInv, GuardInv, Serving
<1> QED BY <1>1, <1>2, <1>3, <1>4, <1>5, <1>6, <1>7, <1>8 DEF OwnerNext

LEMMA GuardStep == ServeInv /\ [Next]_vars => GuardInv'
<1> SUFFICES ASSUME ServeInv, [Next]_vars PROVE GuardInv'
    OBVIOUS
<1>1. CASE \E c \in Conns : Arrive(c)
    BY <1>1, GuardKept DEF Arrive, ServeInv, GuardInv, Serving
<1>2. ASSUME UNCHANGED <<owner, request, guard, inFlight>> PROVE GuardInv'
    BY <1>2 DEF ServeInv, GuardInv
<1>3. CASE \E c \in Conns : Handshake(c)
  <2>1. PICK c \in Conns : Handshake(c)
      BY <1>3
  <2>2. CASE owner[c] = "accepting" /\ Owner(c, "reading")
      BY <2>1, <2>2, GuardKept DEF Handshake, ServeInv, GuardInv, Serving
  <2> QED BY <1>2, <2>1, <2>2 DEF Handshake
<1>4. CASE \E c \in Conns : OwnerNext(c)
    BY <1>4, OwnerGuards
<1>5. CASE \E c \in Conns : Dial(c) \/ AskerNext(c) \/ StrayAck(c) \/ LinkLost(c)
    BY <1>2, <1>5 DEF Dial, AskerNext, SendRequest, ReadRefusal, TakeManifest, RejectManifest,
                      SendAck, AskerDrainEnds, FetchFails, FetchEnds, StrayAck, 
                      LinkLost
<1>6. CASE PlaneCloses \/ UNCHANGED vars
    BY <1>2, <1>6 DEF PlaneCloses, vars
<1> QED BY <1>1, <1>3, <1>4, <1>5, <1>6 DEF Next

LEMMA ServeInvariant == Spec => []ServeInv
<1>1. ServeInv /\ [Next]_vars => ServeInv'
    BY TypeInvStep, QueueStep, GuardStep DEF ServeInv
<1> QED BY <1>1, InitServeInv, PTL DEF Spec

\* The in-flight set is what the running handlers have claimed: nothing stays claimed
\* after its handler returned, and no handler frees another's claim.
THEOREM ClaimsReleased == Spec => []ClaimsMatchHandlers
<1>1. ServeInv => ClaimsMatchHandlers
  <2>1. SUFFICES ASSUME ServeInv PROVE ClaimsMatchHandlers
      OBVIOUS
  <2>2. inFlight \subseteq Ids /\ guard \in [Conns -> Ids \cup {NONE}]
      BY <2>1 DEF ServeInv, TypeInv, TypeOK
  <2>3. inFlight = {guard[c] : c \in {d \in Conns : guard[d] # NONE}}
      BY <2>1, <2>2, TicketAssumption DEF ServeInv, GuardInv
  <2>4. \A c \in Conns : guard[c] # NONE => guard[c] = request[c] /\ c \in Holders
      BY <2>1 DEF ServeInv, GuardInv, Holders, Serving, OwnerEnd
  <2> QED BY <2>3, <2>4 DEF ClaimsMatchHandlers
<1> QED BY <1>1, ServeInvariant, PTL

\* No two connections are served for one request at the same time.
THEOREM RequestServedOnce == Spec => []OneServePerRequest
<1>1. ServeInv => OneServePerRequest
    BY DEF ServeInv, GuardInv, OneServePerRequest
<1> QED BY <1>1, ServeInvariant, PTL

-----------------------------------------------------------------------------
(* Delivery *)

\* This asker acknowledges only what it accepted, and the owner counts only what was
\* acknowledged.
DeliveryInv ==
    /\ TypeInv
    /\ \A c \in Conns : asker[c] = "acking" => accepted[c] = SlugOf[request[c]]
    /\ \A c \in Ours : toOwner[c] = "ack" => accepted[c] = SlugOf[request[c]]
    /\ DeliveredIsUsable
    /\ \A c \in Conns : accepted[c] # NONE => accepted[c] = SlugOf[request[c]]

LEMMA InitDeliveryInv == Init => DeliveryInv
BY InitTypeInv DEF Init, DeliveryInv, DeliveredIsUsable, Ours

\* Steps that accept nothing and acknowledge nothing.
LEMMA DeliveryKept ==
    ASSUME DeliveryInv, TypeInv', UNCHANGED <<request, accepted>>,
           \A c \in Conns : asker'[c] = "acking" => asker[c] = "acking",
           \A c \in Ours : toOwner'[c] = "ack" => toOwner[c] = "ack",
           \A c \in Ours : owner'[c] = "delivered" => owner[c] = "delivered" \/ toOwner[c] = "ack"
    PROVE  DeliveryInv'
BY DEF DeliveryInv, DeliveredIsUsable, Ours

LEMMA OwnerDelivery ==
    ASSUME DeliveryInv, TypeInv', NEW c \in Conns, OwnerNext(c)
    PROVE  DeliveryInv'
<1>1. UNCHANGED <<request, accepted, asker>>
    BY DEF OwnerNext, Acquire, HandshakeFails, Claim, ReadsRequest, RefuseRequest, Resolve,
           SendManifest, SendRefusal, ReadAck, HandlerFails, ServeFails, DrainEnds, HandlerEnds
<1>2. \A d \in Conns : toOwner'[d] = "ack" => toOwner[d] = "ack"
  <2>1. toOwner' = toOwner \/ toOwner' = [toOwner EXCEPT ![c] = "none"]
      BY DEF OwnerNext, Acquire, HandshakeFails, Claim, ReadsRequest, RefuseRequest, Resolve,
             SendManifest, SendRefusal, ReadAck, HandlerFails, ServeFails, DrainEnds
  <2> QED BY <2>1 DEF DeliveryInv, TypeInv, TypeOK
<1>3. PICK step : Owner(c, step) /\ (step = "delivered" => toOwner[c] = "ack")
    BY DEF OwnerNext, Acquire, HandshakeFails, Claim, ReadsRequest, RefuseRequest, Resolve,
           SendManifest, SendRefusal, ReadAck, HandlerFails, ServeFails, DrainEnds, HandlerEnds
<1>4. \A d \in Conns : owner'[d] = "delivered" => owner[d] = "delivered" \/ toOwner[d] = "ack"
    BY <1>3 DEF Owner, DeliveryInv, TypeInv, TypeOK
<1> QED BY <1>1, <1>2, <1>4, DeliveryKept DEF Ours

LEMMA AskerDelivery ==
    ASSUME DeliveryInv, TypeInv', NEW c \in Conns, AskerNext(c)
    PROVE  DeliveryInv'
<1> USE DEF DeliveryInv, TypeInv, TypeOK
<1>1. CASE SendRequest(c)
    BY <1>1, DeliveryKept DEF SendRequest, Asker, Ours
<1>2. CASE ReadRefusal(c) \/ RejectManifest(c) \/ AskerDrainEnds(c) \/ FetchFails(c)
  <2>1. PICK outcome \in AskerEnd : FetchEnds(c, outcome) /\ accepted' = accepted
      BY <1>2 DEF ReadRefusal, RejectManifest, AskerDrainEnds, FetchFails, AskerEnd
  <2> QED BY <2>1, DeliveryKept DEF FetchEnds, Asker, AskerEnd
<1>3. CASE TakeManifest(c)
  <2>1. /\ accepted'[c] = SlugOf[request[c]]
        /\ \A d \in Conns : d # c => accepted'[d] = accepted[d] /\ asker'[d] = asker[d]
      BY <1>3 DEF TakeManifest, Names, Asker
  <2>2. UNCHANGED <<request, owner, toOwner>>
      BY <1>3 DEF TakeManifest
  <2> QED BY <2>1, <2>2 DEF DeliveredIsUsable, Ours
<1>4. CASE SendAck(c)
  <2>1. asker[c] = "acking" /\ UNCHANGED <<request, owner, accepted>>
      BY <1>4 DEF SendAck
  <2>2. \A d \in Conns : d # c => toOwner'[d] = toOwner[d] /\ asker'[d] = asker[d]
      BY <1>4 DEF SendAck, Asker
  <2>3. asker'[c] = "draining"
      BY <1>4 DEF SendAck, Asker
  <2> QED BY <2>1, <2>2, <2>3 DEF DeliveredIsUsable, Ours
<1> QED BY <1>1, <1>2, <1>3, <1>4 DEF AskerNext

LEMMA DeliveryStep == DeliveryInv /\ [Next]_vars => DeliveryInv'
<1> SUFFICES ASSUME DeliveryInv, [Next]_vars PROVE DeliveryInv'
    OBVIOUS
<1>1. TypeInv'
    BY TypeInvStep DEF DeliveryInv
<1>2. CASE \E c \in Conns : OwnerNext(c)
    BY <1>1, <1>2, OwnerDelivery
<1>3. CASE \E c \in Conns : AskerNext(c)
    BY <1>1, <1>3, AskerDelivery
<1>4. CASE \E c \in Conns : Dial(c) \/ Arrive(c) \/ Handshake(c)
    BY <1>1, <1>4, DeliveryKept
       DEF Dial, Arrive, Handshake, Asker, Owner, Ours, DeliveryInv, TypeInv, TypeOK
<1>5. CASE \E c \in Conns : StrayAck(c)
    BY <1>1, <1>5, DeliveryKept DEF StrayAck, Ours, DeliveryInv, TypeInv, TypeOK
<1>6. CASE \E c \in Conns : LinkLost(c)
    BY <1>1, <1>6, DeliveryKept DEF LinkLost
<1>7. CASE PlaneCloses \/ UNCHANGED vars
    BY <1>1, <1>7, DeliveryKept DEF PlaneCloses, vars
<1> QED BY <1>2, <1>3, <1>4, <1>5, <1>6, <1>7 DEF Next

LEMMA DeliveryInvariant == Spec => []DeliveryInv
BY InitDeliveryInv, DeliveryStep, PTL DEF Spec

\* What the owner counts as delivered, an asker of this program has checked against
\* its ticket and accepted.
THEOREM DeliveriesAreUsable == Spec => []DeliveredIsUsable
<1>1. DeliveryInv => DeliveredIsUsable
    BY DEF DeliveryInv
<1> QED BY <1>1, DeliveryInvariant, PTL

-----------------------------------------------------------------------------
(* Closing truncates nothing *)

\* The two ends of a connection and what is between them, in the order the exchange
\* goes through them when no deadline fires and the link holds.
Stage(own, ask, lnk, req, resp) ==
    \/ /\ own \in {"idle", "queued", "accepting"} /\ ask \in {"idle", "dialling"}
       /\ lnk = "none" /\ req = "none" /\ resp.kind = "none"
    \/ /\ own = "reading" /\ lnk = "up" /\ resp.kind = "none"
       /\ \/ ask = "requesting" /\ req = "none"
          \/ ask = "awaiting" /\ req = "request"
    \/ /\ own \in {"resolving", "sending", "refusing"} /\ ask = "awaiting"
       /\ lnk = "up" /\ req = "none" /\ resp.kind = "none"
    \/ /\ own = "awaitingAck" /\ resp.kind = "manifest"
       /\ \/ ask \in {"awaiting", "acking"} /\ lnk = "up" /\ req = "none"
          \/ ask = "draining" /\ lnk = "up" /\ req = "ack"
          \/ ask = "failed" /\ lnk = "closedByAsker" /\ req = "none"
    \/ own = "delivered" /\ ask \in {"draining", "ok"} /\ lnk = "closedByOwner"
    \/ /\ own = "flushing" /\ resp = Refusal
       /\ \/ ask = "awaiting" /\ lnk = "up"
          \/ ask = "refused" /\ lnk = "closedByAsker"
    \/ own = "refused" /\ ask = "refused"
    \/ own = "draining" /\ ask = "failed" /\ lnk = "closedByAsker"
    \/ own = "failed" /\ ask = "failed"

StageOf(c) == Stage(owner[c], asker[c], link[c], toOwner[c], toAsker[c])

StageInv == \A c \in Ours : ~late[c] => StageOf(c)

LEMMA Kinds ==
    /\ NoResponse.kind = "none" /\ Refusal.kind = "refusal"
    /\ \A s : Manifest(s).kind = "manifest"
BY DEF NoResponse, Refusal, Manifest

LEMMA InitStageInv == Init => StageInv
<1> SUFFICES ASSUME Init, NEW c \in Ours PROVE StageOf(c)
    BY DEF StageInv
<1>1. /\ owner[c] = "idle" /\ asker[c] = "idle" /\ link[c] = "none" /\ toOwner[c] = "none"
      /\ toAsker[c].kind = "none"
    BY Kinds DEF Init, Ours
<1> QED BY <1>1 DEF StageOf, Stage

\* A step of one connection leaves the stage of every other one alone.
LEMMA StageElsewhere ==
    ASSUME StageInv, NEW c \in Conns, c \in Ours /\ ~late'[c] => StageOf(c)',
           \A d \in Conns \ {c} :
               UNCHANGED <<owner[d], asker[d], link[d], toOwner[d], toAsker[d], late[d]>>
    PROVE  StageInv'
BY DEF StageInv, StageOf, Ours

\* A wait that ends while the link is not closed is one that a deadline ended.
LEMMA InTime ==
    ASSUME TypeOK, NEW c \in Conns, GivenUp(c), ~late'[c]
    PROVE  ~late[c] /\ link[c] \notin {"none", "up"}
BY DEF GivenUp, TypeOK

LEMMA DialStages ==
    ASSUME ServeInv, StageInv, NEW c \in Conns, Dial(c) \/ Arrive(c) \/ Handshake(c)
    PROVE  StageInv'
<1> USE DEF ServeInv, TypeInv, TypeOK
<1>1. \A d \in Conns \ {c} :
          UNCHANGED <<owner[d], asker[d], link[d], toOwner[d], toAsker[d], late[d]>>
    BY DEF Dial, Arrive, Handshake, Asker, Owner
<1>2. ASSUME c \in Ours, ~late'[c] PROVE StageOf(c)'
  <2>1. StageOf(c)
      BY <1>2 DEF Dial, Arrive, Handshake, StageInv
  <2>2. CASE Dial(c)
      BY <2>1, <2>2 DEF Dial, Asker, StageOf, Stage
  <2>3. CASE Arrive(c)
      BY <2>1, <2>3 DEF Arrive, Owner, StageOf, Stage
  <2>4. CASE Handshake(c)
      BY <2>1, <2>4 DEF Handshake, Asker, Owner, StageOf, Stage
  <2> QED BY <2>2, <2>3, <2>4
<1> QED BY <1>1, <1>2, StageElsewhere

LEMMA OwnerStages ==
    ASSUME ServeInv, StageInv, NEW c \in Conns, OwnerNext(c)
    PROVE  StageInv'
<1> USE DEF ServeInv, TypeInv, TypeOK
<1>1. /\ \A d \in Conns \ {c} :
            UNCHANGED <<owner[d], asker[d], link[d], toOwner[d], toAsker[d], late[d]>>
      /\ ~late'[c] => ~late[c]
    BY DEF OwnerNext, Acquire, HandshakeFails, Claim, ReadsRequest, RefuseRequest, Resolve,
           SendManifest, SendRefusal, ReadAck, HandlerFails, ServeFails, DrainEnds, HandlerEnds,
           OwnerCloses, Owner, GivenUp
<1>2. ASSUME c \in Ours, ~late'[c] PROVE StageOf(c)'
  <2>1. StageOf(c)
      BY <1>1, <1>2 DEF StageInv
  <2>2. CASE Acquire(c)
    <3>1. owner[c] = "queued"
        BY <2>2 DEF Acquire, QueueInv
    <3> QED BY <2>1, <2>2, <3>1 DEF Acquire, Owner, StageOf, Stage
  <2>3. CASE Claim(c) \/ RefuseRequest(c)
      BY <2>1, <2>3 DEF Claim, RefuseRequest, ReadsRequest, Owner, StageOf, Stage
  <2>4. CASE \E slug \in Slugs \cup {NONE} : Resolve(c, slug)
    <3>1. PICK step \in {"sending", "refusing"} : Owner(c, step)
        BY <2>4 DEF Resolve
    <3>2. owner[c] = "resolving" /\ UNCHANGED <<asker, link, toOwner, toAsker>>
        BY <2>4 DEF Resolve
    <3> QED BY <2>1, <3>1, <3>2 DEF Owner, StageOf, Stage
  <2>5. CASE SendManifest(c)
    <3>1. owner[c] = "sending" /\ toAsker'[c].kind = "manifest"
        BY <2>5, Kinds DEF SendManifest
    <3> QED BY <2>1, <2>5, <3>1 DEF SendManifest, Owner, StageOf, Stage
  <2>6. CASE SendRefusal(c)
      BY <2>1, <2>6 DEF SendRefusal, Owner, StageOf, Stage
  <2>7. CASE ReadAck(c)
      BY <2>1, <2>7 DEF ReadAck, HandlerEnds, OwnerCloses, Owner, StageOf, Stage
  <2>8. CASE GivenUp(c)
    <3>1. link[c] \notin {"none", "up"}
        BY <1>2, <2>8, InTime
    <3>2. CASE HandshakeFails(c) \/ HandlerFails(c)
        BY <2>1, <3>1, <3>2 DEF HandshakeFails, HandlerFails, StageOf, Stage
    <3>3. CASE ServeFails(c)
        BY <2>1, <3>1, <3>3 DEF ServeFails, Owner, StageOf, Stage
    <3>4. CASE DrainEnds(c)
        BY <2>1, <3>1, <3>4, Kinds DEF DrainEnds, HandlerEnds, Owner, StageOf, Stage
    <3> QED BY <2>2, <2>3, <2>4, <2>5, <2>6, <2>7, <3>2, <3>3, <3>4 DEF OwnerNext
  <2> QED BY <2>2, <2>3, <2>4, <2>5, <2>6, <2>7, <2>8
           DEF OwnerNext, HandshakeFails, HandlerFails, ServeFails, DrainEnds
<1> QED BY <1>1, <1>2, StageElsewhere

LEMMA AskerStages ==
    ASSUME ServeInv, StageInv, NEW c \in Conns, AskerNext(c)
    PROVE  StageInv'
<1> USE DEF ServeInv, TypeInv, TypeOK
<1>1. /\ \A d \in Conns \ {c} :
            UNCHANGED <<owner[d], asker[d], link[d], toOwner[d], toAsker[d], late[d]>>
      /\ ~late'[c] => ~late[c]
    BY DEF AskerNext, SendRequest, ReadRefusal, TakeManifest, RejectManifest, SendAck,
           AskerDrainEnds, FetchFails, FetchEnds, AskerCloses, Asker, GivenUp
<1>2. ASSUME c \in Ours, ~late'[c] PROVE StageOf(c)'
  <2>1. StageOf(c)
      BY <1>1, <1>2 DEF StageInv
  <2>2. CASE SendRequest(c)
      BY <2>1, <2>2 DEF SendRequest, Asker, StageOf, Stage
  <2>3. CASE ReadRefusal(c)
      BY <2>1, <2>3, Kinds DEF ReadRefusal, FetchEnds, AskerCloses, Asker, StageOf, Stage
  <2>4. CASE TakeManifest(c)
      BY <2>1, <2>4, Kinds DEF TakeManifest, Asker, StageOf, Stage
  <2>5. CASE RejectManifest(c)
      BY <2>1, <2>5, Kinds DEF RejectManifest, FetchEnds, AskerCloses, Asker, StageOf, Stage
  <2>6. CASE SendAck(c)
      BY <2>1, <2>6 DEF SendAck, Asker, StageOf, Stage
  <2>7. CASE AskerDrainEnds(c) \/ FetchFails(c)
    <3>1. link[c] \notin {"none", "up"}
        BY <1>2, <2>7, InTime DEF AskerDrainEnds, FetchFails
    <3>2. asker[c] = "draining" /\ owner[c] = "delivered" /\ link[c] = "closedByOwner"
        BY <2>1, <2>7, <3>1 DEF AskerDrainEnds, FetchFails, StageOf, Stage
    <3>3. AskerDrainEnds(c)
        BY <2>7, <3>2 DEF FetchFails
    <3> QED BY <3>2, <3>3 DEF AskerDrainEnds, FetchEnds, AskerCloses, Asker, StageOf, Stage
  <2> QED BY <2>2, <2>3, <2>4, <2>5, <2>6, <2>7 DEF AskerNext
<1> QED BY <1>1, <1>2, StageElsewhere

LEMMA StageStep == ServeInv /\ StageInv /\ [Next]_vars => StageInv'
<1> SUFFICES ASSUME ServeInv, StageInv, [Next]_vars PROVE StageInv'
    OBVIOUS
<1>1. CASE \E c \in Conns : Dial(c) \/ Arrive(c) \/ Handshake(c)
    BY <1>1, DialStages
<1>2. CASE \E c \in Conns : OwnerNext(c)
    BY <1>2, OwnerStages
<1>3. CASE \E c \in Conns : AskerNext(c)
    BY <1>3, AskerStages
<1>4. CASE \E c \in Conns : StrayAck(c)
    BY <1>4, StageElsewhere DEF StrayAck, Ours, ServeInv, TypeInv, TypeOK
<1>5. CASE \E c \in Conns : LinkLost(c)
    BY <1>5, StageElsewhere DEF LinkLost, ServeInv, TypeInv, TypeOK
<1>6. CASE PlaneCloses
    BY <1>6 DEF PlaneCloses, StageInv, Ours
<1>7. CASE UNCHANGED vars
    BY <1>7 DEF vars, StageInv, StageOf
<1> QED BY <1>1, <1>2, <1>3, <1>4, <1>5, <1>6, <1>7 DEF Next

LEMMA StageInvariant == Spec => []StageInv
BY ServeInvariant, InitStageInv, StageStep, PTL DEF Spec

\* Without a deadline or a lost link both ends come to the same conclusion, whoever
\* closes and however many connections there are: no close overtakes the last frame.
THEOREM ClosingTruncatesNothing == Spec => []OutcomesAgree
<1>1. StageInv => OutcomesAgree
    BY DEF StageInv, StageOf, Stage, OutcomesAgree, OwnerEnd, AskerEnd
<1> QED BY <1>1, StageInvariant, PTL

-----------------------------------------------------------------------------
(* The plane implements the exchange *)

\* A manifest is on its way only after it was served, and nothing is accepted before
\* the response was read.
SentInv ==
    /\ \A c \in Conns :
          toAsker[c].kind = "manifest" =>
              \/ owner[c] \in {"awaitingAck"} \cup OwnerEnd
              \/ owner[c] = "draining" /\ guard[c] # NONE
    /\ \A c \in Conns :
          asker[c] \in {"idle", "dialling", "requesting", "awaiting"} => accepted[c] = NONE

ExchangeInv == ServeInv /\ DeliveryInv /\ SentInv

LEMMA InitExchangeInv == Init => ExchangeInv
BY InitServeInv, InitDeliveryInv
   DEF ExchangeInv, SentInv, Init, NoResponse

LEMMA SentStep == ExchangeInv /\ [Next]_vars => SentInv'
<1> SUFFICES ASSUME ExchangeInv, [Next]_vars PROVE SentInv'
    OBVIOUS
<1> USE DEF ExchangeInv, ServeInv, TypeInv, TypeOK
<1>1. ASSUME UNCHANGED <<owner, guard, toAsker, asker, accepted>> PROVE SentInv'
    BY <1>1 DEF SentInv
<1>2. CASE \E c \in Conns : Dial(c) \/ Arrive(c) \/ Handshake(c)
    BY <1>2 DEF Dial, Arrive, Handshake, Owner, Asker, SentInv, OwnerEnd
<1>3. CASE \E c \in Conns : OwnerNext(c)
  <2>1. PICK c \in Conns : OwnerNext(c)
      BY <1>3
  <2>2. asker' = asker /\ accepted' = accepted
      BY <2>1 DEF OwnerNext, Acquire, HandshakeFails, Claim, ReadsRequest, RefuseRequest,
                  Resolve, SendManifest, SendRefusal, ReadAck, HandlerFails, ServeFails,
                  DrainEnds, HandlerEnds
  <2>3. \A d \in Conns : d # c =>
            owner'[d] = owner[d] /\ guard'[d] = guard[d] /\ toAsker'[d] = toAsker[d]
      BY <2>1 DEF OwnerNext, Acquire, HandshakeFails, Claim, ReadsRequest, RefuseRequest,
                  Resolve, SendManifest, SendRefusal, ReadAck, HandlerFails, ServeFails,
                  DrainEnds, HandlerEnds, Owner
  <2>4. \/ toAsker'[c] = toAsker[c] /\ owner'[c] \in OwnerEnd
        \/ owner'[c] = "awaitingAck"
        \/ toAsker'[c] = Refusal
        \/ ServeFails(c)
        \/ /\ toAsker'[c] = toAsker[c]
           /\ owner[c] \in {"queued", "accepting", "reading", "resolving"}
    <3>1. CASE Acquire(c)
      <4>1. c = queue[1] /\ 1 \in 1 .. Len(queue)
          BY <3>1 DEF Acquire
      <4> QED BY <3>1, <4>1 DEF Acquire, QueueInv
    <3>2. CASE HandshakeFails(c) \/ Claim(c) \/ RefuseRequest(c)
                  \/ \E slug \in Slugs \cup {NONE} : Resolve(c, slug)
        BY <3>2 DEF HandshakeFails, Claim, RefuseRequest, ReadsRequest, Resolve
    <3>3. CASE SendManifest(c) \/ SendRefusal(c)
        BY <3>3 DEF SendManifest, SendRefusal, Owner
    <3>4. CASE ReadAck(c) \/ HandlerFails(c) \/ DrainEnds(c)
        BY <3>4 DEF ReadAck, HandlerFails, DrainEnds, HandlerEnds, Owner, OwnerEnd
    <3> QED BY <2>1, <3>1, <3>2, <3>3, <3>4 DEF OwnerNext
  <2>5. c \in Conns => ( toAsker'[c].kind = "manifest" =>
              \/ owner'[c] \in {"awaitingAck"} \cup OwnerEnd
              \/ owner'[c] = "draining" /\ guard'[c] # NONE )
    <3>1. CASE ServeFails(c)
      <4>1. UNCHANGED <<toAsker, guard>> /\ owner'[c] = "draining"
          BY <3>1 DEF ServeFails, Owner
      <4>2. owner[c] \in Serving \cup {"refusing"}
          BY <3>1 DEF ServeFails, Serving
      <4> QED BY <4>1, <4>2 DEF SentInv, GuardInv, Serving, OwnerEnd
    <3>2. CASE toAsker'[c] = Refusal
        BY <3>2 DEF Refusal
    <3>3. CASE toAsker'[c] = toAsker[c] /\
               owner[c] \in {"queued", "accepting", "reading", "resolving"}
        BY <3>3 DEF SentInv, OwnerEnd
    <3> QED BY <2>4, <3>1, <3>2, <3>3
  <2> QED BY <2>2, <2>3, <2>5 DEF SentInv
<1>4. CASE \E c \in Conns : AskerNext(c)
  <2>1. PICK c \in Conns : AskerNext(c)
      BY <1>4
  <2>2. UNCHANGED <<owner, guard, toAsker>>
      BY <2>1 DEF AskerNext, SendRequest, ReadRefusal, TakeManifest, RejectManifest, SendAck,
                  AskerDrainEnds, FetchFails, FetchEnds
  <2>3. \A d \in Conns : asker'[d] \in {"idle", "dialling", "requesting", "awaiting"}
            => accepted'[d] = NONE
    <3>1. \A d \in Conns : d # c => asker'[d] = asker[d] /\ accepted'[d] = accepted[d]
        BY <2>1 DEF AskerNext, SendRequest, ReadRefusal, TakeManifest, RejectManifest, SendAck,
                    AskerDrainEnds, FetchFails, FetchEnds, Asker
    <3>2. \/ asker'[c] \notin {"idle", "dialling", "requesting", "awaiting"}
          \/ asker[c] = "requesting" /\ accepted'[c] = accepted[c]
        BY <2>1 DEF AskerNext, SendRequest, ReadRefusal, TakeManifest, RejectManifest, SendAck,
                    AskerDrainEnds, FetchFails, FetchEnds, Asker, AskerEnd
    <3> QED BY <3>1, <3>2 DEF SentInv
  <2> QED BY <2>2, <2>3 DEF SentInv
<1>5. CASE \E c \in Conns : StrayAck(c) \/ LinkLost(c)
    BY <1>1, <1>5 DEF StrayAck, LinkLost
<1>6. CASE PlaneCloses \/ UNCHANGED vars
    BY <1>1, <1>6 DEF PlaneCloses, vars
<1> QED BY <1>2, <1>3, <1>4, <1>5, <1>6 DEF Next

LEMMA ExchangeInvariant == Spec => []ExchangeInv
<1>1. ExchangeInv /\ [Next]_vars => ExchangeInv'
    BY TypeInvStep, QueueStep, GuardStep, DeliveryStep, SentStep DEF ExchangeInv, ServeInv
<1> QED BY <1>1, InitExchangeInv, PTL DEF Spec

LEMMA InitExchange == Init => Exchange!Init
<1> SUFFICES ASSUME Init PROVE Exchange!Init
    OBVIOUS
<1>1. \A c \in Ours : c \in Conns
    BY DEF Ours
<1>2. RequestView \in [Ours -> Ids]
    BY <1>1 DEF Init, RequestView
<1>3. OwnerView = [c \in Ours |-> "open"] /\ AskerView = [c \in Ours |-> "open"]
    BY <1>1 DEF Init, OwnerView, AskerView, OwnerEnd, AskerEnd
<1> QED BY <1>2, <1>3 DEF Exchange!Init

\* A step of the owner on one connection is a step of the exchange or changes nothing
\* the exchange sees.
LEMMA OwnerExchange ==
    ASSUME ExchangeInv, NEW c \in Conns, OwnerNext(c)
    PROVE  [Exchange!Next]_(Exchange!vars)
<1> USE DEF ExchangeInv, ServeInv, TypeInv, TypeOK
<1>1. UNCHANGED <<request, asker, accepted>>
    BY DEF OwnerNext, Acquire, HandshakeFails, Claim, ReadsRequest, RefuseRequest,
           Resolve, SendManifest, SendRefusal, ReadAck, HandlerFails, ServeFails,
           DrainEnds, HandlerEnds
<1>2. \A d \in Conns : d # c => owner'[d] = owner[d] /\ guard'[d] = guard[d]
    BY DEF OwnerNext, Acquire, HandshakeFails, Claim, ReadsRequest, RefuseRequest,
           Resolve, SendManifest, SendRefusal, ReadAck, HandlerFails, ServeFails,
           DrainEnds, HandlerEnds, Owner
<1>3. RequestView' = RequestView /\ AskerView' = AskerView
    BY <1>1 DEF RequestView, AskerView
<1>4. \A d \in Ours : d # c => OwnerView'[d] = OwnerView[d]
    BY <1>2 DEF OwnerView, Ours
<1>5. ASSUME OwnerView' = OwnerView PROVE [Exchange!Next]_(Exchange!vars)
    BY <1>3, <1>5 DEF Exchange!vars
<1>6. CASE c \notin Ours
  <2>1. OwnerView' = OwnerView
      BY <1>4, <1>6 DEF OwnerView
  <2> QED BY <1>5, <2>1
<1>7. CASE c \in Ours
  <2>1. ASSUME NEW v, OwnerView'[c] = v PROVE OwnerView' = [OwnerView EXCEPT ![c] = v]
      BY <1>4, <1>7, <2>1 DEF OwnerView
  <2>2. ASSUME OwnerView'[c] = OwnerView[c] PROVE OwnerView' = OwnerView
      BY <1>4, <1>7, <2>2 DEF OwnerView
  <2>3. CASE Claim(c)
    <3>1. guard[c] = NONE /\ owner[c] = "reading"
        BY <2>3 DEF Claim, ReadsRequest, GuardInv, Serving
    <3>2. OwnerView[c] = "open"
        BY <1>7, <3>1 DEF OwnerView, OwnerEnd
    <3>3. guard'[c] = request[c] /\ request[c] \in Ids /\ request[c] \notin inFlight
        BY <2>3 DEF Claim, Claimable, Free
    <3>4. OwnerView'[c] = "serving"
        BY <1>7, <3>3, TicketAssumption DEF OwnerView
    <3>5. \A d \in Ours : OwnerView[d] = "serving" => RequestView[d] # RequestView[c]
      <4>1. SUFFICES ASSUME NEW d \in Ours, OwnerView[d] = "serving"
                     PROVE  request[d] # request[c]
          BY <1>7 DEF RequestView
      <4>2. d \in Conns /\ guard[d] # NONE
          BY <4>1 DEF OwnerView, Ours
      <4>3. guard[d] = request[d]
          BY <4>2 DEF GuardInv
      <4> QED BY <3>3, <4>2, <4>3 DEF GuardInv
    <3>6. Exchange!Serve(c)
        BY <1>3, <2>1, <3>2, <3>4, <3>5 DEF Exchange!Serve
    <3> QED BY <1>7, <3>6 DEF Exchange!Next
  <2>4. CASE ReadAck(c)
    <3>1. guard[c] # NONE /\ guard'[c] = NONE /\ owner'[c] = "delivered"
        BY <2>4 DEF ReadAck, HandlerEnds, Owner, GuardInv, Serving
    <3>2. accepted[c] # NONE
      <4>1. request[c] \in Ids /\ accepted[c] = SlugOf[request[c]]
          BY <1>7, <2>4 DEF ReadAck, DeliveryInv, ServedRequests, Serving, Ours
      <4> QED BY <4>1, TicketAssumption
    <3>3. /\ OwnerView[c] = "serving" /\ OwnerView'[c] = "delivered"
          /\ AskerView[c] = "accepted"
        BY <1>7, <3>1, <3>2 DEF OwnerView, AskerView
    <3>4. Exchange!Deliver(c)
        BY <1>3, <2>1, <3>3 DEF Exchange!Deliver
    <3> QED BY <1>7, <3>4 DEF Exchange!Next
  <2>5. ASSUME OwnerView[c] \in {"open", "serving"}, OwnerView'[c] = "undelivered"
        PROVE  [Exchange!Next]_(Exchange!vars)
    <3>1. Exchange!OwnerGivesUp(c)
        BY <1>3, <2>1, <2>5 DEF Exchange!OwnerGivesUp
    <3> QED BY <1>7, <3>1 DEF Exchange!Next
  <2>6. CASE HandlerFails(c) \/ DrainEnds(c)
    <3>1. guard'[c] = NONE /\ owner'[c] \in {"refused", "failed"}
        BY <2>6 DEF HandlerFails, DrainEnds, HandlerEnds, Owner
    <3>2. OwnerView'[c] = "undelivered"
        BY <1>7, <3>1 DEF OwnerView, OwnerEnd
    <3>3. owner[c] \in {"reading", "refusing", "flushing", "draining"}
        BY <2>6 DEF HandlerFails, DrainEnds
    <3>4. OwnerView[c] \in {"open", "serving", "undelivered"}
        BY <1>7, <3>3 DEF OwnerView, OwnerEnd
    <3> QED BY <1>5, <2>2, <2>5, <3>2, <3>4
  <2>7. CASE HandshakeFails(c)
    <3>1. guard[c] = NONE /\ guard'[c] = NONE /\ owner[c] = "accepting" /\ owner'[c] = "failed"
        BY <2>7 DEF HandshakeFails, Owner, GuardInv, Serving
    <3> QED BY <1>7, <2>5, <3>1 DEF OwnerView, OwnerEnd
  <2>8. CASE SendRefusal(c)
    <3>1. guard'[c] = guard[c] /\ owner[c] = "refusing" /\ owner'[c] = "flushing"
        BY <2>8 DEF SendRefusal, Owner
    <3> QED BY <1>5, <1>7, <2>2, <2>5, <3>1 DEF OwnerView, OwnerEnd
  <2>9. CASE \/ Acquire(c) \/ RefuseRequest(c) \/ SendManifest(c) \/ ServeFails(c)
             \/ \E slug \in Slugs \cup {NONE} : Resolve(c, slug)
    <3>1. guard'[c] = guard[c]
        BY <2>9 DEF Acquire, RefuseRequest, SendManifest, ServeFails, Resolve
    <3>2. owner'[c] \notin OwnerEnd \cup {"flushing"}
        BY <2>9 DEF Acquire, RefuseRequest, SendManifest, ServeFails, Resolve, Owner, OwnerEnd
    <3>3. owner[c] \notin OwnerEnd \cup {"flushing"}
      <4>1. CASE Acquire(c)
        <5>1. c = queue[1] /\ 1 \in 1 .. Len(queue)
            BY <4>1 DEF Acquire
        <5> QED BY <5>1 DEF QueueInv, OwnerEnd
      <4>2. CASE ~Acquire(c)
          BY <2>9, <4>2 DEF RefuseRequest, ReadsRequest, SendManifest, ServeFails, Resolve,
                            OwnerEnd
      <4> QED BY <4>1, <4>2
    <3>4. OwnerView'[c] = OwnerView[c]
        BY <1>7, <3>1, <3>2, <3>3 DEF OwnerView, OwnerEnd
    <3> QED BY <1>5, <2>2, <3>4
  <2> QED BY <2>3, <2>4, <2>6, <2>7, <2>8, <2>9 DEF OwnerNext
<1> QED BY <1>6, <1>7

LEMMA AskerExchange ==
    ASSUME ExchangeInv, NEW c \in Conns, AskerNext(c)
    PROVE  [Exchange!Next]_(Exchange!vars)
<1> USE DEF ExchangeInv, ServeInv, TypeInv, TypeOK
<1>1. UNCHANGED <<request, owner, guard>>
    BY DEF AskerNext, SendRequest, ReadRefusal, TakeManifest, RejectManifest, SendAck,
           AskerDrainEnds, FetchFails, FetchEnds
<1>2. \A d \in Conns : d # c => asker'[d] = asker[d] /\ accepted'[d] = accepted[d]
    BY DEF AskerNext, SendRequest, ReadRefusal, TakeManifest, RejectManifest, SendAck,
           AskerDrainEnds, FetchFails, FetchEnds, Asker
<1>3. RequestView' = RequestView /\ OwnerView' = OwnerView
    BY <1>1 DEF RequestView, OwnerView
<1>4. \A d \in Ours : d # c => AskerView'[d] = AskerView[d]
    BY <1>2 DEF AskerView, Ours
<1>5. ASSUME AskerView' = AskerView PROVE [Exchange!Next]_(Exchange!vars)
    BY <1>3, <1>5 DEF Exchange!vars
<1>6. CASE c \notin Ours
  <2>1. AskerView' = AskerView
      BY <1>4, <1>6 DEF AskerView
  <2> QED BY <1>5, <2>1
<1>7. CASE c \in Ours
  <2>1. ASSUME NEW v, AskerView'[c] = v PROVE AskerView' = [AskerView EXCEPT ![c] = v]
      BY <1>4, <1>7, <2>1 DEF AskerView
  <2>2. ASSUME AskerView'[c] = AskerView[c] PROVE AskerView' = AskerView
      BY <1>4, <1>7, <2>2 DEF AskerView
  <2>3. CASE TakeManifest(c)
    <3>1. accepted[c] = NONE /\ asker[c] = "awaiting"
        BY <2>3 DEF TakeManifest, SentInv
    <3>2. accepted'[c] \in Slugs /\ accepted'[c] # NONE
        BY <2>3, ResponseKinds, TicketAssumption DEF TakeManifest
    <3>3. AskerView[c] = "open" /\ AskerView'[c] = "accepted"
        BY <1>7, <3>1, <3>2 DEF AskerView, AskerEnd
    <3>4. OwnerView[c] # "open"
        BY <1>7, <2>3 DEF TakeManifest, SentInv, GuardInv, Serving, OwnerView, OwnerEnd, Ours
    <3>5. Exchange!Accept(c)
        BY <1>3, <2>1, <3>3, <3>4 DEF Exchange!Accept
    <3> QED BY <1>7, <3>5 DEF Exchange!Next
  <2>4. CASE SendRequest(c) \/ SendAck(c)
    <3>1. accepted'[c] = accepted[c] /\ asker[c] \notin AskerEnd /\ asker'[c] \notin AskerEnd
        BY <2>4 DEF SendRequest, SendAck, Asker, AskerEnd
    <3>2. AskerView'[c] = AskerView[c]
        BY <1>7, <3>1 DEF AskerView
    <3> QED BY <1>5, <2>2, <3>2
  <2>5. CASE ReadRefusal(c) \/ RejectManifest(c) \/ AskerDrainEnds(c) \/ FetchFails(c)
    <3>1. /\ accepted'[c] = accepted[c] /\ asker'[c] \in AskerEnd /\ asker[c] \notin AskerEnd
        BY <2>5 DEF ReadRefusal, RejectManifest, AskerDrainEnds, FetchFails, FetchEnds, Asker,
                    AskerEnd
    <3>2. CASE accepted[c] # NONE
      <4>1. AskerView'[c] = AskerView[c]
          BY <1>7, <3>1, <3>2 DEF AskerView
      <4> QED BY <1>5, <2>2, <4>1
    <3>3. CASE accepted[c] = NONE
      <4>1. AskerView[c] = "open" /\ AskerView'[c] = "empty"
          BY <1>7, <3>1, <3>3 DEF AskerView
      <4>2. Exchange!AskerGivesUp(c)
          BY <1>3, <2>1, <4>1 DEF Exchange!AskerGivesUp
      <4> QED BY <1>7, <4>2 DEF Exchange!Next
    <3> QED BY <3>2, <3>3
  <2> QED BY <2>3, <2>4, <2>5 DEF AskerNext
<1> QED BY <1>6, <1>7

LEMMA StepExchange == ExchangeInv /\ [Next]_vars => [Exchange!Next]_(Exchange!vars)
<1> SUFFICES ASSUME ExchangeInv, [Next]_vars PROVE [Exchange!Next]_(Exchange!vars)
    OBVIOUS
<1>1. ASSUME UNCHANGED <<RequestView, OwnerView, AskerView>>
      PROVE  [Exchange!Next]_(Exchange!vars)
    BY <1>1 DEF Exchange!vars
<1>2. CASE \E c \in Conns : Dial(c) \/ Arrive(c) \/ Handshake(c)
  <2>1. PICK c \in Conns : Dial(c) \/ Arrive(c) \/ Handshake(c)
      BY <1>2
  <2>2. UNCHANGED <<request, guard, accepted>>
      BY <2>1 DEF Dial, Arrive, Handshake
  <2>3. \A d \in Conns :
            /\ owner'[d] # owner[d] => owner[d] \notin OwnerEnd \cup {"flushing"}
                                       /\ owner'[d] \notin OwnerEnd \cup {"flushing"}
            /\ asker'[d] # asker[d] => asker[d] \notin AskerEnd /\ asker'[d] \notin AskerEnd
      BY <2>1 DEF Dial, Arrive, Handshake, Owner, Asker, OwnerEnd, AskerEnd, ExchangeInv,
                  ServeInv, TypeInv, TypeOK
  <2>4. OwnerView' = OwnerView
    <3>1. \A d \in Ours : OwnerView'[d] = OwnerView[d]
        BY <2>2, <2>3 DEF OwnerView, OwnerEnd, Ours
    <3> QED BY <3>1 DEF OwnerView
  <2>5. AskerView' = AskerView
    <3>1. \A d \in Ours : AskerView'[d] = AskerView[d]
        BY <2>2, <2>3 DEF AskerView, Ours
    <3> QED BY <3>1 DEF AskerView
  <2> QED BY <1>1, <2>2, <2>4, <2>5 DEF RequestView
<1>3. CASE \E c \in Conns : OwnerNext(c)
    BY <1>3, OwnerExchange
<1>4. CASE \E c \in Conns : AskerNext(c)
    BY <1>4, AskerExchange
<1>5. CASE \/ \E c \in Conns : StrayAck(c) \/ LinkLost(c)
           \/ PlaneCloses \/ UNCHANGED vars
  <2>1. UNCHANGED <<request, owner, asker, guard, accepted>>
      BY <1>5 DEF StrayAck, LinkLost, PlaneCloses, vars
  <2> QED BY <1>1, <2>1 DEF RequestView, OwnerView, AskerView
<1> QED BY <1>2, <1>3, <1>4, <1>5 DEF Next

\* The plane implements the exchange: for connections both of whose ends run this
\* code, one service of a request at a time, and nothing is delivered that the asker
\* does not hold.
THEOREM ImplementsExchange == Spec => KeepsExchange
BY InitExchange, StepExchange, ExchangeInvariant, PTL DEF Spec, KeepsExchange, Exchange!Spec

-----------------------------------------------------------------------------
(* Who gets the owner's list: AutoApprove *)

\* The replays of a poll are asks to be answered, each once, and none is held again
\* before its turn.
ReplaysFresh ==
    /\ \A i, j \in DOMAIN replays : replays[i] = replays[j] => i = j
    /\ \A i \in DOMAIN replays : replays[i] \notin seen
    /\ \A i \in DOMAIN replays, j \in DOMAIN held : replays[i] # held[j]

\* An ask that was answered since the memory was emptied is in the memory.
AnswersRemembered == \A a \in Asks : served[a] # 0 => served[a] = 1 /\ a \in seen

\* What was saved is no more than what was remembered.
SavedWithinCap == Cardinality(answered) <= SeenMax

AutoInv == AutoTypeOK /\ ReplaysFresh /\ AnswersRemembered /\ CapsHold /\ SavedWithinCap

LEMMA AutoBounds ==
    /\ Cooldown \in Nat /\ Window \in Nat /\ MaxStamp \in Nat /\ MaxCrashes \in Nat
    /\ MaxChanges \in Nat /\ AttemptsMax \in Nat \ {0} /\ HoldMax \in Nat
    /\ SeenMax \in Nat /\ AttemptKeysMax \in Nat
BY AutoConstants

\* Counts of no asks, and of fewer asks, are no more.
LEMMA FewerKeys ==
    ASSUME NEW f, NEW g, AttemptKeys(g) \subseteq AttemptKeys(f),
           Cardinality(AttemptKeys(f)) <= AttemptKeysMax
    PROVE  Cardinality(AttemptKeys(g)) <= AttemptKeysMax
<1>1. AttemptKeys(f) \subseteq Asks /\ IsFiniteSet(Asks)
    BY AutoConstants DEF AttemptKeys
<1>2. IsFiniteSet(AttemptKeys(f))
    BY <1>1, FS_Subset
<1>3. /\ Cardinality(AttemptKeys(g)) <= Cardinality(AttemptKeys(f))
      /\ Cardinality(AttemptKeys(f)) \in Nat /\ Cardinality(AttemptKeys(g)) \in Nat
    BY <1>2, FS_Subset, FS_CardinalityType
<1> QED BY <1>3, AutoBounds

LEMMA NoKeys == Cardinality(AttemptKeys(None)) <= AttemptKeysMax
<1>1. AttemptKeys(None) = {}
    BY DEF AttemptKeys, None
<1> QED BY <1>1, FS_EmptySet, AutoBounds

\* A set of stamps has a latest one.
LEMMA LatestStamp ==
    ASSUME NEW n \in Nat, NEW S \in SUBSET (0..n), S # {}
    PROVE  \E x \in S : \A y \in S : y <= x
<1> DEFINE Above == {x..n : x \in S}
<1>1. Above \subseteq FiniteSubsetsOf(Nat) /\ Above # {}
  <2>1. \A x \in S : x..n \in SUBSET Nat /\ IsFiniteSet(x..n)
      BY FS_Interval
  <2> QED BY <2>1 DEF FiniteSubsetsOf
<1>2. PICK B \in Above : \A C \in Above : ~ (<<C, B>> \in StrictSubsetOrdering(Nat))
    BY <1>1, FS_StrictSubsetOrderingWellFounded, WFMin
<1>3. PICK x \in S : B = x..n
    BY <1>2
<1>4. ASSUME NEW y \in S, x < y PROVE FALSE
  <2>1. y..n \in Above /\ (y..n) \subseteq B /\ y..n # B
      BY <1>3, <1>4
  <2> QED BY <1>1, <1>2, <2>1 DEF StrictSubsetOrdering, FiniteSubsetsOf
<1> QED BY <1>4

\* The hold queue without an ask holds the others, each once.
LEMMA WithoutHeldIs ==
    ASSUME held \in Seq(ManifestAsks), HeldOnce, NEW a \in ManifestAsks
    PROVE  /\ WithoutHeld(a) \in Seq(ManifestAsks) /\ Len(WithoutHeld(a)) <= Len(held)
           /\ \A i, j \in DOMAIN WithoutHeld(a) :
                 WithoutHeld(a)[i] = WithoutHeld(a)[j] => i = j
           /\ \A i \in DOMAIN WithoutHeld(a) :
                 /\ WithoutHeld(a)[i] # a
                 /\ \E j \in DOMAIN held : WithoutHeld(a)[i] = held[j]
<1>1. CASE ~InHold(a)
    BY <1>1 DEF WithoutHeld, InHold, HeldOnce
<1>2. CASE InHold(a)
  <2> DEFINE n == CHOOSE i \in DOMAIN held : held[i] = a
             Nth(i) == IF i < n THEN i ELSE i + 1
             w == [i \in 1..Len(held) - 1 |-> held[Nth(i)]]
  <2>1. n \in 1..Len(held) /\ held[n] = a /\ Len(held) \in Nat
      BY <1>2 DEF InHold
  <2> HIDE DEF n
  <2>2. \A i \in 1..Len(held) - 1 : Nth(i) \in 1..Len(held) /\ Nth(i) # n
      BY <2>1
  <2>3. \A i, j \in 1..Len(held) - 1 : Nth(i) = Nth(j) => i = j
      BY <2>1
  <2>4. WithoutHeld(a) = w
      BY <1>2 DEF WithoutHeld, n
  <2> HIDE DEF Nth
  <2>5. /\ w \in Seq(ManifestAsks) /\ DOMAIN w = 1..Len(held) - 1
        /\ Len(w) = Len(held) - 1
    <3>1. w \in [1..Len(held) - 1 -> ManifestAsks] /\ Len(held) - 1 \in Nat
        BY <2>1, <2>2
    <3> QED BY <3>1
  <2>6. \A i \in 1..Len(held) - 1 : w[i] = held[Nth(i)]
      OBVIOUS
  <2> HIDE DEF w
  <2>7. \A i, j \in DOMAIN w : w[i] = w[j] => i = j
      BY <2>2, <2>3, <2>5, <2>6 DEF HeldOnce
  <2>8. ASSUME NEW i \in DOMAIN w PROVE w[i] # a /\ \E j \in DOMAIN held : w[i] = held[j]
    <3>1. w[i] = held[Nth(i)] /\ Nth(i) \in 1..Len(held) /\ Nth(i) # n
        BY <2>2, <2>5, <2>6
    <3>2. DOMAIN held = 1..Len(held)
        OBVIOUS
    <3>3. held[Nth(i)] # held[n]
        BY <2>1, <3>1, <3>2 DEF HeldOnce
    <3> QED BY <2>1, <3>1, <3>2, <3>3
  <2> QED BY <2>1, <2>4, <2>5, <2>7, <2>8
<1> QED BY <1>1, <1>2

\* What is left of the memory and of the counts when an ask has been dealt with.
LEMMA MemoryMoves ==
    ASSUME AutoTypeOK, AnswersRemembered, NEW a \in Asks, NEW n \in {0, 1},
           n = 1 => a \notin seen
    PROVE  /\ Remembered(a) \in SUBSET (seen \cup {a})
           /\ Cardinality(Remembered(a)) <= SeenMax
           /\ ServedWith(a, n) \in [Asks -> Nat]
           /\ \A b \in Asks : ServedWith(a, n)[b] # 0 =>
                 ServedWith(a, n)[b] = 1 /\ b \in Remembered(a)
<1>0. Cardinality(Remembered(a)) <= SeenMax
  <2>1. CASE Cardinality(seen \cup {a}) > SeenMax
      BY <2>1, FS_EmptySet, AutoBounds DEF Remembered
  <2>2. CASE ~(Cardinality(seen \cup {a}) > SeenMax)
    <3>1. IsFiniteSet(seen \cup {a})
      <4>1. seen \cup {a} \subseteq Asks /\ IsFiniteSet(Asks)
          BY AutoConstants DEF AutoTypeOK
      <4> QED BY <4>1, FS_Subset
    <3>2. Cardinality(seen \cup {a}) \in Nat /\ Remembered(a) = seen \cup {a}
        BY <2>2, <3>1, FS_CardinalityType DEF Remembered
    <3> QED BY <2>2, <3>2, AutoBounds
  <2> QED BY <2>1, <2>2
<1>1. CASE Remembered(a) = {}
    BY <1>0, <1>1 DEF ServedWith, None
<1>2. CASE Remembered(a) # {}
  <2>1. Remembered(a) = seen \cup {a}
      BY <1>2 DEF Remembered
  <2>2. ServedWith(a, n) = [served EXCEPT ![a] = @ + n] /\ served \in [Asks -> Nat]
      BY <1>2 DEF ServedWith, AutoTypeOK
  <2>3. \A b \in Asks : ServedWith(a, n)[b] = IF b = a THEN served[b] + n ELSE served[b]
      BY <2>2
  <2>4. served[a] + n = 0 \/ served[a] + n = 1
      BY <2>2 DEF AnswersRemembered
  <2>5. ServedWith(a, n) \in [Asks -> Nat]
      BY <2>2
  <2> QED BY <1>0, <2>1, <2>3, <2>4, <2>5 DEF AnswersRemembered
<1> QED BY <1>1, <1>2

\* What answering an ask, or failing to, does: it is added to the memory and counted,
\* or forgotten with all the others.
Accounted(a) ==
    /\ seen' \in SUBSET (seen \cup {a})
    /\ served' \in [Asks -> Nat]
    /\ AnswersRemembered'
    /\ attempts' \in [Asks -> 0..AttemptsMax - 1]
    /\ dirty' \in BOOLEAN
    /\ settled' \subseteq Asks
    /\ Cardinality(seen') <= SeenMax
    /\ Cardinality(AttemptKeys(attempts')) <= AttemptKeysMax

LEMMA ServedAccounted ==
    ASSUME AutoTypeOK, AnswersRemembered, CapsHold, NEW a \in Asks, a \notin seen,
           NoteServed(a)
    PROVE  Accounted(a)
<1>1. /\ seen' = Remembered(a) /\ served' = ServedWith(a, 1) /\ dirty' = TRUE
      /\ settled' = settled \cup {a} /\ attempts' = [attempts EXCEPT ![a] = 0]
    BY DEF NoteServed
<1>2. AttemptsMax - 1 \in Nat
    BY AutoBounds
<1>3. attempts' \in [Asks -> 0..AttemptsMax - 1] /\ settled' \subseteq Asks
    BY <1>1, <1>2 DEF AutoTypeOK
<1>4. AttemptKeys(attempts') \subseteq AttemptKeys(attempts)
    BY <1>1 DEF AutoTypeOK, AttemptKeys
<1>5. Cardinality(AttemptKeys(attempts')) <= AttemptKeysMax
    BY <1>4, FewerKeys DEF CapsHold
<1> QED BY <1>1, <1>3, <1>5, MemoryMoves DEF Accounted, AnswersRemembered

LEMMA FailureAccounted ==
    ASSUME AutoTypeOK, AnswersRemembered, CapsHold, NEW a \in Asks, NoteFailed(a)
    PROVE  /\ Accounted(a)
           /\ attempts[a] + 1 < AttemptsMax => seen' = seen
<1> DEFINE counted == [attempts EXCEPT ![a] = @ + 1]
           left == IF Cardinality(AttemptKeys(counted)) > AttemptKeysMax THEN None ELSE counted
<1>1. AttemptsMax \in Nat \ {0} /\ attempts \in [Asks -> 0..AttemptsMax - 1]
      /\ counted[a] = attempts[a] + 1
    BY AutoBounds DEF AutoTypeOK
<1>0. Cardinality(AttemptKeys(left)) <= AttemptKeysMax
  <2>1. IsFiniteSet(AttemptKeys(counted))
    <3>1. AttemptKeys(counted) \subseteq Asks /\ IsFiniteSet(Asks)
        BY AutoConstants DEF AttemptKeys
    <3> QED BY <3>1, FS_Subset
  <2>2. Cardinality(AttemptKeys(counted)) \in Nat
      BY <2>1, FS_CardinalityType
  <2> QED BY <2>2, NoKeys, AutoBounds
<1>2. CASE counted[a] < AttemptsMax
  <2>1. attempts' = left /\ UNCHANGED <<seen, served, dirty, settled>>
      BY <1>2 DEF NoteFailed
  <2>2. left \in [Asks -> 0..AttemptsMax - 1]
    <3>1. attempts[a] + 1 \in 0..AttemptsMax - 1
        BY <1>1, <1>2
    <3>2. counted \in [Asks -> 0..AttemptsMax - 1]
        BY <1>1, <3>1
    <3>3. None \in [Asks -> 0..AttemptsMax - 1]
        BY <1>1 DEF None
    <3> QED BY <3>2, <3>3
  <2>3. AnswersRemembered'
      BY <2>1 DEF AnswersRemembered
  <2> QED BY <1>0, <2>1, <2>2, <2>3 DEF Accounted, AutoTypeOK, CapsHold
<1>3. CASE ~(counted[a] < AttemptsMax)
  <2>1. /\ seen' = Remembered(a) /\ served' = ServedWith(a, 0) /\ dirty' = TRUE
        /\ settled' = settled \cup {a} /\ attempts' = [left EXCEPT ![a] = 0]
      BY <1>3 DEF NoteFailed
  <2>2. \A b \in Asks : b # a => left[b] \in 0..AttemptsMax - 1
      BY <1>1 DEF None
  <2>3. left = [b \in Asks |-> left[b]]
      BY <1>1 DEF None
  <2> HIDE DEF left
  <2>4. attempts' \in [Asks -> 0..AttemptsMax - 1]
      BY <1>1, <2>1, <2>2, <2>3
  <2>5. settled' \subseteq Asks
      BY <2>1 DEF AutoTypeOK
  <2>6. AttemptKeys(attempts') \subseteq AttemptKeys(left)
      BY <2>1, <2>3 DEF AttemptKeys
  <2>7. Cardinality(AttemptKeys(attempts')) <= AttemptKeysMax
      BY <1>0, <2>6, FewerKeys
  <2> QED BY <1>1, <1>3, <2>1, <2>4, <2>5, <2>7, MemoryMoves DEF Accounted, AnswersRemembered
<1> QED BY <1>2, <1>3

LEMMA InitAutoInv == AutoInit => AutoInv
<1> SUFFICES ASSUME AutoInit PROVE AutoInv
    OBVIOUS
<1>1. /\ None \in [Asks -> 0..MaxStamp] /\ None \in [Asks -> 0..AttemptsMax - 1]
      /\ None \in [Asks -> Nat]
    BY AutoBounds DEF None
<1>2. /\ pace \in [Pairs -> 0..Cooldown] /\ window \in [1..Window -> Nat]
      /\ 0 \in 0..MaxChanges /\ 0 \in 0..MaxCrashes /\ 0 \in 0..MaxStamp
    BY AutoBounds DEF AutoInit, NoApproval
<1>3. /\ held = <<>> /\ replays = <<>> /\ <<>> \in Seq(ManifestAsks)
      /\ DOMAIN held = {} /\ DOMAIN replays = {}
    BY DEF AutoInit
<1>4. AutoTypeOK
    BY <1>1, <1>2, <1>3 DEF AutoInit, AutoTypeOK, HeldOnce
<1>5. \A a \in Asks : served[a] = 0
    BY DEF AutoInit, None
<1>6. CapsHold /\ SavedWithinCap
    BY <1>3, NoKeys, FS_EmptySet, AutoBounds DEF AutoInit, CapsHold, SavedWithinCap
<1> QED BY <1>3, <1>4, <1>5, <1>6 DEF AutoInv, ReplaysFresh, AnswersRemembered

\* The variables of the queue of asks and of the memory.
queues == <<seen, attempts, held, replays, dirty, served, settled>>

\* The steps of the world outside, of the clock, and of a poll that dismisses an ask or
\* ends.
LEMMA EnvironmentKeepsInv ==
    ASSUME AutoInv, NEW a \in Asks, Send(a) \/ RelayDrops(a)
    PROVE  AutoInv'
<1>1. UNCHANGED <<queues, big, blocked, answered, cursor, pace, window, pc, access, fresh,
                  crashes>>
    BY DEF Send, RelayDrops, queues
<1>2. unsent' \subseteq Asks /\ relay' \subseteq Asks
    BY DEF Send, RelayDrops, AutoInv, AutoTypeOK
<1>3. changes' \in 0..MaxChanges
  <2>1. changes \in 0..MaxChanges
      BY DEF AutoInv, AutoTypeOK
  <2> QED BY <2>1, AutoBounds DEF Send, RelayDrops
<1>4. stamp' \in [Asks -> 0..MaxStamp]
  <2>1. stamp \in [Asks -> 0..MaxStamp]
      BY DEF AutoInv, AutoTypeOK
  <2> QED BY <2>1 DEF Send, RelayDrops
<1> QED BY <1>1, <1>2, <1>3, <1>4
        DEF queues, AutoInv, AutoTypeOK, HeldOnce, ReplaysFresh, AnswersRemembered, CapsHold,
            SavedWithinCap

LEMMA SwingKeepsInv ==
    ASSUME AutoInv, NEW a \in AccessAsks, AskerSwings(a)
    PROVE  AutoInv'
<1>1. UNCHANGED <<queues, unsent, relay, stamp, answered, cursor, pace, window, pc, access,
                  fresh, crashes>>
    BY DEF AskerSwings, queues
<1>2. /\ big' \subseteq AccessAsks /\ blocked' \subseteq AccessAsks
      /\ changes' \in 0..MaxChanges
    BY AutoBounds DEF AskerSwings, AutoInv, AutoTypeOK
<1> QED BY <1>1, <1>2
        DEF queues, AutoInv, AutoTypeOK, HeldOnce, ReplaysFresh, AnswersRemembered, CapsHold,
            SavedWithinCap

LEMMA TickKeepsInv ==
    ASSUME AutoInv, Tick
    PROVE  AutoInv'
<1>1. UNCHANGED <<queues, environment, answered, cursor, pc, access, fresh, crashes>>
    BY DEF Tick, queues
<1>2. pace' \in [Pairs -> 0..Cooldown]
    BY AutoBounds DEF Tick, AutoInv, AutoTypeOK
<1>3. window' \in [1..Window -> Nat]
    BY AutoBounds DEF Tick, AutoInv, AutoTypeOK
<1> QED BY <1>1, <1>2, <1>3
        DEF queues, environment, AutoInv, AutoTypeOK, HeldOnce, ReplaysFresh,
            AnswersRemembered, CapsHold, SavedWithinCap

\* A poll takes the hold queue up as it is: the asks in it are not answered.
LEMMA FetchKeepsInv ==
    ASSUME AutoInv, NEW batch \in SUBSET Asks, Fetch(batch)
    PROVE  AutoInv'
<1>1. /\ replays' = held /\ held' = <<>>
      /\ UNCHANGED <<environment, answered, seen, dirty, attempts, pace, window, crashes,
                     served, settled>>
    BY DEF Fetch
<1>2. DOMAIN held' = {} /\ held' \in Seq(ManifestAsks)
    BY <1>1
<1>3. cursor' \in 0..MaxStamp
  <2> DEFINE S == {stamp[a] : a \in batch}
  <2>1. stamp \in [Asks -> 0..MaxStamp] /\ MaxStamp \in Nat /\ cursor \in 0..MaxStamp
      BY AutoBounds DEF AutoInv, AutoTypeOK
  <2>2. S \in SUBSET (0..MaxStamp) /\ S # {}
      BY <2>1 DEF Fetch
  <2>3. \E s \in S : \A t \in S : t <= s
    <3> HIDE DEF S
    <3> QED BY <2>1, <2>2, LatestStamp
  <2>4. \E s \in S : \A a \in batch : stamp[a] <= s
      BY <2>3
  <2>5. NewestOf(batch) \in S
      BY <2>4 DEF NewestOf
  <2> QED BY <2>1, <2>2, <2>5 DEF Fetch
<1>4. /\ pc' \in {"asleep", "polling"} /\ access' \subseteq AccessAsks
      /\ fresh' \subseteq ManifestAsks
    BY DEF Fetch
<1>5. AutoTypeOK'
    BY <1>1, <1>2, <1>3, <1>4 DEF environment, AutoInv, AutoTypeOK, HeldOnce
<1>6. ReplaysFresh'
    BY <1>1, <1>2 DEF AutoInv, AutoTypeOK, HeldOnce, ReplaysFresh
<1>7. CapsHold' /\ SavedWithinCap'
    BY <1>1, AutoBounds DEF AutoInv, CapsHold, SavedWithinCap
<1> QED BY <1>1, <1>5, <1>6, <1>7 DEF AutoInv, AnswersRemembered

LEMMA QuietPollKeepsInv ==
    ASSUME AutoInv,
           \/ \E a \in AccessAsks : AccessLeft(a)
           \/ \E a \in ManifestAsks : AlreadyAnswered(a)
           \/ \E saved \in BOOLEAN : EndPoll(saved)
    PROVE  AutoInv'
<1>1. UNCHANGED <<environment, cursor, seen, attempts, held, pace, window, replays, crashes,
                  served, settled>>
    BY DEF AccessLeft, AlreadyAnswered, TakeNext, EndPoll
<1>2. /\ access' \subseteq AccessAsks /\ fresh' \subseteq ManifestAsks
      /\ answered' \subseteq Asks /\ dirty' \in BOOLEAN /\ pc' \in {"asleep", "polling"}
  <2>1. CASE \E a \in AccessAsks : AccessLeft(a)
      BY <2>1 DEF AccessLeft, AccessStep, AutoInv, AutoTypeOK
  <2>2. CASE \E a \in ManifestAsks : AlreadyAnswered(a)
      BY <2>2 DEF AlreadyAnswered, TakeNext, AutoInv, AutoTypeOK
  <2>3. CASE \E saved \in BOOLEAN : EndPoll(saved)
      BY <2>3 DEF EndPoll, AutoInv, AutoTypeOK
  <2> QED BY <2>1, <2>2, <2>3
<1>3. SavedWithinCap'
    BY DEF AccessLeft, AlreadyAnswered, EndPoll, AutoInv, CapsHold, SavedWithinCap
<1> QED BY <1>1, <1>2, <1>3
        DEF environment, AutoInv, AutoTypeOK, HeldOnce, ReplaysFresh, AnswersRemembered,
            CapsHold

LEMMA AutoCrashKeepsInv ==
    ASSUME AutoInv, Crash
    PROVE  AutoInv'
<1>1. /\ None \in [Asks -> 0..AttemptsMax - 1] /\ None \in [Asks -> Nat]
      /\ \A a \in Asks : None[a] = 0
    BY AutoBounds DEF None
<1>2. pace' \in [Pairs -> 0..Cooldown] /\ window' \in [1..Window -> Nat]
    BY AutoBounds DEF Crash, NoApproval
<1>3. crashes' \in 0..MaxCrashes /\ 0 \in 0..MaxStamp
    BY AutoBounds DEF Crash, AutoInv, AutoTypeOK
<1>4. /\ held' = <<>> /\ replays' = <<>> /\ <<>> \in Seq(ManifestAsks)
      /\ DOMAIN held' = {} /\ DOMAIN replays' = {}
    BY DEF Crash
<1>5. AutoTypeOK'
    BY <1>1, <1>2, <1>3, <1>4 DEF Crash, environment, AutoInv, AutoTypeOK, HeldOnce
<1>6. served' = None
    BY DEF Crash
<1>7. CapsHold' /\ SavedWithinCap'
    BY <1>4, NoKeys, AutoBounds DEF Crash, AutoInv, CapsHold, SavedWithinCap
<1> QED BY <1>1, <1>4, <1>5, <1>6, <1>7 DEF AutoInv, ReplaysFresh, AnswersRemembered

\* An access ask that is answered, or fails to be, is in neither queue.
LEMMA GrantKeepsInv ==
    ASSUME AutoInv, NEW a \in AccessAsks, Grant(a) \/ GrantFails(a)
    PROVE  AutoInv'
<1>1. /\ a \in Asks /\ a \notin seen /\ a \notin ManifestAsks
      /\ UNCHANGED <<environment, answered, cursor, held, pace, window, pc, replays, fresh,
                     crashes>>
    BY AutoConstants DEF Grant, GrantFails, MayGrant, Asks
<1>2. Accounted(a)
    BY <1>1, ServedAccounted, FailureAccounted DEF Grant, GrantFails, AutoInv
<1>3. access' \subseteq AccessAsks
    BY DEF Grant, GrantFails, AccessStep, AutoInv, AutoTypeOK
<1>4. /\ \A i \in DOMAIN held : held[i] \in ManifestAsks
      /\ \A i \in DOMAIN replays : replays[i] \in ManifestAsks
    BY DEF AutoInv, AutoTypeOK
<1>5. seen' \subseteq Asks
    BY <1>1, <1>2 DEF Accounted, AutoInv, AutoTypeOK
<1>6. HeldOnce'
    BY <1>1, <1>2, <1>4 DEF Accounted, AutoInv, AutoTypeOK, HeldOnce
<1>7. ReplaysFresh'
    BY <1>1, <1>2, <1>4 DEF Accounted, AutoInv, ReplaysFresh
<1>8. CapsHold' /\ SavedWithinCap'
    BY <1>1, <1>2 DEF Accounted, AutoInv, CapsHold, SavedWithinCap
<1> QED BY <1>1, <1>2, <1>3, <1>5, <1>6, <1>7, <1>8
        DEF Accounted, environment, AutoInv, AutoTypeOK

\* What is left of the two queues when the next ask is taken, and that the ask was in
\* neither the memory nor, unless it was fetched afresh, the hold queue.
LEMMA NextTaken ==
    ASSUME AutoInv, NEW a \in ManifestAsks, NEW replay \in BOOLEAN,
           Processed(a, replay), TakeNext(a, replay)
    PROVE  /\ a \in Asks /\ a \notin seen
           /\ replays' \in Seq(ManifestAsks) /\ fresh' \subseteq ManifestAsks
           /\ \A i, j \in DOMAIN replays' : replays'[i] = replays'[j] => i = j
           /\ \A i \in DOMAIN replays' :
                 /\ replays'[i] # a /\ replays'[i] \notin seen
                 /\ \A j \in DOMAIN held : replays'[i] # held[j]
<1>1. replays \in Seq(ManifestAsks) /\ fresh \subseteq ManifestAsks /\ a \in Asks
    BY DEF AutoInv, AutoTypeOK, Asks
<1>2. CASE replay
  <2>1. /\ replays # <<>> /\ a = replays[1] /\ replays' = Tail(replays) /\ fresh' = fresh
      BY <1>1, <1>2 DEF Processed, IsNext, TakeNext
  <2>2. /\ replays' \in Seq(ManifestAsks) /\ DOMAIN replays' = 1..Len(replays) - 1
        /\ DOMAIN replays = 1..Len(replays) /\ Len(replays) \in Nat \ {0}
        /\ \A i \in 1..Len(replays) - 1 : replays'[i] = replays[i + 1]
      BY <1>1, <2>1
  <2>3. \A i \in DOMAIN replays' :
            i \in Nat /\ i + 1 \in DOMAIN replays /\ i + 1 # 1 /\ replays'[i] = replays[i + 1]
      BY <2>2
  <2>4. 1 \in DOMAIN replays
      BY <2>2
  <2>5. \A i, j \in DOMAIN replays' : replays'[i] = replays'[j] => i = j
    <3> SUFFICES ASSUME NEW i \in DOMAIN replays', NEW j \in DOMAIN replays',
                        replays'[i] = replays'[j]
                 PROVE  i = j
        OBVIOUS
    <3>1. i + 1 = j + 1
        BY <2>3 DEF AutoInv, ReplaysFresh
    <3> QED BY <2>3, <3>1
  <2>6. a \notin seen
      BY <2>1, <2>4 DEF AutoInv, ReplaysFresh
  <2>7. \A i \in DOMAIN replays' :
            /\ replays'[i] # a /\ replays'[i] \notin seen
            /\ \A j \in DOMAIN held : replays'[i] # held[j]
      BY <2>1, <2>3, <2>4 DEF AutoInv, ReplaysFresh
  <2> QED BY <1>1, <2>1, <2>2, <2>5, <2>6, <2>7
<1>3. CASE ~replay
  <2>1. /\ replays = <<>> /\ a \notin seen /\ replays' = replays /\ fresh' = fresh \ {a}
      BY <1>3 DEF Processed, IsNext, TakeNext
  <2>2. DOMAIN replays' = {}
      BY <2>1
  <2> QED BY <1>1, <2>1, <2>2
<1> QED BY <1>2, <1>3

LEMMA DeferKeepsInv ==
    ASSUME AutoInv, NEW a \in ManifestAsks, NEW replay \in BOOLEAN, Defer(a, replay)
    PROVE  AutoInv'
<1>1. /\ Processed(a, replay) /\ TakeNext(a, replay)
      /\ UNCHANGED <<environment, answered, cursor, seen, dirty, attempts, pace, window, pc,
                     access, crashes, served, settled>>
      /\ held' = IF Len(held) < HoldMax /\ ~InHold(a) THEN Append(held, a) ELSE held
    BY DEF Defer
<1>2. held \in Seq(ManifestAsks) /\ HeldOnce
    BY DEF AutoInv, AutoTypeOK
<1>3. CASE held' = held
  <2>1. HeldOnce'
      BY <1>1, <1>2, <1>3 DEF HeldOnce
  <2>2. ReplaysFresh'
      BY <1>1, <1>3, NextTaken DEF ReplaysFresh
  <2> QED BY <1>1, <1>2, <1>3, <2>1, <2>2, NextTaken
          DEF environment, AutoInv, AutoTypeOK, AnswersRemembered, CapsHold, SavedWithinCap
<1>4. CASE Len(held) < HoldMax /\ ~InHold(a) /\ held' = Append(held, a)
  <2>1. /\ held' \in Seq(ManifestAsks) /\ DOMAIN held' = 1..Len(held) + 1
        /\ DOMAIN held = 1..Len(held) /\ Len(held) \in Nat
        /\ held'[Len(held) + 1] = a /\ \A i \in 1..Len(held) : held'[i] = held[i]
      BY <1>2, <1>4
  <2>2. \A i \in DOMAIN held' :
            \/ i = Len(held) + 1 /\ held'[i] = a
            \/ i \in DOMAIN held /\ held'[i] = held[i]
      BY <2>1
  <2>3. \A i \in DOMAIN held : held[i] # a
      BY <1>4 DEF InHold
  <2>4. HeldOnce'
      BY <1>1, <1>2, <2>2, <2>3, NextTaken DEF HeldOnce
  <2>5. ReplaysFresh'
      BY <1>1, <2>2, NextTaken DEF ReplaysFresh
  <2>6. CapsHold' /\ SavedWithinCap'
    <3>1. Len(held') = Len(held) + 1
        BY <1>2, <1>4
    <3> QED BY <1>1, <1>4, <2>1, <3>1, AutoBounds DEF AutoInv, CapsHold, SavedWithinCap
  <2> QED BY <1>1, <2>1, <2>4, <2>5, <2>6, NextTaken
          DEF environment, AutoInv, AutoTypeOK, AnswersRemembered
<1> QED BY <1>1, <1>3, <1>4

\* An ask that was dealt with leaves the hold queue, if it was remembered.
LEMMA DealtWithKeepsInv ==
    ASSUME AutoInv, NEW a \in ManifestAsks, NEW replay \in BOOLEAN,
           Processed(a, replay), TakeNext(a, replay), Accounted(a),
           held' = WithoutHeld(a) \/ (held' = held /\ seen' = seen),
           pace' \in [Pairs -> 0..Cooldown], window' \in [1..Window -> Nat],
           UNCHANGED <<environment, answered, cursor, pc, access, crashes>>
    PROVE  AutoInv'
<1>1. held \in Seq(ManifestAsks) /\ HeldOnce /\ seen' \subseteq Asks
    BY NextTaken DEF Accounted, AutoInv, AutoTypeOK
<1>2. /\ held' \in Seq(ManifestAsks) /\ Len(held') <= Len(held)
      /\ \A i, j \in DOMAIN held' : held'[i] = held'[j] => i = j
      /\ \A i \in DOMAIN held' :
            /\ held'[i] \notin seen'
            /\ \E j \in DOMAIN held : held'[i] = held[j]
  <2>1. CASE held' = held /\ seen' = seen
      BY <1>1, <2>1 DEF HeldOnce
  <2>2. CASE held' = WithoutHeld(a)
      BY <1>1, <2>2, WithoutHeldIs DEF Accounted, HeldOnce
  <2> QED BY <2>1, <2>2
<1>3. HeldOnce'
    BY <1>2 DEF HeldOnce
<1>4. ReplaysFresh'
    BY <1>2, NextTaken DEF Accounted, ReplaysFresh
<1>5. CapsHold' /\ SavedWithinCap'
  <2>1. Len(held') \in Nat /\ Len(held) \in Nat
      BY <1>1, <1>2
  <2>2. Len(held') <= HoldMax
      BY <1>2, <2>1, AutoBounds DEF AutoInv, CapsHold
  <2>3. SavedWithinCap'
      BY DEF AutoInv, SavedWithinCap
  <2>4. Cardinality(seen') <= SeenMax /\ Cardinality(AttemptKeys(attempts')) <= AttemptKeysMax
      BY DEF Accounted
  <2> QED BY <2>2, <2>3, <2>4 DEF CapsHold
<1>6. AutoTypeOK
    BY DEF AutoInv
<1>7. AutoTypeOK'
    BY <1>1, <1>2, <1>3, <1>6, NextTaken DEF Accounted, environment, AutoTypeOK
<1>8. AnswersRemembered'
    BY DEF Accounted
<1> QED BY <1>4, <1>5, <1>7, <1>8 DEF AutoInv

LEMMA ServeKeepsInv ==
    ASSUME AutoInv, NEW a \in ManifestAsks, NEW replay \in BOOLEAN,
           Serve(a, replay) \/ TicketFails(a, replay)
    PROVE  AutoInv'
<1>1. CASE Serve(a, replay)
  <2>1. /\ Processed(a, replay) /\ TakeNext(a, replay) /\ NoteServed(a)
        /\ held' = WithoutHeld(a)
        /\ UNCHANGED <<environment, answered, cursor, pc, access, crashes>>
      BY <1>1 DEF Serve
  <2>2. Accounted(a)
      BY <2>1, NextTaken, ServedAccounted DEF AutoInv
  <2>3. pace' \in [Pairs -> 0..Cooldown] /\ window' \in [1..Window -> Nat]
    <3>1. pace \in [Pairs -> 0..Cooldown] /\ Cooldown \in 0..Cooldown
        BY AutoBounds DEF AutoInv, AutoTypeOK
    <3>2. pace' \in [Pairs -> 0..Cooldown]
        BY <1>1, <3>1 DEF Serve
    <3>3. window \in [1..Window -> Nat]
        BY DEF AutoInv, AutoTypeOK
    <3>4. window' = [n \in 1..Window |-> IF n = Window THEN window[n] + 1 ELSE window[n]]
        BY <1>1, <3>3 DEF Serve
    <3>5. window' \in [1..Window -> Nat]
        BY <3>3, <3>4
    <3> QED BY <3>2, <3>5
  <2> QED BY <2>1, <2>2, <2>3, DealtWithKeepsInv
<1>2. CASE TicketFails(a, replay)
  <2>1. /\ Processed(a, replay) /\ TakeNext(a, replay) /\ NoteFailed(a)
        /\ UNCHANGED <<environment, answered, cursor, pace, window, pc, access, crashes>>
        /\ held' = IF attempts[a] + 1 >= AttemptsMax THEN WithoutHeld(a) ELSE held
      BY <1>2 DEF TicketFails
  <2>2. Accounted(a) /\ (attempts[a] + 1 < AttemptsMax => seen' = seen)
      BY <2>1, NextTaken, FailureAccounted DEF AutoInv
  <2>3. attempts[a] \in Nat /\ AttemptsMax \in Nat
    <3>1. a \in Asks /\ attempts \in [Asks -> 0..AttemptsMax - 1]
        BY DEF Asks, AutoInv, AutoTypeOK
    <3> QED BY <3>1, AutoBounds
  <2>4. held' = WithoutHeld(a) \/ (held' = held /\ seen' = seen)
      BY <2>1, <2>2, <2>3
  <2>5. pace' \in [Pairs -> 0..Cooldown] /\ window' \in [1..Window -> Nat]
      BY <2>1 DEF AutoInv, AutoTypeOK
  <2> QED BY <2>1, <2>2, <2>4, <2>5, DealtWithKeepsInv
<1> QED BY <1>1, <1>2

LEMMA NextKeepsAutoInv == AutoInv /\ [AutoNext]_autoVars => AutoInv'
<1> SUFFICES ASSUME AutoInv, [AutoNext]_autoVars PROVE AutoInv'
    OBVIOUS
<1>1. CASE \E a \in Asks : Send(a) \/ RelayDrops(a)
    BY <1>1, EnvironmentKeepsInv
<1>2. CASE \E a \in AccessAsks : AskerSwings(a)
    BY <1>2, SwingKeepsInv
<1>3. CASE Tick
    BY <1>3, TickKeepsInv
<1>4. CASE \E batch \in SUBSET Asks : Fetch(batch)
    BY <1>4, FetchKeepsInv
<1>5. CASE PollStep
  <2>1. CASE \E a \in AccessAsks : Grant(a) \/ GrantFails(a)
      BY <2>1, GrantKeepsInv
  <2>2. CASE \E a \in ManifestAsks, replay \in BOOLEAN : Defer(a, replay)
      BY <2>2, DeferKeepsInv
  <2>3. CASE \E a \in ManifestAsks, replay \in BOOLEAN :
                 Serve(a, replay) \/ TicketFails(a, replay)
      BY <2>3, ServeKeepsInv
  <2> QED BY <1>5, <2>1, <2>2, <2>3, QuietPollKeepsInv DEF PollStep
<1>6. CASE Crash
    BY <1>6, AutoCrashKeepsInv
<1>7. CASE UNCHANGED autoVars
    BY <1>7 DEF autoVars, AutoInv, AutoTypeOK, HeldOnce, ReplaysFresh, AnswersRemembered,
                CapsHold, SavedWithinCap
<1> QED BY <1>1, <1>2, <1>3, <1>4, <1>5, <1>6, <1>7 DEF AutoNext

\* Whatever the relays hand back, however serves fail, and across restarts: no ask is
\* answered twice before the memory is emptied, and memory, hold queue and counts stay
\* within their caps (run_auto_approve_loop).
THEOREM AnswersAreFinal == AutoSpec => []ServedOnce
<1>1. AutoInv => ServedOnce
  <2> SUFFICES ASSUME AutoInv PROVE ServedOnce
      OBVIOUS
  <2>1. AutoTypeOK /\ \A a \in Asks : served[a] \in Nat
      BY DEF AutoInv, AutoTypeOK
  <2> QED BY <2>1 DEF AutoInv, AnswersRemembered, ServedOnce
<1> QED BY <1>1, InitAutoInv, NextKeepsAutoInv, PTL DEF AutoSpec

=============================================================================
