------------------------ MODULE PlaneLifecycleProofs ------------------------
(***************************************************************************)
(* Safety of the manifest plane, for every number of callers, commands,    *)
(* identities and endpoints, and whether or not a wipe may fail.           *)
(*                                                                         *)
(* What is bound and what is open is decided inside the critical section   *)
(* of the plane's lock; the identity is not protected by it. The inductive *)
(* invariant therefore carries three facts: who holds the lock; that the   *)
(* only open endpoint is the bound one or the one the holder is closing;   *)
(* and that a published or half-published plane, when the identity has     *)
(* gone, is owed a ClosePlane by a wipe already past ClearLive.            *)
(***************************************************************************)
EXTENDS PlaneLifecycle, TLAPS

LockHeld ==
    /\ \A t \in Callers : Locked(t) => writer = t
    /\ \A c \in Commands : cmd[c].pc = "closed" => writer = c

\* While the holder closes or binds, the state is empty.
EmptyWhileHeld ==
    /\ \A t \in Callers : call[t].pc \in {"closing", "binding"} => bound = Unbound
    /\ \A c \in Commands : cmd[c].pc = "closed" => bound = Unbound

OpenAccounted ==
    \A e \in open :
       \/ e = bound.endpoint
       \/ \E t \in Callers : call[t].pc = "closing" /\ call[t].endpoint = e
       \/ \E c \in Commands : cmd[c].pc = "closed" /\ cmd[c].old = e

\* A command about to publish an identity has one.
PublishesIdentity ==
    \A c \in Commands :
       cmd[c].pc \in {"checked", "publishing"} => cmd[c].session # NONE

\* A wipe that has cleared the memory and has yet to take the plane's lock.
CloseOwed == \E c \in Commands : cmd[c].pc = "closing"

\* Past the generation fence the generation cannot move; past the second fence
\* the identity can only vanish, and then a close is owed.
FencedIsCurrent ==
    \A t \in Callers :
       /\ Locked(t) => call[t].generation = generation
       /\ call[t].pc \in {"closing", "binding"} /\ live = NONE => CloseOwed

BoundIsCurrent ==
    IsBound =>
        /\ bound.endpoint \in open
        /\ bound.entered = generation
        /\ live = NONE => CloseOwed

PlaneInv ==
    /\ TypeOK
    /\ LockHeld
    /\ EmptyWhileHeld
    /\ OpenAccounted
    /\ FencedIsCurrent
    /\ BoundIsCurrent
    /\ PublishesIdentity

-----------------------------------------------------------------------------
(* Type correctness *)

\* The records a returning call and an ended command leave behind.
LEMMA ReturnedType ==
    \A e \in EndpointOrNone : [NoCall EXCEPT !.pc = "returned", !.endpoint = e] \in Call
BY DEF NoCall, Call, Roles, SessionOrNone, EndpointOrNone

LEMMA IdleTypes == NoCall \in Call /\ NoCommand \in Command /\ Unbound \in Binding
BY DEF NoCall, Call, Roles, SessionOrNone, EndpointOrNone, NoCommand, Command,
       Unbound, Binding

LEMMA InitTypeOK == Init => TypeOK
<1> SUFFICES ASSUME Init PROVE TypeOK
    OBVIOUS
<1>1. NoCall \in Call /\ NoCommand \in Command /\ Unbound \in Binding
    BY IdleTypes
<1> QED BY <1>1 DEF Init, TypeOK, SessionOrNone

LEMMA CallerTypeOK ==
    ASSUME TypeOK, NEW t \in Callers, CallerStep(t)
    PROVE  TypeOK'
<1> USE DEF SessionOrNone, EndpointOrNone
<1>0. bound.endpoint \in EndpointOrNone
    BY DEF TypeOK, Binding
<1>1. ASSUME NEW need \in Roles, Snapshot(t, need) PROVE TypeOK'
  <2>1. [NoCall EXCEPT !.pc = "entering", !.session = live, !.need = need] \in Call
      BY DEF NoCall, TypeOK, Call, Roles
  <2> QED BY <2>1, <1>1 DEF TypeOK, Snapshot
<1>2. CASE Enter(t)
  <2>1. [call[t] EXCEPT !.pc = "queued", !.generation = generation] \in Call
      BY DEF TypeOK, Call
  <2>2. call' \in [Callers -> Call]
      BY <1>0, <1>2, <2>1, ReturnedType DEF TypeOK, Enter, Return
  <2> QED BY <1>2, <2>2 DEF TypeOK, Enter
<1>3. CASE ReuseUnderLock(t)
    BY <1>0, <1>3, ReturnedType DEF TypeOK, ReuseUnderLock, Return
<1>4. CASE GenerationFence(t)
  <2>1. [call[t] EXCEPT !.pc = "fencing"] \in Call
      BY DEF TypeOK, Call
  <2>2. call' \in [Callers -> Call]
      BY <1>4, <2>1, ReturnedType DEF TypeOK, GenerationFence, Goto, Return
  <2> QED BY <1>4, <2>2 DEF TypeOK, GenerationFence
<1>5. CASE LiveFence(t)
  <2>1. [call[t] EXCEPT !.pc = "closing", !.endpoint = bound.endpoint] \in Call
      BY <1>0 DEF TypeOK, Call
  <2>2. call' \in [Callers -> Call]
      BY <1>5, <2>1, ReturnedType DEF TypeOK, LiveFence, Return
  <2> QED BY <1>5, <2>2, IdleTypes DEF TypeOK, LiveFence
<1>6. CASE CloseOld(t)
  <2>1. [call[t] EXCEPT !.pc = "binding", !.endpoint = NONE] \in Call
      BY DEF TypeOK, Call
  <2> QED BY <1>6, <2>1 DEF TypeOK, CloseOld
<1>7. CASE Bind(t)
  <2>1. PICK e \in unused :
            /\ unused' = unused \ {e}
            /\ open' = open \cup {e}
            /\ bound' = [endpoint |-> e, session |-> call[t].session,
                         listening |-> call[t].need = "Listen",
                         entered |-> call[t].generation]
            /\ Return(t, e)
      BY <1>7 DEF Bind
  <2>2. e \in Endpoints
      BY DEF TypeOK
  <2>3. call' \in [Callers -> Call]
      BY <2>1, <2>2, ReturnedType DEF TypeOK, Return
  <2>4. bound' \in Binding
      BY <2>1, <2>2 DEF TypeOK, Call, Binding
  <2> QED BY <1>7, <2>1, <2>2, <2>3, <2>4 DEF TypeOK, Bind
<1>8. CASE BindFails(t)
    BY <1>8, ReturnedType DEF TypeOK, BindFails, Return
<1>9. CASE Finish(t)
    BY <1>9, IdleTypes DEF TypeOK, Finish
<1> QED BY <1>1, <1>2, <1>3, <1>4, <1>5, <1>6, <1>7, <1>8, <1>9 DEF CallerStep

LEMMA CommandTypeOK ==
    ASSUME TypeOK, NEW c \in Commands, CommandStep(c)
    PROVE  TypeOK'
<1> USE DEF SessionOrNone, EndpointOrNone
<1>1. ASSUME NEW s \in Sessions, CheckVacant(c, s) PROVE TypeOK'
  <2>1. [cmd[c] EXCEPT !.pc = "checked", !.session = s] \in Command
      BY DEF TypeOK, Command
  <2> QED BY <1>1, <2>1 DEF TypeOK, CheckVacant
<1>2. CASE SaveIdentity(c)
  <2>1. [cmd[c] EXCEPT !.pc = "publishing"] \in Command
      BY DEF TypeOK, Command
  <2>2. cmd[c].session \in SessionOrNone
      BY DEF TypeOK, Command
  <2> QED BY <1>2, <2>1, <2>2 DEF TypeOK, SaveIdentity
<1>3. CASE LoadIdentity(c)
  <2>1. [cmd[c] EXCEPT !.pc = "publishing", !.session = stored] \in Command
      BY DEF TypeOK, Command
  <2> QED BY <1>3, <2>1 DEF TypeOK, LoadIdentity
<1>4. CASE SetLive(c)
  <2>1. cmd[c].session \in SessionOrNone
      BY DEF TypeOK, Command
  <2> QED BY <1>4, <2>1, IdleTypes DEF TypeOK, SetLive
<1>5. CASE WipeStore(c)
  <2>1. [cmd[c] EXCEPT !.pc = "clearing"] \in Command
      BY DEF TypeOK, Command
  <2> QED BY <1>5, <2>1 DEF TypeOK, WipeStore
<1>6. CASE WipeStoreFails(c)
    BY <1>6 DEF TypeOK, WipeStoreFails
<1>7. CASE ClearLive(c)
  <2>1. [cmd[c] EXCEPT !.pc = "closing"] \in Command
      BY DEF TypeOK, Command
  <2> QED BY <1>7, <2>1 DEF TypeOK, ClearLive
<1>8. CASE ClosePlane(c)
  <2>1. [cmd[c] EXCEPT !.pc = "closed", !.old = bound.endpoint] \in Command
      BY DEF TypeOK, Command, Binding
  <2> QED BY <1>8, <2>1, IdleTypes DEF TypeOK, ClosePlane
<1>9. CASE FinishClose(c)
    BY <1>9, IdleTypes DEF TypeOK, FinishClose
<1> QED BY <1>1, <1>2, <1>3, <1>4, <1>5, <1>6, <1>7, <1>8, <1>9 DEF CommandStep

LEMMA StepTypeOK == TypeOK /\ [Next]_vars => TypeOK'
<1>1. TypeOK /\ UNCHANGED vars => TypeOK'
    BY DEF TypeOK, vars
<1> QED BY <1>1, CallerTypeOK, CommandTypeOK DEF Next

\* The state, every call and every command keep their types.
THEOREM TypeCorrect == Spec => []TypeOK
<1>1. Init => TypeOK
    BY InitTypeOK
<1>2. TypeOK /\ [Next]_vars => TypeOK'
    BY StepTypeOK
<1> QED BY <1>1, <1>2, PTL DEF Spec

-----------------------------------------------------------------------------
(* The inductive invariant *)

LEMMA InitPlaneInv == Init => PlaneInv
<1> SUFFICES ASSUME Init PROVE PlaneInv
    OBVIOUS
<1>1. TypeOK
    BY InitTypeOK
<1> QED
    BY <1>1 DEF Init, PlaneInv, LockHeld, EmptyWhileHeld, OpenAccounted,
                FencedIsCurrent, BoundIsCurrent, PublishesIdentity, Locked,
                IsBound, Unbound, NoCall, NoCommand

Parts == /\ LockHeld /\ EmptyWhileHeld /\ OpenAccounted
         /\ FencedIsCurrent /\ BoundIsCurrent /\ PublishesIdentity

\* A call that is outside the critical section before and after a step that
\* changes nothing else disturbs no part of the invariant.
LEMMA OutsideLock ==
    ASSUME PlaneInv, NEW t \in Callers, NEW r \in Call,
           call' = [call EXCEPT ![t] = r],
           ~Locked(t), r.pc \notin {"fencing", "closing", "binding"},
           UNCHANGED <<live, bound, generation, writer, open, cmd>>
    PROVE  Parts'
<1>1. \A u \in Callers : call'[u] = IF u = t THEN r ELSE call[u]
    BY DEF PlaneInv, TypeOK
<1>2. \A u \in Callers : Locked(u)' => Locked(u) /\ call'[u] = call[u]
    BY <1>1 DEF Locked
<1>3. (LockHeld /\ EmptyWhileHeld /\ FencedIsCurrent)'
    BY <1>2 DEF PlaneInv, LockHeld, EmptyWhileHeld, FencedIsCurrent, CloseOwed, Locked
<1>4. OpenAccounted'
  <2>1. \A u \in Callers : call[u].pc = "closing" => call'[u] = call[u]
      BY <1>1 DEF Locked
  <2> QED BY <2>1 DEF PlaneInv, OpenAccounted
<1>5. (BoundIsCurrent /\ PublishesIdentity)'
    BY DEF PlaneInv, BoundIsCurrent, PublishesIdentity, IsBound, CloseOwed
<1> QED BY <1>3, <1>4, <1>5 DEF Parts

LEMMA ReturnOutsideLock ==
    ASSUME PlaneInv, NEW t \in Callers, NEW e \in EndpointOrNone, Return(t, e), ~Locked(t),
           UNCHANGED <<live, bound, generation, writer, open, cmd>>
    PROVE  Parts'
<1> DEFINE r == [NoCall EXCEPT !.pc = "returned", !.endpoint = e]
<1>1. r \in Call /\ r.pc = "returned"
    BY ReturnedType DEF NoCall
<1>2. call' = [call EXCEPT ![t] = r]
    BY DEF Return
<1> HIDE DEF r
<1> QED BY <1>1, <1>2, OutsideLock

\* While a caller holds the lock nobody else is inside, and the endpoint it is
\* closing, or the bound one, is the only one open.
LEMMA HolderAlone ==
    ASSUME PlaneInv, NEW t \in Callers, Locked(t)
    PROVE  /\ \A u \in Callers : Locked(u) => u = t
           /\ \A c \in Commands : cmd[c].pc # "closed"
           /\ \A e \in open : \/ e = bound.endpoint
                              \/ call[t].pc = "closing" /\ call[t].endpoint = e
<1>1. \A u \in Callers : Locked(u) => u = t
    BY DEF PlaneInv, LockHeld
<1>2. \A c \in Commands : cmd[c].pc # "closed"
    BY ActorAssumption DEF PlaneInv, LockHeld
<1> QED BY <1>1, <1>2 DEF PlaneInv, OpenAccounted, Locked

LEMMA NobodyInside ==
    ASSUME PlaneInv, writer = NONE
    PROVE  /\ \A u \in Callers : ~Locked(u)
           /\ \A c \in Commands : cmd[c].pc # "closed"
           /\ \A e \in open : e = bound.endpoint
<1>1. \A u \in Callers : ~Locked(u)
    BY NoneAssumption DEF PlaneInv, LockHeld
<1>2. \A c \in Commands : cmd[c].pc # "closed"
    BY NoneAssumption DEF PlaneInv, LockHeld
<1> QED BY <1>1, <1>2 DEF PlaneInv, OpenAccounted, Locked

LEMMA CallerParts ==
    ASSUME PlaneInv, NEW t \in Callers, CallerStep(t)
    PROVE  Parts'
<1>t. TypeOK
    BY DEF PlaneInv
<1>0. bound.endpoint \in EndpointOrNone /\ NONE \in EndpointOrNone
    BY <1>t DEF TypeOK, Binding, EndpointOrNone
<1>1. ASSUME NEW need \in Roles, Snapshot(t, need) PROVE Parts'
  <2> DEFINE r == [NoCall EXCEPT !.pc = "entering", !.session = live, !.need = need]
  <2>1. r \in Call /\ r.pc = "entering"
      BY <1>t DEF NoCall, TypeOK, Call, Roles, SessionOrNone, EndpointOrNone
  <2>2. call' = [call EXCEPT ![t] = r]
      BY <1>1 DEF Snapshot
  <2> HIDE DEF r
  <2> QED BY <1>1, <2>1, <2>2, OutsideLock DEF Snapshot, Locked
<1>2. CASE Enter(t)
  <2>1. ASSUME Satisfies(t) PROVE Parts'
      BY <1>0, <1>2, <2>1, ReturnOutsideLock DEF Enter, Locked
  <2>2. ASSUME ~Satisfies(t) PROVE Parts'
    <3> DEFINE r == [call[t] EXCEPT !.pc = "queued", !.generation = generation]
    <3>1. r \in Call /\ r.pc = "queued"
        BY <1>t DEF TypeOK, Call
    <3>2. call' = [call EXCEPT ![t] = r]
        BY <1>2, <2>2 DEF Enter
    <3> HIDE DEF r
    <3> QED BY <1>2, <3>1, <3>2, OutsideLock DEF Enter, Locked
  <2> QED BY <2>1, <2>2
<1>3. CASE ReuseUnderLock(t)
    BY <1>0, <1>3, ReturnOutsideLock DEF ReuseUnderLock, Locked
<1>4. CASE GenerationFence(t)
  <2>1. ASSUME ~SameGeneration(t) PROVE Parts'
      BY <1>0, <1>4, <2>1, ReturnOutsideLock DEF GenerationFence, Locked
  <2>2. ASSUME SameGeneration(t) PROVE Parts'
    <3>1. /\ call'[t].pc = "fencing" /\ call'[t].generation = generation
          /\ \A u \in Callers \ {t} : call'[u] = call[u]
          /\ writer' = t /\ UNCHANGED <<live, bound, generation, open, cmd>>
        BY <1>t, <1>4, <2>2 DEF GenerationFence, SameGeneration, Goto, TypeOK, Call
    <3>2. \A u \in Callers : ~Locked(u)
        BY <1>4, NobodyInside DEF GenerationFence
    <3>3. /\ \A c \in Commands : cmd[c].pc # "closed"
          /\ \A e \in open : e = bound.endpoint
        BY <1>4, NobodyInside DEF GenerationFence
    <3> QED
        BY <3>1, <3>2, <3>3
        DEF PlaneInv, Parts, LockHeld, EmptyWhileHeld, OpenAccounted, FencedIsCurrent,
            BoundIsCurrent, PublishesIdentity, Locked, IsBound, CloseOwed
  <2> QED BY <2>1, <2>2
<1>5. CASE LiveFence(t)
  <2>0. Locked(t) /\ call[t].pc = "fencing"
      BY <1>5 DEF LiveFence, Locked
  <2>1. ASSUME ~StillCurrent(t) PROVE Parts'
    <3>1. /\ call'[t].pc = "returned"
          /\ \A u \in Callers \ {t} : call'[u] = call[u]
          /\ writer' = NONE /\ UNCHANGED <<live, bound, generation, open, cmd>>
        BY <1>t, <1>5, <2>1 DEF LiveFence, Return, NoCall, TypeOK
    <3> QED
        BY <2>0, <3>1, HolderAlone
        DEF PlaneInv, Parts, LockHeld, EmptyWhileHeld, OpenAccounted, FencedIsCurrent,
            BoundIsCurrent, PublishesIdentity, Locked, IsBound, CloseOwed
  <2>2. ASSUME StillCurrent(t) PROVE Parts'
    <3>1. /\ call'[t].pc = "closing" /\ call'[t].endpoint = bound.endpoint
          /\ call'[t].generation = call[t].generation
          /\ \A u \in Callers \ {t} : call'[u] = call[u]
          /\ bound' = Unbound /\ UNCHANGED <<live, generation, writer, open, cmd>>
          /\ live # NONE
        BY <1>t, <1>5, <2>2 DEF LiveFence, StillCurrent, TypeOK, Call
    <3> QED
        BY <2>0, <3>1, HolderAlone
        DEF PlaneInv, Parts, LockHeld, EmptyWhileHeld, OpenAccounted, FencedIsCurrent,
            BoundIsCurrent, PublishesIdentity, Locked, IsBound, CloseOwed, Unbound
  <2> QED BY <2>1, <2>2
<1>6. CASE CloseOld(t)
  <2>0. Locked(t) /\ call[t].pc = "closing" /\ bound = Unbound
      BY <1>6 DEF CloseOld, Locked, PlaneInv, EmptyWhileHeld
  <2>1. /\ call'[t].pc = "binding" /\ call'[t].generation = call[t].generation
        /\ \A u \in Callers \ {t} : call'[u] = call[u]
        /\ open' = open \ {call[t].endpoint}
        /\ UNCHANGED <<live, bound, generation, writer, cmd>>
      BY <1>t, <1>6 DEF CloseOld, TypeOK, Call
  <2> QED
      BY <2>0, <2>1, HolderAlone
      DEF PlaneInv, Parts, LockHeld, EmptyWhileHeld, OpenAccounted, FencedIsCurrent,
          BoundIsCurrent, PublishesIdentity, Locked, IsBound, CloseOwed, Unbound
<1>7. CASE Bind(t)
  <2>0. /\ Locked(t) /\ call[t].pc = "binding"
        /\ call[t].generation = generation
        /\ live = NONE => CloseOwed
      BY <1>7 DEF Bind, Locked, PlaneInv, FencedIsCurrent
  <2>1. open = {}
      BY <1>t, <2>0, HolderAlone, NoneAssumption
      DEF PlaneInv, EmptyWhileHeld, Unbound, TypeOK
  <2>2. PICK e \in unused :
            /\ open' = open \cup {e}
            /\ bound' = [endpoint |-> e, session |-> call[t].session,
                         listening |-> call[t].need = "Listen",
                         entered |-> call[t].generation]
            /\ Return(t, e)
      BY <1>7 DEF Bind
  <2>3. /\ call'[t].pc = "returned"
        /\ \A u \in Callers \ {t} : call'[u] = call[u]
        /\ writer' = NONE /\ UNCHANGED <<live, generation, cmd>>
      BY <1>t, <1>7, <2>2 DEF Bind, Return, NoCall, TypeOK
  <2>4. bound'.endpoint = e /\ bound'.entered = generation
      BY <2>0, <2>2
  <2>5. (LockHeld /\ EmptyWhileHeld /\ FencedIsCurrent /\ PublishesIdentity)'
      BY <2>0, <2>3, HolderAlone
      DEF PlaneInv, LockHeld, EmptyWhileHeld, FencedIsCurrent, PublishesIdentity,
          Locked, CloseOwed
  <2>6. (OpenAccounted /\ BoundIsCurrent)'
      BY <2>0, <2>1, <2>2, <2>3, <2>4 DEF OpenAccounted, BoundIsCurrent, CloseOwed
  <2> QED BY <2>5, <2>6 DEF Parts
<1>8. CASE BindFails(t)
  <2>0. Locked(t) /\ call[t].pc = "binding"
      BY <1>8 DEF BindFails, Locked
  <2>1. /\ call'[t].pc = "returned"
        /\ \A u \in Callers \ {t} : call'[u] = call[u]
        /\ writer' = NONE /\ UNCHANGED <<live, bound, generation, open, cmd>>
      BY <1>t, <1>8 DEF BindFails, Return, NoCall, TypeOK
  <2> QED
      BY <2>0, <2>1, HolderAlone
      DEF PlaneInv, Parts, LockHeld, EmptyWhileHeld, OpenAccounted, FencedIsCurrent,
          BoundIsCurrent, PublishesIdentity, Locked, IsBound, CloseOwed
<1>9. CASE Finish(t)
    BY <1>9, IdleTypes, OutsideLock DEF Finish, NoCall, Locked
<1> QED BY <1>1, <1>2, <1>3, <1>4, <1>5, <1>6, <1>7, <1>8, <1>9 DEF CallerStep

\* A command that moves between states other than "closed" and touches neither
\* the plane nor the identity disturbs nothing, as long as it does not drop a
\* close it owes.
LEMMA QuietCommand ==
    ASSUME PlaneInv, NEW c \in Commands, NEW r \in Command,
           cmd' = [cmd EXCEPT ![c] = r],
           cmd[c].pc \notin {"closing", "closed"}, r.pc # "closed",
           r.pc \in {"checked", "publishing"} => r.session # NONE,
           UNCHANGED <<bound, generation, writer, open, call>>,
           live' = live \/ live' # NONE \/ r.pc = "closing"
    PROVE  Parts'
<1>1. \A d \in Commands : cmd'[d] = IF d = c THEN r ELSE cmd[d]
    BY DEF PlaneInv, TypeOK
<1>2. LockHeld' /\ EmptyWhileHeld'
    BY <1>1 DEF PlaneInv, LockHeld, EmptyWhileHeld, Locked
<1>3. OpenAccounted'
  <2>1. \A d \in Commands : cmd[d].pc = "closed" => cmd'[d] = cmd[d]
      BY <1>1
  <2> QED BY <2>1 DEF PlaneInv, OpenAccounted
<1>4. live' = NONE => CloseOwed' \/ live = NONE
    BY <1>1 DEF CloseOwed
<1>5. CloseOwed => CloseOwed'
    BY <1>1 DEF CloseOwed
<1>6. (FencedIsCurrent /\ BoundIsCurrent)'
    BY <1>4, <1>5 DEF PlaneInv, FencedIsCurrent, BoundIsCurrent, Locked, IsBound
<1>7. PublishesIdentity'
    BY <1>1 DEF PlaneInv, PublishesIdentity
<1> QED BY <1>2, <1>3, <1>6, <1>7 DEF Parts

LEMMA CommandParts ==
    ASSUME PlaneInv, NEW c \in Commands, CommandStep(c)
    PROVE  Parts'
<1>t. TypeOK
    BY DEF PlaneInv
<1>0. NONE \notin Sessions
    BY NoneAssumption
<1>1. ASSUME NEW s \in Sessions, CheckVacant(c, s) PROVE Parts'
  <2> DEFINE r == [cmd[c] EXCEPT !.pc = "checked", !.session = s]
  <2>1. r \in Command /\ r.pc = "checked" /\ r.session # NONE
      BY <1>t, <1>0 DEF TypeOK, Command, SessionOrNone
  <2>2. cmd' = [cmd EXCEPT ![c] = r]
      BY <1>1 DEF CheckVacant
  <2> HIDE DEF r
  <2> QED BY <1>1, <2>1, <2>2, QuietCommand DEF CheckVacant
<1>2. CASE SaveIdentity(c)
  <2> DEFINE r == [cmd[c] EXCEPT !.pc = "publishing"]
  <2>1. r \in Command /\ r.pc = "publishing" /\ r.session = cmd[c].session
      BY <1>t DEF TypeOK, Command
  <2>2. cmd' = [cmd EXCEPT ![c] = r]
      BY <1>2 DEF SaveIdentity
  <2>3. cmd[c].session # NONE
      BY <1>2 DEF SaveIdentity, PlaneInv, PublishesIdentity
  <2> HIDE DEF r
  <2> QED BY <1>2, <2>1, <2>2, <2>3, QuietCommand DEF SaveIdentity
<1>3. CASE LoadIdentity(c)
  <2> DEFINE r == [cmd[c] EXCEPT !.pc = "publishing", !.session = stored]
  <2>1. r \in Command /\ r.pc = "publishing" /\ r.session # NONE
      BY <1>t, <1>3 DEF TypeOK, Command, LoadIdentity
  <2>2. cmd' = [cmd EXCEPT ![c] = r]
      BY <1>3 DEF LoadIdentity
  <2> HIDE DEF r
  <2> QED BY <1>3, <2>1, <2>2, QuietCommand DEF LoadIdentity
<1>4. CASE SetLive(c)
  <2>1. cmd[c].session # NONE
      BY <1>4 DEF SetLive, PlaneInv, PublishesIdentity
  <2> QED BY <1>4, <2>1, IdleTypes, QuietCommand DEF SetLive, NoCommand
<1>5. CASE WipeStore(c)
  <2> DEFINE r == [cmd[c] EXCEPT !.pc = "clearing"]
  <2>1. r \in Command /\ r.pc = "clearing"
      BY <1>t DEF TypeOK, Command
  <2>2. cmd' = [cmd EXCEPT ![c] = r]
      BY <1>5 DEF WipeStore
  <2> HIDE DEF r
  <2> QED BY <1>5, <2>1, <2>2, QuietCommand DEF WipeStore
<1>6. CASE WipeStoreFails(c)
    BY <1>6 DEF WipeStoreFails, PlaneInv, Parts, LockHeld, EmptyWhileHeld, OpenAccounted,
                FencedIsCurrent, BoundIsCurrent, PublishesIdentity, Locked, IsBound, CloseOwed
<1>7. CASE ClearLive(c)
  <2> DEFINE r == [cmd[c] EXCEPT !.pc = "closing"]
  <2>1. r \in Command /\ r.pc = "closing"
      BY <1>t DEF TypeOK, Command
  <2>2. cmd' = [cmd EXCEPT ![c] = r]
      BY <1>7 DEF ClearLive
  <2> HIDE DEF r
  <2> QED BY <1>7, <2>1, <2>2, QuietCommand DEF ClearLive
<1>8. CASE ClosePlane(c)
  <2>1. /\ \A u \in Callers : ~Locked(u)
        /\ \A d \in Commands : cmd[d].pc # "closed"
        /\ \A e \in open : e = bound.endpoint
      BY <1>8, NobodyInside DEF ClosePlane
  <2>2. /\ cmd'[c].pc = "closed" /\ cmd'[c].old = bound.endpoint
        /\ \A d \in Commands \ {c} : cmd'[d] = cmd[d]
        /\ writer' = c /\ bound' = Unbound /\ UNCHANGED <<live, open, call>>
      BY <1>t, <1>8 DEF ClosePlane, TypeOK, Command
  <2> QED
      BY <2>1, <2>2
      DEF PlaneInv, Parts, LockHeld, EmptyWhileHeld, OpenAccounted, FencedIsCurrent,
          BoundIsCurrent, PublishesIdentity, Locked, IsBound, Unbound
<1>9. CASE FinishClose(c)
  <2>1. writer = c /\ bound = Unbound
      BY <1>9 DEF FinishClose, PlaneInv, LockHeld, EmptyWhileHeld
  <2>2. /\ \A u \in Callers : ~Locked(u)
        /\ \A d \in Commands \ {c} : cmd[d].pc # "closed"
      BY <2>1, ActorAssumption DEF PlaneInv, LockHeld
  <2>3. /\ cmd'[c].pc = "idle"
        /\ \A d \in Commands \ {c} : cmd'[d] = cmd[d]
        /\ open' = open \ {cmd[c].old} /\ UNCHANGED <<live, bound, generation, call>>
      BY <1>t, <1>9 DEF FinishClose, TypeOK, NoCommand
  <2>4. open' = {}
      BY <1>t, <2>1, <2>2, <2>3, NoneAssumption
      DEF PlaneInv, OpenAccounted, Unbound, TypeOK, Locked
  <2> QED
      BY <2>1, <2>2, <2>3, <2>4
      DEF PlaneInv, Parts, LockHeld, EmptyWhileHeld, OpenAccounted, FencedIsCurrent,
          BoundIsCurrent, PublishesIdentity, Locked, IsBound, Unbound
<1> QED BY <1>1, <1>2, <1>3, <1>4, <1>5, <1>6, <1>7, <1>8, <1>9 DEF CommandStep

LEMMA StepPlaneInv == PlaneInv /\ [Next]_vars => PlaneInv'
<1> SUFFICES ASSUME PlaneInv, [Next]_vars PROVE PlaneInv'
    OBVIOUS
<1>1. TypeOK'
    BY StepTypeOK DEF PlaneInv
<1>2. CASE UNCHANGED vars
    BY <1>1, <1>2 DEF vars, PlaneInv, LockHeld, EmptyWhileHeld, OpenAccounted, FencedIsCurrent,
                BoundIsCurrent, PublishesIdentity, Locked, IsBound, CloseOwed
<1>3. ASSUME Next PROVE Parts'
    BY <1>3, CallerParts, CommandParts DEF Next
<1> QED BY <1>1, <1>2, <1>3 DEF PlaneInv, Parts

LEMMA PlaneInvariant == Spec => []PlaneInv
<1>1. Init => PlaneInv
    BY InitPlaneInv
<1>2. PlaneInv /\ [Next]_vars => PlaneInv'
    BY StepPlaneInv
<1> QED BY <1>1, <1>2, PTL DEF Spec

-----------------------------------------------------------------------------
(* The theorems *)

\* wipe_data: the plane does not outlive the identity. A session whose wipe has
\* finished has nothing bound and nothing open, whatever was queued before it.
THEOREM WipedPlaneGone == Spec => []WipedSessionHasNoPlane
<1>1. PlaneInv => WipedSessionHasNoPlane
  <2> SUFFICES ASSUME PlaneInv, live = NONE, ~WiperPending PROVE ~IsBound /\ open = {}
      BY DEF WipedSessionHasNoPlane
  <2>1. ~CloseOwed /\ \A c \in Commands : cmd[c].pc # "closed"
      BY DEF WiperPending, CloseOwed
  <2>2. ~IsBound
      BY <2>1 DEF PlaneInv, BoundIsCurrent
  <2>3. \A t \in Callers : call[t].pc # "closing"
      BY <2>1 DEF PlaneInv, FencedIsCurrent
  <2>4. \A e \in open : e = bound.endpoint
      BY <2>1, <2>3 DEF PlaneInv, OpenAccounted
  <2> QED BY <2>2, <2>4, NoneAssumption DEF IsBound, PlaneInv, TypeOK
<1> QED BY <1>1, PlaneInvariant, PTL

\* Concurrent fulfils, redeems and wipes never leave two endpoints open on the
\* session's secret: ensure_endpoint's double check under the write lock.
THEOREM OneEndpoint == Spec => []AtMostOneEndpoint
<1>1. PlaneInv => AtMostOneEndpoint
  <2> SUFFICES ASSUME PlaneInv PROVE AtMostOneEndpoint
      OBVIOUS
  <2>1. CASE \E t \in Callers : Locked(t)
    <3>1. PICK t \in Callers : Locked(t)
        BY <2>1
    <3>2. call[t].pc = "closing" => bound = Unbound
        BY DEF PlaneInv, EmptyWhileHeld
    <3>3. NONE \notin open
        BY NoneAssumption DEF PlaneInv, TypeOK
    <3> QED BY <3>1, <3>2, <3>3, HolderAlone DEF AtMostOneEndpoint, Unbound
  <2>2. CASE \E c \in Commands : cmd[c].pc = "closed"
    <3>1. PICK c \in Commands : cmd[c].pc = "closed"
        BY <2>2
    <3>2. writer = c /\ bound = Unbound
        BY <3>1 DEF PlaneInv, LockHeld, EmptyWhileHeld
    <3>3. /\ \A u \in Callers : ~Locked(u)
          /\ \A d \in Commands \ {c} : cmd[d].pc # "closed"
        BY <3>2, ActorAssumption DEF PlaneInv, LockHeld
    <3>4. NONE \notin open
        BY NoneAssumption DEF PlaneInv, TypeOK
    <3> QED
        BY <3>2, <3>3, <3>4 DEF AtMostOneEndpoint, PlaneInv, OpenAccounted, Unbound, Locked
  <2>3. CASE /\ \A t \in Callers : ~Locked(t)
             /\ \A c \in Commands : cmd[c].pc # "closed"
      BY <2>3 DEF AtMostOneEndpoint, PlaneInv, OpenAccounted, Locked
  <2> QED BY <2>1, <2>2, <2>3
<1> QED BY <1>1, PlaneInvariant, PTL

\* A failed rebind leaves nothing behind for the next caller to be handed, and
\* no call that entered before a wipe's close_plane publishes after it.
THEOREM PublishedPlane == Spec => [](BoundIsOpen /\ NoResurrectedPlane)
<1>1. PlaneInv => BoundIsOpen /\ NoResurrectedPlane
    BY DEF PlaneInv, BoundIsCurrent, BoundIsOpen, NoResurrectedPlane
<1> QED BY <1>1, PlaneInvariant, PTL

-----------------------------------------------------------------------------
(* Whose step it is *)

\* A caller's step is its own.
LEMMA CallerAlone ==
    ASSUME TypeOK, NEW t \in Callers, CallerStep(t)
    PROVE  \A u \in Callers \ {t} : call'[u] = call[u]
BY DEF TypeOK, CallerStep, Snapshot, Enter, ReuseUnderLock, GenerationFence, LiveFence, CloseOld,
       Bind, BindFails, Finish, Return, Goto

\* Where a caller is after a step that leaves the binding alone.
LEMMA CallerOutside ==
    ASSUME TypeOK, NEW t \in Callers,
           \/ \E need \in Roles : Snapshot(t, need)
           \/ Enter(t) \/ ReuseUnderLock(t) \/ BindFails(t) \/ Finish(t)
    PROVE  call'[t].pc \notin {"fencing", "closing", "binding"} /\ UNCHANGED <<bound, open>>
<1>1. CASE \E need \in Roles : Snapshot(t, need)
    BY <1>1 DEF Snapshot, NoCall, TypeOK
<1>2. CASE Enter(t)
  <2>1. CASE Satisfies(t)
      BY <1>2, <2>1 DEF Enter, Return, NoCall, TypeOK
  <2>2. CASE ~Satisfies(t)
      BY <1>2, <2>2 DEF Enter, TypeOK, Call
  <2> QED BY <2>1, <2>2
<1>3. CASE ReuseUnderLock(t) \/ BindFails(t)
    BY <1>3 DEF ReuseUnderLock, BindFails, Return, NoCall, TypeOK
<1>4. CASE Finish(t)
    BY <1>4 DEF Finish, NoCall, TypeOK
<1> QED BY <1>1, <1>2, <1>3, <1>4

\* The second fence: the call goes on, or it returns and the binding stays.
LEMMA LiveFenceEnds ==
    ASSUME TypeOK, NEW t \in Callers, LiveFence(t)
    PROVE  /\ call[t].pc = "fencing" /\ open' = open
           /\ \/ call'[t].pc = "returned" /\ bound' = bound
              \/ /\ StillCurrent(t) /\ call'[t].pc = "closing"
                 /\ call'[t].session = call[t].session /\ bound' = Unbound
<1>1. CASE StillCurrent(t)
  <2>1. /\ call[t].pc = "fencing" /\ bound' = Unbound /\ open' = open
        /\ call' = [call EXCEPT ![t] = [@ EXCEPT !.pc = "closing", !.endpoint = bound.endpoint]]
      BY <1>1 DEF LiveFence
  <2>2. call'[t].pc = "closing" /\ call'[t].session = call[t].session
      BY <2>1 DEF TypeOK, Call
  <2> QED BY <1>1, <2>1, <2>2
<1>2. CASE ~StillCurrent(t)
    BY <1>2 DEF LiveFence, Return, NoCall, TypeOK
<1> QED BY <1>1, <1>2

-----------------------------------------------------------------------------
(* Listeners *)

\* Between the two fences a binding is one the call may not reuse: nobody else gets the
\* lock in between. And only what is bound listens.
MismatchWhileFencing ==
    /\ \A t \in Callers : call[t].pc = "fencing" => ~Satisfies(t)
    /\ bound.listening => IsBound

LEMMA MismatchStep ==
    ASSUME PlaneInv, MismatchWhileFencing, [Next]_vars
    PROVE  MismatchWhileFencing'
<1>t. TypeOK
    BY DEF PlaneInv
<1>1. ASSUME NEW t \in Callers, CallerStep(t) PROVE MismatchWhileFencing'
  <2>0. \A u \in Callers \ {t} : call'[u] = call[u]
      BY <1>t, <1>1, CallerAlone
  <2>1. CASE \/ \E need \in Roles : Snapshot(t, need)
             \/ Enter(t) \/ ReuseUnderLock(t) \/ BindFails(t) \/ Finish(t)
    <3>1. call'[t].pc # "fencing" /\ UNCHANGED <<bound, open>>
        BY <1>t, <2>1, CallerOutside
    <3> QED BY <2>0, <3>1 DEF MismatchWhileFencing, Satisfies, IsBound, SameOwner
  <2>2. CASE GenerationFence(t)
    <3>1. /\ \/ /\ ~Satisfies(t)
                /\ call'[t].session = call[t].session /\ call'[t].need = call[t].need
             \/ call'[t].pc # "fencing"
          /\ \A u \in Callers \ {t} : call'[u] = call[u]
          /\ UNCHANGED <<bound, open>>
        BY <1>t, <2>2 DEF GenerationFence, Goto, Return, NoCall, TypeOK, Call
    <3> QED BY <3>1 DEF MismatchWhileFencing, Satisfies, IsBound, SameOwner
  <2>3. CASE LiveFence(t)
    <3>1. call'[t].pc # "fencing" /\ bound' \in {bound, Unbound} /\ open' = open
        BY <1>t, <2>3, LiveFenceEnds
    <3> QED BY <2>0, <3>1 DEF MismatchWhileFencing, Satisfies, IsBound, SameOwner, Unbound
  <2>4. CASE CloseOld(t)
    <3>1. /\ call'[t].pc # "fencing" /\ \A u \in Callers \ {t} : call'[u] = call[u]
          /\ bound' = bound /\ open' \subseteq open
        BY <1>t, <2>4 DEF CloseOld, TypeOK, Call
    <3> QED BY <3>1 DEF MismatchWhileFencing, Satisfies, IsBound, SameOwner
  <2>5. CASE Bind(t)
    <3>1. call[t].pc = "binding"
        BY <2>5 DEF Bind
    <3>2. \A u \in Callers : call[u].pc = "fencing" => FALSE
        BY <3>1, HolderAlone DEF Locked
    <3>3. /\ call'[t].pc # "fencing" /\ \A u \in Callers \ {t} : call'[u] = call[u]
          /\ bound'.endpoint \in Endpoints
        BY <1>t, <2>5 DEF Bind, Return, NoCall, TypeOK, Call
    <3> QED BY <3>2, <3>3, NoneAssumption DEF MismatchWhileFencing, IsBound
  <2> QED BY <1>1, <2>1, <2>2, <2>3, <2>4, <2>5 DEF CallerStep
<1>2. ASSUME NEW c \in Commands, CommandStep(c) PROVE MismatchWhileFencing'
  <2>1. CASE ClosePlane(c)
    <3>1. \A u \in Callers : call[u].pc # "fencing"
        BY <2>1, NobodyInside DEF ClosePlane, Locked
    <3>2. bound' = Unbound /\ call' = call
        BY <2>1 DEF ClosePlane
    <3> QED BY <3>1, <3>2 DEF MismatchWhileFencing, Unbound
  <2>2. CASE ~ClosePlane(c)
    <3>1. UNCHANGED <<bound, call>> /\ open' \subseteq open
        BY <1>2, <2>2 DEF CommandStep, CheckVacant, SaveIdentity, LoadIdentity, SetLive, WipeStore,
                          WipeStoreFails, ClearLive, FinishClose
    <3> QED BY <3>1 DEF MismatchWhileFencing, Satisfies, IsBound, SameOwner
  <2> QED BY <2>1, <2>2
<1>3. CASE UNCHANGED vars
    BY <1>3 DEF vars, MismatchWhileFencing, Satisfies, IsBound, SameOwner
<1> QED BY <1>1, <1>2, <1>3 DEF Next

LEMMA MismatchInvariant == Spec => [](PlaneInv /\ MismatchWhileFencing)
<1>1. Init => MismatchWhileFencing
    BY DEF Init, MismatchWhileFencing, NoCall, Unbound
<1>2. PlaneInv /\ MismatchWhileFencing /\ [Next]_vars => MismatchWhileFencing'
    BY MismatchStep
<1> QED BY <1>1, <1>2, PlaneInvariant, PTL DEF Spec

\* What a call or a command does to the binding, if anything.
LEMMA ListenerStep ==
    ASSUME PlaneInv, MismatchWhileFencing, Next
    PROVE  ListenerSurvives
<1> SUFFICES ASSUME bound.listening, bound' # bound
             PROVE  \/ generation' # generation
                    \/ \E t \in Callers : Locked(t) /\ ~SameOwner(call[t].session)
    BY DEF ListenerSurvives
<1>0. IsBound /\ bound.endpoint \in open /\ generation \in Nat
    BY DEF MismatchWhileFencing, PlaneInv, BoundIsCurrent, TypeOK
<1>1. ASSUME NEW t \in Callers, CallerStep(t)
      PROVE  Locked(t) /\ ~SameOwner(call[t].session)
  <2>1. LiveFence(t) \/ Bind(t)
      BY <1>1 DEF CallerStep, Snapshot, Enter, ReuseUnderLock, GenerationFence, CloseOld, BindFails,
                  Finish
  <2>2. ~Bind(t)
      BY <1>0 DEF Bind, PlaneInv, EmptyWhileHeld, Unbound, IsBound
  <2>3. call[t].pc = "fencing"
      BY <2>1, <2>2 DEF LiveFence
  <2> QED BY <1>0, <2>3 DEF MismatchWhileFencing, Satisfies, Locked
<1>2. ASSUME NEW c \in Commands, CommandStep(c) PROVE generation' # generation
  <2>1. ClosePlane(c)
      BY <1>2 DEF CommandStep, CheckVacant, SaveIdentity, LoadIdentity, SetLive, WipeStore,
                  WipeStoreFails, ClearLive, FinishClose
  <2> QED BY <1>0, <2>1 DEF ClosePlane
<1> QED BY <1>1, <1>2 DEF Next

\* A listener goes away for a wipe or another owner only, whatever roles its callers ask
\* for and in whatever order they get the lock.
THEOREM ListenersKept == Spec => ListenersSurvive
<1>1. PlaneInv /\ MismatchWhileFencing /\ [Next]_vars => [ListenerSurvives]_vars
    BY ListenerStep
<1> QED BY <1>1, MismatchInvariant, PTL DEF Spec, ListenersSurvive

-----------------------------------------------------------------------------
(* The plane follows the identity *)

\* What the disk and the memory hold while the one command is at each of its steps.
CommandHonest(command, disk, memory) ==
    /\ command.pc = "idle" => disk = memory
    /\ command.pc = "checked" => disk = NONE /\ memory = NONE
    /\ command.pc = "publishing" => disk = command.session /\ memory = NONE
    /\ command.pc \in {"clearing", "closing", "closed"} => disk = NONE
    /\ command.pc \in {"closing", "closed"} => memory = NONE

\* Past the second fence a call serves for the identity in memory, unless a wipe is at
\* the plane.
FencedServesLive ==
    ~WiperPending =>
        \A t \in Callers : call[t].pc \in {"closing", "binding"} =>
            live # NONE /\ NpubOf[live] = NpubOf[call[t].session]

SessionInv ==
    /\ \A c \in Commands : CommandHonest(cmd[c], stored, live)
    /\ FencedServesLive
    /\ PlaneServesLiveNpub

LEMMA CallerSessionStep ==
    ASSUME PlaneInv, SessionInv, NEW t \in Callers, CallerStep(t)
    PROVE  SessionInv'
<1>t. TypeOK
    BY DEF PlaneInv
<1>1. UNCHANGED <<stored, live, cmd>> /\ WiperPending' = WiperPending
    BY DEF CallerStep, Snapshot, Enter, ReuseUnderLock, GenerationFence, LiveFence, CloseOld, Bind,
           BindFails, Finish, WiperPending
<1>2. \A c \in Commands : CommandHonest(cmd'[c], stored', live')
    BY <1>1 DEF SessionInv
<1>3. \A u \in Callers \ {t} : call'[u] = call[u]
    BY <1>t, CallerAlone
<1>4. CASE LiveFence(t)
  <2>1. \/ call'[t].pc = "returned" /\ bound' = bound
        \/ StillCurrent(t) /\ call'[t].session = call[t].session /\ bound' = Unbound
      BY <1>t, <1>4, LiveFenceEnds
  <2> QED BY <1>1, <1>2, <1>3, <2>1 DEF SessionInv, FencedServesLive, PlaneServesLiveNpub, IsBound,
                                        SameOwner, StillCurrent, Unbound
<1>5. CASE CloseOld(t)
  <2>1. call[t].pc = "closing" /\ call'[t].session = call[t].session /\ bound' = bound
      BY <1>t, <1>5 DEF CloseOld, TypeOK, Call
  <2> QED BY <1>1, <1>2, <1>3, <2>1 DEF SessionInv, FencedServesLive, PlaneServesLiveNpub, IsBound,
                                        SameOwner
<1>6. CASE Bind(t)
  <2>1. call[t].pc = "binding" /\ call'[t].pc = "returned" /\ bound'.session = call[t].session
      BY <1>t, <1>6 DEF Bind, Return, NoCall, TypeOK, Call
  <2> QED BY <1>1, <1>2, <1>3, <2>1 DEF SessionInv, FencedServesLive, PlaneServesLiveNpub, IsBound,
                                        SameOwner
<1>7. CASE ~(LiveFence(t) \/ CloseOld(t) \/ Bind(t))
  <2>0. GenerationFence(t) => call'[t].pc \notin {"closing", "binding"} /\ bound' = bound
      BY <1>t DEF GenerationFence, Return, Goto, NoCall, TypeOK, Call
  <2>1. call'[t].pc \notin {"closing", "binding"} /\ bound' = bound
      BY <1>t, <1>7, <2>0, CallerOutside DEF CallerStep
  <2> QED BY <1>1, <1>2, <1>3, <2>1 DEF SessionInv, FencedServesLive, PlaneServesLiveNpub, IsBound,
                                        SameOwner
<1> QED BY <1>4, <1>5, <1>6, <1>7

LEMMA CommandSessionStep ==
    ASSUME PlaneInv, SessionInv, NEW c \in Commands, \A d \in Commands : d = c,
           CommandStep(c), WipesGoThrough
    PROVE  SessionInv'
<1>t. TypeOK
    BY DEF PlaneInv
<1>1. CommandHonest(cmd[c], stored, live)
    BY DEF SessionInv
<1>2. /\ WiperPending <=> cmd[c].pc \in {"closing", "closed"}
      /\ WiperPending' <=> cmd'[c].pc \in {"closing", "closed"}
    BY DEF WiperPending
<1>3. ASSUME CommandHonest(cmd'[c], stored', live'), UNCHANGED <<bound, call>>,
             live' = live \/ live = NONE,
             cmd[c].pc \notin {"closing", "closed"} \/ cmd'[c].pc \in {"closing", "closed"}
      PROVE  SessionInv'
    BY <1>2, <1>3 DEF SessionInv, FencedServesLive, PlaneServesLiveNpub, IsBound, SameOwner
<1>4. CASE \E s \in Sessions : CheckVacant(c, s)
  <2>1. /\ cmd[c].pc = "idle" /\ stored = NONE /\ cmd'[c].pc = "checked"
        /\ UNCHANGED <<stored, live, bound, call>>
      BY <1>t, <1>4 DEF CheckVacant, TypeOK, Command
  <2> QED BY <1>1, <1>3, <2>1 DEF CommandHonest
<1>5. CASE SaveIdentity(c)
  <2>1. /\ cmd[c].pc = "checked" /\ cmd'[c].pc = "publishing" /\ cmd'[c].session = cmd[c].session
        /\ stored' = cmd[c].session /\ UNCHANGED <<live, bound, call>>
      BY <1>t, <1>5 DEF SaveIdentity, TypeOK, Command
  <2> QED BY <1>1, <1>3, <2>1 DEF CommandHonest
<1>6. ~LoadIdentity(c)
    BY <1>1 DEF LoadIdentity, CommandHonest
<1>7. CASE SetLive(c)
  <2>1. /\ cmd[c].pc = "publishing" /\ cmd'[c].pc = "idle" /\ live' = cmd[c].session
        /\ UNCHANGED <<stored, bound, call>>
      BY <1>t, <1>7 DEF SetLive, TypeOK, NoCommand
  <2> QED BY <1>1, <1>3, <2>1 DEF CommandHonest
<1>8. CASE WipeStore(c)
  <2>1. /\ cmd[c].pc = "idle" /\ cmd'[c].pc = "clearing" /\ stored' = NONE
        /\ UNCHANGED <<live, bound, call>>
      BY <1>t, <1>8 DEF WipeStore, TypeOK, Command
  <2> QED BY <1>1, <1>3, <2>1 DEF CommandHonest
<1>9. CASE WipeStoreFails(c)
  <2>1. cmd[c].pc = "idle" /\ UNCHANGED <<stored, live, bound, call, cmd>>
      BY <1>9 DEF WipeStoreFails, WipesGoThrough
  <2> QED BY <1>1, <1>3, <2>1 DEF CommandHonest
<1>10. CASE ClearLive(c)
  <2>1. /\ cmd[c].pc = "clearing" /\ cmd'[c].pc = "closing" /\ live' = NONE
        /\ UNCHANGED <<stored, bound, call>>
      BY <1>t, <1>10 DEF ClearLive, TypeOK, Command
  <2>2. CommandHonest(cmd'[c], stored', live')
      BY <1>1, <2>1 DEF CommandHonest
  <2> QED BY <1>2, <2>1, <2>2 DEF SessionInv, FencedServesLive, PlaneServesLiveNpub
<1>11. CASE ClosePlane(c)
  <2>1. /\ cmd[c].pc = "closing" /\ cmd'[c].pc = "closed" /\ UNCHANGED <<stored, live>>
      BY <1>t, <1>11 DEF ClosePlane, TypeOK, Command
  <2>2. CommandHonest(cmd'[c], stored', live')
      BY <1>1, <2>1 DEF CommandHonest
  <2> QED BY <1>2, <2>1, <2>2 DEF SessionInv, FencedServesLive, PlaneServesLiveNpub
<1>12. CASE FinishClose(c)
  <2>1. /\ cmd[c].pc = "closed" /\ cmd'[c].pc = "idle" /\ UNCHANGED <<stored, live, bound, call>>
      BY <1>t, <1>12 DEF FinishClose, TypeOK, NoCommand
  <2>2. bound = Unbound /\ writer = c
      BY <2>1 DEF PlaneInv, EmptyWhileHeld, LockHeld
  <2>3. \A t \in Callers : call[t].pc \notin {"closing", "binding"}
      BY <2>2, ActorAssumption DEF PlaneInv, LockHeld, Locked
  <2>4. CommandHonest(cmd'[c], stored', live')
      BY <1>1, <2>1 DEF CommandHonest
  <2> QED BY <2>1, <2>2, <2>3, <2>4
          DEF SessionInv, FencedServesLive, PlaneServesLiveNpub, IsBound, Unbound
<1> QED BY <1>4, <1>5, <1>6, <1>7, <1>8, <1>9, <1>10, <1>11, <1>12 DEF CommandStep

\* A plane serves for the npub of the session, for any number of calls, as long as the
\* commands come one at a time and no wipe fails half way.
THEOREM PlaneFollowsIdentity ==
    ASSUME \A c, d \in Commands : c = d
    PROVE  SessionSpec => []PlaneServesLiveNpub
<1>1. Init => SessionInv
    BY DEF Init, SessionInv, CommandHonest, FencedServesLive, PlaneServesLiveNpub, IsBound, Unbound,
           NoCall, NoCommand
<1>2. PlaneInv /\ SessionInv /\ [SessionNext]_vars => SessionInv'
  <2> SUFFICES ASSUME PlaneInv, SessionInv, [SessionNext]_vars PROVE SessionInv'
      OBVIOUS
  <2>1. CASE UNCHANGED vars
      BY <2>1 DEF vars, SessionInv, CommandHonest, FencedServesLive, PlaneServesLiveNpub, IsBound,
                  SameOwner, WiperPending
  <2>2. CASE SessionNext
      BY <2>2, CallerSessionStep, CommandSessionStep DEF SessionNext, Next
  <2> QED BY <2>1, <2>2
<1>3. [SessionNext]_vars => [Next]_vars
    BY DEF SessionNext
<1>4. SessionInv => PlaneServesLiveNpub
    BY DEF SessionInv
<1> QED BY <1>1, <1>2, <1>3, <1>4, PlaneInvariant, PTL DEF SessionSpec, Spec

-----------------------------------------------------------------------------
(* The plane is the one endpoint of its session *)

\* One step of a caller, as the session's endpoint sees it.
LEMMA CallerServes ==
    ASSUME PlaneInv, NEW t \in Callers, CallerStep(t)
    PROVE  SessionPlane!Next \/ UNCHANGED SessionPlane!vars
<1>0. TypeOK /\ NONE \notin Endpoints
    BY NoneAssumption DEF PlaneInv
<1>1. CASE LiveFence(t)
  <2>1. CASE bound' = Unbound
    <3>1. SessionPlane!Withdraw
        BY <1>1, <2>1 DEF LiveFence, Unbound, SessionPlane!Withdraw, SessionPlane!Withdrawn
    <3> QED BY <3>1 DEF SessionPlane!Next
  <2>2. CASE bound' = bound
      BY <1>1, <2>2 DEF LiveFence, SessionPlane!vars
  <2> QED BY <1>1, <2>1, <2>2 DEF LiveFence
<1>2. CASE CloseOld(t)
  <2>0. bound.endpoint = NONE
      BY <1>2 DEF CloseOld, PlaneInv, EmptyWhileHeld, Unbound
  <2>1. CASE call[t].endpoint \in Endpoints
    <3>1. SessionPlane!Close(call[t].endpoint)
        BY <1>0, <1>2, <2>0, <2>1 DEF CloseOld, SessionPlane!Close
    <3> QED BY <2>1, <3>1 DEF SessionPlane!Next
  <2>2. CASE call[t].endpoint \notin Endpoints
    <3>1. open' = open
        BY <1>0, <1>2, <2>2 DEF CloseOld, TypeOK
    <3> QED BY <1>2, <3>1 DEF CloseOld, SessionPlane!vars
  <2> QED BY <2>1, <2>2
<1>3. CASE Bind(t)
  <2>1. Locked(t) /\ call[t].pc = "binding" /\ call[t].generation = generation
      BY <1>3 DEF Bind, Locked, PlaneInv, FencedIsCurrent
  <2>2. open = {}
      BY <1>0, <2>1, HolderAlone DEF PlaneInv, EmptyWhileHeld, OpenAccounted, Unbound, TypeOK
  <2>3. PICK e \in unused :
            /\ unused' = unused \ {e}
            /\ open' = open \cup {e}
            /\ bound' = [endpoint |-> e, session |-> call[t].session,
                         listening |-> call[t].need = "Listen",
                         entered |-> call[t].generation]
      BY <1>3 DEF Bind
  <2>4. bound'.endpoint = e /\ bound'.entered = generation
      BY <2>1, <2>3
  <2>5. SessionPlane!Publish(e)
      BY <1>3, <2>2, <2>3, <2>4 DEF Bind, SessionPlane!Publish
  <2> QED BY <1>0, <2>5 DEF SessionPlane!Next, TypeOK
<1>4. CASE UNCHANGED <<bound, open, unused, generation>>
    BY <1>4 DEF SessionPlane!vars
<1> QED BY <1>1, <1>2, <1>3, <1>4
        DEF CallerStep, Snapshot, Enter, ReuseUnderLock, GenerationFence, BindFails, Finish

LEMMA CommandServes ==
    ASSUME PlaneInv, NEW c \in Commands, CommandStep(c)
    PROVE  SessionPlane!Next \/ UNCHANGED SessionPlane!vars
<1>0. TypeOK /\ NONE \notin Endpoints
    BY NoneAssumption DEF PlaneInv
<1>1. CASE ClosePlane(c)
  <2>1. SessionPlane!EndEpoch
      BY <1>1 DEF ClosePlane, Unbound, SessionPlane!EndEpoch, SessionPlane!Withdrawn
  <2> QED BY <2>1 DEF SessionPlane!Next
<1>2. CASE FinishClose(c)
  <2>0. bound.endpoint = NONE
      BY <1>2 DEF FinishClose, PlaneInv, EmptyWhileHeld, Unbound
  <2>1. CASE cmd[c].old \in Endpoints
    <3>1. SessionPlane!Close(cmd[c].old)
        BY <1>0, <1>2, <2>0, <2>1 DEF FinishClose, SessionPlane!Close
    <3> QED BY <2>1, <3>1 DEF SessionPlane!Next
  <2>2. CASE cmd[c].old \notin Endpoints
    <3>1. open' = open
        BY <1>0, <1>2, <2>2 DEF FinishClose, TypeOK
    <3> QED BY <1>2, <3>1 DEF FinishClose, SessionPlane!vars
  <2> QED BY <2>1, <2>2
<1>3. CASE UNCHANGED <<bound, open, unused, generation>>
    BY <1>3 DEF SessionPlane!vars
<1> QED BY <1>1, <1>2, <1>3
        DEF CommandStep, CheckVacant, SaveIdentity, LoadIdentity, SetLive, WipeStore,
            WipeStoreFails, ClearLive

\* The plane, with its callers and its wipes, implements SessionEndpoint.
THEOREM ImplementsSessionEndpoint == Spec => KeepsOneEndpoint
<1>1. Init => SessionPlane!Init
    BY DEF Init, Unbound, SessionPlane!Init
<1>2. PlaneInv /\ [Next]_vars => [SessionPlane!Next]_(SessionPlane!vars)
  <2>1. UNCHANGED vars => UNCHANGED SessionPlane!vars
      BY DEF vars, SessionPlane!vars
  <2> QED BY <2>1, CallerServes, CommandServes DEF Next
<1> QED BY <1>1, <1>2, PlaneInvariant, PTL DEF Spec, KeepsOneEndpoint, SessionPlane!Spec

=============================================================================
