--------------------------- MODULE PlaneLifecycle ---------------------------
(***************************************************************************)
(* The manifest plane's session lifecycle: the single QUIC endpoint of a   *)
(* session (transport_state.rs), bound lazily by concurrent callers of     *)
(* ensure_endpoint, and the identity commands (commands/identity.rs) that  *)
(* create, load and wipe the identity the plane serves for.                *)
(*                                                                         *)
(* A "session identity" is one triple (npub, browse key, transport key).   *)
(* Two session identities may share an npub: importing the same nsec again *)
(* mints fresh browse and transport keys (AppIdentity::from_imported).     *)
(***************************************************************************)
EXTENDS Naturals, FiniteSets

CONSTANTS
    Sessions,     \* the session identities that may be created
    Npubs,
    NpubOf,       \* [Sessions -> Npubs]
    Callers,      \* tasks that call ensure_endpoint (fulfil, redeem, startup)
    Commands,     \* identity commands that may be in flight at once
    Endpoints,    \* iroh endpoints, each bound at most once
    MaxWipes,     \* bound of the model: wipes started in one run
    WipeCanFail,  \* whether DataStore::wipe may fail
    NONE

ASSUME NpubAssumption == NpubOf \in [Sessions -> Npubs]
ASSUME NoneAssumption ==
    NONE \notin Sessions \cup Endpoints \cup Callers \cup Commands
ASSUME ActorAssumption == Callers \cap Commands = {}
ASSUME WipeAssumption == MaxWipes \in Nat /\ WipeCanFail \in BOOLEAN

Roles == {"DialOnly", "Listen"}

VARIABLES
    stored,      \* identity on disk, or NONE
    live,        \* SharedIdentity: the identity in memory, or NONE
    bound,       \* PlaneState.bound
    generation,  \* PlaneState.generation
    writer,      \* holder of the write half of the plane's RwLock, or NONE
    unused,      \* endpoints never bound
    open,        \* endpoints bound and not closed
    call,        \* the ensure_endpoint call of each caller
    cmd          \* the identity command in each slot

vars == <<stored, live, bound, generation, writer, unused, open, call, cmd>>

\* BoundPlane. "entered" is a history field: the generation the publishing
\* call read on entry.
Unbound == [endpoint |-> NONE, session |-> NONE, listening |-> FALSE, entered |-> 0]

NoCall == [pc |-> "idle", session |-> NONE, need |-> "DialOnly",
           generation |-> 0, endpoint |-> NONE]

NoCommand == [pc |-> "idle", session |-> NONE, old |-> NONE]

SessionOrNone == Sessions \cup {NONE}
EndpointOrNone == Endpoints \cup {NONE}

Binding == [endpoint : EndpointOrNone, session : SessionOrNone,
            listening : BOOLEAN, entered : Nat]

Call == [pc : {"idle", "entering", "queued", "fencing", "closing", "binding", "returned"},
         session : SessionOrNone, need : Roles, generation : Nat, endpoint : EndpointOrNone]

Command == [pc : {"idle", "checked", "publishing", "clearing", "closing", "closed"},
            session : SessionOrNone, old : EndpointOrNone]

TypeOK ==
    /\ stored \in SessionOrNone
    /\ live \in SessionOrNone
    /\ bound \in Binding
    /\ generation \in Nat
    /\ writer \in Callers \cup Commands \cup {NONE}
    /\ unused \subseteq Endpoints
    /\ open \subseteq Endpoints
    /\ call \in [Callers -> Call]
    /\ cmd \in [Commands -> Command]

IsBound == bound.endpoint # NONE

\* should_rebind_for_owner, negated: the binding is keyed to the caller's npub.
SameOwner(s) == NpubOf[bound.session] = NpubOf[s]

\* Mutant of Satisfies, for ListenersSurvive.
SatisfiesExactRole(t) ==
    /\ IsBound
    /\ SameOwner(call[t].session)
    /\ bound.listening = (call[t].need = "Listen")
    /\ bound.endpoint \in open

\* The closure `satisfies`: a binding this call may reuse as it stands.
Satisfies(t) ==
    /\ IsBound
    /\ SameOwner(call[t].session)
    /\ bound.listening \/ call[t].need = "DialOnly"
    /\ bound.endpoint \in open

\* A session starts with the identity restored from disk, and no plane.
Init ==
    /\ stored \in SessionOrNone
    /\ live = stored
    /\ bound = Unbound
    /\ generation = 0
    /\ writer = NONE
    /\ unused = Endpoints
    /\ open = {}
    /\ call = [t \in Callers |-> NoCall]
    /\ cmd = [c \in Commands |-> NoCommand]

-----------------------------------------------------------------------------
(* ensure_endpoint *)

Goto(t, pc) == call' = [call EXCEPT ![t] = [@ EXCEPT !.pc = pc]]

\* The call is over; e is the handle it returns, or NONE for an error.
Return(t, e) ==
    call' = [call EXCEPT ![t] = [NoCall EXCEPT !.pc = "returned", !.endpoint = e]]

\* A caller snapshots the live identity and asks for a role. Everything it does
\* between that snapshot and ensure_endpoint is lost time: the snapshot ages.
Snapshot(t, need) ==
    /\ call[t].pc = "idle"
    /\ live # NONE
    /\ call' = [call EXCEPT ![t] = [NoCall EXCEPT !.pc = "entering",
                                                  !.session = live, !.need = need]]
    /\ UNCHANGED <<stored, live, bound, generation, writer, unused, open, cmd>>

\* Under the read lock: reuse the binding, or note the generation and queue.
Enter(t) ==
    /\ call[t].pc = "entering"
    /\ writer = NONE
    /\ IF Satisfies(t)
       THEN Return(t, bound.endpoint)
       ELSE call' = [call EXCEPT ![t] = [@ EXCEPT !.pc = "queued", !.generation = generation]]
    /\ UNCHANGED <<stored, live, bound, generation, writer, unused, open, cmd>>

\* With the write lock: another task may have bound it while this one waited.
ReuseUnderLock(t) ==
    /\ call[t].pc = "queued"
    /\ writer = NONE
    /\ Satisfies(t)
    /\ Return(t, bound.endpoint)
    /\ UNCHANGED <<stored, live, bound, generation, writer, unused, open, cmd>>

\* First fence: a close_plane since this call's entry means the call is refused.
SameGeneration(t) == generation = call[t].generation

GenerationFence(t) ==
    /\ call[t].pc = "queued"
    /\ writer = NONE
    /\ ~Satisfies(t)
    /\ IF SameGeneration(t)
       THEN Goto(t, "fencing") /\ writer' = t
       ELSE Return(t, NONE) /\ UNCHANGED writer
    /\ UNCHANGED <<stored, live, bound, generation, unused, open, cmd>>

\* Mutant of StillCurrent, for WipedSessionHasNoPlane.
NoLiveFence(t) == TRUE

\* Mutant of StillCurrent, for PlaneServesLiveNpub.
SomeIdentityLive(t) == live # NONE

\* Second fence: the session's npub, read again under the lock.
StillCurrent(t) == live # NONE /\ NpubOf[live] = NpubOf[call[t].session]

\* Mutant of LiveFence, for KeepsOneEndpoint: the old binding stays published.
CloseInPlace(t) ==
    /\ call[t].pc = "fencing"
    /\ IF StillCurrent(t)
       THEN /\ call' = [call EXCEPT ![t] = [@ EXCEPT !.pc = "closing", !.endpoint = bound.endpoint]]
            /\ UNCHANGED <<bound, writer>>
       ELSE /\ Return(t, NONE)
            /\ writer' = NONE
            /\ UNCHANGED bound
    /\ UNCHANGED <<stored, live, generation, unused, open, cmd>>

\* Past the fences the old binding is taken OUT of the state before it is
\* closed, so a failed bind leaves the state empty.
LiveFence(t) ==
    /\ call[t].pc = "fencing"
    /\ IF StillCurrent(t)
       THEN /\ call' = [call EXCEPT ![t] = [@ EXCEPT !.pc = "closing", !.endpoint = bound.endpoint]]
            /\ bound' = Unbound
            /\ UNCHANGED writer
       ELSE /\ Return(t, NONE)
            /\ writer' = NONE
            /\ UNCHANGED bound
    /\ UNCHANGED <<stored, live, generation, unused, open, cmd>>

CloseOld(t) ==
    /\ call[t].pc = "closing"
    /\ open' = open \ {call[t].endpoint}
    /\ call' = [call EXCEPT ![t] = [@ EXCEPT !.pc = "binding", !.endpoint = NONE]]
    /\ UNCHANGED <<stored, live, bound, generation, writer, unused, cmd>>

\* The bind succeeds: publish the plane and return its handle.
Bind(t) ==
    /\ call[t].pc = "binding"
    /\ \E e \in unused :
          /\ unused' = unused \ {e}
          /\ open' = open \cup {e}
          /\ bound' = [endpoint |-> e, session |-> call[t].session,
                       listening |-> call[t].need = "Listen",
                       entered |-> call[t].generation]
          /\ Return(t, e)
    /\ writer' = NONE
    /\ UNCHANGED <<stored, live, generation, cmd>>

\* Mutant of BindFails, for NobodyWaitsForEver.
BindWithoutTimeout(t) == FALSE

\* An error of the network, or ENDPOINT_BIND_TIMEOUT, which always comes.
BindFails(t) ==
    /\ call[t].pc = "binding"
    /\ Return(t, NONE)
    /\ writer' = NONE
    /\ UNCHANGED <<stored, live, bound, generation, unused, open, cmd>>

\* The caller drops its handle; the endpoint stays with the plane.
Finish(t) ==
    /\ call[t].pc = "returned"
    /\ call' = [call EXCEPT ![t] = NoCall]
    /\ UNCHANGED <<stored, live, bound, generation, writer, unused, open, cmd>>

-----------------------------------------------------------------------------
(* Identity commands *)

\* generate_keypair, import_nsec, restore_data: refuse an occupied profile.
\* Generate and import choose fresh keys; restore brings back archived ones.
CheckVacant(c, s) ==
    /\ cmd[c].pc = "idle"
    /\ stored = NONE
    /\ cmd' = [cmd EXCEPT ![c] = [@ EXCEPT !.pc = "checked", !.session = s]]
    /\ UNCHANGED <<stored, live, bound, generation, writer, unused, open, call>>

SaveIdentity(c) ==
    /\ cmd[c].pc = "checked"
    /\ stored' = cmd[c].session
    /\ cmd' = [cmd EXCEPT ![c] = [@ EXCEPT !.pc = "publishing"]]
    /\ UNCHANGED <<live, bound, generation, writer, unused, open, call>>

\* get_identity over a cold in-memory state: load the identity from disk.
LoadIdentity(c) ==
    /\ cmd[c].pc = "idle"
    /\ live = NONE
    /\ stored # NONE
    /\ cmd' = [cmd EXCEPT ![c] = [@ EXCEPT !.pc = "publishing", !.session = stored]]
    /\ UNCHANGED <<stored, live, bound, generation, writer, unused, open, call>>

SetLive(c) ==
    /\ cmd[c].pc = "publishing"
    /\ live' = cmd[c].session
    /\ cmd' = [cmd EXCEPT ![c] = NoCommand]
    /\ UNCHANGED <<stored, bound, generation, writer, unused, open, call>>

\* A wipe in flight has cleared the store and has still to reset the memory.
WipesInFlight == {c \in Commands : cmd[c].pc \in {"clearing", "closing"}}

CanWipe == generation + Cardinality(WipesInFlight) < MaxWipes

WipeStore(c) ==
    /\ cmd[c].pc = "idle"
    /\ CanWipe
    /\ stored' = NONE
    /\ cmd' = [cmd EXCEPT ![c] = [@ EXCEPT !.pc = "clearing"]]
    /\ UNCHANGED <<live, bound, generation, writer, unused, open, call>>

\* A wipe that fails half way returns the error and leaves the memory alone.
WipeStoreFails(c) ==
    /\ WipeCanFail
    /\ cmd[c].pc = "idle"
    /\ CanWipe
    /\ stored' \in {stored, NONE}
    /\ UNCHANGED <<live, bound, generation, writer, unused, open, call, cmd>>

ClearLive(c) ==
    /\ cmd[c].pc = "clearing"
    /\ live' = NONE
    /\ cmd' = [cmd EXCEPT ![c] = [@ EXCEPT !.pc = "closing"]]
    /\ UNCHANGED <<stored, bound, generation, writer, unused, open, call>>

\* close_plane: bump the generation first, then take the binding and close it.
ClosePlane(c) ==
    /\ cmd[c].pc = "closing"
    /\ writer = NONE
    /\ writer' = c
    /\ generation' = generation + 1
    /\ bound' = Unbound
    /\ cmd' = [cmd EXCEPT ![c] = [@ EXCEPT !.pc = "closed", !.old = bound.endpoint]]
    /\ UNCHANGED <<stored, live, unused, open, call>>

FinishClose(c) ==
    /\ cmd[c].pc = "closed"
    /\ open' = open \ {cmd[c].old}
    /\ writer' = NONE
    /\ cmd' = [cmd EXCEPT ![c] = NoCommand]
    /\ UNCHANGED <<stored, live, bound, generation, unused, call>>

-----------------------------------------------------------------------------
CallerStep(t) ==
    \/ \E need \in Roles : Snapshot(t, need)
    \/ Enter(t) \/ ReuseUnderLock(t) \/ GenerationFence(t) \/ LiveFence(t)
    \/ CloseOld(t) \/ Bind(t) \/ BindFails(t) \/ Finish(t)

CommandStep(c) ==
    \/ \E s \in Sessions : CheckVacant(c, s)
    \/ SaveIdentity(c) \/ LoadIdentity(c) \/ SetLive(c)
    \/ WipeStore(c) \/ WipeStoreFails(c) \/ ClearLive(c)
    \/ ClosePlane(c) \/ FinishClose(c)

Next ==
    \/ \E t \in Callers : CallerStep(t)
    \/ \E c \in Commands : CommandStep(c)

Spec == Init /\ [][Next]_vars

\* The steps that wait for the plane's lock, of which a call has one at a time.
GetsLock(t) == Enter(t) \/ ReuseUnderLock(t) \/ GenerationFence(t)

\* Code that has started runs on. The plane's lock is tokio's RwLock, which is
\* fair, hence strong fairness for the steps that wait for it. Nothing is
\* assumed of the network: a bind need not answer, only its timeout must fire.
\* No user has to start a command or a call.
Fairness ==
    /\ \A t \in Callers :
          /\ SF_vars(GetsLock(t))
          /\ WF_vars(LiveFence(t) \/ CloseOld(t) \/ BindFails(t) \/ Finish(t))
    /\ \A c \in Commands :
          /\ WF_vars(SaveIdentity(c) \/ SetLive(c) \/ ClearLive(c) \/ FinishClose(c))
          /\ SF_vars(ClosePlane(c))

FairSpec == Spec /\ Fairness

\* A session in which no wipe fails half way: whatever changes the disk goes on
\* to the memory.
WipesGoThrough == stored' # stored => cmd' # cmd

SessionNext == Next /\ WipesGoThrough

SessionSpec == Init /\ [][SessionNext]_vars /\ Fairness

-----------------------------------------------------------------------------
(* Properties *)

\* The write lock is held by whoever is inside the critical section.
Locked(t) == call[t].pc \in {"fencing", "closing", "binding"}

WiperPending == \E c \in Commands : cmd[c].pc \in {"closing", "closed"}

\* After a wipe has finished nothing is left bound or open until an identity
\* exists again, whatever calls were queued when the wipe began
\* (wipe_data: "the manifest plane must not outlive the identity it serves").
WipedSessionHasNoPlane ==
    live = NONE /\ ~WiperPending => ~IsBound /\ open = {}

\* Concurrent callers never leave two endpoints on the session's secret.
AtMostOneEndpoint == \A e, f \in open : e = f

\* A failed rebind never leaves a closed endpoint in the state for the next
\* caller: what is bound is open.
BoundIsOpen == IsBound => bound.endpoint \in open

\* A call that entered before a close_plane never publishes after it.
NoResurrectedPlane == IsBound => bound.entered = generation

\* A listening plane goes away only for a wipe or for another owner: neither a
\* redeemer's dial-only call nor a second fulfil closes the listener that holds
\* promised tickets.
ListenerSurvives ==
    bound.listening /\ bound' # bound =>
        \/ generation' # generation
        \/ \E t \in Callers : Locked(t) /\ ~SameOwner(call[t].session)

ListenersSurvive == [][ListenerSurvives]_vars

\* Neither a silent network nor the queue for the plane's lock holds anybody up
\* for ever: every fulfil and redeem returns, and a wipe gets to close the plane
\* even when it finds a bind in flight.
NobodyWaitsForEver ==
    /\ \A t \in Callers : call[t].pc # "idle" ~> call[t].pc = "idle"
    /\ \A c \in Commands : cmd[c].pc = "clearing" ~> cmd[c].pc = "idle"

\* Identity changes go through a wipe, so a plane that is bound serves for the
\* npub of the session. It holds while commands come one at a time and a wipe
\* does not fail half way.
PlaneServesLiveNpub ==
    IsBound /\ ~WiperPending => live # NONE /\ SameOwner(live)

\* The plane's keys are the session's keys, not those of an identity that was
\* wiped (the PlaneState comment: "under credentials the user just destroyed").
PlaneServesLiveKeys == IsBound /\ ~WiperPending => bound.session = live

SessionPlane ==
    INSTANCE SessionEndpoint WITH
        NoEndpoint <- NONE, published <- bound.endpoint, askedIn <- bound.entered,
        running <- open, fresh <- unused, epoch <- generation

\* Whoever calls ensure_endpoint and whoever wipes, in whatever order, the plane is the
\* one endpoint of its session that SessionEndpoint describes.
KeepsOneEndpoint == SessionPlane!Spec

=============================================================================
