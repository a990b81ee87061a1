-------------------------- MODULE FetchWaveProofs --------------------------
(***************************************************************************)
(* Type correctness of FetchWave, and that the author of a collection is   *)
(* asked at least as often as any carrier, for every list of carriers,     *)
(* every wave size and every attempt cap.                                  *)
(***************************************************************************)
EXTENDS FetchWave, TLAPS

(***************************************************************************)
(* The attempts of a source including the ask of this wave that is still   *)
(* to go out. AuthorNotBehind is not inductive: a carrier of the wave is   *)
(* asked after the author, and only Counted says that it was not ahead.    *)
(***************************************************************************)
Counted(s) == attempts[s] + (IF s \in wave THEN 1 ELSE 0)

WaveInv ==
    /\ poll # "asking" => wave = {}
    /\ \A s \in wave : attempts[s] < MaxAttempts
    /\ \A c \in Carrier : Counted(c) <= Counted(Author)

IInv == WaveTypeOK /\ WaveInv

\* The bounds of the constants, without the functions they are given by.
LEMMA ConstantTypes ==
    /\ Author \in Sources
    /\ Carrier \subseteq Sources
    /\ Author \notin Carrier
    /\ MaxAttempts \in Nat
    /\ 1 \in Snapshots
    /\ NoSnapshot \notin Snapshots
    /\ Snapshots \subseteq Nat
    BY SourceAssumption, BoundAssumption, RunAssumption DEF Sources, Snapshots, NoSnapshot

\* Every member of a wave is a source that has attempts left, and the author is one
\* whenever it has (next_action).
LEMMA WaveReady ==
    /\ Wave \subseteq Sources
    /\ \A s \in Wave : Ready(s)
    /\ Ready(Author) => Author \in Wave
<1>1. Wave \subseteq Sources
    BY DEF Wave, Sources, Carrier
<1>2. \A s \in Wave : Ready(s)
    BY DEF Wave
<1>3. Ready(Author) => Author \in Wave
    BY DEF Wave
<1> QED
    BY <1>1, <1>2, <1>3

LEMMA InitInv == WaveInit => IInv
<1> SUFFICES ASSUME WaveInit PROVE IInv
    OBVIOUS
<1> USE ConstantTypes
<1>1. WaveTypeOK
    BY RunAssumption DEF WaveInit, WaveTypeOK
<1>2. WaveInv
    BY DEF WaveInit, WaveInv, Counted
<1> QED
    BY <1>1, <1>2 DEF IInv

\* The actions that touch neither the poll's place, nor its wave, nor the attempts.
LEMMA WaveUnchanged ==
    ASSUME WaveInv, UNCHANGED <<attempts, wave>>, poll' = "asking" <=> poll = "asking"
    PROVE  WaveInv'
    BY DEF WaveInv, Counted

\* A redemption changes the copy, the trace and the relay's tickets within their types.
LEMMA RedeemedTypes ==
    ASSUME WaveTypeOK, NEW s \in Sources, Redeemed(s)
    PROVE  /\ held' \in Snapshots
           /\ asks' \in [Sources -> Snapshots \cup {NoSnapshot}]
           /\ tickets' \subseteq Sources
<1> USE ConstantTypes
<1>1. Copy(s) \in Snapshots
    BY DEF WaveTypeOK, Copy, Sources
<1> QED
    BY <1>1 DEF WaveTypeOK, Redeemed

\* An ask moves from the wave to the count of attempts, whether or not it was sent, and
\* changes no sum.
LEMMA NotedInv ==
    ASSUME IInv, NEW s \in Sources, Noted(s), poll' = poll
    PROVE  /\ attempts' \in [Sources -> 0 .. MaxAttempts]
           /\ wave' \subseteq Sources
           /\ WaveInv'
<1> USE ConstantTypes DEF IInv
<1>1. attempts[s] \in 0 .. MaxAttempts /\ attempts[s] < MaxAttempts /\ s \in wave
    BY DEF Noted, WaveTypeOK, WaveInv
<1>2. attempts' \in [Sources -> 0 .. MaxAttempts] /\ wave' \subseteq Sources
    BY <1>1 DEF Noted, WaveTypeOK
<1>3. ASSUME NEW q \in Sources PROVE Counted(q)' = Counted(q)
    <2>1. CASE q = s
        BY <1>1, <2>1 DEF Noted, Counted, WaveTypeOK
    <2>2. CASE q # s
        BY <2>2 DEF Noted, Counted, WaveTypeOK
    <2> QED
        BY <2>1, <2>2
<1>4. \A c \in Carrier : Counted(c)' <= Counted(Author)'
    BY <1>3 DEF WaveInv
<1>5. \A q \in wave' : attempts'[q] < MaxAttempts
    BY DEF Noted, WaveTypeOK, WaveInv
<1>6. poll' = "asking"
    BY DEF Noted
<1> QED
    BY <1>2, <1>4, <1>5, <1>6 DEF WaveInv

LEMMA StepInv == IInv /\ [WaveNext]_waveVars => IInv'
<1> SUFFICES ASSUME IInv, [WaveNext]_waveVars PROVE IInv'
    OBVIOUS
<1> USE ConstantTypes DEF IInv
<1>1. CASE Publish
    <2>1. published' \in Snapshots
        BY <1>1, RunAssumption DEF Publish, WaveTypeOK, Snapshots
    <2>2. WaveTypeOK'
        BY <1>1, <2>1 DEF Publish, WaveTypeOK
    <2> QED
        BY <1>1, <2>2, WaveUnchanged DEF Publish
<1>2. CASE NetworkToggles
    <2>1. WaveTypeOK'
        BY <1>2 DEF NetworkToggles, WaveTypeOK
    <2> QED
        BY <1>2, <2>1, WaveUnchanged DEF NetworkToggles
<1>3. ASSUME NEW c \in Carrier, CarrierRefreshes(c) PROVE IInv'
    <2>1. WaveTypeOK'
        BY <1>3 DEF CarrierRefreshes, WaveTypeOK
    <2> QED
        BY <1>3, <2>1, WaveUnchanged DEF CarrierRefreshes
<1>4. ASSUME NEW s \in Sources, ComesOrGoes(s) PROVE IInv'
    <2>1. WaveTypeOK'
        BY <1>4 DEF ComesOrGoes, WaveTypeOK
    <2> QED
        BY <1>4, <2>1, WaveUnchanged DEF ComesOrGoes
<1>5. ASSUME NEW s \in Sources, Answer(s) PROVE IInv'
    <2>1. WaveTypeOK'
        BY <1>5 DEF Answer, WaveTypeOK, world
    <2> QED
        BY <1>5, <2>1, WaveUnchanged DEF Answer
<1>6. ASSUME NEW s \in Sources, PageRedeems(s) PROVE IInv'
    <2>1. Redeemed(s)
        BY <1>6 DEF PageRedeems
    <2>2. WaveTypeOK'
        BY <1>6, <2>1, RedeemedTypes DEF PageRedeems, WaveTypeOK, world
    <2> QED
        BY <1>6, <2>2, WaveUnchanged DEF PageRedeems
<1>7. CASE StartPoll
    <2>1. WaveTypeOK'
        BY <1>7 DEF StartPoll, WaveTypeOK, world
    <2> QED
        BY <1>7, <2>1, WaveUnchanged DEF StartPoll
<1>8. CASE ReadHeld
    <2>1. WaveTypeOK'
        BY <1>8 DEF ReadHeld, WaveTypeOK, world
    <2> QED
        BY <1>8, <2>1, WaveUnchanged DEF ReadHeld
<1>9. CASE ResolveFails
    <2>1. WaveTypeOK'
        BY <1>9 DEF ResolveFails, WaveTypeOK, world
    <2> QED
        BY <1>9, <2>1, WaveUnchanged DEF ResolveFails
<1>10. CASE NothingToAsk
    <2>1. WaveTypeOK'
        BY <1>10 DEF NothingToAsk, WaveTypeOK, world
    <2> QED
        BY <1>10, <2>1, WaveUnchanged DEF NothingToAsk
<1>11. CASE StartWave
    \* No ask is outstanding before, so no carrier is ahead of the author; afterwards the
    \* author is in the wave, or it is exhausted and no carrier can pass it.
    <2>1. wave = {} /\ wave' = Wave /\ attempts' = attempts /\ poll' = "asking"
        BY <1>11 DEF StartWave, WaveInv
    <2>2. WaveTypeOK'
        BY <1>11, WaveReady DEF StartWave, WaveTypeOK, world
    <2>3. \A s \in wave' : attempts'[s] < MaxAttempts
        BY <2>1, WaveReady DEF Ready
    <2>4. ASSUME NEW c \in Carrier PROVE Counted(c)' <= Counted(Author)'
        <3>1. attempts[c] <= attempts[Author]
            BY <2>1 DEF WaveInv, Counted, WaveTypeOK
        <3>2. attempts[c] \in 0 .. MaxAttempts /\ attempts[Author] \in 0 .. MaxAttempts
            BY DEF WaveTypeOK
        <3>3. CASE Author \in Wave
            BY <2>1, <3>1, <3>2, <3>3 DEF Counted
        <3>4. CASE Author \notin Wave
            <4>1. attempts[Author] = MaxAttempts
                BY <3>2, <3>4, WaveReady DEF Ready
            <4>2. c \in Wave => attempts[c] < MaxAttempts
                BY WaveReady DEF Ready
            <4> QED
                BY <2>1, <3>2, <3>4, <4>1, <4>2 DEF Counted
        <3> QED
            BY <3>3, <3>4
    <2> QED
        BY <2>1, <2>2, <2>3, <2>4 DEF WaveInv
<1>12. CASE EndPoll
    <2>1. WaveTypeOK'
        BY <1>12 DEF EndPoll, WaveTypeOK, world
    <2> QED
        BY <1>12, <2>1 DEF EndPoll, WaveInv, Counted
<1>13. ASSUME NEW s \in Sources, Redeem(s) PROVE IInv'
    <2>1. Redeemed(s)
        BY <1>13 DEF Redeem
    <2>2. WaveTypeOK'
        BY <1>13, <2>1, RedeemedTypes DEF Redeem, WaveTypeOK, world
    <2> QED
        BY <1>13, <2>2, WaveUnchanged DEF Redeem
<1>14. ASSUME NEW s \in Sources, RedeemFails(s) PROVE IInv'
    <2>1. WaveTypeOK'
        BY <1>14 DEF RedeemFails, WaveTypeOK, world
    <2> QED
        BY <1>14, <2>1, WaveUnchanged DEF RedeemFails
<1>15. ASSUME NEW s \in Sources, Ask(s) PROVE IInv'
    <2>1. WaveTypeOK'
        BY <1>15, NotedInv DEF Ask, WaveTypeOK, world
    <2> QED
        BY <1>15, <2>1, NotedInv DEF Ask
<1>16. ASSUME NEW s \in Sources, AskFails(s) PROVE IInv'
    <2>1. WaveTypeOK'
        BY <1>16, NotedInv DEF AskFails, WaveTypeOK, world
    <2> QED
        BY <1>16, <2>1, NotedInv DEF AskFails
<1>17. CASE Restart
    <2>1. WaveTypeOK'
        BY <1>17, RunAssumption DEF Restart, WaveTypeOK
    <2>2. WaveInv'
        BY <1>17 DEF Restart, WaveInv, Counted
    <2> QED
        BY <2>1, <2>2
<1>18. CASE UNCHANGED waveVars
    <2>1. WaveTypeOK'
        BY <1>18 DEF waveVars, WaveTypeOK
    <2> QED
        BY <1>18, <2>1, WaveUnchanged DEF waveVars
<1> QED
    BY <1>1, <1>2, <1>3, <1>4, <1>5, <1>6, <1>7, <1>8, <1>9, <1>10, <1>11, <1>12, <1>13,
       <1>14, <1>15, <1>16, <1>17, <1>18 DEF WaveNext, Poll

THEOREM Invariant == WaveSpec => []IInv
<1> QED
    BY InitInv, StepInv, PTL DEF WaveSpec

\* Every variable has its type; in particular no source is asked more often than the cap
\* of attempts allows (peer_wave.rs, MAX_ATTEMPTS_PER_PEER).
THEOREM TypeCorrect == WaveSpec => []WaveTypeOK
<1>1. IInv => WaveTypeOK
    BY DEF IInv
<1> QED
    BY <1>1, Invariant, PTL

\* No carrier is asked more often than the author, but for the ask to the author that the
\* wave has still to send: the author is always asked alongside the carriers.
THEOREM AuthorAlongside == WaveSpec => []AuthorNotBehind
<1>1. IInv => AuthorNotBehind
    <2> SUFFICES ASSUME IInv, NEW c \in Carrier
                 PROVE  attempts[c] <= attempts[Author] + (IF Author \in wave THEN 1 ELSE 0)
        BY DEF AuthorNotBehind
    <2>1. attempts[c] \in Nat /\ attempts[Author] \in Nat
        BY ConstantTypes DEF IInv, WaveTypeOK
    <2>2. Counted(c) <= Counted(Author)
        BY DEF IInv, WaveInv
    <2> QED
        BY <2>1, <2>2 DEF Counted
<1> QED
    BY <1>1, Invariant, PTL
=============================================================================
