------------------------------ MODULE MCRefresh ------------------------------
(***************************************************************************)
(* The refresh of a holding and the life of the plane it is dialled with:  *)
(* FetchWave with two carriers, and a session of PlaneLifecycle. "part"    *)
(* names the one that moves in this behaviour. The other rests in a state  *)
(* in which nothing fair is enabled, and they share no variable.           *)
(***************************************************************************)
EXTENDS MCPlaneLifecycle, FetchWave

CONSTANTS c1, c2

MCCarriers == <<c1, c2>>

VARIABLE part

planeVars == vars

\* There is no identity, and no command is given.
PlaneRests == Init /\ stored = NONE

\* The driver has not started.
WaveRests ==
    /\ published = 1 /\ carried = [c \in Carrier |-> 1] /\ up = {} /\ online = TRUE
    /\ held = 1 /\ asks = [s \in Sources |-> NoSnapshot] /\ tickets = {}
    /\ attempts = [s \in Sources |-> 0]
    /\ poll = "off" /\ inbox = {} /\ seen = 1 /\ want = 1 /\ wave = {} /\ restarts = 0

RefreshInit ==
    \/ part = "plane" /\ Init /\ WaveRests
    \/ part = "wave" /\ PlaneRests /\ WaveInit

RefreshNext ==
    \/ part = "plane" /\ SessionNext /\ UNCHANGED <<part, waveVars>>
    \/ part = "wave" /\ WaveNext /\ UNCHANGED <<part, planeVars>>

RefreshSpec ==
    /\ RefreshInit
    /\ [][RefreshNext]_<<part, planeVars, waveVars>>
    /\ Fairness
    /\ WaveFairness

=============================================================================
