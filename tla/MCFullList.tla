----------------------------- MODULE MCFullList -----------------------------
(***************************************************************************)
(* The ways a full list reaches a viewer, one at a time: "part" names what *)
(* moves in this behaviour, a ticket redeemed over a connection            *)
(* (ManifestServe), a list cut into parts and put together (ListingSplit), *)
(* or its family published and browsed (ListingFamily). The other two rest *)
(* in an initial state.                                                    *)
(***************************************************************************)
EXTENDS MCManifestServe, ListingSplit, ListingFamily

\* Two drafts that differ in what the teaser leaves out, one of another face and fewer
\* parts, and one that fits whole.
MCFaceOf == <<1, 1, 2, 3>>
MCPartsOf == <<<<1, 2>>, <<1, 3>>, <<4>>, <<>>>>

CONSTANT MaxLate  \* bound of the model: connections late or lost on a plane that is open

VARIABLE part

serveVars == vars

\* Two publishes are told apart by nothing but what they send.
FullListSymmetry == Symmetry \cup Permutations(Uploads)

ServeRests == Init /\ \A c \in Conns : request[c] # NONE
SplitRests ==
    /\ last = <<1>> /\ plainWeight = <<1>> /\ sealedWeight = <<1>> /\ measure = "plain"
    /\ phase = "draft" /\ family = <<>> /\ jobs = <<>> /\ unverified = <<>>
    /\ rounds = 0 /\ arrived = {}
FamilyRests == FamilyInit /\ ownDraft = 1 /\ bigSetting = NoRelay

FullListInit ==
    \/ part = "serve"  /\ Init /\ SplitRests /\ FamilyRests
    \/ part = "split"  /\ ServeRests /\ SplitInit /\ FamilyRests
    \/ part = "family" /\ ServeRests /\ SplitRests /\ FamilyInit

\* When the plane closes, they all are.
FewAreLate == open' => Cardinality({c \in Conns : late'[c]}) <= MaxLate

FullListNext ==
    /\ UNCHANGED part
    /\ \/ part = "serve"  /\ Next /\ FewAreLate /\ UNCHANGED <<splitVars, familyVars>>
       \/ part = "split"  /\ SplitNext         /\ UNCHANGED <<serveVars, familyVars>>
       \/ part = "family" /\ FamilyNext        /\ UNCHANGED <<serveVars, splitVars>>

FullListSpec == FullListInit /\ [][FullListNext]_<<part, serveVars, splitVars, familyVars>>

=============================================================================
