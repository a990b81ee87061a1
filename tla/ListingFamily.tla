---------------------------- MODULE ListingFamily ----------------------------
(***************************************************************************)
(* Where the full list of a long collection comes from. A publish puts a   *)
(* teaser on the public relays and, as a best effort, the split family on  *)
(* a big relay: the index, then its parts one by one, each replacing what  *)
(* stood under its name (commands/collection.rs, hb-net browse.rs). A      *)
(* viewer reads the teaser, then looks for the full list among the         *)
(* manifests it imported, on its own big relay, and on the one the teaser  *)
(* names (commands/browse.rs).                                             *)
(*                                                                         *)
(* A draft has a face: the entries the teaser has room for and the count   *)
(* of the others, which is all that its fingerprint is made from; the rest *)
(* is in its parts. Left out: how parts are cut and grafted (ListingSplit),*)
(* unpublishing (Publishing), evictions of the cache (ManifestCache),      *)
(* signatures and keys.                                                    *)
(***************************************************************************)
EXTENDS Naturals, Sequences, FiniteSets

CONSTANTS
    Drafts,       \* what the collection may look like
    FaceOf,       \* [Drafts -> the fingerprint of the teaser]
    PartsOf,      \* [Drafts -> the contents of the parts], empty when the listing fits whole
    BigRelays,    \* relays that take whole families
    OwnBig,       \* the viewer's own setting, or NoRelay
    Uploads,      \* publishes that may overlap
    NoRelay, NoEvent, NoTree,
    MaxDrafts, MaxUploads, MaxSettings, MaxImports, MaxViews   \* bounds of the model

Truncated(d) == PartsOf[d] # <<>>

Faces == {FaceOf[d] : d \in Drafts}
PartSlots == UNION {DOMAIN PartsOf[d] : d \in Drafts}
PartContents == UNION {{PartsOf[d][i] : i \in DOMAIN PartsOf[d]} : d \in Drafts}

ASSUME FamilyAssumption ==
    /\ \A d \in Drafts : PartsOf[d] \in Seq(PartContents) /\ PartsOf[d] # NoTree
    /\ NoEvent \notin Drafts
    /\ NoRelay \notin BigRelays /\ OwnBig \in BigRelays \cup {NoRelay}
    /\ {MaxDrafts, MaxUploads, MaxSettings, MaxImports, MaxViews} \subseteq Nat

VARIABLES
    ownDraft, bigSetting,      \* the owner's draft and big relay setting
    pool,                      \* the listing on the public relays: its draft, the relay it names
    storedIndex, storedPart,   \* on each big relay: the draft of the index, the parts by name
    upload,                    \* [Uploads -> a publish: what it sends, where, how far it is]
    imported,                  \* the viewer's manifests: [Faces -> a draft, or NoEvent]
    viewer,                    \* a browse of the collection
    uploads, settings, imports, views,
    drafted                    \* history: what the draft has been

ownerVars == <<ownDraft, bigSetting, settings, drafted>>
uploadVars == <<upload, uploads>>
relayVars == <<pool, storedIndex, storedPart>>
viewerVars == <<imported, imports, viewer, views>>
familyVars == <<ownerVars, uploadVars, relayVars, viewerVars>>

Unpublished == [draft |-> NoEvent, big |-> NoRelay]
NoUpload == [pc |-> "idle", draft |-> NoEvent, big |-> NoRelay, next |-> 1]
NotBrowsing == [pc |-> "closed", teaser |-> Unpublished, left |-> <<>>,
                index |-> NoEvent, tree |-> NoTree]

Listings == [draft : Drafts \cup {NoEvent}, big : BigRelays \cup {NoRelay}]

FamilyTypeOK ==
    /\ ownDraft \in Drafts /\ drafted \subseteq Drafts
    /\ bigSetting \in BigRelays \cup {NoRelay}
    /\ pool \in Listings
    /\ storedIndex \in [BigRelays -> Drafts \cup {NoEvent}]
    /\ storedPart \in [BigRelays -> [PartSlots -> PartContents \cup {NoEvent}]]
    /\ upload \in [Uploads -> [pc : {"idle", "teaser", "index", "parts"},
                               draft : Drafts \cup {NoEvent},
                               big : BigRelays \cup {NoRelay}, next : Nat]]
    /\ imported \in [Faces -> Drafts \cup {NoEvent}]
    /\ viewer \in [pc : {"closed", "cache", "big", "parts", "open"}, teaser : Listings,
                   left : Seq(BigRelays), index : Drafts \cup {NoEvent},
                   tree : {PartsOf[d] : d \in Drafts} \cup {NoTree}]
    /\ {uploads, settings, imports, views} \subseteq Nat

FamilyInit ==
    /\ ownDraft \in Drafts /\ drafted = {ownDraft}
    /\ bigSetting \in BigRelays \cup {NoRelay}
    /\ pool = Unpublished
    /\ storedIndex = [b \in BigRelays |-> NoEvent]
    /\ storedPart = [b \in BigRelays |-> [i \in PartSlots |-> NoEvent]]
    /\ upload = [u \in Uploads |-> NoUpload]
    /\ imported = [f \in Faces |-> NoEvent]
    /\ viewer = NotBrowsing
    /\ uploads = 0 /\ settings = 0 /\ imports = 0 /\ views = 0

-----------------------------------------------------------------------------
\* The owner.

EditDraft ==
    /\ Cardinality(drafted) < MaxDrafts
    /\ ownDraft' \in Drafts \ drafted
    /\ drafted' = drafted \cup {ownDraft'}
    /\ UNCHANGED <<bigSetting, settings, uploadVars, relayVars, viewerVars>>

ChangeSetting ==
    /\ settings < MaxSettings
    /\ bigSetting' \in (BigRelays \cup {NoRelay}) \ {bigSetting}
    /\ settings' = settings + 1
    /\ UNCHANGED <<ownDraft, drafted, uploadVars, relayVars, viewerVars>>

\* The relay that a truncated listing names and its family goes to.
BigTarget(d) == IF Truncated(d) THEN bigSetting ELSE NoRelay

\* The draft and the setting are read, and everything to send is made from them.
StartUpload(u) ==
    /\ upload[u].pc = "idle" /\ uploads < MaxUploads
    /\ uploads' = uploads + 1
    /\ upload' = [upload EXCEPT ![u] =
           [pc |-> "teaser", draft |-> ownDraft, big |-> BigTarget(ownDraft), next |-> 1]]
    /\ UNCHANGED <<ownerVars, relayVars, viewerVars>>

SendTeaser(u) ==
    /\ upload[u].pc = "teaser"
    /\ pool' = [draft |-> upload[u].draft, big |-> upload[u].big]
    /\ upload' = [upload EXCEPT ![u] =
           IF @.big = NoRelay THEN NoUpload ELSE [@ EXCEPT !.pc = "index"]]
    /\ UNCHANGED <<ownerVars, uploads, storedIndex, storedPart, viewerVars>>

SendIndex(u) ==
    /\ upload[u].pc = "index"
    /\ storedIndex' = [storedIndex EXCEPT ![upload[u].big] = upload[u].draft]
    /\ upload' = [upload EXCEPT ![u].pc = "parts"]
    /\ UNCHANGED <<ownerVars, uploads, pool, storedPart, viewerVars>>

SendPart(u) ==
    LET d == upload[u].draft
        k == upload[u].next
    IN  /\ upload[u].pc = "parts"
        /\ storedPart' = [storedPart EXCEPT ![upload[u].big][k] = PartsOf[d][k]]
        /\ upload' = [upload EXCEPT ![u] =
               IF k = Len(PartsOf[d]) THEN NoUpload ELSE [@ EXCEPT !.next = k + 1]]
        /\ UNCHANGED <<ownerVars, uploads, pool, storedIndex, viewerVars>>

\* The publish fails, or leaves the family behind unfinished.
UploadFails(u) ==
    /\ upload[u].pc # "idle"
    /\ upload' = [upload EXCEPT ![u] = NoUpload]
    /\ UNCHANGED <<ownerVars, uploads, relayVars, viewerVars>>

-----------------------------------------------------------------------------
\* The viewer.

\* A manifest that the owner made from the draft of some time, by ticket or from a file.
Import(d) ==
    /\ imports < MaxImports
    /\ imported' = [imported EXCEPT ![FaceOf[d]] = d]
    /\ imports' = imports + 1
    /\ UNCHANGED <<ownerVars, uploadVars, relayVars, viewer, views>>

\* The viewer's own big relay, then the one the teaser names if it is another.
FetchOrder(named) ==
    (IF OwnBig = NoRelay THEN <<>> ELSE <<OwnBig>>)
    \o (IF named \in {NoRelay, OwnBig} THEN <<>> ELSE <<named>>)

\* The newest listing on the public relays. One that is whole is shown as it is.
ReadTeaser ==
    /\ viewer.pc \in {"closed", "open"} /\ views < MaxViews
    /\ pool.draft # NoEvent
    /\ views' = views + 1
    /\ viewer' = [NotBrowsing EXCEPT
                    !.teaser = pool, !.pc = IF Truncated(pool.draft) THEN "cache" ELSE "open"]
    /\ UNCHANGED <<ownerVars, uploadVars, relayVars, imported, imports>>

OnlyViewerMoves == UNCHANGED <<ownerVars, uploadVars, relayVars, imported, imports, views>>

\* A manifest under the teaser's fingerprint spares the relays.
ReadCache ==
    LET cached == imported[FaceOf[viewer.teaser.draft]]
    IN  /\ viewer.pc = "cache"
        /\ viewer' = IF cached # NoEvent
                     THEN [viewer EXCEPT !.pc = "open", !.tree = PartsOf[cached]]
                     ELSE [viewer EXCEPT !.pc = "big", !.left = FetchOrder(viewer.teaser.big)]
        /\ OnlyViewerMoves

KeepTeaser ==
    /\ viewer.pc = "big" /\ viewer.left = <<>>
    /\ viewer' = [viewer EXCEPT !.pc = "open"]
    /\ OnlyViewerMoves

GivesUpRelay == viewer' = [viewer EXCEPT !.pc = "big", !.left = Tail(@), !.index = NoEvent]

\* First phase: the index. The relay may not answer.
ReadIndex ==
    /\ viewer.pc = "big" /\ viewer.left # <<>>
    /\ \/ /\ storedIndex[Head(viewer.left)] # NoEvent
          /\ viewer' = [viewer EXCEPT !.pc = "parts", !.index = storedIndex[Head(viewer.left)]]
       \/ GivesUpRelay
    /\ OnlyViewerMoves

\* Mutant of Fills, for FullListInOnePiece: a slot takes what came under its name.
FillsByName(d, i, j, content) == i = j

\* What came under the name of slot j goes into slot i of the index of draft d when it has
\* the hash that the index gives for i.
Fills(d, i, j, content) == content = PartsOf[d][i]

Filled(d, i, got, stored) == \E j \in got : Fills(d, i, j, stored[j])

\* The tree replaces the teaser when it is complete and was made with it.
Supersedes(d, got, stored, teaser) ==
    /\ \A i \in DOMAIN PartsOf[d] : Filled(d, i, got, stored)
    /\ FaceOf[d] = FaceOf[teaser]

Reassembled(d, got, stored) ==
    [i \in DOMAIN PartsOf[d] |-> stored[CHOOSE j \in got : Fills(d, i, j, stored[j])]]

\* Second phase: the parts that the index names, of which the relay hands out some.
ReadParts ==
    LET d == viewer.index
        stored == storedPart[Head(viewer.left)]
    IN  /\ viewer.pc = "parts"
        /\ \E got \in SUBSET {j \in DOMAIN PartsOf[d] : stored[j] # NoEvent} :
              IF Supersedes(d, got, stored, viewer.teaser.draft)
              THEN viewer' = [viewer EXCEPT !.pc = "open", !.tree = Reassembled(d, got, stored)]
              ELSE GivesUpRelay
        /\ OnlyViewerMoves

FamilyNext ==
    \/ EditDraft \/ ChangeSetting
    \/ \E u \in Uploads :
          StartUpload(u) \/ SendTeaser(u) \/ SendIndex(u) \/ SendPart(u) \/ UploadFails(u)
    \/ \E d \in drafted : Import(d)
    \/ ReadTeaser \/ ReadCache \/ KeepTeaser \/ ReadIndex \/ ReadParts

FamilySpec == FamilyInit /\ [][FamilyNext]_familyVars

-----------------------------------------------------------------------------
\* A full list that is shown in place of a teaser is in one piece: the collection as its
\* owner had it at one time, with the face of the teaser, although the parts of one
\* publish replace those of another while they are read, and any may be missing. (That it
\* is the list of this very teaser does not follow: drafts that differ in what the teaser
\* has no room for have one face.)
FullListInOnePiece ==
    viewer.tree # NoTree =>
        \E d \in drafted :
            viewer.tree = PartsOf[d] /\ FaceOf[d] = FaceOf[viewer.teaser.draft]

=============================================================================
