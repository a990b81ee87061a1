-------------------------- MODULE PublishingProofs --------------------------
(***************************************************************************)
(* What TLAPS proves of a collection on its way to the relays and to those *)
(* who look at it, whatever overlaps.                                      *)
(*                                                                         *)
(* Of ListingFamily: a full list that is shown is one draft, whole. The    *)
(* list does not name the draft it came from, so the invariant follows the *)
(* drafts on their way: whatever is being sent, or stored as a listing or  *)
(* an index, or imported, or read by the viewer, is something the draft    *)
(* has been. The parts on a relay carry no such claim. They may be of any  *)
(* draft, and what puts a list together takes only those that are what the *)
(* index of one draft says.                                                *)
(*                                                                         *)
(* Of ListingSplit: the parts of a published family carry each node of the *)
(* collection once, none is too long, and no folder comes after what is in *)
(* it. What was emitted, what the calls in progress have left and what was *)
(* not verified yet are pieces in a line; at every moment the line has the *)
(* whole collection, and a step cuts a piece of it in two, or moves one.   *)
(*                                                                         *)
(* Of Publishing: an unpublish is final, what the relays serve is what the *)
(* files record, and the visibility is the user's. The generation of the   *)
(* slug carries the first: a job that an unpublish has overtaken knows an  *)
(* older generation than the disk, and cannot save its marker any more.    *)
(* For the second, a job that runs alone is followed from step to step.    *)
(***************************************************************************)
EXTENDS ListingFamily, ListingSplit, Publishing, FiniteSetTheorems, WellFoundedInduction, TLAPS

-----------------------------------------------------------------------------
(* The full list in place of a teaser: ListingFamily *)

UploadRecords ==
    [pc : {"idle", "teaser", "index", "parts"}, draft : Drafts \cup {NoEvent},
     big : BigRelays \cup {NoRelay}, next : Nat]

ViewerRecords ==
    [pc : {"closed", "cache", "big", "parts", "open"}, teaser : Listings,
     left : Seq(BigRelays), index : Drafts \cup {NoEvent},
     tree : {PartsOf[d] : d \in Drafts} \cup {NoTree}]

\* A publish sends a draft, and the part it is at exists when there is a relay for it.
UploadOK(r) ==
    r.pc # "idle" =>
        /\ r.draft \in drafted
        /\ r.big # NoRelay => r.next \in 1 .. Len(PartsOf[r.draft])
        /\ r.pc \in {"index", "parts"} => r.big # NoRelay

\* The viewer looks at a listing, and reads the parts of an index.
ViewerOK(v) ==
    /\ v.pc # "closed" => v.teaser.draft \in drafted
    /\ v.pc = "parts" => v.index \in drafted /\ v.left # <<>>
    /\ v.pc \in {"cache", "big", "parts"} => v.tree = NoTree
    /\ v.tree # NoTree =>
           \E d \in drafted : v.tree = PartsOf[d] /\ FaceOf[d] = FaceOf[v.teaser.draft]

ImportOK ==
    \A f \in Faces :
        imported[f] # NoEvent => imported[f] \in drafted /\ FaceOf[imported[f]] = f

StoredOK ==
    /\ pool.draft \in drafted \cup {NoEvent}
    /\ \A b \in BigRelays : storedIndex[b] \in drafted \cup {NoEvent}

FamilyInv ==
    /\ FamilyTypeOK
    /\ ownDraft \in drafted
    /\ \A u \in Uploads : UploadOK(upload[u])
    /\ StoredOK
    /\ ImportOK
    /\ ViewerOK(viewer)

-----------------------------------------------------------------------------
\* What the operators return.

LEMMA PartsAreLists ==
    ASSUME NEW d \in Drafts
    PROVE  /\ PartsOf[d] \in Seq(PartContents)
           /\ DOMAIN PartsOf[d] = 1 .. Len(PartsOf[d]) /\ Len(PartsOf[d]) \in Nat
           /\ DOMAIN PartsOf[d] \subseteq PartSlots
           /\ PartsOf[d] # NoTree
           /\ Truncated(d) => 1 \in 1 .. Len(PartsOf[d])
<1>1. PartsOf[d] \in Seq(PartContents) /\ PartsOf[d] # NoTree
    BY FamilyAssumption
<1>2. DOMAIN PartsOf[d] = 1 .. Len(PartsOf[d]) /\ Len(PartsOf[d]) \in Nat
    BY <1>1
<1>3. DOMAIN PartsOf[d] \subseteq PartSlots
    BY DEF PartSlots
<1>4. Truncated(d) => 1 \in 1 .. Len(PartsOf[d])
    BY <1>1, <1>2 DEF Truncated
<1> QED
    BY <1>1, <1>2, <1>3, <1>4

LEMMA FetchOrderType ==
    ASSUME NEW named \in BigRelays \cup {NoRelay}
    PROVE  FetchOrder(named) \in Seq(BigRelays)
<1>1. (IF OwnBig = NoRelay THEN <<>> ELSE <<OwnBig>>) \in Seq(BigRelays)
    BY FamilyAssumption
<1>2. (IF named \in {NoRelay, OwnBig} THEN <<>> ELSE <<named>>) \in Seq(BigRelays)
    OBVIOUS
<1> QED
    BY <1>1, <1>2 DEF FetchOrder

\* Whatever is under the names, parts that fill every slot of an index are its draft.
LEMMA ReassembledIsWhole ==
    ASSUME NEW d \in Drafts, NEW got, NEW stored,
           \A i \in DOMAIN PartsOf[d] : Filled(d, i, got, stored)
    PROVE  Reassembled(d, got, stored) = PartsOf[d]
<1>1. ASSUME NEW i \in DOMAIN PartsOf[d]
      PROVE  stored[CHOOSE j \in got : Fills(d, i, j, stored[j])] = PartsOf[d][i]
    <2>1. \E j \in got : Fills(d, i, j, stored[j])
        BY DEF Filled
    <2>2. Fills(d, i, CHOOSE j \in got : Fills(d, i, j, stored[j]),
                stored[CHOOSE j \in got : Fills(d, i, j, stored[j])])
        BY <2>1
    <2> QED
        BY <2>2 DEF Fills
<1>2. PartsOf[d] = [i \in DOMAIN PartsOf[d] |-> PartsOf[d][i]]
    BY PartsAreLists
<1> QED
    BY <1>1, <1>2 DEF Reassembled

-----------------------------------------------------------------------------
\* The initial states.

LEMMA FamilyStarts == FamilyInit => FamilyInv
<1> SUFFICES ASSUME FamilyInit PROVE FamilyInv
    OBVIOUS
<1> USE FamilyAssumption DEF FamilyInit
<1>1. upload \in [Uploads -> UploadRecords] /\ \A u \in Uploads : UploadOK(upload[u])
    BY DEF NoUpload, UploadRecords, UploadOK
<1>2. viewer \in ViewerRecords /\ ViewerOK(viewer)
    <2>1. <<>> \in Seq(BigRelays)
        OBVIOUS
    <2> QED
        BY <2>1 DEF NotBrowsing, Unpublished, Listings, ViewerRecords, ViewerOK
<1>3. StoredOK /\ ImportOK
    BY DEF StoredOK, ImportOK, Unpublished
<1>4. /\ ownDraft \in Drafts /\ drafted \subseteq Drafts /\ ownDraft \in drafted
      /\ bigSetting \in BigRelays \cup {NoRelay} /\ pool \in Listings
      /\ storedIndex \in [BigRelays -> Drafts \cup {NoEvent}]
      /\ storedPart \in [BigRelays -> [PartSlots -> PartContents \cup {NoEvent}]]
      /\ imported \in [Faces -> Drafts \cup {NoEvent}]
      /\ {uploads, settings, imports, views} \subseteq Nat
    BY DEF Unpublished, Listings
<1> QED
    BY <1>1, <1>2, <1>3, <1>4 DEF FamilyInv, FamilyTypeOK, UploadRecords, ViewerRecords

-----------------------------------------------------------------------------
\* What a step leaves alone keeps its part of the invariant when the owner forgets nothing.

LEMMA UploadsKept ==
    ASSUME FamilyInv, upload' = upload, drafted \subseteq drafted'
    PROVE  \A u \in Uploads : UploadOK(upload[u])'
BY DEF FamilyInv, UploadOK

LEMMA StoredKept ==
    ASSUME FamilyInv, UNCHANGED <<pool, storedIndex>>, drafted \subseteq drafted'
    PROVE  StoredOK'
BY DEF FamilyInv, StoredOK

LEMMA ImportsKept ==
    ASSUME FamilyInv, UNCHANGED imported, drafted \subseteq drafted'
    PROVE  ImportOK'
BY DEF FamilyInv, ImportOK

LEMMA ViewerKept ==
    ASSUME FamilyInv, UNCHANGED viewer, drafted \subseteq drafted'
    PROVE  ViewerOK(viewer)'
BY DEF FamilyInv, ViewerOK

\* One publish moves on.
LEMMA UploadMoves ==
    ASSUME FamilyInv, NEW u \in Uploads, NEW r \in UploadRecords, UploadOK(r),
           upload' = [upload EXCEPT ![u] = r], drafted' = drafted
    PROVE  upload' \in [Uploads -> UploadRecords] /\ \A w \in Uploads : UploadOK(upload[w])'
<1>1. upload \in [Uploads -> UploadRecords] /\ \A w \in Uploads : UploadOK(upload[w])
    BY DEF FamilyInv, FamilyTypeOK, UploadRecords
<1>2. ASSUME NEW w \in Uploads PROVE upload'[w] = r \/ upload'[w] = upload[w]
    BY <1>1
<1>3. ASSUME NEW w \in Uploads PROVE UploadOK(upload[w])'
    <2>1. CASE upload'[w] = r
        BY <2>1 DEF UploadOK
    <2>2. CASE upload'[w] = upload[w]
        BY <1>1, <2>2 DEF UploadOK
    <2> QED
        BY <1>2, <2>1, <2>2
<1> QED
    BY <1>1, <1>3

-----------------------------------------------------------------------------
\* The owner's steps.

LEMMA EditKeepsInv == FamilyInv /\ EditDraft => FamilyInv'
<1> SUFFICES ASSUME FamilyInv, EditDraft PROVE FamilyInv'
    OBVIOUS
<1>1. drafted \subseteq drafted' /\ ownDraft' \in drafted' /\ drafted' \subseteq Drafts
    BY DEF EditDraft, FamilyInv, FamilyTypeOK
<1>2. UNCHANGED <<upload, pool, storedIndex, imported, viewer>>
    BY DEF EditDraft, uploadVars, relayVars, viewerVars
<1>3. FamilyTypeOK'
    BY <1>1 DEF EditDraft, FamilyInv, FamilyTypeOK, uploadVars, relayVars, viewerVars
<1> QED
    BY <1>1, <1>2, <1>3, UploadsKept, StoredKept, ImportsKept, ViewerKept DEF FamilyInv

LEMMA SettingKeepsInv == FamilyInv /\ ChangeSetting => FamilyInv'
<1> SUFFICES ASSUME FamilyInv, ChangeSetting PROVE FamilyInv'
    OBVIOUS
<1>1. UNCHANGED <<ownDraft, drafted, upload, pool, storedIndex, imported, viewer>>
    BY DEF ChangeSetting, uploadVars, relayVars, viewerVars
<1>2. FamilyTypeOK'
    BY DEF ChangeSetting, FamilyInv, FamilyTypeOK, uploadVars, relayVars, viewerVars
<1> QED
    BY <1>1, <1>2, UploadsKept, StoredKept, ImportsKept, ViewerKept DEF FamilyInv

LEMMA StartKeepsInv ==
    ASSUME FamilyInv, NEW u \in Uploads, StartUpload(u)
    PROVE  FamilyInv'
<1> DEFINE r == [pc |-> "teaser", draft |-> ownDraft, big |-> BigTarget(ownDraft), next |-> 1]
<1>1. ownDraft \in drafted /\ ownDraft \in Drafts /\ bigSetting \in BigRelays \cup {NoRelay}
    BY DEF FamilyInv, FamilyTypeOK
<1>2. r \in UploadRecords
    BY <1>1 DEF UploadRecords, BigTarget
<1>3. UploadOK(r)
    BY <1>1, PartsAreLists DEF UploadOK, BigTarget
<1>4. upload' = [upload EXCEPT ![u] = r] /\ drafted' = drafted
    BY DEF StartUpload, ownerVars
<1>5. upload' \in [Uploads -> UploadRecords] /\ \A w \in Uploads : UploadOK(upload[w])'
    BY <1>2, <1>3, <1>4, UploadMoves
<1>6. FamilyTypeOK'
    BY <1>5 DEF StartUpload, FamilyInv, FamilyTypeOK, UploadRecords, ownerVars, relayVars,
                viewerVars
<1>7. UNCHANGED <<ownDraft, pool, storedIndex, imported, viewer>>
    BY DEF StartUpload, ownerVars, relayVars, viewerVars
<1> QED
    BY <1>4, <1>5, <1>6, <1>7, StoredKept, ImportsKept, ViewerKept DEF FamilyInv

LEMMA UploadAt ==
    ASSUME FamilyInv, NEW u \in Uploads
    PROVE  upload[u] \in UploadRecords /\ UploadOK(upload[u]) /\ drafted \subseteq Drafts
BY DEF FamilyInv, FamilyTypeOK, UploadRecords

LEMMA NoUploadOK == NoUpload \in UploadRecords /\ UploadOK(NoUpload)
BY DEF NoUpload, UploadRecords, UploadOK

LEMMA TeaserKeepsInv ==
    ASSUME FamilyInv, NEW u \in Uploads, SendTeaser(u)
    PROVE  FamilyInv'
<1> DEFINE r == IF upload[u].big = NoRelay THEN NoUpload ELSE [upload[u] EXCEPT !.pc = "index"]
<1>1. r \in UploadRecords /\ UploadOK(r)
    <2>1. CASE upload[u].big = NoRelay
        BY <2>1, NoUploadOK
    <2>2. CASE upload[u].big # NoRelay
        BY <2>2, UploadAt DEF UploadRecords, UploadOK, SendTeaser
    <2> QED
        BY <2>1, <2>2
<1>2. upload' = [upload EXCEPT ![u] = r] /\ drafted' = drafted
    BY DEF SendTeaser, ownerVars
<1>3. upload' \in [Uploads -> UploadRecords] /\ \A w \in Uploads : UploadOK(upload[w])'
    BY <1>1, <1>2, UploadMoves
<1>4. pool' \in Listings /\ pool'.draft \in drafted
    BY UploadAt DEF SendTeaser, UploadRecords, UploadOK, Listings
<1>5. UNCHANGED <<ownDraft, storedIndex, imported, viewer>>
    BY DEF SendTeaser, ownerVars, viewerVars
<1>6. FamilyTypeOK'
    BY <1>3, <1>4 DEF SendTeaser, FamilyInv, FamilyTypeOK, UploadRecords, ownerVars, viewerVars
<1>7. StoredOK'
    BY <1>2, <1>4, <1>5 DEF FamilyInv, StoredOK
<1> QED
    BY <1>2, <1>3, <1>5, <1>6, <1>7, ImportsKept, ViewerKept DEF FamilyInv

LEMMA IndexKeepsInv ==
    ASSUME FamilyInv, NEW u \in Uploads, SendIndex(u)
    PROVE  FamilyInv'
<1> DEFINE r == [upload[u] EXCEPT !.pc = "parts"]
<1>1. r \in UploadRecords /\ UploadOK(r)
    BY UploadAt DEF UploadRecords, UploadOK, SendIndex
<1>2. upload' = [upload EXCEPT ![u] = r] /\ drafted' = drafted
    BY DEF SendIndex, ownerVars
<1>3. upload' \in [Uploads -> UploadRecords] /\ \A w \in Uploads : UploadOK(upload[w])'
    BY <1>1, <1>2, UploadMoves
<1>4. upload[u].draft \in drafted /\ drafted \subseteq Drafts
    BY UploadAt DEF SendIndex, UploadRecords, UploadOK
<1>5. /\ storedIndex' \in [BigRelays -> Drafts \cup {NoEvent}]
      /\ \A b \in BigRelays : storedIndex'[b] \in drafted \cup {NoEvent}
    BY <1>4 DEF SendIndex, FamilyInv, FamilyTypeOK, StoredOK
<1>6. UNCHANGED <<ownDraft, pool, imported, viewer>>
    BY DEF SendIndex, ownerVars, viewerVars
<1>7. FamilyTypeOK'
    BY <1>3, <1>5 DEF SendIndex, FamilyInv, FamilyTypeOK, UploadRecords, ownerVars, viewerVars
<1>8. StoredOK'
    BY <1>2, <1>5, <1>6 DEF FamilyInv, StoredOK
<1> QED
    BY <1>2, <1>3, <1>6, <1>7, <1>8, ImportsKept, ViewerKept DEF FamilyInv

LEMMA PartKeepsInv ==
    ASSUME FamilyInv, NEW u \in Uploads, SendPart(u)
    PROVE  FamilyInv'
<1> DEFINE d == upload[u].draft
           k == upload[u].next
           r == IF k = Len(PartsOf[d]) THEN NoUpload ELSE [upload[u] EXCEPT !.next = k + 1]
<1>1. /\ upload[u] \in UploadRecords /\ UploadOK(upload[u])
      /\ upload[u].pc = "parts" /\ upload[u].big \in BigRelays
      /\ d \in drafted /\ d \in Drafts /\ k \in 1 .. Len(PartsOf[d])
    BY UploadAt DEF SendPart, UploadRecords, UploadOK
<1>2. Len(PartsOf[d]) \in Nat /\ k \in DOMAIN PartsOf[d] /\ k \in PartSlots
    BY <1>1, PartsAreLists
<1>3. r \in UploadRecords /\ UploadOK(r)
    <2>1. CASE k = Len(PartsOf[d])
        BY <2>1, NoUploadOK
    <2>2. CASE k # Len(PartsOf[d])
        <3>1. k + 1 \in 1 .. Len(PartsOf[d]) /\ k + 1 \in Nat
            BY <1>1, <1>2, <2>2
        <3>2. r = [upload[u] EXCEPT !.next = k + 1]
            BY <2>2
        <3>3. r \in UploadRecords
            BY <1>1, <3>1, <3>2 DEF UploadRecords
        <3>4. r.draft = d /\ r.big = upload[u].big /\ r.pc = "parts" /\ r.next = k + 1
            BY <1>1, <3>2 DEF UploadRecords
        <3>5. r.big # NoRelay
            BY <1>1, <3>4, FamilyAssumption
        <3> QED
            BY <1>1, <3>1, <3>3, <3>4, <3>5 DEF UploadOK
    <2> QED
        BY <2>1, <2>2
<1>4. upload' = [upload EXCEPT ![u] = r] /\ drafted' = drafted
    BY DEF SendPart, ownerVars
<1>5. upload' \in [Uploads -> UploadRecords] /\ \A w \in Uploads : UploadOK(upload[w])'
    BY <1>3, <1>4, UploadMoves
<1>6. storedPart' \in [BigRelays -> [PartSlots -> PartContents \cup {NoEvent}]]
    <2>1. PartsOf[d][k] \in PartContents
        BY <1>1, <1>2, PartsAreLists
    <2>2. storedPart \in [BigRelays -> [PartSlots -> PartContents \cup {NoEvent}]]
        BY DEF FamilyInv, FamilyTypeOK
    <2>3. storedPart' = [storedPart EXCEPT ![upload[u].big][k] = PartsOf[d][k]]
        BY DEF SendPart
    <2> HIDE DEF d, k
    <2> QED
        BY <1>1, <1>2, <2>1, <2>2, <2>3
<1>7. UNCHANGED <<ownDraft, pool, storedIndex, imported, viewer>>
    BY DEF SendPart, ownerVars, viewerVars
<1>8. FamilyTypeOK'
    BY <1>5, <1>6 DEF SendPart, FamilyInv, FamilyTypeOK, UploadRecords, ownerVars, viewerVars
<1> QED
    BY <1>4, <1>5, <1>7, <1>8, StoredKept, ImportsKept, ViewerKept DEF FamilyInv

LEMMA FailureKeepsInv ==
    ASSUME FamilyInv, NEW u \in Uploads, UploadFails(u)
    PROVE  FamilyInv'
<1>1. upload' = [upload EXCEPT ![u] = NoUpload] /\ drafted' = drafted
    BY DEF UploadFails, ownerVars
<1>2. upload' \in [Uploads -> UploadRecords] /\ \A w \in Uploads : UploadOK(upload[w])'
    BY <1>1, NoUploadOK, UploadMoves
<1>3. UNCHANGED <<ownDraft, pool, storedIndex, imported, viewer>>
    BY DEF UploadFails, ownerVars, relayVars, viewerVars
<1>4. FamilyTypeOK'
    BY <1>2 DEF UploadFails, FamilyInv, FamilyTypeOK, UploadRecords, ownerVars, relayVars,
                viewerVars
<1> QED
    BY <1>1, <1>2, <1>3, <1>4, StoredKept, ImportsKept, ViewerKept DEF FamilyInv

-----------------------------------------------------------------------------
\* The viewer's steps.

LEMMA ImportKeepsInv ==
    ASSUME FamilyInv, NEW d \in drafted, Import(d)
    PROVE  FamilyInv'
<1>1. d \in Drafts /\ FaceOf[d] \in Faces /\ imported \in [Faces -> Drafts \cup {NoEvent}]
    BY DEF FamilyInv, FamilyTypeOK, Faces
<1>2. imported' = [imported EXCEPT ![FaceOf[d]] = d]
    BY DEF Import
<1>3. UNCHANGED <<ownDraft, drafted, upload, pool, storedIndex, viewer>>
    BY DEF Import, ownerVars, uploadVars, relayVars
<1>4. imported' \in [Faces -> Drafts \cup {NoEvent}]
    BY <1>1, <1>2
<1>5. ImportOK'
    BY <1>1, <1>2, <1>3 DEF ImportOK, FamilyInv
<1>6. FamilyTypeOK'
    BY <1>4 DEF Import, FamilyInv, FamilyTypeOK, ownerVars, uploadVars, relayVars
<1> QED
    BY <1>3, <1>5, <1>6, UploadsKept, StoredKept, ViewerKept DEF FamilyInv

\* A step of the browse: nothing of the owner's or the relays' moves.
LEMMA ViewerMoves ==
    ASSUME FamilyInv, UNCHANGED <<ownerVars, uploadVars, relayVars, imported, imports>>,
           views' \in Nat, viewer' \in ViewerRecords, ViewerOK(viewer')
    PROVE  FamilyInv'
<1>1. UNCHANGED <<ownDraft, drafted, bigSetting, settings, upload, uploads, pool, storedIndex,
                  storedPart, imported, imports>>
    BY DEF ownerVars, uploadVars, relayVars
<1>2. FamilyTypeOK'
    BY <1>1 DEF FamilyInv, FamilyTypeOK, ViewerRecords
<1>3. ViewerOK(viewer)'
    BY <1>1 DEF ViewerOK
<1> QED
    BY <1>1, <1>2, <1>3, UploadsKept, StoredKept, ImportsKept DEF FamilyInv

LEMMA ViewerAt == FamilyInv => viewer \in ViewerRecords /\ ViewerOK(viewer)
BY DEF FamilyInv, FamilyTypeOK, ViewerRecords

LEMMA ReadTeaserKeepsInv == FamilyInv /\ ReadTeaser => FamilyInv'
<1> SUFFICES ASSUME FamilyInv, ReadTeaser PROVE FamilyInv'
    OBVIOUS
<1>1. pool \in Listings /\ pool.draft \in drafted
    BY DEF FamilyInv, FamilyTypeOK, StoredOK, ReadTeaser
<1>2. viewer' \in ViewerRecords /\ ViewerOK(viewer')
    <2>1. viewer' = [pc |-> IF Truncated(pool.draft) THEN "cache" ELSE "open", teaser |-> pool,
                     left |-> <<>>, index |-> NoEvent, tree |-> NoTree]
        BY DEF ReadTeaser, NotBrowsing
    <2>2. <<>> \in Seq(BigRelays)
        OBVIOUS
    <2> QED
        BY <1>1, <2>1, <2>2 DEF ViewerRecords, ViewerOK
<1>3. views' \in Nat
    BY DEF ReadTeaser, FamilyInv, FamilyTypeOK
<1> QED
    BY <1>2, <1>3, ViewerMoves DEF ReadTeaser

LEMMA ReadCacheKeepsInv == FamilyInv /\ ReadCache => FamilyInv'
<1> SUFFICES ASSUME FamilyInv, ReadCache PROVE FamilyInv'
    OBVIOUS
<1> DEFINE cached == imported[FaceOf[viewer.teaser.draft]]
<1>1. /\ viewer \in ViewerRecords /\ ViewerOK(viewer) /\ viewer.pc = "cache"
      /\ viewer.teaser.draft \in drafted /\ viewer.teaser.draft \in Drafts
    BY ViewerAt DEF ReadCache, ViewerOK, FamilyInv, FamilyTypeOK
<1>2. viewer' \in ViewerRecords /\ ViewerOK(viewer')
    <2>1. CASE cached # NoEvent
        <3>1. cached \in drafted /\ cached \in Drafts
              /\ FaceOf[cached] = FaceOf[viewer.teaser.draft]
            BY <1>1, <2>1 DEF FamilyInv, FamilyTypeOK, ImportOK, Faces
        <3>2. viewer' = [viewer EXCEPT !.pc = "open", !.tree = PartsOf[cached]]
            BY <2>1 DEF ReadCache
        <3> HIDE DEF cached
        <3> QED
            BY <1>1, <3>1, <3>2 DEF ViewerRecords, ViewerOK
    <2>2. CASE cached = NoEvent
        <3>1. viewer' = [viewer EXCEPT !.pc = "big", !.left = FetchOrder(viewer.teaser.big)]
            BY <2>2 DEF ReadCache
        <3>2. FetchOrder(viewer.teaser.big) \in Seq(BigRelays)
            BY <1>1, FetchOrderType DEF ViewerRecords, Listings
        <3> QED
            BY <1>1, <3>1, <3>2 DEF ViewerRecords, ViewerOK
    <2> QED
        BY <2>1, <2>2
<1>3. views' \in Nat
    BY DEF ReadCache, OnlyViewerMoves, FamilyInv, FamilyTypeOK
<1> QED
    BY <1>2, <1>3, ViewerMoves DEF ReadCache, OnlyViewerMoves

LEMMA KeepTeaserKeepsInv == FamilyInv /\ KeepTeaser => FamilyInv'
<1> SUFFICES ASSUME FamilyInv, KeepTeaser PROVE FamilyInv'
    OBVIOUS
<1>1. viewer \in ViewerRecords /\ ViewerOK(viewer)
    BY ViewerAt
<1>2. viewer' \in ViewerRecords /\ ViewerOK(viewer')
    BY <1>1 DEF KeepTeaser, ViewerRecords, ViewerOK
<1>3. views' \in Nat
    BY DEF KeepTeaser, OnlyViewerMoves, FamilyInv, FamilyTypeOK
<1> QED
    BY <1>2, <1>3, ViewerMoves DEF KeepTeaser, OnlyViewerMoves

LEMMA RelayGivenUp ==
    ASSUME FamilyInv, viewer.pc \in {"big", "parts"}, viewer.left # <<>>, GivesUpRelay
    PROVE  viewer' \in ViewerRecords /\ ViewerOK(viewer')
<1>1. viewer \in ViewerRecords /\ ViewerOK(viewer)
    BY ViewerAt
<1>2. Tail(viewer.left) \in Seq(BigRelays)
    BY <1>1 DEF ViewerRecords
<1> QED
    BY <1>1, <1>2 DEF GivesUpRelay, ViewerRecords, ViewerOK

LEMMA ReadIndexKeepsInv == FamilyInv /\ ReadIndex => FamilyInv'
<1> SUFFICES ASSUME FamilyInv, ReadIndex PROVE FamilyInv'
    OBVIOUS
<1>1. /\ viewer \in ViewerRecords /\ ViewerOK(viewer)
      /\ viewer.pc = "big" /\ viewer.left # <<>> /\ Head(viewer.left) \in BigRelays
    BY ViewerAt DEF ReadIndex, ViewerRecords
<1>2. viewer' \in ViewerRecords /\ ViewerOK(viewer')
    <2>1. CASE /\ storedIndex[Head(viewer.left)] # NoEvent
               /\ viewer' = [viewer EXCEPT !.pc = "parts",
                                           !.index = storedIndex[Head(viewer.left)]]
        <3>1. storedIndex[Head(viewer.left)] \in drafted /\ drafted \subseteq Drafts
            BY <1>1, <2>1 DEF FamilyInv, FamilyTypeOK, StoredOK
        <3> QED
            BY <1>1, <2>1, <3>1 DEF ViewerRecords, ViewerOK
    <2>2. CASE GivesUpRelay
        BY <1>1, <2>2, RelayGivenUp
    <2> QED
        BY <2>1, <2>2 DEF ReadIndex
<1>3. views' \in Nat
    BY DEF ReadIndex, OnlyViewerMoves, FamilyInv, FamilyTypeOK
<1> QED
    BY <1>2, <1>3, ViewerMoves DEF ReadIndex, OnlyViewerMoves

LEMMA ReadPartsKeepsInv == FamilyInv /\ ReadParts => FamilyInv'
<1> SUFFICES ASSUME FamilyInv, ReadParts PROVE FamilyInv'
    OBVIOUS
<1> DEFINE d == viewer.index
           stored == storedPart[Head(viewer.left)]
<1>1. /\ viewer \in ViewerRecords /\ ViewerOK(viewer)
      /\ viewer.pc = "parts" /\ viewer.left # <<>>
      /\ d \in drafted /\ d \in Drafts
    BY ViewerAt DEF ReadParts, ViewerOK, FamilyInv, FamilyTypeOK
<1>2. PICK got \in SUBSET {j \in DOMAIN PartsOf[d] : stored[j] # NoEvent} :
          IF Supersedes(d, got, stored, viewer.teaser.draft)
          THEN viewer' = [viewer EXCEPT !.pc = "open", !.tree = Reassembled(d, got, stored)]
          ELSE GivesUpRelay
    BY DEF ReadParts
<1>3. viewer' \in ViewerRecords /\ ViewerOK(viewer')
    <2>1. CASE Supersedes(d, got, stored, viewer.teaser.draft)
        <3>1. FaceOf[d] = FaceOf[viewer.teaser.draft] /\ Reassembled(d, got, stored) = PartsOf[d]
            BY <1>1, <2>1, ReassembledIsWhole DEF Supersedes
        <3>2. viewer' = [viewer EXCEPT !.pc = "open", !.tree = PartsOf[d]]
            BY <1>2, <2>1, <3>1
        <3> HIDE DEF d, stored
        <3> QED
            BY <1>1, <3>1, <3>2 DEF ViewerRecords, ViewerOK
    <2>2. CASE ~Supersedes(d, got, stored, viewer.teaser.draft)
        BY <1>1, <1>2, <2>2, RelayGivenUp
    <2> QED
        BY <2>1, <2>2
<1>4. views' \in Nat
    BY DEF ReadParts, OnlyViewerMoves, FamilyInv, FamilyTypeOK
<1> QED
    BY <1>3, <1>4, ViewerMoves DEF ReadParts, OnlyViewerMoves

-----------------------------------------------------------------------------
LEMMA FamilyInvStep == FamilyInv /\ [FamilyNext]_familyVars => FamilyInv'
<1> SUFFICES ASSUME FamilyInv, [FamilyNext]_familyVars PROVE FamilyInv'
    OBVIOUS
<1>1. CASE \E u \in Uploads : \/ StartUpload(u) \/ SendTeaser(u) \/ SendIndex(u)
                              \/ SendPart(u) \/ UploadFails(u)
    BY <1>1, StartKeepsInv, TeaserKeepsInv, IndexKeepsInv, PartKeepsInv, FailureKeepsInv
<1>2. CASE EditDraft \/ ChangeSetting
    BY <1>2, EditKeepsInv, SettingKeepsInv
<1>3. CASE \E d \in drafted : Import(d)
    BY <1>3, ImportKeepsInv
<1>4. CASE ReadTeaser \/ ReadCache \/ KeepTeaser \/ ReadIndex \/ ReadParts
    BY <1>4, ReadTeaserKeepsInv, ReadCacheKeepsInv, KeepTeaserKeepsInv, ReadIndexKeepsInv,
       ReadPartsKeepsInv
<1>5. CASE UNCHANGED familyVars
    <2>1. UNCHANGED <<ownerVars, uploadVars, relayVars, imported, imports, viewer, views>>
        BY <1>5 DEF familyVars, viewerVars
    <2>2. views' \in Nat
        BY <2>1 DEF FamilyInv, FamilyTypeOK
    <2>3. viewer' \in ViewerRecords /\ ViewerOK(viewer')
        BY <2>1, ViewerAt
    <2> QED
        BY <2>1, <2>2, <2>3, ViewerMoves
<1> QED
    BY <1>1, <1>2, <1>3, <1>4, <1>5 DEF FamilyNext

LEMMA FamilyInvariant == FamilySpec => []FamilyInv
<1>1. FamilyInv /\ [FamilyNext]_familyVars => FamilyInv'
    BY FamilyInvStep
<1> QED
    BY FamilyStarts, <1>1, PTL DEF FamilySpec

\* The variables keep their types, for any drafts, relays, publishes and bounds
\* (commands/collection.rs, commands/browse.rs).
THEOREM FamilyTypeCorrect == FamilySpec => []FamilyTypeOK
<1>1. FamilyInv => FamilyTypeOK
    BY DEF FamilyInv
<1> QED
    BY FamilyInvariant, <1>1, PTL

\* What is shown in place of a teaser is one draft of the owner, whole, and its face is that
\* of the teaser: the two phases of the fetch, the hashes of the index and the check of
\* completeness and fingerprint (hb-net browse.rs, render.rs) rule out a mixture.
THEOREM FullListIsOnePiece == FamilySpec => []FullListInOnePiece
<1>1. FamilyInv => FullListInOnePiece
    BY DEF FamilyInv, ViewerOK, FullListInOnePiece
<1> QED
    BY FamilyInvariant, <1>1, PTL

-----------------------------------------------------------------------------
(* One collection between the disk and the relays: Publishing *)

PublishJobs == PublishSlots \cup {Watch}

\* What the files, the page and the history may be.
PlainTypes ==
    /\ edits \in 0..MaxEdits
    /\ draft \in Collections \cup {None} /\ waiting \in Collections \cup {None}
    /\ spec \in Selections \cup {None}
    /\ homeRow \in Shown \cup {None} /\ screen \in Shown \cup {None} /\ publishing \in BOOLEAN
    /\ marker \in Tiers \cup {None}
    /\ baseline \in Trees \cup {None} /\ listing \in Trees \cup {None}
    /\ clicks \in 0..MaxClicks /\ exits \in 0..MaxExits
    /\ pressed \subseteq Selections /\ wish \in Tiers
    /\ current \in BOOLEAN /\ crossed \in BOOLEAN /\ unrecorded \in BOOLEAN

\* A job that an unpublish has overtaken knows an older generation than the disk.
JobOK(w, generation) ==
    /\ w \in Jobs
    /\ w.revoked <= generation
    /\ w.late = TRUE => w.step \notin {"idle", "asked"} /\ w.revoked < generation
    /\ w.step \in {"hiding", "sending", "marking", "walking"} => w.tree # None

Retiring == {j \in PublishJobs : job[j].step \in {"retracting", "dropping"}}

\* Every new generation, past or to come, was a click.
JobsInv ==
    /\ job \in [PublishJobs -> Jobs]
    /\ \A j \in PublishJobs : JobOK(job[j], revoked)
    /\ revoked \in Nat
    /\ IsFiniteSet(Retiring)
    /\ revoked + Cardinality(Retiring) <= clicks

\* What a job on its own knows of the relays and the draft.
JobLedger(w, l, d, u) ==
    /\ w.step \in {"hiding", "sending", "marking"} => d # None /\ d.tree = w.tree
    /\ w.step = "marking" /\ w.tier = "Public" => l = w.tree
    /\ u = FALSE =>
          /\ w.step \in {"sending", "marking"} /\ w.tier = "Private" => l = None
          /\ w.step \in {"dropping", "sweeping"} => l = None

Accounted(l, m, b, u) == u = FALSE /\ l # None => m = "Public" /\ l = b

\* Until something crosses, at most one job is in flight, and what the relays serve is
\* what the files say, but for the steps between a publish and its marker and for what
\* a failure has left unrecorded.
Sequential ==
    crossed = FALSE =>
        /\ \A j, k \in PublishJobs : job[j].step # "idle" /\ job[k].step # "idle" => j = k
        /\ \A j \in PublishJobs : JobLedger(job[j], listing, draft, unrecorded)
        /\ (\A j \in PublishJobs : job[j].step \notin {"marking", "undoing"})
              => Accounted(listing, marker, baseline, unrecorded)

PublishInv ==
    /\ PlainTypes
    /\ JobsInv
    /\ marker # None => current = TRUE
    /\ Sequential

LEMMA NoJobTyped ==
    /\ NoJob \in Jobs /\ NoJob.step = "idle" /\ NoJob.late = FALSE /\ NoJob.revoked = 0
    /\ NoJob.from = None /\ NoJob.tree = None
BY PublishingAssumption DEF NoJob, Jobs, Steps, Tiers

LEMMA RevokedBounded ==
    ASSUME PlainTypes, JobsInv
    PROVE  /\ revoked \in 0..MaxClicks /\ revoked <= clicks
           /\ Cardinality(Retiring) \in Nat
           /\ Retiring # {} => revoked < clicks
<1>1. Cardinality(Retiring) \in Nat
    BY FS_CardinalityType DEF JobsInv
<1>2. clicks \in Nat /\ clicks <= MaxClicks /\ MaxClicks \in Nat
    BY PublishingAssumption DEF PlainTypes
<1>3. Retiring # {} => Cardinality(Retiring) # 0
    BY FS_EmptySet DEF JobsInv
<1> QED BY <1>1, <1>2, <1>3 DEF JobsInv

LEMMA PublishInvTypes == PublishInv => PublishTypeOK
<1> SUFFICES ASSUME PublishInv PROVE PublishTypeOK
    OBVIOUS
<1>1. revoked \in 0..MaxClicks
    BY RevokedBounded DEF PublishInv
<1>2. \A j \in PublishJobs : job[j].step \in {"hiding", "sending", "marking"} => job[j].tree # None
    BY DEF PublishInv, JobsInv, JobOK
<1> QED BY <1>1, <1>2 DEF PublishInv, PlainTypes, JobsInv, PublishTypeOK, PublishJobs

LEMMA InitPublishInv == PublishInit => PublishInv
<1> SUFFICES ASSUME PublishInit PROVE PublishInv
    OBVIOUS
<1>1. PlainTypes
  <2>1. MaxEdits \in Nat /\ MaxClicks \in Nat /\ MaxExits \in Nat
      BY PublishingAssumption
  <2>2. edits \in 0..MaxEdits /\ clicks \in 0..MaxClicks /\ exits \in 0..MaxExits
      BY <2>1 DEF PublishInit
  <2>3. publishing \in BOOLEAN /\ current \in BOOLEAN /\ crossed \in BOOLEAN
        /\ unrecorded \in BOOLEAN
      BY DEF PublishInit
  <2> QED BY <2>2, <2>3 DEF PublishInit, PlainTypes, Tiers
<1>2. job \in [PublishJobs -> Jobs] /\ \A j \in PublishJobs : job[j] = NoJob
    BY NoJobTyped DEF PublishInit, PublishJobs
<1>3. Retiring = {}
    BY <1>2, NoJobTyped DEF Retiring
<1>4. JobsInv
  <2>1. \A j \in PublishJobs : JobOK(job[j], revoked)
      BY <1>2, NoJobTyped DEF JobOK, PublishInit
  <2> QED BY <1>2, <1>3, <2>1, FS_EmptySet DEF JobsInv, PublishInit
<1>5. Sequential
    BY <1>2, NoJobTyped DEF Sequential, JobLedger, Accounted, PublishInit
<1> QED BY <1>1, <1>4, <1>5 DEF PublishInv, PublishInit

-----------------------------------------------------------------------------
(* What a step of one job does to all *)

LEMMA OthersStay ==
    ASSUME JobsInv, NEW j \in PublishJobs, NEW w, job' = [job EXCEPT ![j] = w]
    PROVE  job'[j] = w /\ \A k \in PublishJobs : k # j => job'[k] = job[k]
BY DEF JobsInv

LEMMA JobMoves ==
    ASSUME JobsInv, NEW j \in PublishJobs, NEW w, job' = [job EXCEPT ![j] = w], JobOK(w, revoked),
           w.step \in {"retracting", "dropping"} <=> job[j].step \in {"retracting", "dropping"},
           revoked' = revoked, clicks \in Nat, clicks' \in Nat, clicks <= clicks'
    PROVE  JobsInv'
<1>1. job'[j] = w /\ \A k \in PublishJobs : k # j => job'[k] = job[k]
    BY OthersStay
<1>2. w \in Jobs
    BY DEF JobOK
<1>3. job' \in [PublishJobs -> Jobs]
    BY <1>2 DEF JobsInv
<1>4. \A k \in PublishJobs : JobOK(job'[k], revoked')
    BY <1>1 DEF JobsInv
<1>5. Retiring' = Retiring
    BY <1>1 DEF Retiring
<1>6. Cardinality(Retiring) \in Nat
    BY FS_CardinalityType DEF JobsInv
<1> QED BY <1>3, <1>4, <1>5, <1>6 DEF JobsInv

LEMMA Alone ==
    ASSUME Sequential, crossed = FALSE, NEW j \in PublishJobs, job[j].step # "idle"
    PROVE  /\ \A k \in PublishJobs : k # j => job[k].step = "idle"
           /\ JobLedger(job[j], listing, draft, unrecorded)
           /\ job[j].step \notin {"marking", "undoing"} => Accounted(listing, marker, baseline, unrecorded)
<1>1. \A k \in PublishJobs : k # j => job[k].step = "idle"
    BY DEF Sequential
<1> QED BY <1>1 DEF Sequential

LEMMA AloneAfter ==
    ASSUME JobsInv, NEW j \in PublishJobs, NEW w, job' = [job EXCEPT ![j] = w],
           crossed' = FALSE =>
              /\ \A k \in PublishJobs : k # j => job[k].step = "idle"
              /\ JobLedger(w, listing', draft', unrecorded')
              /\ w.step \notin {"marking", "undoing"} => Accounted(listing', marker', baseline', unrecorded')
    PROVE  Sequential'
<1> SUFFICES ASSUME crossed' = FALSE
             PROVE  /\ \A i, k \in PublishJobs : job'[i].step # "idle" /\ job'[k].step # "idle" => i = k
                    /\ \A i \in PublishJobs : JobLedger(job'[i], listing', draft', unrecorded')
                    /\ (\A i \in PublishJobs : job'[i].step \notin {"marking", "undoing"})
                          => Accounted(listing', marker', baseline', unrecorded')
    BY DEF Sequential, JobLedger, Accounted
<1>1. job'[j] = w /\ \A k \in PublishJobs : k # j => job'[k] = job[k]
    BY OthersStay
<1>2. \A k \in PublishJobs : k # j => job'[k].step = "idle"
    BY <1>1
<1>3. \A i \in PublishJobs : JobLedger(job'[i], listing', draft', unrecorded')
  <2>1. \A k \in PublishJobs : k # j => JobLedger(job'[k], listing', draft', unrecorded')
      BY <1>2 DEF JobLedger
  <2> QED BY <1>1, <2>1
<1> QED BY <1>1, <1>2, <1>3

LEMMA QuietAlone ==
    ASSUME JobsInv, Quiet
    PROVE  \A k \in PublishJobs : job[k].step = "idle"
BY DEF Quiet, JobsInv

\* A step of the page or the folders touches no job, and no file but through the page.
LEMMA PageStepPublish ==
    ASSUME PublishInv,
           FoldersChange \/ OpenEditor \/ Close \/ Reload \/ \E c \in Selections : Scan(c)
    PROVE  PublishInv'
<1> USE DEF PublishInv
<1>1. UNCHANGED <<files, listing, job, exits, publishHistory>>
    BY DEF FoldersChange, OpenEditor, Close, Reload, Scan, publishHistory
<1>2. /\ edits' \in 0..MaxEdits
      /\ waiting' \in Collections \cup {None}
      /\ homeRow' \in Shown \cup {None} /\ screen' \in Shown \cup {None} /\ publishing' \in BOOLEAN
      /\ clicks' \in 0..MaxClicks /\ clicks <= clicks' /\ clicks \in Nat
  <2>0. clicks \in Nat /\ edits \in Nat /\ MaxEdits \in Nat /\ MaxClicks \in Nat
      BY PublishingAssumption DEF PlainTypes
  <2>1. CASE FoldersChange
      BY <2>0, <2>1 DEF FoldersChange, PlainTypes, page
  <2>2. CASE OpenEditor
      BY <2>0, <2>2 DEF OpenEditor, PlainTypes
  <2>3. CASE Close
    <3>1. publishing' \in BOOLEAN
        BY <2>3 DEF Close
    <3>2. UNCHANGED <<edits, waiting, homeRow, clicks>> /\ screen' = None
        BY <2>3 DEF Close
    <3> QED BY <2>0, <3>1, <3>2 DEF PlainTypes
  <2>4. CASE Reload
    <3>1. draft # None => ViewOf(draft) \in Shown
        BY DEF PlainTypes, ViewOf, Collections, Trees, Shown
    <3> QED BY <2>0, <2>4, <3>1 DEF Reload, PlainTypes
  <2>5. CASE \E c \in Selections : Scan(c)
    <3>1. PICK c \in Selections : Scan(c)
        BY <2>5
    <3>2. Scanned(c) \in Collections
      <4>1. CASE draft = None /\ waiting # None /\ waiting.tree.choice = c
          BY <4>1 DEF Scanned, PlainTypes
      <4>2. CASE ~(draft = None /\ waiting # None /\ waiting.tree.choice = c)
          BY <4>2 DEF Scanned, PlainTypes, Collections, Trees, Tiers
      <4> QED BY <4>1, <4>2
    <3>3. ViewOf(Scanned(c)) \in Shown
        BY <3>2 DEF ViewOf, Collections, Trees, Shown
    <3> QED BY <2>0, <3>1, <3>2, <3>3 DEF Scan, Clicks, PlainTypes
  <2> QED BY <2>1, <2>2, <2>3, <2>4, <2>5
<1>3. PlainTypes'
    BY <1>1, <1>2 DEF PlainTypes, files, publishHistory
<1>4. JobsInv'
  <2>1. Retiring' = Retiring /\ job' = job /\ revoked' = revoked
      BY <1>1 DEF Retiring, files
  <2>2. Cardinality(Retiring) \in Nat /\ clicks \in Nat /\ clicks' \in Nat
      BY <1>2, RevokedBounded
  <2> QED BY <1>2, <2>1, <2>2 DEF JobsInv
<1>5. Sequential'
    BY <1>1 DEF Sequential, files, publishHistory
<1> QED BY <1>1, <1>3, <1>4, <1>5 DEF files, publishHistory

\* A command or the watch puts a job in an idle slot.
LEMMA BeginsPublish ==
    ASSUME PublishInv, NEW j \in PublishJobs, NEW w, job[j] = NoJob,
           job' = [job EXCEPT ![j] = w], w \in Jobs, w.late = FALSE, w.revoked <= revoked,
           w.step \in {"asked", "walking"}, w.step = "walking" => w.tree # None,
           crossed' = FALSE => crossed = FALSE /\ Quiet, revoked' = revoked, marker' = marker,
           listing' = listing, baseline' = baseline, current' = current,
           unrecorded' = unrecorded,
           clicks \in Nat, clicks' \in Nat, clicks <= clicks'
    PROVE  /\ JobsInv' /\ Sequential'
           /\ marker' # None => current' = TRUE
<1> USE DEF PublishInv
<1>1. JobOK(w, revoked)
    BY DEF JobOK
<1>2. JobsInv'
    BY <1>1, NoJobTyped, JobMoves
<1>4. JobLedger(w, listing', draft', unrecorded')
    BY DEF JobLedger
<1>5. crossed' = FALSE => Accounted(listing, marker, baseline, unrecorded)
    BY QuietAlone DEF Sequential
<1>6. Sequential'
    BY <1>4, <1>5, QuietAlone, AloneAfter DEF Accounted
<1> QED BY <1>2, <1>6

LEMMA PublishBeginStep ==
    ASSUME PublishInv,
           \/ \E j \in PublishSlots, tier \in Tiers : PublishFromScreen(j, tier)
           \/ \E j \in PublishSlots : PublishFromRow(j)
           \/ WatchBegins
    PROVE  PublishInv'
<1> USE DEF PublishInv
<1>0. clicks \in Nat /\ MaxClicks \in Nat /\ revoked \in 0..MaxClicks
    BY PublishingAssumption, RevokedBounded DEF PlainTypes
<1>1. ASSUME NEW j \in PublishSlots, NEW tier \in Tiers, PublishFromScreen(j, tier)
      PROVE  PublishInv'
  <2> DEFINE from == [screen EXCEPT !.tier = tier]
             w == [NoJob EXCEPT !.step = "asked", !.from = from]
  <2>1. /\ screen # None
        /\ CommandBegins(j, w)
        /\ draft # None \/ waiting # None
        /\ UNCHANGED <<edits, spec, marker, revoked, baseline, listing, homeRow, screen, exits,
                       current, unrecorded>>
        /\ publishing' = TRUE /\ pressed' = pressed \cup {screen.choice} /\ wish' = tier
      BY <1>1, Zenon DEF PublishFromScreen
  <2>2. screen \in Shown /\ from \in Shown
      BY <2>1 DEF PlainTypes, Shown
  <2>3. draft' \in Collections \cup {None} /\ waiting' \in Collections \cup {None}
    <3>1. IF ~SendsVisibility(tier) THEN UNCHANGED <<draft, waiting>>
          ELSE IF draft # None
          THEN draft' = [draft EXCEPT !.tier = tier] /\ UNCHANGED waiting
          ELSE waiting' = [waiting EXCEPT !.tier = tier] /\ UNCHANGED draft
        BY <1>1, Zenon DEF PublishFromScreen
    <3>2. draft # None => [draft EXCEPT !.tier = tier] \in Collections
        BY DEF PlainTypes, Collections
    <3>3. waiting # None => [waiting EXCEPT !.tier = tier] \in Collections
        BY DEF PlainTypes, Collections
    <3> QED BY <2>1, <3>1, <3>2, <3>3 DEF PlainTypes
  <2>4. w \in Jobs /\ w.late = FALSE /\ w.revoked = 0 /\ w.step = "asked"
      BY <2>2, NoJobTyped DEF Jobs, Steps
  <2> HIDE DEF w
  <2>5. /\ clicks' \in 0..MaxClicks /\ clicks <= clicks' /\ crossed' = (crossed \/ ~Quiet)
        /\ job[j] = NoJob /\ job' = [job EXCEPT ![j] = w]
      BY <1>0, <2>1 DEF CommandBegins, Clicks
  <2>6. PlainTypes'
    <3>1. pressed' \subseteq Selections /\ wish' \in Tiers
        BY <2>1, <2>2 DEF PlainTypes, Shown
    <3>2. crossed' \in BOOLEAN
        BY <2>5
    <3> QED BY <2>1, <2>3, <2>5, <3>1, <3>2 DEF PlainTypes
  <2>7. j \in PublishJobs
      BY DEF PublishJobs
  <2>8. crossed' = FALSE => crossed = FALSE /\ Quiet
      BY <2>5 DEF PlainTypes
  <2>9. /\ w.revoked <= revoked /\ w.step \in {"asked", "walking"}
        /\ w.step = "walking" => w.tree # None
        /\ clicks \in Nat /\ clicks' \in Nat /\ clicks <= clicks'
        /\ revoked' = revoked /\ marker' = marker /\ listing' = listing
        /\ baseline' = baseline /\ current' = current /\ unrecorded' = unrecorded
        /\ job[j] = NoJob /\ job' = [job EXCEPT ![j] = w]
      BY <1>0, <2>1, <2>4, <2>5
  <2> HIDE DEF PublishInv
  <2>10. JobsInv' /\ Sequential' /\ (marker' # None => current' = TRUE)
      BY <2>4, <2>7, <2>8, <2>9, BeginsPublish
  <2> QED BY <2>6, <2>10 DEF PublishInv
<1>2. ASSUME NEW j \in PublishSlots, PublishFromRow(j)
      PROVE  PublishInv'
  <2> DEFINE w == [NoJob EXCEPT !.step = "asked"]
  <2>1. /\ homeRow # None
        /\ CommandBegins(j, w)
        /\ pressed' = pressed \cup {homeRow.choice}
        /\ UNCHANGED <<edits, files, waiting, listing, page, exits, wish, current, unrecorded>>
      BY <1>2 DEF PublishFromRow
  <2>4. w \in Jobs /\ w.late = FALSE /\ w.revoked = 0 /\ w.step = "asked"
      BY NoJobTyped DEF Jobs, Steps
  <2> HIDE DEF w
  <2>5. /\ clicks' \in 0..MaxClicks /\ clicks <= clicks' /\ crossed' = (crossed \/ ~Quiet)
        /\ job[j] = NoJob /\ job' = [job EXCEPT ![j] = w]
      BY <1>0, <2>1 DEF CommandBegins, Clicks
  <2>6. PlainTypes'
    <3>1. pressed' \subseteq Selections
        BY <2>1 DEF PlainTypes, Shown
    <3>2. crossed' \in BOOLEAN
        BY <2>5
    <3> QED BY <2>1, <2>5, <3>1, <3>2 DEF PlainTypes, files, page
  <2>7. j \in PublishJobs
      BY DEF PublishJobs
  <2>8. crossed' = FALSE => crossed = FALSE /\ Quiet
      BY <2>5 DEF PlainTypes
  <2>9. /\ w.revoked <= revoked /\ w.step \in {"asked", "walking"}
        /\ w.step = "walking" => w.tree # None
        /\ clicks \in Nat /\ clicks' \in Nat /\ clicks <= clicks'
        /\ revoked' = revoked /\ marker' = marker /\ listing' = listing
        /\ baseline' = baseline /\ current' = current /\ unrecorded' = unrecorded
        /\ job[j] = NoJob /\ job' = [job EXCEPT ![j] = w]
      BY <1>0, <2>1, <2>4, <2>5 DEF files
  <2> HIDE DEF PublishInv
  <2>10. JobsInv' /\ Sequential' /\ (marker' # None => current' = TRUE)
      BY <2>4, <2>7, <2>8, <2>9, BeginsPublish
  <2> QED BY <2>6, <2>10 DEF PublishInv
<1>3. CASE WatchBegins
  <2> DEFINE tree == [choice |-> spec, edit |-> edits]
             w == [NoJob EXCEPT !.step = "walking", !.revoked = revoked, !.tree = tree]
  <2>1. /\ job[Watch] = NoJob /\ spec # None
        /\ job' = [job EXCEPT ![Watch] = w]
        /\ crossed' = (crossed \/ ~Quiet)
        /\ UNCHANGED <<edits, files, waiting, listing, page, clicks, exits, pressed, wish, current,
                       unrecorded>>
      BY <1>3 DEF WatchBegins
  <2>2. tree \in Trees
      BY <2>1 DEF PlainTypes, Trees
  <2>4. w \in Jobs /\ w.late = FALSE /\ w.revoked = revoked /\ w.step = "walking" /\ w.tree = tree
    <3> HIDE DEF tree
    <3> QED BY <1>0, <2>2 DEF NoJob, Jobs, Steps, Tiers
  <2>3. tree # None
      BY <2>2, AbsenceAssumption
  <2> HIDE DEF w, tree
  <2>6. PlainTypes'
    <3>1. crossed' \in BOOLEAN
        BY <2>1
    <3> QED BY <2>1, <3>1 DEF PlainTypes, files, page
  <2>7. Watch \in PublishJobs
      BY DEF PublishJobs
  <2>8. crossed' = FALSE => crossed = FALSE /\ Quiet
      BY <2>1 DEF PlainTypes
  <2>9. /\ w.revoked <= revoked /\ w.step \in {"asked", "walking"}
        /\ w.step = "walking" => w.tree # None
        /\ clicks \in Nat /\ clicks' \in Nat /\ clicks <= clicks'
        /\ revoked' = revoked /\ marker' = marker /\ listing' = listing
        /\ baseline' = baseline /\ current' = current /\ unrecorded' = unrecorded
        /\ job[Watch] = NoJob /\ job' = [job EXCEPT ![Watch] = w]
      BY <1>0, <2>1, <2>3, <2>4 DEF files
  <2> HIDE DEF PublishInv
  <2>10. JobsInv' /\ Sequential' /\ (marker' # None => current' = TRUE)
      BY <2>4, <2>7, <2>8, <2>9, BeginsPublish
  <2> QED BY <2>6, <2>10 DEF PublishInv
<1> QED BY <1>1, <1>2, <1>3

-----------------------------------------------------------------------------
(* The steps of a job in flight *)

LEMMA RunsPublish ==
    ASSUME PublishInv, NEW j \in PublishJobs, NEW w, job[j].step # "idle",
           job' = [job EXCEPT ![j] = w], JobOK(w, revoked),
           w.step \in {"retracting", "dropping"} <=> job[j].step \in {"retracting", "dropping"},
           revoked' = revoked, clicks' = clicks, PlainTypes',
           marker' # None => current' = TRUE,
           crossed' = FALSE =>
              /\ crossed = FALSE
              /\ JobLedger(w, listing', draft', unrecorded')
              /\ w.step \notin {"marking", "undoing"} => Accounted(listing', marker', baseline', unrecorded')
    PROVE  PublishInv'
<1>1. JobsInv /\ Sequential /\ PlainTypes
    BY DEF PublishInv
<1>2. clicks \in Nat /\ clicks' \in Nat /\ clicks <= clicks'
    BY <1>1, PublishingAssumption DEF PlainTypes
<1>3. JobsInv'
    BY <1>1, <1>2, JobMoves
<1>4. crossed' = FALSE => \A k \in PublishJobs : k # j => job[k].step = "idle"
    BY <1>1, Alone
<1>5. Sequential'
    BY <1>1, <1>4, AloneAfter
<1> QED BY <1>3, <1>5 DEF PublishInv

\* What a job in flight is known to be, and what it may rely on.
LEMMA JobFacts ==
    ASSUME PublishInv, NEW j \in PublishJobs
    PROVE  /\ JobsInv /\ PlainTypes /\ Sequential /\ (marker # None => current = TRUE)
           /\ job[j] \in Jobs /\ JobOK(job[j], revoked)
           /\ job[j].tree \in Trees \cup {None} /\ job[j].tier \in Tiers
           /\ job[j].from \in Shown \cup {None}
           /\ crossed = FALSE /\ job[j].step # "idle" =>
                 /\ JobLedger(job[j], listing, draft, unrecorded)
                 /\ job[j].step \notin {"marking", "undoing"} => Accounted(listing, marker, baseline, unrecorded)
           /\ JobOK(NoJob, revoked) /\ revoked \in Nat
<1>1. JobsInv /\ PlainTypes /\ Sequential /\ (marker # None => current = TRUE)
    BY DEF PublishInv
<1>2. job[j] \in Jobs /\ JobOK(job[j], revoked) /\ revoked \in Nat
    BY <1>1 DEF JobsInv
<1>3. JobOK(NoJob, revoked)
    BY <1>2, NoJobTyped DEF JobOK
<1> QED BY <1>1, <1>2, <1>3, Alone DEF Jobs

LEMMA GoesOn ==
    ASSUME PublishInv, NEW j \in PublishJobs, NEW step \in Steps, GoesTo(j, step),
           job[j].step \notin {"idle", "asked"}, step \notin {"idle", "asked"},
           step \in {"hiding", "sending", "marking", "walking"} => job[j].tree # None
    PROVE  \E w : /\ job' = [job EXCEPT ![j] = w] /\ JobOK(w, revoked)
                  /\ w.step = step /\ w.tree = job[j].tree /\ w.tier = job[j].tier
<1> DEFINE w == [job[j] EXCEPT !.step = step]
<1>1. job' = [job EXCEPT ![j] = w]
    BY DEF GoesTo
<1>2. job[j] \in Jobs /\ JobOK(job[j], revoked)
    BY JobFacts
<1>3. /\ w \in Jobs /\ w.step = step /\ w.tree = job[j].tree /\ w.tier = job[j].tier
      /\ w.revoked = job[j].revoked /\ w.late = job[j].late
    BY <1>2 DEF Jobs
<1> HIDE DEF w
<1>4. JobOK(w, revoked)
    BY <1>2, <1>3 DEF JobOK
<1> QED BY <1>1, <1>3, <1>4

LEMMA LeavesTyped ==
    ASSUME PublishInv, NEW j \in PublishJobs, Leaves(j)
    PROVE  job' = [job EXCEPT ![j] = NoJob] /\ publishing' \in BOOLEAN
           /\ UNCHANGED <<homeRow, screen>>
BY DEF Leaves

\* A best-effort retraction that has not failed has emptied the relays.
LEMMA RetractedFacts ==
    ASSUME PlainTypes, Retracted
    PROVE  /\ listing' \in Trees \cup {None} /\ crossed' \in BOOLEAN /\ unrecorded' \in BOOLEAN
           /\ crossed' = FALSE => crossed = FALSE /\ listing' = None
BY DEF PlainTypes, Retracted

LEMMA RetractStepsPublish ==
    ASSUME PublishInv, NEW j \in PublishJobs, HidePublic(j) \/ Undo(j) \/ Retract(j)
    PROVE  PublishInv'
<1>0. /\ PlainTypes /\ job[j].step \in {"hiding", "undoing", "retracting"} /\ Retracted
      /\ UNCHANGED <<edits, files, waiting, clicks, exits, pressed, wish, current>>
    BY JobFacts DEF HidePublic, Undo, Retract
<1>1. /\ listing' \in Trees \cup {None} /\ crossed' \in BOOLEAN /\ unrecorded' \in BOOLEAN
      /\ crossed' = FALSE => crossed = FALSE /\ listing' = None
    BY <1>0, RetractedFacts
<1>2. ASSUME homeRow' = homeRow, screen' = screen, publishing' \in BOOLEAN PROVE PlainTypes'
    BY <1>0, <1>1, <1>2 DEF PlainTypes, files
<1>3. revoked' = revoked /\ clicks' = clicks /\ (marker' # None => current' = TRUE)
      /\ draft' = draft /\ baseline' = baseline /\ marker' = marker
    BY <1>0, JobFacts DEF files
<1>4. CASE HidePublic(j)
  <2>1. GoesTo(j, "sending") /\ UNCHANGED page /\ job[j].step = "hiding"
      BY <1>4 DEF HidePublic
  <2>2. job[j].tree # None
      BY <2>1, JobFacts DEF JobOK
  <2>3. PICK w : /\ job' = [job EXCEPT ![j] = w] /\ JobOK(w, revoked)
                 /\ w.step = "sending" /\ w.tree = job[j].tree
      BY <2>1, <2>2, GoesOn DEF Steps
  <2>4. PlainTypes'
      BY <1>2, <2>1, <1>0 DEF page, PlainTypes
  <2>5. crossed' = FALSE =>
           /\ crossed = FALSE
           /\ JobLedger(w, listing', draft', unrecorded')
           /\ w.step \notin {"marking", "undoing"} => Accounted(listing', marker', baseline', unrecorded')
      BY <1>1, <1>3, <2>1, <2>3, JobFacts DEF JobLedger, Accounted
  <2>6. /\ w.step \in {"retracting", "dropping"} <=> job[j].step \in {"retracting", "dropping"}
        /\ job[j].step # "idle"
      BY <2>1, <2>3
  <2> QED BY <1>3, <2>3, <2>4, <2>5, <2>6, RunsPublish
<1>5. CASE Undo(j)
  <2>1. Leaves(j) /\ job[j].step = "undoing"
      BY <1>5 DEF Undo
  <2>2. job' = [job EXCEPT ![j] = NoJob] /\ JobOK(NoJob, revoked) /\ PlainTypes'
      BY <1>2, <2>1, LeavesTyped, JobFacts
  <2>3. crossed' = FALSE =>
           /\ crossed = FALSE
           /\ JobLedger(NoJob, listing', draft', unrecorded')
           /\ NoJob.step \notin {"marking", "undoing"} => Accounted(listing', marker', baseline', unrecorded')
      BY <1>1, NoJobTyped DEF JobLedger, Accounted
  <2>4. /\ NoJob.step \in {"retracting", "dropping"} <=> job[j].step \in {"retracting", "dropping"}
        /\ job[j].step # "idle"
      BY <2>1, NoJobTyped
  <2> QED BY <1>3, <2>2, <2>3, <2>4, RunsPublish
<1>6. CASE Retract(j)
  <2>1. GoesTo(j, "dropping") /\ UNCHANGED page /\ job[j].step = "retracting"
      BY <1>6 DEF Retract
  <2>2. PICK w : /\ job' = [job EXCEPT ![j] = w] /\ JobOK(w, revoked) /\ w.step = "dropping"
      BY <2>1, GoesOn DEF Steps
  <2>3. PlainTypes'
      BY <1>2, <2>1, <1>0 DEF page, PlainTypes
  <2>4. crossed' = FALSE =>
           /\ crossed = FALSE
           /\ JobLedger(w, listing', draft', unrecorded')
           /\ w.step \notin {"marking", "undoing"} => Accounted(listing', marker', baseline', unrecorded')
      BY <1>1, <2>2 DEF JobLedger, Accounted
  <2>5. /\ w.step \in {"retracting", "dropping"} <=> job[j].step \in {"retracting", "dropping"}
        /\ job[j].step # "idle"
      BY <2>1, <2>2
  <2> QED BY <1>3, <2>2, <2>3, <2>4, <2>5, RunsPublish
<1> QED BY <1>4, <1>5, <1>6
LEMMA SendStepsPublish ==
    ASSUME PublishInv, NEW j \in PublishJobs, Send(j) \/ SendFails(j)
    PROVE  PublishInv'
<1>0. /\ job[j].step = "sending"
      /\ UNCHANGED <<edits, files, waiting, clicks, exits, pressed, wish, current, crossed>>
    BY DEF Send, SendFails, publishHistory
<1>1. /\ revoked' = revoked /\ clicks' = clicks /\ (marker' # None => current' = TRUE)
      /\ draft' = draft /\ baseline' = baseline /\ marker' = marker /\ crossed' = crossed
    BY <1>0, JobFacts DEF files
<1>2. job[j].tree # None /\ job[j].tree \in Trees /\ job[j].tier \in Tiers
    BY <1>0, JobFacts DEF JobOK
<1>3. CASE Send(j)
  <2>1. /\ GoesTo(j, "marking") /\ UNCHANGED page
        /\ listing' = IF job[j].tier = "Public" THEN job[j].tree ELSE listing
        /\ unrecorded' = unrecorded
      BY <1>3 DEF Send, publishHistory
  <2>2. PICK w : /\ job' = [job EXCEPT ![j] = w] /\ JobOK(w, revoked)
                 /\ w.step = "marking" /\ w.tree = job[j].tree /\ w.tier = job[j].tier
      BY <1>0, <1>2, <2>1, GoesOn DEF Steps
  <2>3. PlainTypes'
      BY <1>0, <1>2, <2>1, JobFacts DEF page, PlainTypes, files
  <2>4. crossed' = FALSE =>
           /\ crossed = FALSE
           /\ JobLedger(w, listing', draft', unrecorded')
           /\ w.step \notin {"marking", "undoing"} => Accounted(listing', marker', baseline', unrecorded')
      BY <1>0, <1>1, <1>2, <2>1, <2>2, JobFacts DEF JobLedger, Tiers
  <2>5. /\ w.step \in {"retracting", "dropping"} <=> job[j].step \in {"retracting", "dropping"}
        /\ job[j].step # "idle"
      BY <1>0, <2>2
  <2> QED BY <1>1, <2>2, <2>3, <2>4, <2>5, RunsPublish
<1>4. CASE SendFails(j)
  <2>1. /\ Leaves(j)
        /\ \/ UNCHANGED <<listing, unrecorded>>
           \/ listing' = job[j].tree /\ unrecorded' = TRUE
      BY <1>4 DEF SendFails
  <2>2. /\ job' = [job EXCEPT ![j] = NoJob] /\ JobOK(NoJob, revoked) /\ publishing' \in BOOLEAN
        /\ UNCHANGED <<homeRow, screen>>
      BY <2>1, LeavesTyped, JobFacts
  <2>3. PlainTypes'
      BY <1>0, <1>2, <2>1, <2>2, JobFacts DEF PlainTypes, files
  <2>4. crossed' = FALSE =>
           /\ crossed = FALSE
           /\ JobLedger(NoJob, listing', draft', unrecorded')
           /\ NoJob.step \notin {"marking", "undoing"} => Accounted(listing', marker', baseline', unrecorded')
      BY <1>0, <1>1, <2>1, NoJobTyped, JobFacts DEF JobLedger, Accounted
  <2>5. /\ NoJob.step \in {"retracting", "dropping"} <=> job[j].step \in {"retracting", "dropping"}
        /\ job[j].step # "idle"
      BY <1>0, NoJobTyped
  <2> QED BY <1>1, <2>2, <2>3, <2>4, <2>5, RunsPublish
<1> QED BY <1>3, <1>4

\* A marker is saved only by a job that no unpublish has overtaken.
LEMMA MarkStepPublish ==
    ASSUME PublishInv, NEW j \in PublishJobs, Mark(j)
    PROVE  PublishInv'
<1>1. /\ job[j].step = "marking" /\ revoked = job[j].revoked /\ marker' = job[j].tier
      /\ current' = ~job[j].late /\ Succeeds(j)
      /\ UNCHANGED <<edits, draft, spec, revoked, waiting, listing, clicks, exits, pressed, wish,
                     crossed>>
    BY DEF Mark, Unrevoked
<1>0. PICK noted \in BOOLEAN :
         /\ baseline' = IF noted /\ draft # None THEN draft.tree ELSE baseline
         /\ unrecorded' = IF job[j].tier = "Public" THEN ~noted ELSE unrecorded
    BY DEF Mark
<1>2. job[j].late = FALSE
  <2>1. job[j].late = TRUE => job[j].revoked < revoked
      BY JobFacts DEF JobOK
  <2>0. revoked \in Nat
      BY JobFacts
  <2>2. ~(job[j].revoked < revoked)
    <3>1. revoked = job[j].revoked
        BY <1>1
    <3> QED BY <2>0, <3>1
  <2>3. job[j].late \in BOOLEAN
      BY JobFacts DEF Jobs
  <2> QED BY <2>1, <2>2, <2>3
<1>3. job[j].tree # None /\ job[j].tree \in Trees /\ job[j].tier \in Tiers /\ PlainTypes
    BY <1>1, JobFacts DEF JobOK
<1>4. /\ job' = [job EXCEPT ![j] = NoJob] /\ homeRow' \in Shown \cup {None}
      /\ screen' \in Shown \cup {None} /\ publishing' \in BOOLEAN
  <2>1. CASE job[j].from = None
      BY <1>1, <1>3, <2>1 DEF Succeeds, page, PlainTypes
  <2>2. CASE job[j].from # None
    <3>1. /\ job' = [job EXCEPT ![j] = NoJob] /\ homeRow' = job[j].from
          /\ screen' = None /\ publishing' = FALSE
        BY <1>1, <2>2 DEF Succeeds
    <3> QED BY <3>1, JobFacts
  <2> QED BY <2>1, <2>2
<1>5. current' = TRUE
    BY <1>1, <1>2
<1>6. baseline' \in Trees \cup {None}
    BY <1>0, <1>3 DEF PlainTypes, Collections
<1>7. PlainTypes'
  <2>1. unrecorded' \in BOOLEAN
      BY <1>0, <1>3 DEF PlainTypes
  <2> QED BY <1>1, <1>3, <1>4, <1>5, <1>6, <2>1 DEF PlainTypes
<1>8. crossed' = FALSE =>
         /\ crossed = FALSE
         /\ JobLedger(NoJob, listing', draft', unrecorded')
         /\ NoJob.step \notin {"marking", "undoing"} => Accounted(listing', marker', baseline', unrecorded')
  <2> SUFFICES ASSUME crossed = FALSE
               PROVE  JobLedger(NoJob, listing', draft', unrecorded') /\ Accounted(listing', marker', baseline', unrecorded')
      BY <1>1
  <2>1. JobLedger(job[j], listing, draft, unrecorded)
      BY <1>1, JobFacts
  <2>2. draft # None /\ draft.tree = job[j].tree
        /\ (job[j].tier = "Private" /\ unrecorded = FALSE => listing = None)
        /\ (job[j].tier = "Public" => listing = job[j].tree)
      BY <1>1, <2>1 DEF JobLedger
  <2>3. Accounted(listing', marker', baseline', unrecorded')
      BY <1>0, <1>1, <1>3, <2>2 DEF Accounted, Tiers
  <2> QED BY <2>3, NoJobTyped DEF JobLedger
<1>9. /\ NoJob.step \in {"retracting", "dropping"} <=> job[j].step \in {"retracting", "dropping"}
      /\ job[j].step # "idle" /\ JobOK(NoJob, revoked) /\ revoked' = revoked /\ clicks' = clicks
    BY <1>1, NoJobTyped, JobFacts
<1> QED BY <1>4, <1>5, <1>7, <1>8, <1>9, RunsPublish

LEMMA MarkFailsStepPublish ==
    ASSUME PublishInv, NEW j \in PublishJobs, MarkFails(j)
    PROVE  PublishInv'
<1>1. /\ job[j].step = "marking" /\ Leaves(j)
      /\ unrecorded' = (unrecorded \/ job[j].tier = "Public")
      /\ UNCHANGED <<edits, files, waiting, listing, clicks, exits, pressed, wish, current,
                     crossed>>
    BY DEF MarkFails
<1>2. /\ revoked' = revoked /\ clicks' = clicks /\ (marker' # None => current' = TRUE)
      /\ draft' = draft /\ baseline' = baseline /\ marker' = marker /\ crossed' = crossed
      /\ listing' = listing /\ PlainTypes /\ job[j].tier \in Tiers
    BY <1>1, JobFacts DEF files
<1>3. /\ job' = [job EXCEPT ![j] = NoJob] /\ JobOK(NoJob, revoked) /\ publishing' \in BOOLEAN
      /\ UNCHANGED <<homeRow, screen>>
    BY <1>1, LeavesTyped, JobFacts
<1>4. unrecorded' \in BOOLEAN /\ (unrecorded' = FALSE => unrecorded = FALSE /\ job[j].tier = "Private")
    BY <1>1, <1>2 DEF PlainTypes, Tiers
<1>5. PlainTypes'
    BY <1>1, <1>2, <1>3, <1>4 DEF PlainTypes, files
<1>6. crossed' = FALSE =>
         /\ crossed = FALSE
         /\ JobLedger(NoJob, listing', draft', unrecorded')
         /\ NoJob.step \notin {"marking", "undoing"} => Accounted(listing', marker', baseline', unrecorded')
    BY <1>1, <1>2, <1>4, NoJobTyped, JobFacts DEF JobLedger, Accounted
<1>7. /\ NoJob.step \in {"retracting", "dropping"} <=> job[j].step \in {"retracting", "dropping"}
      /\ job[j].step # "idle"
    BY <1>1, NoJobTyped
<1> QED BY <1>2, <1>3, <1>5, <1>6, <1>7, RunsPublish

LEMMA MarkRefusedStepPublish ==
    ASSUME PublishInv, NEW j \in PublishJobs, MarkRefused(j)
    PROVE  PublishInv'
<1>1. /\ job[j].step = "marking"
      /\ IF job[j].tier = "Public" THEN GoesTo(j, "undoing") /\ UNCHANGED page ELSE Leaves(j)
      /\ UNCHANGED <<edits, files, waiting, listing, clicks, exits, publishHistory>>
    BY DEF MarkRefused
<1>2. /\ revoked' = revoked /\ clicks' = clicks /\ (marker' # None => current' = TRUE)
      /\ draft' = draft /\ baseline' = baseline /\ marker' = marker /\ crossed' = crossed
      /\ unrecorded' = unrecorded
      /\ listing' = listing /\ PlainTypes /\ job[j].tier \in Tiers
    BY <1>1, JobFacts DEF files, publishHistory
<1>3. CASE job[j].tier = "Public"
  <2>1. GoesTo(j, "undoing") /\ UNCHANGED page
      BY <1>1, <1>3
  <2>2. PICK w : job' = [job EXCEPT ![j] = w] /\ JobOK(w, revoked) /\ w.step = "undoing"
      BY <1>1, <2>1, GoesOn DEF Steps
  <2>3. PlainTypes'
      BY <1>1, <1>2, <2>1 DEF PlainTypes, files, publishHistory, page
  <2>4. crossed' = FALSE =>
           /\ crossed = FALSE
           /\ JobLedger(w, listing', draft', unrecorded')
           /\ w.step \notin {"marking", "undoing"} => Accounted(listing', marker', baseline', unrecorded')
      BY <1>2, <2>2 DEF JobLedger
  <2>5. /\ w.step \in {"retracting", "dropping"} <=> job[j].step \in {"retracting", "dropping"}
        /\ job[j].step # "idle"
      BY <1>1, <2>2
  <2> QED BY <1>2, <2>2, <2>3, <2>4, <2>5, RunsPublish
<1>4. CASE job[j].tier = "Private"
  <2>1. Leaves(j)
      BY <1>1, <1>4
  <2>2. /\ job' = [job EXCEPT ![j] = NoJob] /\ JobOK(NoJob, revoked) /\ publishing' \in BOOLEAN
        /\ UNCHANGED <<homeRow, screen>>
      BY <2>1, LeavesTyped, JobFacts
  <2>3. PlainTypes'
      BY <1>1, <1>2, <2>2 DEF PlainTypes, files, publishHistory
  <2>4. crossed' = FALSE =>
           /\ crossed = FALSE
           /\ JobLedger(NoJob, listing', draft', unrecorded')
           /\ NoJob.step \notin {"marking", "undoing"} => Accounted(listing', marker', baseline', unrecorded')
      BY <1>1, <1>2, <1>4, NoJobTyped, JobFacts DEF JobLedger, Accounted
  <2>5. /\ NoJob.step \in {"retracting", "dropping"} <=> job[j].step \in {"retracting", "dropping"}
        /\ job[j].step # "idle"
      BY <1>1, NoJobTyped
  <2> QED BY <1>2, <2>2, <2>3, <2>4, <2>5, RunsPublish
<1> QED BY <1>2, <1>3, <1>4 DEF Tiers

LEMMA SweepStepPublish ==
    ASSUME PublishInv, NEW j \in PublishJobs, Sweep(j)
    PROVE  PublishInv'
<1>1. /\ job[j].step = "sweeping" /\ Swept /\ job' = [job EXCEPT ![j] = NoJob]
      /\ UNCHANGED <<edits, revoked, waiting, listing, screen, publishing, clicks, exits,
                     publishHistory>>
    BY DEF Sweep
<1>2. /\ revoked' = revoked /\ clicks' = clicks /\ marker' = None /\ JobOK(NoJob, revoked)
      /\ listing' = listing /\ crossed' = crossed /\ unrecorded' = unrecorded /\ PlainTypes
    BY <1>1, JobFacts DEF Swept, publishHistory
<1>3. PlainTypes'
    BY <1>1, <1>2 DEF Swept, PlainTypes, publishHistory
<1>4. crossed' = FALSE =>
         /\ crossed = FALSE
         /\ JobLedger(NoJob, listing', draft', unrecorded')
         /\ NoJob.step \notin {"marking", "undoing"} => Accounted(listing', marker', baseline', unrecorded')
    BY <1>1, <1>2, NoJobTyped, JobFacts DEF JobLedger, Accounted
<1>5. /\ NoJob.step \in {"retracting", "dropping"} <=> job[j].step \in {"retracting", "dropping"}
      /\ job[j].step # "idle"
    BY <1>1, NoJobTyped
<1> QED BY <1>1, <1>2, <1>3, <1>4, <1>5, RunsPublish

\* From the choice of the path on: the draft is the tree that will be sent, and the
\* files are otherwise as they were.
LEMMA PreparePublish ==
    ASSUME PublishInv, NEW j \in PublishJobs, NEW known, NEW generation, Prepare(j, known, generation),
           known \in Collections \cup {None}, job[j].step \in {"asked", "walking"},
           generation \in 0..MaxClicks, generation <= revoked,
           job[j].late = TRUE => generation < revoked,
           UNCHANGED <<edits, marker, revoked, baseline, listing, clicks, exits, publishHistory>>
    PROVE  PublishInv'
<1>0. PlainTypes /\ job[j] \in Jobs /\ JobOK(job[j], revoked)
    BY JobFacts
<1>1. /\ revoked' = revoked /\ clicks' = clicks /\ (marker' # None => current' = TRUE)
      /\ baseline' = baseline /\ marker' = marker /\ crossed' = crossed /\ listing' = listing
      /\ unrecorded' = unrecorded
    BY JobFacts DEF publishHistory
<1>2. crossed = FALSE => Accounted(listing, marker, baseline, unrecorded)
    BY JobFacts
<1>3. CASE Leaves(j) /\ UNCHANGED <<draft, waiting, spec>>
  <2>1. /\ job' = [job EXCEPT ![j] = NoJob] /\ JobOK(NoJob, revoked) /\ publishing' \in BOOLEAN
        /\ UNCHANGED <<homeRow, screen>>
      BY <1>3, LeavesTyped, JobFacts
  <2>2. PlainTypes'
      BY <1>0, <1>3, <2>1 DEF PlainTypes, publishHistory
  <2>3. crossed' = FALSE =>
           /\ crossed = FALSE
           /\ JobLedger(NoJob, listing', draft', unrecorded')
           /\ NoJob.step \notin {"marking", "undoing"} => Accounted(listing', marker', baseline', unrecorded')
      BY <1>1, <1>2, NoJobTyped DEF JobLedger
  <2>4. /\ NoJob.step \in {"retracting", "dropping"} <=> job[j].step \in {"retracting", "dropping"}
        /\ job[j].step # "idle"
      BY NoJobTyped
  <2> QED BY <1>1, <2>1, <2>2, <2>3, <2>4, RunsPublish
<1>4. CASE ~(Leaves(j) /\ UNCHANGED <<draft, waiting, spec>>)
  <2> DEFINE new == Promoted(known)
             next == IF new.tier = "Private" /\ marker = "Public" THEN "hiding" ELSE "sending"
             w == [job[j] EXCEPT !.step = next, !.tree = new.tree, !.tier = new.tier,
                                 !.revoked = generation]
  <2>1. /\ known # None \/ waiting # None
        /\ draft' = new /\ waiting' = None
        /\ spec' = IF waiting = None THEN spec ELSE waiting.tree.choice
        /\ job' = [job EXCEPT ![j] = w]
        /\ UNCHANGED page
      BY <1>4 DEF Prepare, Typed
  <2>2. new \in Collections
      BY <1>0, <2>1 DEF Promoted, PlainTypes, Collections
  <2>3. new.tree \in Trees /\ new.tier \in Tiers /\ new.tree # None /\ new # None
      BY <2>2, AbsenceAssumption DEF Collections
  <2> HIDE DEF new
  <2>4. next \in {"hiding", "sending"}
        /\ (crossed = FALSE /\ unrecorded = FALSE /\ next = "sending" /\ new.tier = "Private"
              => listing = None)
      BY <1>2, <2>3 DEF Accounted, Tiers
  <2> HIDE DEF next
  <2>5. /\ w \in Jobs /\ w.step = next /\ w.tree = new.tree /\ w.tier = new.tier
        /\ w.revoked = generation /\ w.late = job[j].late
      BY <1>0, <2>3, <2>4 DEF Jobs, Steps
  <2> HIDE DEF w
  <2>6. JobOK(w, revoked)
      BY <2>3, <2>4, <2>5 DEF JobOK
  <2>7. spec' \in Selections \cup {None}
      BY <1>0, <2>1 DEF PlainTypes, Collections, Trees
  <2>8. PlainTypes'
      BY <1>0, <2>1, <2>2, <2>7 DEF PlainTypes, page, publishHistory
  <2>9. crossed' = FALSE =>
           /\ crossed = FALSE
           /\ JobLedger(w, listing', draft', unrecorded')
           /\ w.step \notin {"marking", "undoing"} => Accounted(listing', marker', baseline', unrecorded')
      BY <1>1, <1>2, <2>1, <2>3, <2>4, <2>5 DEF JobLedger
  <2>10. /\ w.step \in {"retracting", "dropping"} <=> job[j].step \in {"retracting", "dropping"}
         /\ job[j].step # "idle"
      BY <2>4, <2>5
  <2> QED BY <1>1, <2>1, <2>6, <2>8, <2>9, <2>10, RunsPublish
<1> QED BY <1>3, <1>4

LEMMA PrepareStepsPublish ==
    ASSUME PublishInv, (\E j \in PublishJobs : PublishBegins(j)) \/ WatchWalked
    PROVE  PublishInv'
<1>0. PlainTypes /\ JobsInv /\ revoked \in 0..MaxClicks
    BY RevokedBounded DEF PublishInv
<1>1. ASSUME NEW j \in PublishJobs, PublishBegins(j) PROVE PublishInv'
  <2>1. /\ job[j].step = "asked" /\ Prepare(j, draft, revoked)
        /\ UNCHANGED <<edits, marker, revoked, baseline, listing, clicks, exits, publishHistory>>
      BY <1>1 DEF PublishBegins
  <2>2. draft \in Collections \cup {None}
      BY <1>0 DEF PlainTypes
  <2>3. job[j].late = TRUE => revoked < revoked
      BY <2>1, JobFacts DEF JobOK
  <2>4. revoked <= revoked /\ job[j].step \in {"asked", "walking"}
      BY <1>0, <2>1
  <2> QED BY <1>0, <2>1, <2>2, <2>3, <2>4, PreparePublish
<1>2. CASE WatchWalked
  <2>0. Watch \in PublishJobs
      BY DEF PublishJobs
  <2>1. /\ job[Watch].step = "walking"
        /\ UNCHANGED <<edits, marker, revoked, baseline, listing, clicks, exits, publishHistory>>
      BY <1>2 DEF WatchWalked
  <2>2. PICK edit \in job[Watch].tree.edit..edits :
            LET tree == [job[Watch].tree EXCEPT !.edit = edit]
            IN IF tree = baseline
               THEN Leaves(Watch) /\ UNCHANGED <<draft, waiting, spec>>
               ELSE Prepare(Watch, IF draft = None THEN None ELSE [draft EXCEPT !.tree = tree],
                            SeenBeforeWalk)
      BY <1>2 DEF WatchWalked
  <2> DEFINE tree == [job[Watch].tree EXCEPT !.edit = edit]
             known == IF draft = None THEN None ELSE [draft EXCEPT !.tree = tree]
  <2>3. job[Watch].tree \in Trees /\ job[Watch] \in Jobs /\ JobOK(job[Watch], revoked)
      BY <2>0, <2>1, JobFacts DEF JobOK
  <2>4. edit \in 0..MaxEdits
      BY <1>0, <2>3, PublishingAssumption DEF Trees, PlainTypes
  <2>5. tree \in Trees
      BY <2>3, <2>4 DEF Trees
  <2>6. known \in Collections \cup {None}
    <3> HIDE DEF tree
    <3> QED BY <1>0, <2>5 DEF PlainTypes, Collections
  <2>7. CASE tree = baseline
    <3>1. Leaves(Watch) /\ UNCHANGED <<draft, waiting, spec>>
        BY <2>2, <2>7
    <3>2. /\ job' = [job EXCEPT ![Watch] = NoJob] /\ JobOK(NoJob, revoked) /\ publishing' \in BOOLEAN
          /\ UNCHANGED <<homeRow, screen>>
        BY <2>0, <3>1, LeavesTyped, JobFacts
    <3>3. PlainTypes'
        BY <1>0, <2>1, <3>1, <3>2 DEF PlainTypes, publishHistory
    <3>4. /\ revoked' = revoked /\ clicks' = clicks /\ (marker' # None => current' = TRUE)
          /\ baseline' = baseline /\ marker' = marker /\ crossed' = crossed /\ listing' = listing
          /\ unrecorded' = unrecorded
        BY <2>0, <2>1, JobFacts DEF publishHistory
    <3>5. crossed' = FALSE =>
             /\ crossed = FALSE
             /\ JobLedger(NoJob, listing', draft', unrecorded')
             /\ NoJob.step \notin {"marking", "undoing"} => Accounted(listing', marker', baseline', unrecorded')
        BY <2>0, <2>1, <3>4, NoJobTyped, JobFacts DEF JobLedger
    <3>6. /\ NoJob.step \in {"retracting", "dropping"}
                <=> job[Watch].step \in {"retracting", "dropping"}
          /\ job[Watch].step # "idle"
        BY <2>1, NoJobTyped
    <3> QED BY <2>0, <3>2, <3>3, <3>4, <3>5, <3>6, RunsPublish
  <2>8. CASE tree # baseline
    <3>1. Prepare(Watch, known, SeenBeforeWalk)
        BY <2>2, <2>8
    <3>2. /\ SeenBeforeWalk \in 0..MaxClicks /\ SeenBeforeWalk <= revoked
          /\ job[Watch].late = TRUE => SeenBeforeWalk < revoked
        BY <2>3 DEF SeenBeforeWalk, JobOK, Jobs
    <3> HIDE DEF known
    <3> QED BY <2>0, <2>1, <2>6, <3>1, <3>2, PreparePublish
  <2> QED BY <2>7, <2>8
<1> QED BY <1>1, <1>2

\* An unpublish or a delete begins: one more generation to come, and one more click.
LEMMA RetireStepPublish ==
    ASSUME PublishInv, NEW j \in PublishJobs, NEW deletes \in BOOLEAN, RetireBegins(j, deletes)
    PROVE  PublishInv'
<1> DEFINE step == IF RetractsFirst THEN "retracting" ELSE "dropping"
           w == [NoJob EXCEPT !.step = step, !.deletes = deletes]
<1>0. PlainTypes /\ JobsInv /\ Sequential /\ clicks \in Nat /\ revoked \in Nat
      /\ Cardinality(Retiring) \in Nat /\ IsFiniteSet(Retiring)
      /\ revoked + Cardinality(Retiring) <= clicks
    BY RevokedBounded, PublishingAssumption DEF PublishInv, PlainTypes, JobsInv
<1>1. /\ CommandBegins(j, w)
      /\ UNCHANGED <<edits, files, waiting, listing, page, exits, pressed, wish, current,
                     unrecorded>>
    BY DEF RetireBegins
<1>2. step \in {"retracting", "dropping"}
    OBVIOUS
<1> HIDE DEF step
<1>3. w \in Jobs /\ w.step = step /\ w.late = FALSE /\ w.revoked = 0
    BY <1>2, NoJobTyped DEF Jobs, Steps
<1> HIDE DEF w
<1>4. /\ job[j] = NoJob /\ job' = [job EXCEPT ![j] = w] /\ clicks' = clicks + 1
      /\ clicks' \in 0..MaxClicks /\ crossed' = (crossed \/ ~Quiet)
    BY <1>0, <1>1, PublishingAssumption DEF CommandBegins, Clicks
<1>5. JobOK(w, revoked)
    BY <1>0, <1>2, <1>3 DEF JobOK
<1>6. JobsInv'
  <2>1. job'[j] = w /\ \A k \in PublishJobs : k # j => job'[k] = job[k]
      BY <1>0, <1>4, OthersStay
  <2>2. revoked' = revoked
      BY <1>1 DEF files
  <2>3. job' \in [PublishJobs -> Jobs] /\ \A k \in PublishJobs : JobOK(job'[k], revoked')
      BY <1>0, <1>3, <1>4, <1>5, <2>1, <2>2 DEF JobsInv
  <2>4. Retiring' = Retiring \cup {j} /\ j \notin Retiring
      BY <1>2, <1>3, <1>4, <2>1, NoJobTyped DEF Retiring
  <2>5. IsFiniteSet(Retiring') /\ Cardinality(Retiring') = Cardinality(Retiring) + 1
      BY <1>0, <2>4, FS_AddElement
  <2> QED BY <1>0, <1>4, <2>2, <2>3, <2>5 DEF JobsInv
<1>7. PlainTypes'
  <2>1. crossed' \in BOOLEAN
      BY <1>4
  <2> QED BY <1>0, <1>1, <1>4, <2>1 DEF PlainTypes, files, page
<1>8. Sequential'
  <2>1. crossed' = FALSE => crossed = FALSE /\ Quiet
      BY <1>0, <1>4 DEF PlainTypes
  <2>2. crossed' = FALSE => Accounted(listing, marker, baseline, unrecorded)
      BY <1>0, <2>1, QuietAlone DEF Sequential
  <2>3. step = "dropping" => marker = "Private"
      BY DEF step, RetractsFirst
  <2>4. crossed' = FALSE => JobLedger(w, listing', draft', unrecorded')
      BY <1>1, <1>2, <1>3, <2>2, <2>3 DEF JobLedger, Accounted
  <2>5. crossed' = FALSE => Accounted(listing', marker', baseline', unrecorded')
      BY <1>1, <2>2 DEF files
  <2>6. crossed' = FALSE => \A k \in PublishJobs : k # j => job[k].step = "idle"
      BY <1>0, <2>1, QuietAlone
  <2> QED BY <1>0, <1>4, <2>4, <2>5, <2>6, AloneAfter
<1>9. marker' # None => current' = TRUE
    BY <1>1 DEF PublishInv, files
<1> QED BY <1>6, <1>7, <1>8, <1>9 DEF PublishInv

\* The marker goes, the generation moves on, and every job in flight is late.
LEMMA DropStepPublish ==
    ASSUME PublishInv, NEW j \in PublishJobs, Drop(j)
    PROVE  PublishInv'
<1>0. /\ PlainTypes /\ JobsInv /\ Sequential /\ clicks \in Nat /\ revoked \in Nat
      /\ Cardinality(Retiring) \in Nat /\ IsFiniteSet(Retiring)
      /\ revoked + Cardinality(Retiring) <= clicks
      /\ revoked + 1 \in 0..MaxClicks
  <2>1. job[j].step = "dropping"
      BY DEF Drop
  <2>2. PlainTypes /\ JobsInv
      BY DEF PublishInv
  <2>3. revoked < clicks /\ clicks \in 0..MaxClicks /\ MaxClicks \in Nat
      BY <2>1, <2>2, RevokedBounded, PublishingAssumption DEF PlainTypes, Retiring
  <2> QED BY <2>2, <2>3, RevokedBounded DEF PublishInv, JobsInv
<1>1. /\ job[j].step = "dropping" /\ marker' = None /\ revoked' = revoked + 1 /\ current' = FALSE
      /\ job' = [k \in DOMAIN job |->
            IF k # j
            THEN [job[k] EXCEPT !.late = job[k].step \notin {"idle", "asked"}]
            ELSE IF job[j].deletes THEN [job[j] EXCEPT !.step = "sweeping"] ELSE NoJob]
      /\ UNCHANGED <<edits, draft, spec, baseline, waiting, listing, page, clicks, exits,
                     pressed, wish, crossed, unrecorded>>
    BY DEF Drop
<1>2. ASSUME NEW k \in PublishJobs, k # j
      PROVE  /\ job'[k] \in Jobs /\ JobOK(job'[k], revoked')
             /\ job'[k].step = job[k].step /\ job'[k].tree = job[k].tree
             /\ job'[k].tier = job[k].tier
  <2> DEFINE late == job[k].step \notin {"idle", "asked"}
             v == [job[k] EXCEPT !.late = late]
  <2>1. job[k] \in Jobs /\ JobOK(job[k], revoked)
      BY JobFacts
  <2>2. job'[k] = v
      BY <1>0, <1>1, <1>2 DEF JobsInv
  <2>3. late \in BOOLEAN /\ (late = TRUE => job[k].step \notin {"idle", "asked"})
      OBVIOUS
  <2> HIDE DEF late
  <2>4. /\ v \in Jobs /\ v.step = job[k].step /\ v.tree = job[k].tree /\ v.tier = job[k].tier
        /\ v.revoked = job[k].revoked /\ v.late = late
      BY <2>1, <2>3 DEF Jobs
  <2> HIDE DEF v
  <2>5. v.revoked \in Nat /\ v.revoked <= revoked
      BY <2>1, <2>4 DEF JobOK, Jobs
  <2>6. JobOK(v, revoked')
      BY <1>0, <1>1, <2>1, <2>3, <2>4, <2>5 DEF JobOK
  <2> QED BY <2>2, <2>4, <2>6
<1>3. /\ job'[j] \in Jobs /\ JobOK(job'[j], revoked') /\ job'[j].step \in {"idle", "sweeping"}
  <2>1. job[j] \in Jobs /\ JobOK(job[j], revoked)
      BY JobFacts
  <2>2. job'[j] = IF job[j].deletes THEN [job[j] EXCEPT !.step = "sweeping"] ELSE NoJob
      BY <1>0, <1>1 DEF JobsInv
  <2>3. CASE job[j].deletes
    <3> DEFINE v == [job[j] EXCEPT !.step = "sweeping"]
    <3>1. /\ v \in Jobs /\ v.step = "sweeping" /\ v.revoked = job[j].revoked
        BY <2>1 DEF Jobs, Steps
    <3> HIDE DEF v
    <3>2. v.revoked \in Nat /\ v.revoked <= revoked
        BY <2>1, <3>1 DEF JobOK, Jobs
    <3>3. JobOK(v, revoked')
        BY <1>0, <1>1, <3>1, <3>2 DEF JobOK
    <3>4. job'[j] = v
        BY <2>2, <2>3 DEF v
    <3> QED BY <3>1, <3>3, <3>4
  <2>4. CASE ~job[j].deletes
    <3>1. job'[j] = NoJob
        BY <2>2, <2>4
    <3>2. JobOK(NoJob, revoked')
        BY <1>0, <1>1, NoJobTyped DEF JobOK
    <3> QED BY <3>1, <3>2, NoJobTyped
  <2> QED BY <2>3, <2>4
<1>4. JobsInv'
  <2>1. job' \in [PublishJobs -> Jobs] /\ \A k \in PublishJobs : JobOK(job'[k], revoked')
    <3>1. \A k \in PublishJobs : job'[k] \in Jobs /\ JobOK(job'[k], revoked')
        BY <1>2, <1>3
    <3>2. DOMAIN job' = PublishJobs /\ job' = [k \in PublishJobs |-> job'[k]]
        BY <1>0, <1>1 DEF JobsInv
    <3> QED BY <3>1, <3>2
  <2>2. Retiring' = Retiring \ {j} /\ j \in Retiring
      BY <1>1, <1>2, <1>3 DEF Retiring
  <2>3. IsFiniteSet(Retiring') /\ Cardinality(Retiring') = Cardinality(Retiring) - 1
      BY <1>0, <2>2, FS_RemoveElement
  <2>4. clicks' = clicks
      BY <1>1
  <2> QED BY <1>0, <1>1, <2>1, <2>3, <2>4 DEF JobsInv
<1>5. PlainTypes'
    BY <1>0, <1>1 DEF PlainTypes, page
<1>6. Sequential'
  <2> SUFFICES ASSUME crossed = FALSE
               PROVE  /\ \A i, k \in PublishJobs : job'[i].step # "idle" /\ job'[k].step # "idle" => i = k
                      /\ \A i \in PublishJobs : JobLedger(job'[i], listing, draft, unrecorded)
                      /\ Accounted(listing, None, baseline, unrecorded)
      BY <1>1 DEF Sequential, JobLedger, Accounted
  <2>1. unrecorded = FALSE => listing = None
      BY <1>1, JobFacts DEF JobLedger
  <2>2. \A k \in PublishJobs : k # j => job'[k].step = "idle"
    <3>1. \A k \in PublishJobs : k # j => job[k].step = "idle"
        BY <1>0, <1>1, Alone
    <3> QED BY <1>2, <3>1
  <2>3. \A i \in PublishJobs : JobLedger(job'[i], listing, draft, unrecorded)
      BY <1>3, <2>1, <2>2 DEF JobLedger
  <2> QED BY <2>1, <2>2, <2>3 DEF Accounted
<1> QED BY <1>1, <1>4, <1>5, <1>6 DEF PublishInv

LEMMA DeleteStepPublish ==
    ASSUME PublishInv, DeleteUnpublished
    PROVE  PublishInv'
<1>0. PlainTypes /\ JobsInv /\ Sequential
    BY DEF PublishInv
<1>1. /\ marker = None /\ Swept /\ crossed' = (crossed \/ ~Quiet)
      /\ clicks' \in 0..MaxClicks /\ clicks \in Nat /\ clicks' \in Nat /\ clicks <= clicks'
      /\ UNCHANGED <<edits, revoked, waiting, listing, job, screen, publishing, exits,
                     pressed, wish, current, unrecorded>>
    BY <1>0, PublishingAssumption DEF DeleteUnpublished, Clicks, PlainTypes
<1>2. PlainTypes'
  <2>1. crossed' \in BOOLEAN
      BY <1>1
  <2> QED BY <1>0, <1>1, <2>1 DEF PlainTypes, Swept
<1>3. JobsInv'
  <2>1. Retiring' = Retiring /\ job' = job /\ revoked' = revoked
      BY <1>1 DEF Retiring
  <2>2. Cardinality(Retiring) \in Nat
      BY <1>0, RevokedBounded
  <2> QED BY <1>0, <1>1, <2>1, <2>2 DEF JobsInv
<1>4. Sequential'
  <2>1. crossed' = FALSE => crossed = FALSE /\ Quiet
      BY <1>0, <1>1 DEF PlainTypes
  <2>2. crossed' = FALSE => \A k \in PublishJobs : job[k].step = "idle"
      BY <1>0, <2>1, QuietAlone
  <2>3. crossed' = FALSE => Accounted(listing, marker, baseline, unrecorded)
      BY <1>0, <2>1, <2>2 DEF Sequential
  <2>4. None # "Public"
      BY AbsenceAssumption DEF Tiers
  <2>5. crossed' = FALSE /\ unrecorded = FALSE => listing = None
      BY <1>1, <2>3, <2>4 DEF Accounted
  <2>6. listing' = listing /\ job' = job /\ unrecorded' = unrecorded
      BY <1>1
  <2> QED BY <2>2, <2>5, <2>6 DEF Sequential, JobLedger, Accounted
<1> QED BY <1>1, <1>2, <1>3, <1>4 DEF PublishInv, Swept

LEMMA EndStepPublish ==
    ASSUME PublishInv, AppEnds
    PROVE  PublishInv'
<1>0. PlainTypes /\ JobsInv /\ Sequential
    BY DEF PublishInv
<1>1. /\ exits' \in 0..MaxExits /\ job' = [j \in PublishJobs |-> NoJob] /\ waiting' = None
      /\ homeRow' = IF draft = None THEN None ELSE ViewOf(draft)
      /\ screen' = None /\ publishing' = FALSE
      /\ crossed' = (crossed \/ BetweenRelayAndDisk)
      /\ UNCHANGED <<edits, files, listing, clicks, pressed, wish, current, unrecorded>>
  <2>1. DOMAIN job = PublishJobs
      BY <1>0 DEF JobsInv
  <2> QED BY <1>0, <2>1, PublishingAssumption DEF AppEnds, PlainTypes
<1>2. PlainTypes'
  <2>1. crossed' \in BOOLEAN /\ publishing' \in BOOLEAN
      BY <1>1
  <2>2. homeRow' \in Shown \cup {None}
      BY <1>0, <1>1 DEF PlainTypes, ViewOf, Collections, Trees, Shown
  <2> QED BY <1>0, <1>1, <2>1, <2>2 DEF PlainTypes, files
<1>3. JobsInv'
  <2>1. \A j \in PublishJobs : job'[j] = NoJob
      BY <1>1
  <2>2. Retiring' = {}
      BY <2>1, NoJobTyped DEF Retiring
  <2>3. revoked' = revoked /\ clicks' = clicks /\ revoked \in Nat /\ revoked <= clicks
      BY <1>0, <1>1, RevokedBounded DEF files, JobsInv
  <2>4. \A j \in PublishJobs : JobOK(job'[j], revoked')
      BY <2>1, <2>3, JobFacts
  <2>5. job' \in [PublishJobs -> Jobs]
      BY <1>1, NoJobTyped
  <2>6. IsFiniteSet(Retiring') /\ Cardinality(Retiring') = 0
      BY <2>2, FS_EmptySet
  <2>7. clicks \in Nat
      BY <1>0, PublishingAssumption DEF PlainTypes
  <2> QED BY <2>3, <2>4, <2>5, <2>6, <2>7 DEF JobsInv
<1>4. Sequential'
  <2>1. crossed' = FALSE => crossed = FALSE /\ ~BetweenRelayAndDisk
      BY <1>0, <1>1 DEF PlainTypes
  <2>2. crossed' = FALSE => Accounted(listing, marker, baseline, unrecorded)
      BY <1>0, <2>1 DEF Sequential, BetweenRelayAndDisk, JobsInv
  <2>3. \A j \in PublishJobs : job'[j] = NoJob
      BY <1>1
  <2>4. /\ listing' = listing /\ marker' = marker /\ baseline' = baseline /\ draft' = draft
        /\ unrecorded' = unrecorded
      BY <1>1 DEF files
  <2> QED BY <2>2, <2>3, <2>4, NoJobTyped DEF Sequential, JobLedger, Accounted
<1>5. marker' # None => current' = TRUE
    BY <1>1 DEF PublishInv, files
<1> QED BY <1>2, <1>3, <1>4, <1>5 DEF PublishInv

LEMMA PublishInvStep == PublishInv /\ [PublishNext]_publishVars => PublishInv'
<1> SUFFICES ASSUME PublishInv, [PublishNext]_publishVars PROVE PublishInv'
    OBVIOUS
<1>0. PublishSlots \cup {Watch} = PublishJobs /\ PublishSlots \subseteq PublishJobs
    BY DEF PublishJobs
<1>1. CASE FoldersChange \/ OpenEditor \/ Close \/ Reload \/ \E c \in Selections : Scan(c)
    BY <1>1, PageStepPublish
<1>2. CASE \/ \E j \in PublishSlots, tier \in Tiers : PublishFromScreen(j, tier)
           \/ \E j \in PublishSlots : PublishFromRow(j)
           \/ WatchBegins
    BY <1>2, PublishBeginStep
<1>3. ASSUME NEW j \in PublishSlots, NEW deletes \in BOOLEAN, RetireBegins(j, deletes)
      PROVE  PublishInv'
    BY <1>0, <1>3, RetireStepPublish
<1>4. ASSUME NEW j \in PublishJobs, JobStep(j) PROVE PublishInv'
    BY <1>4, PrepareStepsPublish, RetractStepsPublish, SendStepsPublish, MarkStepPublish,
       MarkFailsStepPublish, MarkRefusedStepPublish, DropStepPublish, SweepStepPublish DEF JobStep
<1>5. CASE WatchWalked
    BY <1>5, PrepareStepsPublish
<1>6. CASE DeleteUnpublished
    BY <1>6, DeleteStepPublish
<1>7. CASE AppEnds
    BY <1>7, EndStepPublish
<1>8. CASE UNCHANGED publishVars
    BY <1>8 DEF publishVars, files, page, publishHistory, PublishInv, PlainTypes, JobsInv, Retiring,
                Sequential
<1> QED BY <1>0, <1>1, <1>2, <1>3, <1>4, <1>5, <1>6, <1>7, <1>8 DEF PublishNext

LEMMA PublishInvariant == PublishSpec => []PublishInv
BY InitPublishInv, PublishInvStep, PTL DEF PublishSpec

\* The files, the page and the jobs keep their types, and the generation never passes the
\* clicks, for any folders, any number of commands and any number of changes.
THEOREM PublishTypeCorrect == PublishSpec => []PublishTypeOK
BY PublishInvariant, PublishInvTypes, PTL

\* No publish in flight brings back the marker that an unpublish removed.
THEOREM UnpublishIsFinal == PublishSpec => []NoResurrectedListing
<1>1. PublishInv => NoResurrectedListing
    BY DEF PublishInv, NoResurrectedListing
<1> QED BY <1>1, PublishInvariant, PTL

\* When nothing is in flight, nothing has crossed and no failure has left a listing
\* unrecorded, what the relays serve is what the files record.
THEOREM RelaysAccountedFor == PublishSpec => []ListingAccountedFor
<1>1. PublishInv => ListingAccountedFor
  <2> SUFFICES ASSUME PublishInv, Quiet, ~crossed, ~unrecorded, listing # None
               PROVE  marker = "Public" /\ listing = baseline
      BY DEF ListingAccountedFor
  <2>1. crossed = FALSE /\ unrecorded = FALSE
      BY DEF PublishInv, PlainTypes
  <2>2. \A k \in PublishJobs : job[k].step = "idle"
      BY QuietAlone DEF PublishInv
  <2> QED BY <2>1, <2>2 DEF PublishInv, Sequential, Accounted
<1> QED BY <1>1, PublishInvariant, PTL

-----------------------------------------------------------------------------
(* What a step may do to the visibility *)

\* What a publish makes of the draft it knows has the draft's visibility.
LEMMA PromotedTier ==
    ASSUME PlainTypes, NEW known \in [tree : Trees, tier : Tiers]
    PROVE  Promoted(known).tier = known.tier
<1>1. waiting # None => waiting \in [tree : Trees, tier : Tiers]
    BY DEF PlainTypes, Collections
<1>2. waiting # None => [waiting EXCEPT !.tier = known.tier].tier = known.tier
    BY <1>1
<1>3. known # None
    BY AbsenceAssumption DEF Collections
<1> QED BY <1>2, <1>3 DEF Promoted

LEMMA PrepareKeepsTier ==
    ASSUME PlainTypes, draft # None, NEW known \in Collections, known.tier = draft.tier,
           NEW j, NEW seen, Prepare(j, known, seen)
    PROVE  draft' = draft \/ draft'.tier = draft.tier
<1>1. draft' = draft \/ draft' = Promoted(known)
    BY DEF Prepare
<1>2. Promoted(known).tier = known.tier
    BY PromotedTier DEF Collections
<1> QED BY <1>1, <1>2

LEMMA VisibilityStep ==
    ASSUME PublishInv, [PublishNext]_publishVars, draft # None, draft' # None
    PROVE  draft'.tier = draft.tier \/ draft'.tier = wish'
<1>1. PlainTypes /\ draft \in [tree : Trees, tier : Tiers]
    BY DEF PublishInv, PlainTypes, Collections
<1>2. ASSUME NEW j \in PublishSlots, NEW tier \in Tiers, PublishFromScreen(j, tier)
      PROVE  draft' = draft \/ draft'.tier = wish'
    BY <1>1, <1>2 DEF PublishFromScreen
<1>3. ASSUME NEW j \in PublishJobs, JobStep(j)
      PROVE  draft' = draft \/ draft'.tier = draft.tier
  <2>1. CASE PublishBegins(j)
    <3>1. Prepare(j, draft, revoked)
        BY <2>1 DEF PublishBegins
    <3> QED BY <1>1, <3>1, PrepareKeepsTier DEF Collections
  <2>2. CASE Sweep(j)
      BY <2>2 DEF Sweep, Swept
  <2>3. CASE \/ HidePublic(j) \/ Send(j) \/ SendFails(j) \/ Mark(j) \/ MarkFails(j)
             \/ MarkRefused(j) \/ Undo(j) \/ Retract(j) \/ Drop(j)
      BY <2>3 DEF HidePublic, Send, SendFails, Mark, MarkFails, MarkRefused, Undo, Retract, Drop,
                files
  <2> QED BY <1>3, <2>1, <2>2, <2>3 DEF JobStep
<1>4. CASE WatchWalked
  <2>0. Watch \in PublishJobs
      BY DEF PublishJobs
  <2>1. PICK edit \in job[Watch].tree.edit..edits :
            LET tree == [job[Watch].tree EXCEPT !.edit = edit]
            IN IF tree = baseline
               THEN Leaves(Watch) /\ UNCHANGED <<draft, waiting, spec>>
               ELSE Prepare(Watch, IF draft = None THEN None ELSE [draft EXCEPT !.tree = tree],
                            SeenBeforeWalk)
      BY <1>4 DEF WatchWalked
  <2> DEFINE tree == [job[Watch].tree EXCEPT !.edit = edit]
             known == [draft EXCEPT !.tree = tree]
  <2>2. draft' = draft \/ Prepare(Watch, known, SeenBeforeWalk)
      BY <2>1
  <2>3. job[Watch].step = "walking"
      BY <1>4 DEF WatchWalked
  <2>4. job[Watch].tree \in Trees
      BY <2>0, <2>3, JobFacts DEF JobOK
  <2>5. tree \in Trees
    <3>1. job[Watch].tree.edit \in Nat /\ edits \in Nat /\ edits <= MaxEdits /\ MaxEdits \in Nat
        BY <1>1, <2>4, PublishingAssumption DEF Trees, PlainTypes
    <3>2. edit \in 0..MaxEdits
        BY <3>1
    <3> QED BY <2>4, <3>2 DEF Trees
  <2>6. known \in Collections /\ known.tier = draft.tier
    <3> HIDE DEF tree
    <3> QED BY <1>1, <2>5 DEF Collections
  <2> HIDE DEF known, tree
  <2> QED BY <1>1, <2>2, <2>6, PrepareKeepsTier
<1>5. CASE \/ FoldersChange \/ OpenEditor \/ Close \/ Reload \/ AppEnds \/ WatchBegins
           \/ \E c \in Selections : Scan(c)
           \/ \E j \in PublishSlots : PublishFromRow(j)
           \/ \E j \in PublishSlots : \E deletes \in BOOLEAN : RetireBegins(j, deletes)
           \/ UNCHANGED publishVars
  <2>1. CASE FoldersChange \/ OpenEditor \/ Close \/ Reload \/ AppEnds \/ WatchBegins
      BY <2>1 DEF FoldersChange, OpenEditor, Close, Reload, AppEnds, WatchBegins, files
  <2>2. CASE \E c \in Selections : Scan(c)
      BY <2>2 DEF Scan, files
  <2>3. CASE \E j \in PublishSlots : PublishFromRow(j)
      BY <2>3 DEF PublishFromRow, files
  <2>4. CASE \E j \in PublishSlots : \E deletes \in BOOLEAN : RetireBegins(j, deletes)
      BY <2>4 DEF RetireBegins, files
  <2>5. CASE UNCHANGED publishVars
      BY <2>5 DEF publishVars, files
  <2> QED BY <1>5, <2>1, <2>2, <2>3, <2>4, <2>5
<1>6. ~DeleteUnpublished
    BY DEF DeleteUnpublished, Swept
<1> QED BY <1>2, <1>3, <1>4, <1>5, <1>6 DEF PublishNext, PublishJobs

\* No scan, rescan, watch or restart changes the visibility of a collection: when it
\* changes, it is to what the user chose last.
THEOREM VisibilityIsTheUsers == PublishSpec => VisibilityNeverFlips
<1>1. PublishInv /\ [PublishNext]_publishVars =>
         [draft # None /\ draft' # None /\ draft'.tier # draft.tier => draft'.tier = wish']_publishVars
    BY VisibilityStep
<1> QED BY <1>1, PublishInvariant, PTL DEF PublishSpec, VisibilityNeverFlips

-----------------------------------------------------------------------------
(* A collection that goes out in parts: ListingSplit *)

Forest == \E n \in Nat : last \in Forests(n)

\* A node lies in its own subtree, and whoever lies in a subtree has its own there.
LEMMA ForestFacts ==
    ASSUME Forest
    PROVE  /\ Nodes \subseteq Nat \ {0}
           /\ \A i \in Nodes : /\ last[i] \in Nat /\ Subtree(i) \subseteq Nodes
                               /\ i \in Subtree(i)
           /\ \A i \in Nodes : \A m \in Subtree(i) : m >= i /\ Subtree(m) \subseteq Subtree(i)
           /\ \A i \in Nodes : Around(i) = {m \in Nodes : m < i /\ i \in Subtree(m)}
<1>1. PICK n \in Nat : last \in Forests(n)
    BY DEF Forest
<1>2. /\ last \in [1..n -> 1..n]
      /\ \A i \in 1..n : last[i] >= i /\ \A j \in i .. last[i] : last[j] <= last[i]
    BY <1>1 DEF Forests
<1>3. Nodes = 1..n
    BY <1>2 DEF Nodes
<1> QED BY <1>2, <1>3 DEF Subtree, Around

\* Nodes of one folder have nothing in common.
Apart(S) == \A s, t \in S : s # t => Subtree(s) \cap Subtree(t) = {}

LEMMA SiblingsApart ==
    ASSUME Forest, NEW p \in Nat
    PROVE  Children(p) \subseteq Nodes /\ Apart(Children(p))
<1>1. SUFFICES ASSUME NEW s \in Children(p), NEW t \in Children(p), s < t,
                      NEW i \in Subtree(s) \cap Subtree(t)
               PROVE  FALSE
    BY ForestFacts DEF Apart, Children
<1>2. s \in Nodes /\ t \in Nodes /\ Around(s) = Around(t)
    BY DEF Children
<1>3. t \in Subtree(s)
    BY <1>1, <1>2, ForestFacts DEF Subtree
<1>4. s \in Around(t) /\ s \notin Around(s)
    BY <1>1, <1>2, <1>3, ForestFacts
<1> QED BY <1>2, <1>4

\* A set of natural numbers has a least one.
LEMMA LeastOf ==
    ASSUME NEW S \in SUBSET Nat, S # {}
    PROVE  \E x \in S : \A y \in S : x <= y
<1> DEFINE Low == {0..x : x \in S}
<1>1. Low \subseteq FiniteSubsetsOf(Nat) /\ Low # {}
  <2>1. \A x \in S : 0..x \in SUBSET Nat /\ IsFiniteSet(0..x)
      BY FS_Interval
  <2> QED BY <2>1 DEF FiniteSubsetsOf
<1>2. PICK B \in Low : \A C \in Low : ~ (<<C, B>> \in StrictSubsetOrdering(Nat))
    BY <1>1, FS_StrictSubsetOrderingWellFounded, WFMin
<1>3. PICK x \in S : B = 0..x
    BY <1>2
<1>4. ASSUME NEW y \in S, y < x PROVE FALSE
  <2>1. 0..y \in Low /\ (0..y) \subseteq B /\ 0..y # B
      BY <1>3, <1>4
  <2> QED BY <1>1, <1>2, <2>1 DEF StrictSubsetOrdering, FiniteSubsetsOf
<1> QED BY <1>4

Below(S) == UNION {Subtree(i) : i \in S}

\* What is in a folder is below its children.
LEMMA FolderIsChildren ==
    ASSUME Forest, NEW e \in Nodes
    PROVE  Below(Children(e)) = Subtree(e) \ {e}
<1>1. ASSUME NEW j \in Subtree(e), j # e
      PROVE  \E k \in Children(e) : j \in Subtree(k)
  <2> DEFINE S == {k \in Nodes : k > e /\ j \in Subtree(k)}
  <2>1. j \in Nodes /\ j > e
      BY <1>1, ForestFacts DEF Subtree
  <2>2. j \in S /\ S \in SUBSET Nat
      BY <2>1, ForestFacts
  <2>3. PICK k \in S : \A y \in S : k <= y
    <3> HIDE DEF S
    <3> QED BY <2>2, LeastOf
  <2>4. k \in Subtree(e)
      BY <1>1, <2>1, <2>3, ForestFacts DEF Subtree
  <2>5. ASSUME NEW m \in Around(k) PROVE m \in Around(e) \cup {e}
    <3>1. m \in Nodes /\ m < k /\ k \in Subtree(m) /\ j \in Subtree(m)
        BY <2>3, <2>5, ForestFacts
    <3>2. ~ (m > e)
        BY <2>3, <3>1, ForestFacts
    <3>3. CASE m < e
      <4>1. e \in Subtree(m)
          BY <2>3, <3>1, <3>3, ForestFacts DEF Subtree
      <4> QED BY <3>1, <3>3, <4>1, ForestFacts
    <3> QED BY <3>1, <3>2, <3>3, ForestFacts
  <2>6. ASSUME NEW m \in Around(e) \cup {e} PROVE m \in Around(k)
    <3>1. m \in Nodes /\ m <= e /\ e \in Subtree(m)
        BY <2>6, ForestFacts
    <3>2. k \in Subtree(m)
        BY <2>4, <3>1, ForestFacts
    <3> QED BY <2>3, <3>1, <3>2, ForestFacts
  <2>7. Around(k) = Around(e) \cup {e} /\ e # 0
      BY <2>5, <2>6, ForestFacts
  <2> QED BY <2>3, <2>7 DEF Children
<1>2. ASSUME NEW k \in Children(e) PROVE Subtree(k) \subseteq Subtree(e) \ {e}
  <2>1. k \in Nodes /\ e \in Around(k)
      BY ForestFacts DEF Children
  <2>2. k \in Subtree(e) /\ e < k
      BY <2>1, ForestFacts
  <2> QED BY <2>1, <2>2, ForestFacts DEF Subtree
<1> QED BY <1>1, <1>2 DEF Below

\* The collection is what is below the top level.
LEMMA CollectionIsTop ==
    ASSUME Forest
    PROVE  Below(Children(0)) = Nodes
<1>1. ASSUME NEW j \in Nodes PROVE \E k \in Children(0) : j \in Subtree(k)
  <2> DEFINE S == {k \in Nodes : j \in Subtree(k)}
  <2>1. j \in S /\ S \in SUBSET Nat
      BY ForestFacts
  <2>2. PICK k \in S : \A y \in S : k <= y
    <3> HIDE DEF S
    <3> QED BY <2>1, LeastOf
  <2>3. ASSUME NEW m \in Around(k) PROVE FALSE
    <3>1. m \in Nodes /\ m < k /\ j \in Subtree(m)
        BY <2>2, ForestFacts
    <3> QED BY <2>2, <3>1, ForestFacts
  <2> QED BY <2>2, <2>3 DEF Children
<1>2. \A k \in Children(0) : Subtree(k) \subseteq Nodes
    BY ForestFacts DEF Children
<1> QED BY <1>1, <1>2 DEF Below

Chunks(X) == [mount : X, tops : SUBSET Nodes, shell : BOOLEAN]

PackCalls(X) ==
    [mount : X, siblings : SUBSET Nodes, left : SUBSET Nodes, run : SUBSET Nodes, budget : X]

\* Nothing is said of what mounts and budgets are.
PiecesTyped(X) ==
    /\ family \in Seq(Chunks(X))
    /\ unverified \in Seq(Chunks(X))
    /\ jobs \in Seq(PackCalls(X))

\* A chunk is of siblings, and a shell is short enough.
ChunkOK(c) == Apart(c.tops) /\ (c.shell => Fits(c))

CallOK(j) == Apart(j.left \cup j.run) /\ j.left \cap j.run = {}

Held(j) == Below(j.left \cup j.run)

\* The pieces of the collection in the order in which they will be parts: what was
\* emitted, what the calls in progress have left, the innermost first, what was not
\* verified yet.
LineOf(done, calls, todo) ==
    [x \in 1 .. Len(done) + Len(calls) + Len(todo) |->
        IF x <= Len(done) THEN Carried(done[x])
        ELSE IF x <= Len(done) + Len(calls) THEN Held(calls[x - Len(done)])
        ELSE Carried(todo[x - Len(done) - Len(calls)])]

Line == LineOf(family, jobs, unverified)

\* No piece has a folder of which something is in an earlier one.
Laid(line) ==
    \A x, y \in DOMAIN line : x < y => \A i \in line[x], m \in line[y] : i \notin Subtree(m)

Whole(line) == UNION {line[x] : x \in DOMAIN line} = Nodes

PiecesOK ==
    /\ \A k \in DOMAIN family : ChunkOK(family[k])
    /\ \A k \in DOMAIN unverified : ChunkOK(unverified[k])
    /\ \A k \in DOMAIN jobs : CallOK(jobs[k])

StagesOK ==
    /\ phase \in {"draft", "packing", "verifying", "published", "refused", "gave up"}
    /\ phase = "draft" => family = <<>> /\ unverified = <<>>
    /\ phase # "packing" => jobs = <<>>
    /\ phase \in {"draft", "published", "refused", "gave up"} => unverified = <<>>
    /\ phase \in {"verifying", "published"} => \A k \in DOMAIN family : Fits(family[k])

LineOK == phase \in {"packing", "verifying", "published"} => Laid(Line) /\ Whole(Line)

SplitInv ==
    /\ Forest
    /\ \E X : PiecesTyped(X)
    /\ PiecesOK
    /\ StagesOK
    /\ LineOK

\* K is L with pieces cut in order, or left out where they were empty; f is where each
\* came from.
Cuts(f, L, K) ==
    /\ DOMAIN L \subseteq Nat /\ DOMAIN K \subseteq Nat
    /\ f \in [DOMAIN K -> DOMAIN L]
    /\ \A x \in DOMAIN K : K[x] \subseteq L[f[x]]
    /\ \A x, y \in DOMAIN K : x < y => f[x] <= f[y]
    /\ \A x, y \in DOMAIN K : x < y /\ f[x] = f[y] =>
                                 \A i \in K[x], m \in K[y] : i \notin Subtree(m)
    /\ \A z \in DOMAIN L : L[z] \subseteq UNION {K[x] : x \in DOMAIN K}

LEMMA Refined ==
    ASSUME NEW L, NEW K, NEW f, Cuts(f, L, K), Laid(L), Whole(L)
    PROVE  Laid(K) /\ Whole(K)
<1>1. Laid(K)
  <2> SUFFICES ASSUME NEW x \in DOMAIN K, NEW y \in DOMAIN K, x < y,
                      NEW i \in K[x], NEW m \in K[y]
               PROVE  i \notin Subtree(m)
      BY DEF Laid
  <2>1. f[x] \in DOMAIN L /\ f[y] \in DOMAIN L /\ i \in L[f[x]] /\ m \in L[f[y]]
      BY DEF Cuts
  <2>2. CASE f[x] < f[y]
      BY <2>1, <2>2 DEF Laid
  <2>3. CASE f[x] = f[y]
      BY <2>3 DEF Cuts
  <2>4. f[x] \in Int /\ f[y] \in Int /\ f[x] <= f[y]
      BY <2>1 DEF Cuts
  <2> QED BY <2>2, <2>3, <2>4
<1>2. UNION {K[x] : x \in DOMAIN K} \subseteq UNION {L[z] : z \in DOMAIN L}
    BY DEF Cuts
<1>3. UNION {L[z] : z \in DOMAIN L} \subseteq UNION {K[x] : x \in DOMAIN K}
    BY DEF Cuts
<1> QED BY <1>1, <1>2, <1>3 DEF Whole

\* The collection does not change, so that a new line differs by its pieces only.
LEMMA NextLine == UNCHANGED last => Line' = LineOf(family', jobs', unverified')
BY DEF Line, LineOf, Carried, Held, Below, Subtree

\* What is below different siblings is apart.
LEMMA BelowApart ==
    ASSUME Forest, NEW S \in SUBSET Nodes, Apart(S),
           NEW A \in SUBSET S, NEW B \in SUBSET S, A \cap B = {},
           NEW i \in Below(A), NEW m \in Below(B)
    PROVE  i \notin Subtree(m)
<1>1. PICK a \in A : i \in Subtree(a)
    BY DEF Below
<1>2. PICK b \in B : m \in Subtree(b)
    BY DEF Below
<1>3. Subtree(m) \subseteq Subtree(b)
    BY <1>2, ForestFacts
<1> QED BY <1>1, <1>2, <1>3 DEF Apart

LEMMA PieceFacts ==
    ASSUME Forest, NEW X, PiecesTyped(X)
    PROVE  /\ Len(family) \in Nat /\ DOMAIN family = 1 .. Len(family)
           /\ Len(jobs) \in Nat /\ DOMAIN jobs = 1 .. Len(jobs)
           /\ Len(unverified) \in Nat /\ DOMAIN unverified = 1 .. Len(unverified)
           /\ \A k \in DOMAIN family : family[k] \in Chunks(X)
           /\ \A k \in DOMAIN jobs : jobs[k] \in PackCalls(X)
           /\ \A k \in DOMAIN unverified : unverified[k] \in Chunks(X)
           /\ jobs # <<>> => Len(jobs) >= 1 /\ Current = jobs[1] /\ Current \in PackCalls(X)
           /\ unverified # <<>> => Len(unverified) >= 1 /\ Head(unverified) = unverified[1]
BY DEF PiecesTyped, Current

\* The pieces by their place.
LineIs(line, done, calls, todo) ==
    /\ Len(done) \in Nat /\ Len(calls) \in Nat /\ Len(todo) \in Nat
    /\ DOMAIN line = 1 .. Len(done) + Len(calls) + Len(todo)
    /\ \A x \in 1 .. Len(done) : line[x] = Carried(done[x])
    /\ \A x \in 1 .. Len(calls) : line[Len(done) + x] = Held(calls[x])
    /\ \A x \in 1 .. Len(todo) : line[Len(done) + Len(calls) + x] = Carried(todo[x])

LEMMA LineFacts ==
    ASSUME NEW D, NEW J, NEW U, NEW done \in Seq(D), NEW calls \in Seq(J), NEW todo \in Seq(U)
    PROVE  LineIs(LineOf(done, calls, todo), done, calls, todo)
<1> DEFINE F == Len(done)
           C == Len(calls)
           T == Len(todo)
<1>1. F \in Nat /\ C \in Nat /\ T \in Nat
    OBVIOUS
<1>2. DOMAIN LineOf(done, calls, todo) = 1 .. F + C + T
    BY DEF LineOf
<1>3. ASSUME NEW x \in 1 .. F PROVE LineOf(done, calls, todo)[x] = Carried(done[x])
    BY <1>1 DEF LineOf
<1>4. ASSUME NEW x \in 1 .. C PROVE LineOf(done, calls, todo)[F + x] = Held(calls[x])
  <2>1. F + x \in 1 .. F + C + T /\ ~ (F + x <= F) /\ F + x <= F + C /\ F + x - F = x
      BY <1>1
  <2> HIDE DEF F, C, T
  <2> QED BY <2>1 DEF LineOf, F, C, T
<1>5. ASSUME NEW x \in 1 .. T PROVE LineOf(done, calls, todo)[F + C + x] = Carried(todo[x])
  <2>1. F + C + x \in 1 .. F + C + T /\ ~ (F + C + x <= F) /\ ~ (F + C + x <= F + C) /\ F + C + x - F - C = x
      BY <1>1
  <2> HIDE DEF F, C, T
  <2> QED BY <2>1 DEF LineOf, F, C, T
<1> QED BY <1>1, <1>2, <1>3, <1>4, <1>5 DEF LineIs

\* One piece becomes two.
LEMMA CutAt ==
    ASSUME NEW F \in Nat, NEW N \in Nat, F + 1 <= N, NEW L, NEW K,
           DOMAIN L = 1..N, DOMAIN K = 1 .. N + 1,
           \A x \in 1..F : K[x] = L[x],
           \A x \in F + 2 .. N : K[x + 1] = L[x],
           K[F + 1] \cup K[F + 2] = L[F + 1],
           \A i \in K[F + 1], m \in K[F + 2] : i \notin Subtree(m),
           Laid(L), Whole(L)
    PROVE  Laid(K) /\ Whole(K)
<1> DEFINE f == [x \in 1 .. N + 1 |-> IF x <= F + 1 THEN x ELSE x - 1]
<1>1. f \in [DOMAIN K -> DOMAIN L] /\ DOMAIN L \subseteq Nat /\ DOMAIN K \subseteq Nat
    OBVIOUS
<1>2. ASSUME NEW x \in DOMAIN K PROVE K[x] \subseteq L[f[x]]
  <2>1. CASE x <= F + 2
      BY <2>1
  <2>2. CASE x > F + 2
    <3>1. PICK y \in F + 2 .. N : x = y + 1 /\ f[x] = y
      <4>1. x - 1 \in F + 2 .. N /\ x = (x - 1) + 1 /\ f[x] = x - 1
          BY <2>2
      <4> QED BY <4>1
    <3> QED BY <3>1
  <2> QED BY <2>1, <2>2
<1>3. \A x, y \in DOMAIN K : x < y => f[x] <= f[y]
    OBVIOUS
<1>4. ASSUME NEW x \in DOMAIN K, NEW y \in DOMAIN K, x < y, f[x] = f[y]
      PROVE  \A i \in K[x], m \in K[y] : i \notin Subtree(m)
  <2>1. x = F + 1 /\ y = F + 2
      BY <1>4
  <2> QED BY <2>1
<1>5. ASSUME NEW z \in DOMAIN L PROVE L[z] \subseteq UNION {K[x] : x \in DOMAIN K}
  <2>1. CASE z <= F
    <3>1. K[z] = L[z] /\ z \in DOMAIN K
        BY <2>1
    <3> QED BY <3>1
  <2>2. CASE z = F + 1
    <3>1. F + 1 \in DOMAIN K /\ F + 2 \in DOMAIN K
        OBVIOUS
    <3> QED BY <2>2, <3>1
  <2>3. CASE z > F + 1
    <3>1. z + 1 \in DOMAIN K /\ z \in F + 2 .. N
        BY <2>3
    <3>2. K[z + 1] = L[z]
        BY <3>1
    <3> QED BY <3>1, <3>2
  <2> QED BY <2>1, <2>2, <2>3
<1> HIDE DEF f
<1>6. Cuts(f, L, K)
    BY <1>1, <1>2, <1>3, <1>4, <1>5 DEF Cuts
<1> QED BY <1>6, Refined

\* A piece with nothing in it is left out.
LEMMA DropAt ==
    ASSUME NEW F \in Nat, NEW N \in Nat, F + 1 <= N, NEW L, NEW K,
           DOMAIN L = 1..N, DOMAIN K = 1 .. N - 1,
           \A x \in 1..F : K[x] = L[x],
           \A x \in F + 1 .. N - 1 : K[x] = L[x + 1],
           L[F + 1] = {},
           Laid(L), Whole(L)
    PROVE  Laid(K) /\ Whole(K)
<1> DEFINE f == [x \in 1 .. N - 1 |-> IF x <= F THEN x ELSE x + 1]
<1>1. f \in [DOMAIN K -> DOMAIN L] /\ DOMAIN L \subseteq Nat /\ DOMAIN K \subseteq Nat
    OBVIOUS
<1>2. \A x \in DOMAIN K : K[x] \subseteq L[f[x]]
    OBVIOUS
<1>3. \A x, y \in DOMAIN K : x < y => f[x] < f[y] /\ f[x] # f[y] /\ f[x] <= f[y]
    OBVIOUS
<1>4. ASSUME NEW z \in DOMAIN L PROVE L[z] \subseteq UNION {K[x] : x \in DOMAIN K}
  <2>1. CASE z <= F
    <3>1. K[z] = L[z] /\ z \in DOMAIN K
        BY <2>1
    <3> QED BY <3>1
  <2>2. CASE z = F + 1
      BY <2>2
  <2>3. CASE z > F + 1
    <3>1. PICK y \in F + 1 .. N - 1 : z = y + 1
      <4>1. z - 1 \in F + 1 .. N - 1 /\ z = (z - 1) + 1
          BY <2>3
      <4> QED BY <4>1
    <3>2. K[y] = L[z] /\ y \in DOMAIN K
        BY <3>1
    <3> QED BY <3>2
  <2> QED BY <2>1, <2>2, <2>3
<1> HIDE DEF f
<1>5. Cuts(f, L, K)
    BY <1>1, <1>2, <1>3, <1>4 DEF Cuts
<1> QED BY <1>5, Refined

LEMMA SamePieces ==
    ASSUME NEW L, NEW K, DOMAIN K = DOMAIN L, \A x \in DOMAIN L : K[x] = L[x],
           Laid(L), Whole(L)
    PROVE  Laid(K) /\ Whole(K)
<1>1. UNION {K[x] : x \in DOMAIN K} = UNION {L[x] : x \in DOMAIN L}
    OBVIOUS
<1> QED BY <1>1 DEF Laid, Whole

\* The innermost call emits a chunk of what it has left.
LEMMA CutChunk ==
    ASSUME NEW D, NEW J, NEW U, NEW done \in Seq(D), NEW calls \in Seq(J), NEW todo \in Seq(U),
           calls # <<>>, NEW c \in D, NEW h \in J,
           Laid(LineOf(done, calls, todo)), Whole(LineOf(done, calls, todo)),
           Carried(c) \cup Held(h) = Held(calls[1]),
           \A i \in Carried(c), m \in Held(h) : i \notin Subtree(m)
    PROVE  /\ Laid(LineOf(Append(done, c), [calls EXCEPT ![1] = h], todo))
           /\ Whole(LineOf(Append(done, c), [calls EXCEPT ![1] = h], todo))
<1> DEFINE F == Len(done)
           C == Len(calls)
           T == Len(todo)
           done1 == Append(done, c)
           calls1 == [calls EXCEPT ![1] = h]
           L == LineOf(done, calls, todo)
           K == LineOf(done1, calls1, todo)
<1>1. F \in Nat /\ C \in Nat /\ T \in Nat /\ C >= 1
    OBVIOUS
<1>2. done1 \in Seq(D) /\ calls1 \in Seq(J)
    OBVIOUS
<1>3. /\ Len(done1) = F + 1 /\ done1[F + 1] = c /\ \A x \in 1..F : done1[x] = done[x]
      /\ Len(calls1) = C /\ calls1[1] = h /\ \A x \in 2..C : calls1[x] = calls[x]
    BY <1>1
<1>4. /\ DOMAIN L = 1 .. F + C + T
      /\ \A x \in 1..F : L[x] = Carried(done[x])
      /\ \A x \in 1..C : L[F + x] = Held(calls[x])
      /\ \A x \in 1..T : L[F + C + x] = Carried(todo[x])
  <2>1. LineIs(L, done, calls, todo)
      BY LineFacts
  <2> HIDE DEF L
  <2> QED BY <2>1 DEF LineIs
<1>5. /\ DOMAIN K = 1 .. F + 1 + C + T
      /\ \A x \in 1 .. F + 1 : K[x] = Carried(done1[x])
      /\ \A x \in 1..C : K[F + 1 + x] = Held(calls1[x])
      /\ \A x \in 1..T : K[F + 1 + C + x] = Carried(todo[x])
  <2> HIDE DEF done1, calls1
  <2>1. /\ DOMAIN K = 1 .. Len(done1) + Len(calls1) + T
        /\ \A x \in 1 .. Len(done1) : K[x] = Carried(done1[x])
        /\ \A x \in 1 .. Len(calls1) : K[Len(done1) + x] = Held(calls1[x])
        /\ \A x \in 1..T : K[Len(done1) + Len(calls1) + x] = Carried(todo[x])
    <3>1. LineIs(K, done1, calls1, todo)
        BY <1>2, LineFacts
    <3> HIDE DEF K
    <3> QED BY <3>1 DEF LineIs
  <2> HIDE DEF K, F, C, T
  <2> QED BY <1>3, <2>1
<1> HIDE DEF done1, calls1, L, K
<1>6. /\ DOMAIN K = 1 .. F + C + T + 1
      /\ \A x \in 1..F : K[x] = L[x]
      /\ K[F + 1] = Carried(c) /\ K[F + 2] = Held(h) /\ L[F + 1] = Held(calls[1])
    BY <1>1, <1>3, <1>4, <1>5
<1>7. \A x \in F + 2 .. F + C + T : K[x + 1] = L[x]
  <2> HIDE DEF F, C, T
  <2> SUFFICES ASSUME NEW x \in F + 2 .. F + C + T PROVE K[x + 1] = L[x]
      OBVIOUS
  <2>1. CASE x <= F + C
    <3>1. PICK y \in 2..C : x = F + y /\ x + 1 = F + 1 + y
      <4>1. x - F \in 2..C /\ x = F + (x - F) /\ x + 1 = F + 1 + (x - F)
          BY <1>1, <2>1
      <4> QED BY <4>1
    <3>2. y \in 1..C
        BY <1>1
    <3>3. K[F + 1 + y] = Held(calls1[y]) /\ L[F + y] = Held(calls[y]) /\ calls1[y] = calls[y]
        BY <1>3, <1>4, <1>5, <3>2
    <3> QED BY <3>1, <3>3
  <2>2. CASE x > F + C
    <3>1. PICK y \in 1..T : x = F + C + y /\ x + 1 = F + 1 + C + y
      <4>1. x - (F + C) \in 1..T /\ x = F + C + (x - (F + C)) /\ x + 1 = F + 1 + C + (x - (F + C))
          BY <1>1, <2>2
      <4> QED BY <4>1
    <3> QED BY <1>4, <1>5, <3>1
  <2> QED BY <1>1, <2>1, <2>2
<1>8. F + C + T \in Nat /\ F + 1 <= F + C + T
    BY <1>1
<1>9. Laid(K) /\ Whole(K)
  <2> DEFINE N == F + C + T
  <2>1. /\ N \in Nat /\ F + 1 <= N
        /\ DOMAIN L = 1..N /\ DOMAIN K = 1 .. N + 1
        /\ \A x \in F + 2 .. N : K[x + 1] = L[x]
      BY <1>4, <1>6, <1>7, <1>8
  <2>2. /\ K[F + 1] \cup K[F + 2] = L[F + 1]
        /\ \A i \in K[F + 1], m \in K[F + 2] : i \notin Subtree(m)
      BY <1>6
  <2>3. Laid(L) /\ Whole(L)
      BY DEF L
  <2> HIDE DEF N, F
  <2> QED BY <1>1, <1>6, <2>1, <2>2, <2>3, CutAt
<1> QED BY <1>9 DEF K, done1, calls1

\* The innermost call calls for a folder of what it has left.
LEMMA CutCall ==
    ASSUME NEW D, NEW J, NEW U, NEW done \in Seq(D), NEW calls \in Seq(J), NEW todo \in Seq(U),
           calls # <<>>, NEW g \in J, NEW h \in J,
           Laid(LineOf(done, calls, todo)), Whole(LineOf(done, calls, todo)),
           Held(g) \cup Held(h) = Held(calls[1]),
           \A i \in Held(g), m \in Held(h) : i \notin Subtree(m)
    PROVE  /\ Laid(LineOf(done, <<g>> \o [calls EXCEPT ![1] = h], todo))
           /\ Whole(LineOf(done, <<g>> \o [calls EXCEPT ![1] = h], todo))
<1> DEFINE F == Len(done)
           C == Len(calls)
           T == Len(todo)
           rest == [calls EXCEPT ![1] = h]
           calls1 == <<g>> \o rest
           L == LineOf(done, calls, todo)
           K == LineOf(done, calls1, todo)
<1>1. F \in Nat /\ C \in Nat /\ T \in Nat /\ C >= 1
    OBVIOUS
<1>2. rest \in Seq(J) /\ Len(rest) = C /\ rest[1] = h /\ \A x \in 2..C : rest[x] = calls[x]
    BY <1>1
<1>3. /\ calls1 \in Seq(J) /\ Len(calls1) = C + 1
      /\ calls1[1] = g /\ \A x \in 1..C : calls1[x + 1] = rest[x]
  <2> HIDE DEF rest
  <2> QED BY <1>1, <1>2
<1>4. /\ DOMAIN L = 1 .. F + C + T
      /\ \A x \in 1..F : L[x] = Carried(done[x])
      /\ \A x \in 1..C : L[F + x] = Held(calls[x])
      /\ \A x \in 1..T : L[F + C + x] = Carried(todo[x])
  <2>1. LineIs(L, done, calls, todo)
      BY LineFacts
  <2> HIDE DEF L
  <2> QED BY <2>1 DEF LineIs
<1>5. /\ DOMAIN K = 1 .. F + (C + 1) + T
      /\ \A x \in 1..F : K[x] = Carried(done[x])
      /\ \A x \in 1 .. C + 1 : K[F + x] = Held(calls1[x])
      /\ \A x \in 1..T : K[F + (C + 1) + x] = Carried(todo[x])
  <2> HIDE DEF calls1
  <2>1. LineIs(K, done, calls1, todo)
      BY <1>3, LineFacts
  <2> HIDE DEF K
  <2> QED BY <1>3, <2>1 DEF LineIs
<1> HIDE DEF rest, calls1, L, K
<1>6. /\ DOMAIN K = 1 .. F + C + T + 1
      /\ \A x \in 1..F : K[x] = L[x]
      /\ K[F + 1] = Held(g) /\ K[F + 2] = Held(h) /\ L[F + 1] = Held(calls[1])
  <2>1. calls1[1 + 1] = h /\ 1 + 1 \in 1 .. C + 1 /\ 1 \in 1 .. C + 1 /\ 1 \in 1..C
      BY <1>1, <1>2, <1>3
  <2>2. K[F + (1 + 1)] = Held(h) /\ K[F + 1] = Held(g) /\ L[F + 1] = Held(calls[1])
      BY <1>3, <1>4, <1>5, <2>1
  <2> QED BY <1>1, <1>4, <1>5, <2>2
<1>7. \A x \in F + 2 .. F + C + T : K[x + 1] = L[x]
  <2> HIDE DEF F, C, T
  <2> SUFFICES ASSUME NEW x \in F + 2 .. F + C + T PROVE K[x + 1] = L[x]
      OBVIOUS
  <2>1. CASE x <= F + C
    <3>1. PICK y \in 2..C : x = F + y /\ x + 1 = F + (y + 1)
      <4>1. x - F \in 2..C /\ x = F + (x - F) /\ x + 1 = F + ((x - F) + 1)
          BY <1>1, <2>1
      <4> QED BY <4>1
    <3>2. y \in 1..C /\ y + 1 \in 1 .. C + 1
        BY <1>1
    <3>3. calls1[y + 1] = calls[y]
        BY <1>2, <1>3, <3>2
    <3>4. K[F + (y + 1)] = Held(calls1[y + 1]) /\ L[F + y] = Held(calls[y])
        BY <1>4, <1>5, <3>2
    <3> QED BY <3>1, <3>3, <3>4
  <2>2. CASE x > F + C
    <3>1. PICK y \in 1..T : x = F + C + y /\ x + 1 = F + (C + 1) + y
      <4>1. x - (F + C) \in 1..T /\ x = F + C + (x - (F + C)) /\ x + 1 = F + (C + 1) + (x - (F + C))
          BY <1>1, <2>2
      <4> QED BY <4>1
    <3> QED BY <1>4, <1>5, <3>1
  <2> QED BY <1>1, <2>1, <2>2
<1>8. F + C + T \in Nat /\ F + 1 <= F + C + T
    BY <1>1
<1>9. Laid(K) /\ Whole(K)
  <2> DEFINE N == F + C + T
  <2>1. /\ N \in Nat /\ F + 1 <= N
        /\ DOMAIN L = 1..N /\ DOMAIN K = 1 .. N + 1
        /\ \A x \in F + 2 .. N : K[x + 1] = L[x]
      BY <1>4, <1>6, <1>7, <1>8
  <2>2. /\ K[F + 1] \cup K[F + 2] = L[F + 1]
        /\ \A i \in K[F + 1], m \in K[F + 2] : i \notin Subtree(m)
      BY <1>6
  <2>3. Laid(L) /\ Whole(L)
      BY DEF L
  <2> HIDE DEF N, F
  <2> QED BY <1>1, <1>6, <2>1, <2>2, <2>3, CutAt
<1> QED BY <1>9 DEF K, calls1, rest

\* The innermost call returns; it has nothing left.
LEMMA DropCall ==
    ASSUME NEW D, NEW J, NEW U, NEW done \in Seq(D), NEW calls \in Seq(J), NEW todo \in Seq(U),
           calls # <<>>, Held(calls[1]) = {},
           Laid(LineOf(done, calls, todo)), Whole(LineOf(done, calls, todo))
    PROVE  Laid(LineOf(done, Tail(calls), todo)) /\ Whole(LineOf(done, Tail(calls), todo))
<1> DEFINE F == Len(done)
           C == Len(calls)
           T == Len(todo)
           calls1 == Tail(calls)
           L == LineOf(done, calls, todo)
           K == LineOf(done, calls1, todo)
<1>1. F \in Nat /\ C \in Nat /\ T \in Nat /\ C >= 1
    OBVIOUS
<1>2. /\ calls1 \in Seq(J) /\ Len(calls1) = C - 1
      /\ \A x \in 1 .. C - 1 : calls1[x] = calls[x + 1]
    BY <1>1
<1>3. /\ DOMAIN L = 1 .. F + C + T
      /\ \A x \in 1..F : L[x] = Carried(done[x])
      /\ \A x \in 1..C : L[F + x] = Held(calls[x])
      /\ \A x \in 1..T : L[F + C + x] = Carried(todo[x])
  <2>1. LineIs(L, done, calls, todo)
      BY LineFacts
  <2> HIDE DEF L
  <2> QED BY <2>1 DEF LineIs
<1>4. /\ DOMAIN K = 1 .. F + (C - 1) + T
      /\ \A x \in 1..F : K[x] = Carried(done[x])
      /\ \A x \in 1 .. C - 1 : K[F + x] = Held(calls1[x])
      /\ \A x \in 1..T : K[F + (C - 1) + x] = Carried(todo[x])
  <2> HIDE DEF calls1
  <2>1. LineIs(K, done, calls1, todo)
      BY <1>2, LineFacts
  <2> HIDE DEF K
  <2> QED BY <1>2, <2>1 DEF LineIs
<1> HIDE DEF calls1, L, K
<1> DEFINE N == F + C + T
<1>5. /\ N \in Nat /\ F + 1 <= N
      /\ DOMAIN L = 1..N /\ DOMAIN K = 1 .. N - 1
      /\ \A x \in 1..F : K[x] = L[x]
      /\ L[F + 1] = {}
    BY <1>1, <1>3, <1>4
<1>6. \A x \in F + 1 .. N - 1 : K[x] = L[x + 1]
  <2> HIDE DEF F, C, T
  <2> SUFFICES ASSUME NEW x \in F + 1 .. N - 1 PROVE K[x] = L[x + 1]
      OBVIOUS
  <2>1. CASE x <= F + (C - 1)
    <3>1. PICK y \in 1 .. C - 1 : x = F + y /\ x + 1 = F + (y + 1)
      <4>1. x - F \in 1 .. C - 1 /\ x = F + (x - F) /\ x + 1 = F + ((x - F) + 1)
          BY <1>1, <2>1
      <4> QED BY <4>1
    <3>2. y + 1 \in 1..C
        BY <1>1
    <3>3. K[F + y] = Held(calls1[y]) /\ L[F + (y + 1)] = Held(calls[y + 1]) /\ calls1[y] = calls[y + 1]
        BY <1>2, <1>3, <1>4, <3>2
    <3> QED BY <3>1, <3>3
  <2>2. CASE x > F + (C - 1)
    <3>1. PICK y \in 1..T : x = F + (C - 1) + y /\ x + 1 = F + C + y
      <4>1. /\ x - (F + (C - 1)) \in 1..T
            /\ x = F + (C - 1) + (x - (F + (C - 1)))
            /\ x + 1 = F + C + (x - (F + (C - 1)))
          BY <1>1, <2>2
      <4> QED BY <4>1
    <3> QED BY <1>3, <1>4, <3>1
  <2> QED BY <1>1, <2>1, <2>2
<1>7. Laid(L) /\ Whole(L)
    BY DEF L
<1> HIDE DEF N, F
<1>8. Laid(K) /\ Whole(K)
    BY <1>1, <1>5, <1>6, <1>7, DropAt
<1> QED BY <1>8 DEF K, calls1

\* The innermost call takes an entry into its run.
LEMMA SameCall ==
    ASSUME NEW D, NEW J, NEW U, NEW done \in Seq(D), NEW calls \in Seq(J), NEW todo \in Seq(U),
           calls # <<>>, NEW h \in J, Held(h) = Held(calls[1])
    PROVE  LineOf(done, [calls EXCEPT ![1] = h], todo) = LineOf(done, calls, todo)
<1> DEFINE calls1 == [calls EXCEPT ![1] = h]
<1>1. Len(done) \in Nat /\ Len(calls) \in Nat /\ Len(todo) \in Nat
    OBVIOUS
<1>2. Len(calls1) = Len(calls) /\ \A y \in 1 .. Len(calls) : Held(calls1[y]) = Held(calls[y])
    BY <1>1
<1>3. \A x \in Nat : x > Len(done) /\ x <= Len(done) + Len(calls) => x - Len(done) \in 1 .. Len(calls)
    BY <1>1
<1> HIDE DEF calls1
<1>4. LineOf(done, calls1, todo) = LineOf(done, calls, todo)
    BY <1>1, <1>2, <1>3 DEF LineOf
<1> QED BY <1>4 DEF calls1

\* A chunk that is not too long stays where it is.
LEMMA KeptChunk ==
    ASSUME NEW D, NEW done \in Seq(D), NEW todo \in Seq(D), todo # <<>>
    PROVE  LineOf(Append(done, Head(todo)), <<>>, Tail(todo)) = LineOf(done, <<>>, todo)
<1> DEFINE done1 == Append(done, Head(todo))
           todo1 == Tail(todo)
           F == Len(done)
           T == Len(todo)
<1>1. F \in Nat /\ T \in Nat /\ T >= 1 /\ Len(<<>>) = 0
    OBVIOUS
<1>2. /\ Len(done1) = F + 1 /\ done1[F + 1] = todo[1] /\ \A x \in 1..F : done1[x] = done[x]
      /\ Len(todo1) = T - 1 /\ \A x \in 1 .. T - 1 : todo1[x] = todo[x + 1]
    BY <1>1
<1>3. /\ LineOf(done, <<>>, todo) =
             [x \in 1 .. F + T |-> IF x <= F THEN Carried(done[x]) ELSE Carried(todo[x - F])]
      /\ LineOf(done1, <<>>, todo1) =
             [x \in 1 .. F + T |-> IF x <= F + 1 THEN Carried(done1[x])
                                                 ELSE Carried(todo1[x - (F + 1)])]
    BY <1>1, <1>2 DEF LineOf
<1> HIDE DEF done1, todo1, F, T
<1>4. ASSUME NEW x \in 1 .. F + T
      PROVE  (IF x <= F + 1 THEN Carried(done1[x]) ELSE Carried(todo1[x - (F + 1)]))
             = (IF x <= F THEN Carried(done[x]) ELSE Carried(todo[x - F]))
  <2>1. CASE x <= F
      BY <1>1, <1>2, <2>1
  <2>2. CASE x = F + 1
      BY <1>1, <1>2, <2>2
  <2>3. CASE x > F + 1
    <3>1. PICK y \in 1 .. T - 1 : x = F + 1 + y /\ x - (F + 1) = y /\ x - F = y + 1
      <4>1. x - (F + 1) \in 1 .. T - 1 /\ x = F + 1 + (x - (F + 1)) /\ x - F = (x - (F + 1)) + 1
          BY <1>1, <2>3
      <4> QED BY <4>1
    <3> QED BY <1>1, <1>2, <2>3, <3>1
  <2> QED BY <1>1, <2>1, <2>2, <2>3
<1>5. LineOf(done1, <<>>, todo1) = LineOf(done, <<>>, todo)
    BY <1>3, <1>4
<1> QED BY <1>5 DEF done1, todo1

\* A chunk that is too long is packed again where it was.
LEMMA OpenedChunk ==
    ASSUME NEW D, NEW J, NEW done \in Seq(D), NEW todo \in Seq(D), todo # <<>>,
           NEW j \in J, Held(j) = Carried(Head(todo))
    PROVE  LineOf(done, <<j>>, Tail(todo)) = LineOf(done, <<>>, todo)
<1> DEFINE todo1 == Tail(todo)
           F == Len(done)
           T == Len(todo)
<1>1. F \in Nat /\ T \in Nat /\ T >= 1 /\ Len(<<>>) = 0 /\ Len(<<j>>) = 1
    OBVIOUS
<1>2. Len(todo1) = T - 1 /\ Head(todo) = todo[1] /\ \A x \in 1 .. T - 1 : todo1[x] = todo[x + 1]
    BY <1>1
<1>3. LineOf(done, <<>>, todo) =
          [x \in 1 .. F + T |-> IF x <= F THEN Carried(done[x]) ELSE Carried(todo[x - F])]
    BY <1>1 DEF LineOf
<1>4. ASSUME NEW x \in 1 .. F + T
      PROVE  (IF x <= F THEN Carried(done[x])
              ELSE IF x <= F + 1 THEN Held(<<j>>[x - F])
              ELSE Carried(todo1[x - F - 1]))
             = (IF x <= F THEN Carried(done[x]) ELSE Carried(todo[x - F]))
  <2> HIDE DEF todo1, F, T
  <2>1. CASE x <= F
      BY <2>1
  <2>2. CASE x = F + 1
    <3>1. x - F = 1 /\ ~ (x <= F) /\ x <= F + 1
        BY <1>1, <2>2
    <3> QED BY <1>2, <3>1
  <2>3. CASE x > F + 1
    <3>1. PICK y \in 1 .. T - 1 : x - F - 1 = y /\ x - F = y + 1
      <4>1. x - F - 1 \in 1 .. T - 1 /\ x - F = (x - F - 1) + 1
          BY <1>1, <2>3
      <4> QED BY <4>1
    <3> QED BY <1>1, <1>2, <2>3, <3>1
  <2> QED BY <1>1, <2>1, <2>2, <2>3
<1>5. LineOf(done, <<j>>, todo1) =
          [x \in 1 .. F + T |->
              IF x <= F THEN Carried(done[x])
              ELSE IF x <= F + 1 THEN Held(<<j>>[x - F])
              ELSE Carried(todo1[x - F - 1])]
  <2>1. 1 .. F + 1 + (T - 1) = 1 .. F + T
      BY <1>1
  <2> HIDE DEF todo1
  <2> QED BY <1>1, <1>2, <2>1 DEF LineOf
<1>6. LineOf(done, <<j>>, todo1) = LineOf(done, <<>>, todo)
  <2> HIDE DEF todo1, F, T
  <2> QED BY <1>3, <1>4, <1>5
<1> QED BY <1>6

\* What was emitted is verified in its order.
LEMMA NextRound ==
    ASSUME NEW D, NEW done \in Seq(D)
    PROVE  LineOf(<<>>, <<>>, done) = LineOf(done, <<>>, <<>>)
<1>1. Len(done) \in Nat /\ Len(<<>>) = 0
    OBVIOUS
<1>2. /\ LineOf(<<>>, <<>>, done) = [x \in 1 .. Len(done) |-> Carried(done[x])]
      /\ LineOf(done, <<>>, <<>>) = [x \in 1 .. Len(done) |-> Carried(done[x])]
    BY <1>1 DEF LineOf
<1> QED BY <1>2

\* A step changes the pieces and not the collection they are of.
LEMMA NextPieces ==
    ASSUME UNCHANGED collection, Forest, NEW X,
           /\ family' \in Seq(Chunks(X))
           /\ unverified' \in Seq(Chunks(X))
           /\ jobs' \in Seq(PackCalls(X)),
           /\ \A k \in DOMAIN family' : ChunkOK(family'[k])
           /\ \A k \in DOMAIN unverified' : ChunkOK(unverified'[k])
           /\ \A k \in DOMAIN jobs' : CallOK(jobs'[k]),
           /\ phase' \in {"draft", "packing", "verifying", "published", "refused", "gave up"}
           /\ phase' = "draft" => family' = <<>> /\ unverified' = <<>>
           /\ phase' # "packing" => jobs' = <<>>
           /\ phase' \in {"draft", "published", "refused", "gave up"} => unverified' = <<>>
           /\ phase' \in {"verifying", "published"} => \A k \in DOMAIN family' : Fits(family'[k]),
           phase' \in {"packing", "verifying", "published"} =>
               /\ Laid(LineOf(family', jobs', unverified'))
               /\ Whole(LineOf(family', jobs', unverified'))
    PROVE  SplitInv'
<1>1. last' = last /\ plainWeight' = plainWeight /\ sealedWeight' = sealedWeight /\ measure' = measure
    BY DEF collection
<1>2. Forest'
    BY <1>1 DEF Forest
<1>3. PiecesTyped(X)'
    BY <1>1 DEF PiecesTyped, Chunks, PackCalls, Nodes
<1>4. PiecesOK'
    BY <1>1 DEF PiecesOK, ChunkOK, CallOK, Apart, Subtree, Fits, Measured, Length, Carried
<1>5. StagesOK'
    BY <1>1 DEF StagesOK, Fits, Measured, Length, Carried, Subtree
<1>6. LineOK'
  <2>1. Line' = LineOf(family', jobs', unverified')
      BY <1>1, NextLine
  <2> DEFINE K == LineOf(family', jobs', unverified')
  <2> HIDE DEF K
  <2>2. Line' = K
      BY <2>1 DEF K
  <2>3. phase' \in {"packing", "verifying", "published"} => Laid(K) /\ Whole(K)
      BY DEF K
  <2>4. Laid(K) => Laid(Line)'
      BY <1>1, <2>2 DEF Laid, Subtree
  <2>5. Whole(K) => Whole(Line)'
      BY <1>1, <2>2 DEF Whole, Nodes
  <2> QED BY <2>3, <2>4, <2>5 DEF LineOK
<1> QED BY <1>2, <1>3, <1>4, <1>5, <1>6 DEF SplitInv

LEMMA SplitStarts == SplitInit => SplitInv
<1> SUFFICES ASSUME SplitInit PROVE SplitInv
    OBVIOUS
<1>1. Forest
    BY SplitAssumption DEF SplitInit, Forest
<1>2. family = <<>> /\ jobs = <<>> /\ unverified = <<>> /\ phase = "draft"
    BY DEF SplitInit
<1>3. PiecesTyped({})
    BY <1>2 DEF PiecesTyped
<1>4. PiecesOK /\ StagesOK /\ LineOK
    BY <1>2 DEF PiecesOK, StagesOK, LineOK
<1> QED BY <1>1, <1>3, <1>4 DEF SplitInv

\* More may be mounts and budgets.
LEMMA TypedIn ==
    ASSUME NEW X, NEW Y, X \subseteq Y, PiecesTyped(X)
    PROVE  PiecesTyped(Y)
<1>1. Chunks(X) \subseteq Chunks(Y) /\ PackCalls(X) \subseteq PackCalls(Y)
    BY DEF Chunks, PackCalls
<1> QED BY <1>1 DEF PiecesTyped

\* The innermost call emits a chunk of what it has left.
LEMMA EmitStep ==
    ASSUME SplitInv, NEW X, PiecesTyped(X), jobs # <<>>, NEW c \in Chunks(X), NEW h \in PackCalls(X),
           ChunkOK(c), CallOK(h), Carried(c) \cup Held(h) = Held(jobs[1]),
           \A i \in Carried(c), m \in Held(h) : i \notin Subtree(m),
           family' = Append(family, c), jobs' = [jobs EXCEPT ![1] = h],
           UNCHANGED <<collection, phase, unverified>>
    PROVE  SplitInv'
<1>1. phase = "packing"
    BY DEF SplitInv, StagesOK
<1>2. Forest /\ PiecesOK /\ Laid(LineOf(family, jobs, unverified)) /\ Whole(LineOf(family, jobs, unverified))
    BY <1>1 DEF SplitInv, LineOK, Line
<1>3. family \in Seq(Chunks(X)) /\ jobs \in Seq(PackCalls(X)) /\ unverified \in Seq(Chunks(X))
    BY DEF PiecesTyped
<1>4. /\ Laid(LineOf(family', jobs', unverified'))
      /\ Whole(LineOf(family', jobs', unverified'))
    BY <1>2, <1>3, CutChunk
<1>5. family' \in Seq(Chunks(X)) /\ jobs' \in Seq(PackCalls(X)) /\ unverified' \in Seq(Chunks(X))
    BY <1>3
<1>6. \A k \in DOMAIN family' : ChunkOK(family'[k])
  <2>1. \A k \in DOMAIN family' : k = Len(family) + 1 \/ (k \in DOMAIN family /\ family'[k] = family[k])
      BY <1>3
  <2>2. family'[Len(family) + 1] = c
      BY <1>3
  <2> QED BY <1>2, <2>1, <2>2 DEF PiecesOK
<1>7. \A k \in DOMAIN jobs' : CallOK(jobs'[k])
  <2>1. \A k \in DOMAIN jobs' : jobs'[k] = h \/ (k \in DOMAIN jobs /\ jobs'[k] = jobs[k])
      BY <1>3
  <2> QED BY <1>2, <2>1 DEF PiecesOK
<1>8. \A k \in DOMAIN unverified' : ChunkOK(unverified'[k])
    BY <1>2 DEF PiecesOK
<1> QED BY <1>1, <1>2, <1>4, <1>5, <1>6, <1>7, <1>8, NextPieces

\* What the innermost call has left.
LEMMA CurrentFacts ==
    ASSUME SplitInv, NEW X, PiecesTyped(X), jobs # <<>>
    PROVE  /\ Forest /\ phase = "packing"
           /\ Current = jobs[1] /\ Current \in PackCalls(X) /\ CallOK(Current)
           /\ Held(jobs[1]) = Below(Current.left \cup Current.run)
           /\ Current.mount \in X /\ Current.budget \in X
           /\ Current.siblings \subseteq Nodes
           /\ Current.left \subseteq Nodes /\ Current.run \subseteq Nodes
<1>1. Current = jobs[1] /\ Current \in PackCalls(X) /\ 1 \in DOMAIN jobs
    BY PieceFacts DEF SplitInv
<1>2. CallOK(Current)
    BY <1>1 DEF SplitInv, PiecesOK
<1> QED BY <1>1, <1>2 DEF SplitInv, StagesOK, Held, PackCalls

LEMMA ApartIn == ASSUME NEW S, NEW T, T \subseteq S, Apart(S) PROVE Apart(T)
BY DEF Apart

LEMMA FillStep == SplitInv /\ Fill => SplitInv'
<1> SUFFICES ASSUME SplitInv, Fill PROVE SplitInv'
    OBVIOUS
<1>1. PICK e \in Nodes : /\ IsNext(e)
                         /\ jobs' = Become(Current.left \ {e}, Current.run \cup {e})
    BY DEF Fill
<1>2. PICK X : PiecesTyped(X)
    BY DEF SplitInv
<1>3. jobs # <<>> /\ e \in Current.left
    BY <1>1 DEF IsNext
<1> DEFINE h == Job(Current.mount, Current.siblings, Current.left \ {e}, Current.run \cup {e}, Current.budget)
<1>4. h \in PackCalls(X) /\ Held(h) = Held(jobs[1]) /\ CallOK(h)
  <2>1. (Current.left \ {e}) \cup (Current.run \cup {e}) = Current.left \cup Current.run
      BY <1>3
  <2>2. Apart(Current.left \cup Current.run) /\ Current.left \cap Current.run = {}
      BY <1>2, <1>3, CurrentFacts DEF CallOK
  <2>3. (Current.left \ {e}) \cap (Current.run \cup {e}) = {}
      BY <2>2
  <2>4. /\ Current.mount \in X /\ Current.budget \in X /\ Current.siblings \in SUBSET Nodes
        /\ Current.left \ {e} \in SUBSET Nodes /\ Current.run \cup {e} \in SUBSET Nodes
      BY <1>2, <1>3, CurrentFacts
  <2>5. /\ h \in PackCalls(X)
        /\ Held(h) = Below((Current.left \ {e}) \cup (Current.run \cup {e}))
        /\ CallOK(h) <=> /\ Apart((Current.left \ {e}) \cup (Current.run \cup {e}))
                         /\ (Current.left \ {e}) \cap (Current.run \cup {e}) = {}
      BY <2>4 DEF Job, PackCalls, Held, CallOK
  <2> HIDE DEF h
  <2> QED BY <1>2, <1>3, <2>1, <2>2, <2>3, <2>5, CurrentFacts
<1>5. jobs' = [jobs EXCEPT ![1] = h]
    BY <1>1 DEF Become
<1> HIDE DEF h
<1>6. UNCHANGED <<collection, phase, family, unverified>>
    BY DEF Fill
<1>7. phase = "packing" /\ Forest /\ PiecesOK /\ StagesOK
      /\ Laid(LineOf(family, jobs, unverified)) /\ Whole(LineOf(family, jobs, unverified))
    BY <1>2, <1>3, CurrentFacts DEF SplitInv, LineOK, Line
<1>8. family \in Seq(Chunks(X)) /\ jobs \in Seq(PackCalls(X)) /\ unverified \in Seq(Chunks(X))
    BY <1>2 DEF PiecesTyped
<1>9. LineOf(family', jobs', unverified') = LineOf(family, jobs, unverified)
  <2>1. LineOf(family, [jobs EXCEPT ![1] = h], unverified) = LineOf(family, jobs, unverified)
      BY <1>3, <1>4, <1>8, SameCall
  <2> QED BY <1>5, <1>6, <2>1
<1>10. jobs' \in Seq(PackCalls(X))
    BY <1>3, <1>4, <1>5, <1>8
<1>11. \A k \in DOMAIN jobs' : CallOK(jobs'[k])
  <2>1. \A k \in DOMAIN jobs' : jobs'[k] = h \/ (k \in DOMAIN jobs /\ jobs'[k] = jobs[k])
      BY <1>5, <1>8
  <2> QED BY <1>4, <1>7, <2>1 DEF PiecesOK
<1>12. /\ \A k \in DOMAIN family' : ChunkOK(family'[k])
       /\ \A k \in DOMAIN unverified' : ChunkOK(unverified'[k])
    BY <1>6, <1>7 DEF PiecesOK
<1> QED BY <1>6, <1>7, <1>8, <1>9, <1>10, <1>11, <1>12, NextPieces

LEMMA RunFacts ==
    ASSUME NEW X, NEW mount \in X, NEW tops \in SUBSET Nodes
    PROVE  /\ Run(mount, tops) \in Chunks(X)
           /\ Carried(Run(mount, tops)) = Below(tops)
           /\ Apart(tops) => ChunkOK(Run(mount, tops))
BY DEF Run, Chunks, Carried, ChunkOK, Below

LEMMA FlushStep == SplitInv /\ Flush => SplitInv'
<1> SUFFICES ASSUME SplitInv, Flush PROVE SplitInv'
    OBVIOUS
<1>1. PICK X : PiecesTyped(X)
    BY DEF SplitInv
<1>2. jobs # <<>> /\ UNCHANGED <<collection, phase, unverified>>
    BY DEF Flush
<1> DEFINE c == Run(Current.mount, Current.run)
           h == Job(Current.mount, Current.siblings, Current.left, {}, Current.budget)
<1>3. family' = Append(family, c) /\ jobs' = [jobs EXCEPT ![1] = h]
    BY DEF Flush, Emit, Become
<1>4. Apart(Current.left \cup Current.run) /\ Current.left \cap Current.run = {}
    BY <1>1, <1>2, CurrentFacts DEF CallOK
<1>5. Apart(Current.left \cup {}) /\ Apart(Current.run)
    BY <1>4, ApartIn
<1>6. c \in Chunks(X) /\ Carried(c) = Below(Current.run) /\ ChunkOK(c)
    BY <1>1, <1>2, <1>5, CurrentFacts, RunFacts
<1>7. h \in PackCalls(X) /\ Held(h) = Below(Current.left \cup {}) /\ CallOK(h)
  <2>1. /\ Current.mount \in X /\ Current.budget \in X /\ Current.siblings \in SUBSET Nodes
        /\ Current.left \in SUBSET Nodes /\ Current.left \cap {} = {}
      BY <1>1, <1>2, CurrentFacts
  <2> QED BY <1>5, <2>1 DEF Job, PackCalls, Held, CallOK
<1> HIDE DEF c, h
<1>8. Carried(c) \cup Held(h) = Held(jobs[1])
    BY <1>1, <1>2, <1>6, <1>7, CurrentFacts DEF Below
<1>9. \A i \in Carried(c), m \in Held(h) : i \notin Subtree(m)
  <2>1. Current.left \cup Current.run \in SUBSET Nodes
        /\ Current.run \in SUBSET (Current.left \cup Current.run)
        /\ (Current.left \cup {}) \in SUBSET (Current.left \cup Current.run)
        /\ Current.run \cap (Current.left \cup {}) = {}
      BY <1>1, <1>2, <1>4, CurrentFacts
  <2> QED BY <1>1, <1>2, <1>4, <1>6, <1>7, <2>1, BelowApart, CurrentFacts
<1> QED BY <1>1, <1>2, <1>3, <1>6, <1>7, <1>8, <1>9, EmitStep

LEMMA ShipAloneStep == SplitInv /\ ShipAlone => SplitInv'
<1> SUFFICES ASSUME SplitInv, ShipAlone PROVE SplitInv'
    OBVIOUS
<1>1. PICK X : PiecesTyped(X)
    BY DEF SplitInv
<1>2. PICK e \in Nodes : /\ Overflows(e) /\ Emit(Run(Current.mount, {e}))
                         /\ jobs' = Become(Current.left \ {e}, {})
    BY DEF ShipAlone
<1>3. /\ jobs # <<>> /\ e \in Current.left /\ Current.run = {}
      /\ UNCHANGED <<collection, phase, unverified>>
    BY <1>2 DEF ShipAlone, Overflows, IsNext
<1> DEFINE c == Run(Current.mount, {e})
           h == Job(Current.mount, Current.siblings, Current.left \ {e}, {}, Current.budget)
<1>4. family' = Append(family, c) /\ jobs' = [jobs EXCEPT ![1] = h]
    BY <1>2 DEF Emit, Become
<1>5. Apart(Current.left) /\ Held(jobs[1]) = Below(Current.left)
  <2>1. Current.left \cup Current.run = Current.left
      BY <1>3
  <2> QED BY <1>1, <1>3, <2>1, CurrentFacts DEF CallOK
<1>6. Apart((Current.left \ {e}) \cup {}) /\ Apart({e})
    BY <1>3, <1>5, ApartIn
<1>7. c \in Chunks(X) /\ Carried(c) = Below({e}) /\ ChunkOK(c)
    BY <1>1, <1>3, <1>6, CurrentFacts, RunFacts
<1>8. h \in PackCalls(X) /\ Held(h) = Below((Current.left \ {e}) \cup {}) /\ CallOK(h)
  <2>1. /\ Current.mount \in X /\ Current.budget \in X /\ Current.siblings \in SUBSET Nodes
        /\ Current.left \ {e} \in SUBSET Nodes /\ {} \in SUBSET Nodes
        /\ (Current.left \ {e}) \cap {} = {}
      BY <1>1, <1>3, CurrentFacts
  <2> QED BY <1>6, <2>1 DEF Job, PackCalls, Held, CallOK
<1> HIDE DEF c, h
<1>9. Carried(c) \cup Held(h) = Held(jobs[1])
    BY <1>3, <1>5, <1>7, <1>8 DEF Below
<1>10. \A i \in Carried(c), m \in Held(h) : i \notin Subtree(m)
  <2>1. /\ Current.left \in SUBSET Nodes /\ {e} \in SUBSET Current.left
        /\ ((Current.left \ {e}) \cup {}) \in SUBSET Current.left
        /\ {e} \cap ((Current.left \ {e}) \cup {}) = {}
      BY <1>1, <1>3, CurrentFacts
  <2> QED BY <1>1, <1>3, <1>5, <1>7, <1>8, <2>1, BelowApart, CurrentFacts
<1> QED BY <1>1, <1>3, <1>4, <1>7, <1>8, <1>9, <1>10, EmitStep

LEMMA ShellFacts ==
    ASSUME NEW X, NEW mount \in X, NEW e \in Nodes
    PROVE  /\ ShellOf(mount, e) \in Chunks(X)
           /\ Carried(ShellOf(mount, e)) = {e}
           /\ Apart(ShellOf(mount, e).tops)
BY DEF ShellOf, Chunks, Carried, Apart

\* A folder is emitted, and what is in it is still to be packed before what follows.
LEMMA ShedStep == SplitInv /\ Shed => SplitInv'
<1> SUFFICES ASSUME SplitInv, Shed PROVE SplitInv'
    OBVIOUS
<1>1. PICK W : PiecesTyped(W)
    BY DEF SplitInv
<1>2. PICK e \in Nodes :
          /\ Overflows(e) /\ CanShed(e) /\ Emit(ShellOf(Current.mount, e))
          /\ jobs' = Begin(ChildMount(e), Children(e), Current.budget) \o Become(Current.left \ {e}, {})
    BY DEF Shed
<1>3. /\ jobs # <<>> /\ e \in Current.left /\ Current.run = {}
      /\ UNCHANGED <<collection, phase, unverified>>
    BY <1>2 DEF Shed, Overflows, IsNext
<1> DEFINE X == W \cup {ChildMount(e)}
           rest == Current.left \ {e}
           c == ShellOf(Current.mount, e)
           g == Job(ChildMount(e), Children(e), Children(e), {}, Current.budget)
           h0 == Job(Current.mount, Current.siblings, Children(e) \cup rest, {}, Current.budget)
           h == Job(Current.mount, Current.siblings, rest, {}, Current.budget)
           calls0 == [jobs EXCEPT ![1] = h0]
<1>4. family' = Append(family, c) /\ jobs' = <<g>> \o [jobs EXCEPT ![1] = h]
    BY <1>2 DEF Emit, Become, Begin
<1>5. PiecesTyped(X)
    BY <1>1, TypedIn
<1>6. Forest /\ PiecesOK /\ phase = "packing"
      /\ Laid(LineOf(family, jobs, unverified)) /\ Whole(LineOf(family, jobs, unverified))
    BY <1>1, <1>3, CurrentFacts DEF SplitInv, LineOK, Line
<1>7. family \in Seq(Chunks(X)) /\ jobs \in Seq(PackCalls(X)) /\ unverified \in Seq(Chunks(X))
    BY <1>5 DEF PiecesTyped
<1>8. /\ Apart(Current.left) /\ Held(jobs[1]) = Below(Current.left)
      /\ Current.left \subseteq Nodes /\ Current.siblings \subseteq Nodes
      /\ Current.mount \in X /\ Current.budget \in X /\ ChildMount(e) \in X
  <2>1. Current.left \cup Current.run = Current.left
      BY <1>3
  <2> QED BY <1>1, <1>3, <2>1, CurrentFacts DEF CallOK
<1>9. Children(e) \subseteq Nodes /\ Apart(Children(e)) /\ Apart(rest)
    BY <1>3, <1>6, <1>8, ForestFacts, SiblingsApart, ApartIn
<1>10. Below(Children(e)) = Subtree(e) \ {e} /\ e \in Subtree(e)
    BY <1>6, FolderIsChildren, ForestFacts
<1> HIDE DEF X
<1>11. c \in Chunks(X) /\ Carried(c) = {e} /\ ChunkOK(c)
    BY <1>2, <1>8, ShellFacts DEF ChunkOK, CanShed
<1>12. g \in PackCalls(X) /\ Held(g) = Below(Children(e)) /\ CallOK(g)
  <2>1. Children(e) \cup {} = Children(e) /\ Children(e) \cap {} = {}
      OBVIOUS
  <2> QED BY <1>8, <1>9, <2>1 DEF Job, PackCalls, Held, CallOK
<1>13. h \in PackCalls(X) /\ Held(h) = Below(rest) /\ CallOK(h)
  <2>1. rest \cup {} = rest /\ rest \cap {} = {} /\ rest \subseteq Nodes
      BY <1>8
  <2> QED BY <1>8, <1>9, <2>1 DEF Job, PackCalls, Held, CallOK
<1>14. h0 \in PackCalls(X) /\ Held(h0) = Below(Children(e) \cup rest)
  <2>1. (Children(e) \cup rest) \cup {} = Children(e) \cup rest /\ Children(e) \cup rest \subseteq Nodes
      BY <1>8, <1>9
  <2>2. Current.siblings \in SUBSET Nodes /\ Children(e) \cup rest \in SUBSET Nodes /\ {} \in SUBSET Nodes
      BY <1>8, <2>1
  <2> HIDE DEF rest
  <2> QED BY <1>8, <2>1, <2>2 DEF Job, PackCalls, Held, CallOK
<1>15. /\ Below(Children(e) \cup rest) = Below(Children(e)) \cup Below(rest)
       /\ Below(Current.left) = Subtree(e) \cup Below(rest)
    BY <1>3 DEF Below
<1>16. \A i \in Subtree(e), m \in Below(rest) : i \notin Subtree(m)
  <2>1. /\ Current.left \in SUBSET Nodes /\ {e} \in SUBSET Current.left
        /\ rest \in SUBSET Current.left /\ {e} \cap rest = {}
      BY <1>3, <1>8
  <2>2. Below({e}) = Subtree(e)
      BY DEF Below
  <2> HIDE DEF rest
  <2> QED BY <1>6, <1>8, <2>1, <2>2, BelowApart
<1> HIDE DEF rest, c, g, h0, h, calls0
<1>17. /\ Laid(LineOf(Append(family, c), calls0, unverified))
       /\ Whole(LineOf(Append(family, c), calls0, unverified))
  <2>1. Carried(c) \cup Held(h0) = Held(jobs[1])
      BY <1>8, <1>10, <1>11, <1>14, <1>15
  <2>2. \A m \in Held(h0) : e \notin Subtree(m)
    <3>1. \A m \in Subtree(e) \ {e} : e \notin Subtree(m)
        BY <1>6, ForestFacts DEF Subtree
    <3> QED BY <1>10, <1>14, <1>15, <1>16, <3>1
  <2> QED BY <1>3, <1>6, <1>7, <1>11, <1>14, <2>1, <2>2, CutChunk DEF calls0
<1>18. /\ calls0 \in Seq(PackCalls(X)) /\ calls0 # <<>> /\ calls0[1] = h0
       /\ [calls0 EXCEPT ![1] = h] = [jobs EXCEPT ![1] = h]
  <2>1. Len(jobs) \in Nat /\ Len(jobs) >= 1 /\ DOMAIN jobs = 1 .. Len(jobs)
      BY <1>3, <1>7
  <2>2. calls0 \in Seq(PackCalls(X)) /\ Len(calls0) = Len(jobs) /\ calls0[1] = h0
      BY <1>7, <1>14, <2>1 DEF calls0
  <2>3. [calls0 EXCEPT ![1] = h] = [jobs EXCEPT ![1] = h]
      BY <1>7, <2>1 DEF calls0
  <2> QED BY <2>1, <2>2, <2>3
<1>19. /\ Laid(LineOf(family', jobs', unverified'))
       /\ Whole(LineOf(family', jobs', unverified'))
  <2>1. Append(family, c) \in Seq(Chunks(X))
      BY <1>7, <1>11
  <2>2. Held(g) \cup Held(h) = Held(calls0[1])
      BY <1>12, <1>13, <1>14, <1>15, <1>18
  <2>3. \A i \in Held(g), m \in Held(h) : i \notin Subtree(m)
      BY <1>10, <1>12, <1>13, <1>16
  <2>4. /\ Laid(LineOf(Append(family, c), <<g>> \o [calls0 EXCEPT ![1] = h], unverified))
        /\ Whole(LineOf(Append(family, c), <<g>> \o [calls0 EXCEPT ![1] = h], unverified))
      BY <1>7, <1>12, <1>13, <1>17, <1>18, <2>1, <2>2, <2>3, CutCall
  <2> QED BY <1>3, <1>4, <1>18, <2>4
<1>20. /\ family' \in Seq(Chunks(X)) /\ unverified' \in Seq(Chunks(X))
       /\ \A k \in DOMAIN family' : ChunkOK(family'[k])
       /\ \A k \in DOMAIN unverified' : ChunkOK(unverified'[k])
  <2>1. \A k \in DOMAIN family' : k = Len(family) + 1 \/ (k \in DOMAIN family /\ family'[k] = family[k])
      BY <1>4, <1>7, <1>11
  <2>2. family'[Len(family) + 1] = c
      BY <1>4, <1>7, <1>11
  <2> QED BY <1>3, <1>4, <1>6, <1>7, <1>11, <2>1, <2>2 DEF PiecesOK
<1>21. jobs' \in Seq(PackCalls(X)) /\ \A k \in DOMAIN jobs' : CallOK(jobs'[k])
  <2> DEFINE calls1 == [jobs EXCEPT ![1] = h]
  <2>1. calls1 \in Seq(PackCalls(X)) /\ \A k \in 1 .. Len(calls1) : CallOK(calls1[k])
    <3>1. \A k \in 1 .. Len(calls1) : calls1[k] = h \/ (k \in DOMAIN jobs /\ calls1[k] = jobs[k])
        BY <1>3, <1>7
    <3>2. calls1 \in Seq(PackCalls(X))
        BY <1>3, <1>7, <1>13
    <3> HIDE DEF calls1
    <3> QED BY <1>6, <1>13, <3>1, <3>2 DEF PiecesOK
  <2> HIDE DEF calls1
  <2>2. jobs' = <<g>> \o calls1
      BY <1>4 DEF calls1
  <2>3. Len(jobs') = Len(calls1) + 1 /\ jobs' \in Seq(PackCalls(X))
      BY <1>12, <2>1, <2>2
  <2>4. ASSUME NEW z \in DOMAIN jobs' PROVE CallOK(jobs'[z])
    <3>1. CASE z = 1
        BY <1>12, <2>1, <2>2, <3>1
    <3>2. CASE z > 1
      <4>1. z - 1 \in 1 .. Len(calls1) /\ jobs'[z] = calls1[z - 1]
          BY <1>12, <2>1, <2>2, <2>3, <3>2
      <4> QED BY <2>1, <4>1
    <3>3. z \in 1 .. Len(calls1) + 1 /\ Len(calls1) \in Nat
        BY <2>1, <2>3
    <3> QED BY <3>1, <3>2, <3>3
  <2> QED BY <2>3, <2>4
<1> QED BY <1>3, <1>6, <1>19, <1>20, <1>21, NextPieces

LEMMA CallReturnsStep == SplitInv /\ CallReturns => SplitInv'
<1> SUFFICES ASSUME SplitInv, CallReturns PROVE SplitInv'
    OBVIOUS
<1>1. PICK X : PiecesTyped(X)
    BY DEF SplitInv
<1>2. /\ jobs # <<>> /\ jobs' = Tail(jobs) /\ Current.left \cup Current.run = {}
      /\ UNCHANGED <<collection, phase, family, unverified>>
    BY DEF CallReturns
<1>3. Held(jobs[1]) = {}
    BY <1>1, <1>2, CurrentFacts DEF Below
<1>4. Forest /\ PiecesOK /\ phase = "packing"
      /\ Laid(LineOf(family, jobs, unverified)) /\ Whole(LineOf(family, jobs, unverified))
    BY <1>1, <1>2, CurrentFacts DEF SplitInv, LineOK, Line
<1>5. family \in Seq(Chunks(X)) /\ jobs \in Seq(PackCalls(X)) /\ unverified \in Seq(Chunks(X))
    BY <1>1 DEF PiecesTyped
<1>6. /\ Laid(LineOf(family', jobs', unverified'))
      /\ Whole(LineOf(family', jobs', unverified'))
    BY <1>2, <1>3, <1>4, <1>5, DropCall
<1>7. jobs' \in Seq(PackCalls(X)) /\ \A k \in DOMAIN jobs' : CallOK(jobs'[k])
  <2>1. jobs' \in Seq(PackCalls(X)) /\ \A k \in DOMAIN jobs' : k + 1 \in DOMAIN jobs /\ jobs'[k] = jobs[k + 1]
      BY <1>2, <1>5
  <2> QED BY <1>4, <2>1 DEF PiecesOK
<1> QED BY <1>2, <1>4, <1>5, <1>6, <1>7, NextPieces DEF PiecesOK

\* The first call has the collection.
LEMMA SplitStep == SplitInv /\ Split => SplitInv'
<1> SUFFICES ASSUME SplitInv, Split PROVE SplitInv'
    OBVIOUS
<1> DEFINE X == {<<>>, PartLimit}
           j == Job(<<>>, Children(0), Children(0), {}, PartLimit)
<1>1. family = <<>> /\ unverified = <<>> /\ Forest
    BY DEF SplitInv, StagesOK, Split
<1>2. /\ phase' = "packing" /\ jobs' = <<j>>
      /\ UNCHANGED <<collection, family, unverified>>
    BY DEF Split, Begin
<1>3. /\ Children(0) \in SUBSET Nodes /\ Apart(Children(0))
      /\ Children(0) \cup {} = Children(0) /\ Children(0) \cap {} = {}
    BY <1>1, SiblingsApart
<1>4. j \in PackCalls(X) /\ Held(j) = Nodes /\ CallOK(j)
  <2>1. <<>> \in X /\ PartLimit \in X /\ {} \in SUBSET Nodes
      OBVIOUS
  <2> HIDE DEF X
  <2>2. Below(Children(0)) = Nodes
      BY <1>1, CollectionIsTop
  <2> QED BY <1>3, <2>1, <2>2 DEF Job, PackCalls, Held, CallOK
<1> HIDE DEF j, X
<1>5. /\ family' \in Seq(Chunks(X)) /\ unverified' \in Seq(Chunks(X)) /\ jobs' \in Seq(PackCalls(X))
      /\ family' = <<>> /\ unverified' = <<>>
    BY <1>1, <1>2, <1>4
<1>6. LineOf(<<>>, <<j>>, <<>>) = [x \in 1..1 |-> Nodes]
  <2>1. Len(<<>>) = 0 /\ Len(<<j>>) = 1 /\ <<j>>[1] = j
      OBVIOUS
  <2> QED BY <1>4, <2>1 DEF LineOf
<1>7. Laid([x \in 1..1 |-> Nodes]) /\ Whole([x \in 1..1 |-> Nodes])
    BY DEF Laid, Whole
<1>8. /\ Laid(LineOf(family', jobs', unverified'))
      /\ Whole(LineOf(family', jobs', unverified'))
    BY <1>2, <1>5, <1>6, <1>7
<1>9. \A k \in DOMAIN jobs' : CallOK(jobs'[k])
    BY <1>2, <1>4
<1> QED BY <1>1, <1>2, <1>5, <1>8, <1>9, NextPieces

LEMMA KeepChunkStep == SplitInv /\ KeepChunk => SplitInv'
<1> SUFFICES ASSUME SplitInv, KeepChunk PROVE SplitInv'
    OBVIOUS
<1>1. PICK X : PiecesTyped(X)
    BY DEF SplitInv
<1> DEFINE c == Head(unverified)
<1>2. /\ jobs = <<>> /\ unverified # <<>> /\ Fits(c)
      /\ family' = Append(family, c) /\ unverified' = Tail(unverified)
      /\ UNCHANGED <<collection, phase, jobs>>
    BY DEF KeepChunk, Emit
<1>3. phase \in {"packing", "verifying"} /\ Forest /\ PiecesOK /\ StagesOK
      /\ Laid(LineOf(family, jobs, unverified)) /\ Whole(LineOf(family, jobs, unverified))
    BY <1>2 DEF SplitInv, StagesOK, LineOK, Line
<1>4. family \in Seq(Chunks(X)) /\ jobs \in Seq(PackCalls(X)) /\ unverified \in Seq(Chunks(X))
    BY <1>1 DEF PiecesTyped
<1>5. /\ Laid(LineOf(family', jobs', unverified'))
      /\ Whole(LineOf(family', jobs', unverified'))
  <2>1. LineOf(Append(family, c), <<>>, Tail(unverified)) = LineOf(family, <<>>, unverified)
      BY <1>2, <1>4, KeptChunk
  <2> QED BY <1>2, <1>3, <2>1
<1>6. c = unverified[1] /\ 1 \in DOMAIN unverified /\ c \in Chunks(X)
    BY <1>2, <1>4
<1>7. ChunkOK(c)
    BY <1>3, <1>6 DEF PiecesOK
<1> HIDE DEF c
<1>8. /\ family' \in Seq(Chunks(X)) /\ unverified' \in Seq(Chunks(X)) /\ jobs' \in Seq(PackCalls(X))
    BY <1>2, <1>4, <1>6
<1>9. \A z \in DOMAIN family' : family'[z] = c \/ (z \in DOMAIN family /\ family'[z] = family[z])
    BY <1>2, <1>4, <1>6
<1>10. /\ \A k \in DOMAIN family' : ChunkOK(family'[k])
       /\ phase' = "verifying" => \A k \in DOMAIN family' : Fits(family'[k])
    BY <1>2, <1>3, <1>7, <1>9 DEF PiecesOK, StagesOK
<1>11. \A k \in DOMAIN unverified' : ChunkOK(unverified'[k])
  <2>1. \A z \in DOMAIN unverified' : z + 1 \in DOMAIN unverified /\ unverified'[z] = unverified[z + 1]
      BY <1>2, <1>4
  <2> QED BY <1>3, <2>1 DEF PiecesOK
<1>12. \A k \in DOMAIN jobs' : CallOK(jobs'[k])
    BY <1>2, <1>3 DEF PiecesOK
<1> QED BY <1>2, <1>3, <1>5, <1>8, <1>10, <1>11, <1>12, NextPieces

LEMMA PackAgainStep == SplitInv /\ PackAgain => SplitInv'
<1> SUFFICES ASSUME SplitInv, PackAgain PROVE SplitInv'
    OBVIOUS
<1>1. PICK W : PiecesTyped(W)
    BY DEF SplitInv
<1> DEFINE c == Head(unverified)
           X == W \cup {Shrunk(c)}
           j == Job(c.mount, c.tops, c.tops, {}, Shrunk(c))
<1>2. /\ jobs = <<>> /\ unverified # <<>> /\ ~Fits(c)
      /\ jobs' = <<j>> /\ unverified' = Tail(unverified) /\ phase' = "packing"
      /\ UNCHANGED <<collection, family>>
    BY DEF PackAgain, Begin
<1>3. phase \in {"packing", "verifying"} /\ Forest /\ PiecesOK
      /\ Laid(LineOf(family, jobs, unverified)) /\ Whole(LineOf(family, jobs, unverified))
    BY <1>2 DEF SplitInv, StagesOK, LineOK, Line
<1>4. family \in Seq(Chunks(X)) /\ jobs \in Seq(PackCalls(X)) /\ unverified \in Seq(Chunks(X))
    BY <1>1, TypedIn DEF PiecesTyped
<1>5. Shrunk(c) \in X
    OBVIOUS
<1> HIDE DEF X
<1>6. c = unverified[1] /\ 1 \in DOMAIN unverified /\ c \in Chunks(X)
    BY <1>2, <1>4
<1>7. ChunkOK(c)
    BY <1>3, <1>6 DEF PiecesOK
<1> HIDE DEF c
<1>8. /\ ~c.shell /\ Apart(c.tops) /\ c.tops \in SUBSET Nodes /\ c.mount \in X
      /\ Carried(c) = Below(c.tops)
    BY <1>2, <1>6, <1>7 DEF ChunkOK, Chunks, Carried, Below
<1>9. j \in PackCalls(X) /\ Held(j) = Carried(c) /\ CallOK(j)
  <2>1. {} \in SUBSET Nodes /\ c.tops \cup {} = c.tops /\ c.tops \cap {} = {}
      OBVIOUS
  <2> QED BY <1>5, <1>8, <2>1 DEF Job, PackCalls, Held, CallOK
<1> HIDE DEF j
<1>10. /\ Laid(LineOf(family', jobs', unverified'))
       /\ Whole(LineOf(family', jobs', unverified'))
  <2>1. LineOf(family, <<j>>, Tail(unverified)) = LineOf(family, <<>>, unverified)
      BY <1>2, <1>4, <1>9, OpenedChunk DEF c
  <2> QED BY <1>2, <1>3, <2>1
<1>11. /\ family' \in Seq(Chunks(X)) /\ unverified' \in Seq(Chunks(X)) /\ jobs' \in Seq(PackCalls(X))
    BY <1>2, <1>4, <1>9
<1>12. /\ \A k \in DOMAIN jobs' : CallOK(jobs'[k])
       /\ \A k \in DOMAIN family' : ChunkOK(family'[k])
    BY <1>2, <1>3, <1>9 DEF PiecesOK
<1>13. \A k \in DOMAIN unverified' : ChunkOK(unverified'[k])
  <2>1. \A z \in DOMAIN unverified' : z + 1 \in DOMAIN unverified /\ unverified'[z] = unverified[z + 1]
      BY <1>2, <1>4
  <2> QED BY <1>3, <2>1 DEF PiecesOK
<1> QED BY <1>2, <1>3, <1>10, <1>11, <1>12, <1>13, NextPieces

LEMMA EmptySequence == \A S : <<>> \in Seq(S) /\ DOMAIN <<>> = {}
OBVIOUS

\* An error leaves nothing behind.
LEMMA FailStep ==
    ASSUME SplitInv, phase' \in {"refused", "gave up"},
           family' = <<>>, jobs' = <<>>, unverified' = <<>>, UNCHANGED collection
    PROVE  SplitInv'
<1>1. PICK X : PiecesTyped(X)
    BY DEF SplitInv
<1>2. family' \in Seq(Chunks(X)) /\ unverified' \in Seq(Chunks(X)) /\ jobs' \in Seq(PackCalls(X))
    BY EmptySequence
<1>3. DOMAIN family' = {} /\ DOMAIN unverified' = {} /\ DOMAIN jobs' = {}
    BY EmptySequence
<1>4. /\ \A k \in DOMAIN family' : ChunkOK(family'[k])
      /\ \A k \in DOMAIN unverified' : ChunkOK(unverified'[k])
      /\ \A k \in DOMAIN jobs' : CallOK(jobs'[k])
    BY <1>2, <1>3
<1> QED BY <1>2, <1>4, NextPieces DEF SplitInv

LEMMA VerifyStep == SplitInv /\ Verify => SplitInv'
<1> SUFFICES ASSUME SplitInv, Verify PROVE SplitInv'
    OBVIOUS
<1>1. CASE Fail("gave up")
    BY <1>1, FailStep DEF Fail
<1>2. CASE ~Fail("gave up")
  <2>1. PICK X : PiecesTyped(X)
      BY DEF SplitInv
  <2>2. /\ jobs = <<>> /\ unverified = <<>> /\ phase = "packing"
        /\ phase' = "verifying" /\ unverified' = family /\ family' = <<>>
        /\ UNCHANGED <<collection, jobs>>
      BY <1>2 DEF Verify, RoundEnds
  <2>3. /\ Forest /\ PiecesOK
        /\ Laid(LineOf(family, jobs, unverified)) /\ Whole(LineOf(family, jobs, unverified))
      BY <2>2 DEF SplitInv, LineOK, Line
  <2>4. family \in Seq(Chunks(X)) /\ jobs \in Seq(PackCalls(X))
      BY <2>1 DEF PiecesTyped
  <2>5. /\ Laid(LineOf(family', jobs', unverified'))
        /\ Whole(LineOf(family', jobs', unverified'))
    <3>1. LineOf(<<>>, <<>>, family) = LineOf(family, <<>>, <<>>)
        BY <2>4, NextRound
    <3> QED BY <2>2, <2>3, <3>1
  <2>6. family' \in Seq(Chunks(X)) /\ unverified' \in Seq(Chunks(X)) /\ jobs' \in Seq(PackCalls(X))
      BY <2>2, <2>4
  <2>7. /\ \A k \in DOMAIN family' : ChunkOK(family'[k])
        /\ \A k \in DOMAIN unverified' : ChunkOK(unverified'[k])
        /\ \A k \in DOMAIN jobs' : CallOK(jobs'[k])
      BY <2>2, <2>3 DEF PiecesOK
  <2>8. phase' \in {"verifying", "published"} => \A k \in DOMAIN family' : Fits(family'[k])
      BY <2>2
  <2> QED BY <2>2, <2>3, <2>5, <2>6, <2>7, <2>8, NextPieces
<1> QED BY <1>1, <1>2

\* A step that publishes, or that is none of the publisher's.
LEMMA PiecesStay ==
    ASSUME SplitInv, UNCHANGED <<collection, family, jobs, unverified>>,
           phase' = phase \/ (phase = "verifying" /\ jobs = <<>> /\ unverified = <<>> /\ phase' = "published")
    PROVE  SplitInv'
<1>1. PICK X : PiecesTyped(X)
    BY DEF SplitInv
<1>2. family' \in Seq(Chunks(X)) /\ jobs' \in Seq(PackCalls(X)) /\ unverified' \in Seq(Chunks(X))
    BY <1>1 DEF PiecesTyped
<1>3. phase' \in {"packing", "verifying", "published"} =>
          /\ Laid(LineOf(family', jobs', unverified'))
          /\ Whole(LineOf(family', jobs', unverified'))
    BY DEF SplitInv, LineOK, Line
<1> QED BY <1>2, <1>3, NextPieces DEF SplitInv, PiecesOK, StagesOK

LEMMA SplitInvSteps == SplitInv /\ [SplitNext]_splitVars => SplitInv'
<1> SUFFICES ASSUME SplitInv, [SplitNext]_splitVars PROVE SplitInv'
    OBVIOUS
<1>1. CASE Refuse
    BY <1>1, FailStep DEF Refuse, Fail
<1>2. CASE Publish
    BY <1>2, PiecesStay DEF Publish, RoundEnds
<1>3. CASE \E k \in DOMAIN family : PartArrives(k)
    BY <1>3, PiecesStay DEF PartArrives
<1>4. CASE UNCHANGED splitVars
    BY <1>4, PiecesStay DEF splitVars
<1> QED BY <1>1, <1>2, <1>3, <1>4, FillStep, FlushStep, ShipAloneStep, ShedStep, CallReturnsStep,
           SplitStep, KeepChunkStep, PackAgainStep, VerifyStep DEF SplitNext

THEOREM SplitInvariant == SplitSpec => []SplitInv
BY SplitStarts, SplitInvSteps, PTL DEF SplitSpec

\* The line of a published family is its parts.
LEMMA PublishedLine == SplitInv => EachNodeOnce
<1> SUFFICES ASSUME SplitInv, phase = "published" PROVE EachNodeOnce
    BY DEF EachNodeOnce
<1>1. PICK X : PiecesTyped(X)
    BY DEF SplitInv
<1>2. /\ jobs = <<>> /\ unverified = <<>> /\ Forest /\ PiecesOK
      /\ \A k \in DOMAIN family : Fits(family[k])
      /\ Laid(LineOf(family, <<>>, <<>>)) /\ Whole(LineOf(family, <<>>, <<>>))
    BY DEF SplitInv, StagesOK, LineOK, Line
<1>3. /\ family \in Seq(Chunks(X)) /\ Len(family) \in Nat /\ DOMAIN family = 1 .. Len(family)
    BY <1>1 DEF PiecesTyped
<1> DEFINE parts == [k \in DOMAIN family |-> Carried(family[k])]
<1>4. LineOf(family, <<>>, <<>>) = parts
  <2>1. Len(<<>>) = 0
      OBVIOUS
  <2> QED BY <1>3, <2>1 DEF LineOf
<1>5. /\ \A j, k \in DOMAIN family : j < k =>
             \A i \in Carried(family[j]), m \in Carried(family[k]) : i \notin Subtree(m)
      /\ UNION {Carried(family[k]) : k \in DOMAIN family} = Nodes
  <2>1. Laid(parts) /\ Whole(parts)
      BY <1>2, <1>4
  <2> QED BY <2>1 DEF Laid, Whole
<1>6. ASSUME NEW j \in DOMAIN family, NEW k \in DOMAIN family, j < k
      PROVE  /\ Carried(family[j]) \cap Carried(family[k]) = {}
             /\ \A i \in Carried(family[j]) : Around(i) \cap Carried(family[k]) = {}
  <2>1. \A i \in Carried(family[j]), m \in Carried(family[k]) : i \notin Subtree(m)
      BY <1>5, <1>6
  <2>2. Carried(family[j]) \subseteq Nodes
      BY <1>5
  <2> QED BY <1>2, <2>1, <2>2, ForestFacts
<1> QED BY <1>2, <1>5, <1>6 DEF EachNodeOnce

\* However a collection is cut up, and however often a part that came out too long is
\* packed again, what is published has each node once, in parts that are short enough,
\* and each folder before what is in it.
THEOREM PartsAreTheCollection == SplitSpec => []EachNodeOnce
BY SplitInvariant, PublishedLine, PTL

=============================================================================
