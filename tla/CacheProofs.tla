---------------------------- MODULE CacheProofs ----------------------------
(***************************************************************************)
(* What TLAPS proves of the two caches of lists, for any number of         *)
(* overlapping calls, collections, keys and changes. Of ManifestCache, the *)
(* lists of others on disk: its types, that the cache holds what the last  *)
(* store or clear left, and that a copy of an old build is not lost on its *)
(* way to its new name. Of OwnerPayload, the owner's own sealed list in    *)
(* memory: its types, and that no list that is given out is older than the *)
(* request for it.                                                         *)
(***************************************************************************)
EXTENDS ManifestCache, OwnerPayload, FiniteSetTheorems, WellFoundedInduction, TLAPS

-----------------------------------------------------------------------------
(* The lists of others: ManifestCache *)

\* A collection an old build left nothing of, or whose copy is readable.
Readable(k) == kept[k] = NoCopy \/ entry[k] # NoCopy

\* The marker may be written as far as this collection goes.
AtRest(k) == Readable(k) \/ k \in unrecovered

\* What a call relies on while it is between two of its steps.
CallInv(t) ==
    /\ cacheCall[t].step \in {"migrating", "storing", "touching", "clearing"} => dirLock = t
    /\ cacheCall[t].step \in {"scanning", "queueing", "migrating", "marking", "locking",
                              "storing"} =>
          cacheCall[t].of \in Lists /\ cacheCall[t].copy \in Copies
    /\ cacheCall[t].step = "touching" =>
          /\ cacheCall[t].of \in Lists \ cleared
          /\ cacheCall[t].copy \in Copies
          /\ newest[cacheCall[t].of] \in {NoCopy, cacheCall[t].copy}
    /\ cacheCall[t].at # Nowhere => Readable(cacheCall[t].at)
    /\ cacheCall[t].step \in {"queueing", "migrating"} =>
          \A k \in Lists : cacheCall[t].found[k] = {} => AtRest(k)
    /\ cacheCall[t].step = "marking" => \A k \in Lists : AtRest(k)

FilesInv ==
    /\ CacheHoldsLastStore
    /\ OldCopyKept
    /\ \A k \in cleared : legacy[k] = {}

CacheInv ==
    /\ CacheTypeOK
    /\ FilesInv
    /\ \A t \in CacheThreads : CallInv(t)

LEMMA CopyNumbers ==
    /\ Old \subseteq Copies /\ NoCopy \notin Copies /\ NoCopy \notin Old
    /\ \A n \in 0..MaxPuts : n < MaxPuts => OldCopies + n + 1 \in Copies /\ n + 1 \in 0..MaxPuts
    BY CacheAssumption DEF Old, Copies, NoCopy

LEMMA IdleCall ==
    /\ NoCacheCall \in Calls
    /\ NoCacheCall.step = "idle" /\ NoCacheCall.at = Nowhere
    BY DEF NoCacheCall, Calls

LEMMA InitCacheInv == CacheInit => CacheInv
<1> SUFFICES ASSUME CacheInit PROVE CacheInv
    OBVIOUS
<1>1. CacheTypeOK
  <2>1. 0 \in 0..MaxPuts /\ 0 \in 0..MaxClears /\ 0 \in 0..MaxCacheStops
    BY CacheAssumption
  <2> QED
    BY <2>1, IdleCall DEF CacheInit, CacheTypeOK
<1>2. \A k \in Lists : kept[k] # NoCopy => kept[k] \in legacy[k]
    BY DEF CacheInit, ReadLast
<1>3. FilesInv
    BY <1>2 DEF CacheInit, FilesInv, CacheHoldsLastStore, StoredCopyStays, ClearedStaysCleared,
                OldCopyKept
<1>4. \A t \in CacheThreads : CallInv(t)
    BY IdleCall DEF CacheInit, CallInv
<1> QED
    BY <1>1, <1>3, <1>4 DEF CacheInv

\* The step of one call: the others keep what they rely on, because what it changes
\* under the lock no other holder of the lock sees, and the rest only improves.
LEMMA CallKeepsInv ==
    ASSUME CacheInv, NEW t \in CacheThreads, NEW new \in Calls,
           cacheCall' = [cacheCall EXCEPT ![t] = new],
           dirLock' = dirLock \/ dirLock \in {t, Nobody},
           UNCHANGED <<newest, cleared>> \/ dirLock = t,
           \A k \in Lists : Readable(k) => Readable(k)',
           unrecovered \subseteq unrecovered',
           CacheTypeOK', FilesInv', CallInv(t)'
    PROVE  CacheInv'
<1>1. ASSUME NEW q \in CacheThreads, q # t
      PROVE  CallInv(q)'
  <2>1. cacheCall'[q] = cacheCall[q] /\ CallInv(q) /\ cacheCall[q] \in Calls
    BY <1>1 DEF CacheInv, CacheTypeOK
  <2>2. dirLock = q => dirLock' = q /\ UNCHANGED <<newest, cleared>>
    BY <1>1, CacheAssumption
  <2>3. \A k \in Lists : AtRest(k) => AtRest(k)'
    BY DEF AtRest
  <2>4. cacheCall[q].at # Nowhere => cacheCall[q].at \in Lists
    BY <2>1 DEF Calls
  <2> QED
    BY <2>1, <2>2, <2>3, <2>4 DEF CallInv
<1> QED
    BY <1>1 DEF CacheInv

\* A call may take the lock or go on with a file untouched; only the marker and the
\* record of failed renames may grow.
LEMMA QuietStepKeepsInv ==
    ASSUME CacheInv, NEW t \in CacheThreads, NEW new \in Calls,
           cacheCall' = [cacheCall EXCEPT ![t] = new],
           dirLock' \in CacheThreads \cup {Nobody},
           dirLock' = dirLock \/ dirLock \in {t, Nobody},
           UNCHANGED <<entry, legacy, marked, clears, cacheStops, newest, cleared, kept>>,
           unrecovered \subseteq unrecovered', unrecovered' \subseteq Lists,
           migrated' \in BOOLEAN, puts' \in 0..MaxPuts,
           CallInv(t)'
    PROVE  CacheInv'
<1>1. CacheTypeOK'
    BY DEF CacheInv, CacheTypeOK
<1>2. FilesInv'
    BY DEF CacheInv, FilesInv, CacheHoldsLastStore, StoredCopyStays, ClearedStaysCleared,
           OldCopyKept
<1>3. \A k \in Lists : Readable(k) => Readable(k)'
    BY DEF Readable
<1> QED
    BY <1>1, <1>2, <1>3, CallKeepsInv

\* What is known of one call before its step.
LEMMA CallTypes ==
    ASSUME CacheInv, NEW t \in CacheThreads
    PROVE  /\ cacheCall[t] \in Calls /\ CallInv(t)
           /\ cacheCall[t].of \in Lists \cup {Nowhere}
           /\ cacheCall[t].copy \in Copies \cup {NoCopy}
           /\ cacheCall[t].found \in [Lists -> SUBSET Old]
           /\ cacheCall[t].at \in Lists \cup {Nowhere}
           /\ \A new : [cacheCall EXCEPT ![t] = new][t] = new
    BY DEF CacheInv, CacheTypeOK, Calls

LEMMA PutBeginsKeepsInv ==
    ASSUME CacheInv, NEW t \in CacheThreads, NEW k \in Lists, PutBegins(t, k)
    PROVE  CacheInv'
<1> DEFINE first == ~marked /\ ~migrated
           new == [NoCacheCall EXCEPT !.op = "put", !.of = k, !.copy = OldCopies + puts + 1,
                                      !.step = IF first THEN "scanning" ELSE "locking"]
<1>1. puts \in 0..MaxPuts /\ puts < MaxPuts /\ puts' = puts + 1
    BY DEF PutBegins, CacheInv, CacheTypeOK
<1>2. OldCopies + puts + 1 \in Copies /\ puts' \in 0..MaxPuts
    BY <1>1, CopyNumbers
<1>3. new \in Calls
    BY <1>2, IdleCall DEF Calls
<1>4. /\ new.step \in {"scanning", "locking"} /\ new.of = k /\ new.copy \in Copies
      /\ new.at = Nowhere
    BY <1>2, IdleCall DEF Calls
<1>5. cacheCall' = [cacheCall EXCEPT ![t] = new] /\ cacheCall'[t] = new
    BY DEF PutBegins, CacheInv, CacheTypeOK
<1>6. CallInv(t)'
    BY <1>4, <1>5 DEF CallInv
<1>7. /\ UNCHANGED <<entry, legacy, marked, dirLock, clears, cacheStops, cacheHistory>>
      /\ migrated' \in BOOLEAN
    BY DEF PutBegins, MarkedAtStart, CacheInv, CacheTypeOK
<1> HIDE DEF new
<1> QED
    BY <1>2, <1>3, <1>5, <1>6, <1>7, QuietStepKeepsInv DEF cacheHistory, CacheInv, CacheTypeOK

\* The other steps that leave every file alone.
LEMMA ScansDirKeepsInv ==
    ASSUME CacheInv, NEW t \in CacheThreads, ScansDir(t)
    PROVE  CacheInv'
<1> DEFINE new == [cacheCall[t] EXCEPT !.step = "queueing", !.found = legacy]
<1>1. cacheCall' = [cacheCall EXCEPT ![t] = new]
    BY DEF ScansDir
<1>2. legacy \in [Lists -> SUBSET Old]
    BY DEF CacheInv, CacheTypeOK
<1>3. /\ new \in Calls /\ new.step = "queueing" /\ new.found = legacy
      /\ new.of = cacheCall[t].of /\ new.copy = cacheCall[t].copy
      /\ new.at = cacheCall[t].at
    BY <1>2, CallTypes DEF Calls
<1>4. cacheCall'[t] = new
    BY <1>1, CallTypes
<1>5. \A k \in Lists : legacy[k] = {} => AtRest(k)
    BY DEF CacheInv, FilesInv, OldCopyKept, AtRest, Readable
<1>6. /\ cacheCall[t].step = "scanning"
      /\ UNCHANGED <<cacheFiles, migrated, dirLock, puts, clears, cacheStops, cacheHistory>>
    BY DEF ScansDir, At
<1> HIDE DEF new
<1>7. CallInv(t)'
    BY <1>3, <1>4, <1>5, <1>6, CallTypes
    DEF CallInv, AtRest, Readable, cacheFiles, cacheHistory
<1> QED
    BY <1>1, <1>3, <1>6, <1>7, QuietStepKeepsInv
    DEF cacheFiles, cacheHistory, CacheInv, CacheTypeOK

LEMMA LockingKeepsInv ==
    ASSUME CacheInv, NEW t \in CacheThreads, MigrationLocks(t) \/ PutLocks(t)
    PROVE  CacheInv'
<1> DEFINE step == IF At(t, "queueing") THEN "migrating" ELSE "storing"
           new == [cacheCall[t] EXCEPT !.step = step]
<1>1. cacheCall' = [cacheCall EXCEPT ![t] = new] /\ dirLock = Nobody /\ dirLock' = t
  <2>1. CASE MigrationLocks(t)
    BY <2>1 DEF MigrationLocks, Takes, LockFree
  <2>2. CASE PutLocks(t)
    BY <2>2 DEF PutLocks, Takes, LockFree, At
  <2> QED
    BY <2>1, <2>2
<1>2. new \in Calls
    BY CallTypes DEF Calls
<1>3. cacheCall'[t] = new
    BY <1>1, CallTypes
<1>4. /\ UNCHANGED <<cacheFiles, migrated, puts, clears, cacheStops, cacheHistory>>
      /\ cacheCall[t].step \in {"queueing", "locking"}
    BY DEF MigrationLocks, PutLocks, At
<1>5. /\ new.step = IF cacheCall[t].step = "queueing" THEN "migrating" ELSE "storing"
      /\ new.of = cacheCall[t].of /\ new.copy = cacheCall[t].copy
      /\ new.found = cacheCall[t].found /\ new.at = cacheCall[t].at
    BY CallTypes DEF Calls, At
<1> HIDE DEF new
<1>6. CallInv(t)'
    BY <1>1, <1>3, <1>4, <1>5, CallTypes
    DEF CallInv, AtRest, Readable, cacheFiles, cacheHistory
<1> QED
    BY <1>1, <1>2, <1>4, <1>6, QuietStepKeepsInv
    DEF cacheFiles, cacheHistory, CacheInv, CacheTypeOK

\* The calls that end with nothing changed, and a clear that begins.
LEMMA EndsKeepsInv ==
    ASSUME CacheInv, NEW t \in CacheThreads, StoreFails(t) \/ ClearFails(t)
    PROVE  CacheInv'
<1>1. /\ cacheCall' = [cacheCall EXCEPT ![t] = NoCacheCall]
      /\ dirLock' = Nobody /\ cacheCall[t].step \in {"storing", "clearing"}
      /\ UNCHANGED <<cacheFiles, migrated, puts, clears, cacheStops, cacheHistory>>
    BY DEF StoreFails, ClearFails, Releases, At
<1>2. dirLock = t
    BY <1>1, CallTypes DEF CallInv
<1>3. CallInv(t)'
    BY <1>1, CallTypes, IdleCall DEF CallInv
<1> QED
    BY <1>1, <1>2, <1>3, IdleCall, QuietStepKeepsInv
    DEF cacheFiles, cacheHistory, CacheInv, CacheTypeOK

LEMMA ReadsCopyKeepsInv ==
    ASSUME CacheInv, NEW t \in CacheThreads, NEW k \in Lists, ReadsCopy(t, k)
    PROVE  CacheInv'
<1> DEFINE new == [NoCacheCall EXCEPT !.op = "get", !.step = "touching", !.of = k,
                                      !.copy = entry[k]]
<1>1. /\ cacheCall' = [cacheCall EXCEPT ![t] = new]
      /\ dirLock = Nobody /\ dirLock' = t /\ entry[k] # NoCopy
      /\ UNCHANGED <<cacheFiles, migrated, puts, clears, cacheStops, cacheHistory>>
    BY DEF ReadsCopy, Takes, LockFree
<1>2. entry[k] \in Copies
    BY <1>1 DEF CacheInv, CacheTypeOK
<1>3. /\ new \in Calls /\ new.step = "touching" /\ new.of = k /\ new.copy = entry[k]
      /\ new.at = Nowhere
    BY <1>2, IdleCall DEF Calls
<1>4. k \notin cleared /\ newest[k] \in {NoCopy, entry[k]}
    BY <1>1 DEF CacheInv, FilesInv, CacheHoldsLastStore, StoredCopyStays, ClearedStaysCleared
<1>5. cacheCall'[t] = new
    BY <1>1, CallTypes
<1> HIDE DEF new
<1>6. CallInv(t)'
    BY <1>1, <1>2, <1>3, <1>4, <1>5 DEF CallInv, cacheHistory
<1> QED
    BY <1>1, <1>3, <1>6, QuietStepKeepsInv DEF cacheFiles, cacheHistory, CacheInv, CacheTypeOK

LEMMA SlotTakenKeepsInv ==
    ASSUME CacheInv, NEW t \in CacheThreads, NEW k \in Lists, SlotTaken(t, k)
    PROVE  CacheInv'
<1> DEFINE new == [cacheCall[t] EXCEPT !.at = k]
<1>1. /\ cacheCall' = [cacheCall EXCEPT ![t] = new] /\ entry[k] # NoCopy
      /\ cacheCall[t].step = "migrating"
      /\ UNCHANGED <<cacheFiles, migrated, dirLock, puts, clears, cacheStops, cacheHistory>>
    BY DEF SlotTaken, Considers, At
<1>2. /\ new \in Calls /\ new.step = "migrating" /\ new.at = k
      /\ new.of = cacheCall[t].of /\ new.copy = cacheCall[t].copy
      /\ new.found = cacheCall[t].found
    BY <1>1, CallTypes DEF Calls
<1>3. cacheCall'[t] = new
    BY <1>1, CallTypes
<1> HIDE DEF new
<1>4. CallInv(t)'
    BY <1>1, <1>2, <1>3, CallTypes DEF CallInv, AtRest, Readable, cacheFiles, cacheHistory
<1> QED
    BY <1>1, <1>2, <1>4, QuietStepKeepsInv DEF cacheFiles, cacheHistory, CacheInv, CacheTypeOK

\* A collection whose rename failed is no longer looked at, and is recorded.
LEMMA RecoveryFailsKeepsInv ==
    ASSUME CacheInv, NEW t \in CacheThreads, NEW k \in Lists, RecoveryFails(t, k)
    PROVE  CacheInv'
<1> DEFINE new == [cacheCall[t] EXCEPT !.found[k] = {}]
<1>1. /\ cacheCall' = [cacheCall EXCEPT ![t].found[k] = {}]
      /\ cacheCall[t].step = "migrating" /\ unrecovered' = unrecovered \cup {k}
      /\ UNCHANGED <<cacheFiles, migrated, dirLock, puts, clears, cacheStops, newest, cleared,
                     kept>>
    BY DEF RecoveryFails, Considers, At
<1>2. /\ new \in Calls /\ new.step = "migrating" /\ new.at = cacheCall[t].at
      /\ new.of = cacheCall[t].of /\ new.copy = cacheCall[t].copy
      /\ new.found = [cacheCall[t].found EXCEPT ![k] = {}]
    BY <1>1, CallTypes DEF Calls
<1>3. cacheCall' = [cacheCall EXCEPT ![t] = new]
    BY <1>1
<1>4. cacheCall'[t] = new
    BY <1>3, CallTypes
<1>5. \A j \in Lists : new.found[j] = {} => AtRest(j)'
    BY <1>1, <1>2, CallTypes DEF CallInv, AtRest, Readable, cacheFiles
<1> HIDE DEF new
<1>6. CallInv(t)'
    BY <1>1, <1>2, <1>4, <1>5, CallTypes DEF CallInv, Readable, cacheFiles
<1> QED
    BY <1>1, <1>2, <1>3, <1>6, QuietStepKeepsInv DEF cacheFiles, CacheInv, CacheTypeOK

LEMMA MigrationEndsKeepsInv ==
    ASSUME CacheInv, NEW t \in CacheThreads, MigrationEnds(t)
    PROVE  CacheInv'
<1> DEFINE new == [cacheCall[t] EXCEPT !.step = "marking"]
<1>1. /\ cacheCall' = [cacheCall EXCEPT ![t] = new] /\ dirLock' = Nobody
      /\ cacheCall[t].step = "migrating" /\ cacheCall[t].found = NoCacheCall.found
      /\ UNCHANGED <<cacheFiles, migrated, puts, clears, cacheStops, cacheHistory>>
    BY DEF MigrationEnds, Releases, At
<1>2. /\ new \in Calls /\ new.step = "marking" /\ new.at = cacheCall[t].at
      /\ new.of = cacheCall[t].of /\ new.copy = cacheCall[t].copy
    BY <1>1, CallTypes DEF Calls
<1>3. cacheCall'[t] = new /\ dirLock = t
    BY <1>1, CallTypes DEF CallInv
<1>4. \A k \in Lists : cacheCall[t].found[k] = {}
    BY <1>1 DEF NoCacheCall
<1>5. \A k \in Lists : AtRest(k)
    BY <1>1, <1>4, CallTypes DEF CallInv
<1> HIDE DEF new
<1>6. CallInv(t)'
    BY <1>1, <1>2, <1>3, <1>5, CallTypes DEF CallInv, AtRest, Readable, cacheFiles, cacheHistory
<1> QED
    BY <1>1, <1>2, <1>3, <1>6, QuietStepKeepsInv
    DEF cacheFiles, cacheHistory, CacheInv, CacheTypeOK

LEMMA ClearBeginsKeepsInv ==
    ASSUME CacheInv, NEW t \in CacheThreads, ClearBegins(t)
    PROVE  CacheInv'
<1> DEFINE new == [NoCacheCall EXCEPT !.op = "clear", !.step = "clearing"]
<1>1. /\ cacheCall' = [cacheCall EXCEPT ![t] = new] /\ dirLock = Nobody /\ dirLock' = t
      /\ clears < MaxClears /\ clears' = clears + 1
      /\ UNCHANGED <<cacheFiles, migrated, puts, cacheStops, cacheHistory>>
    BY DEF ClearBegins, Takes, LockFree
<1>2. new \in Calls /\ new.step = "clearing" /\ new.at = Nowhere
    BY IdleCall DEF Calls
<1>3. cacheCall'[t] = new
    BY <1>1, CallTypes
<1>4. clears' \in 0..MaxClears
    BY <1>1, CacheAssumption DEF CacheInv, CacheTypeOK
<1> HIDE DEF new
<1>5. CallInv(t)'
    BY <1>1, <1>2, <1>3 DEF CallInv
<1>6. CacheTypeOK'
    BY <1>1, <1>2, <1>4 DEF cacheFiles, cacheHistory, CacheInv, CacheTypeOK
<1>7. FilesInv' /\ \A k \in Lists : Readable(k) => Readable(k)'
    BY <1>1 DEF cacheFiles, cacheHistory, CacheInv, FilesInv, CacheHoldsLastStore,
                StoredCopyStays, ClearedStaysCleared, OldCopyKept, Readable
<1> QED
    BY <1>1, <1>2, <1>5, <1>6, <1>7, CallKeepsInv DEF cacheHistory

\* The rename: the collection had no copy under the present name, hence none was
\* stored, and it was not cleared, for nothing old is left of what was.
LEMMA RecoversKeepsInv ==
    ASSUME CacheInv, NEW t \in CacheThreads, NEW k \in Lists, Recovers(t, k)
    PROVE  CacheInv'
<1> DEFINE new == [cacheCall[t] EXCEPT !.at = k]
<1>1. PICK copy \in legacy[k] :
          /\ entry' = [entry EXCEPT ![k] = copy]
          /\ legacy' = [legacy EXCEPT ![k] = @ \ {copy}]
    BY DEF Recovers
<1>2. /\ cacheCall' = [cacheCall EXCEPT ![t] = new] /\ entry[k] = NoCopy
      /\ cacheCall[t].step = "migrating"
      /\ UNCHANGED <<marked, migrated, dirLock, puts, clears, cacheStops, cacheHistory>>
    BY DEF Recovers, Considers, At
<1>3. /\ new \in Calls /\ new.step = "migrating" /\ new.at = k
      /\ new.of = cacheCall[t].of /\ new.copy = cacheCall[t].copy
      /\ new.found = cacheCall[t].found
    BY <1>2, CallTypes DEF Calls
<1>4. cacheCall'[t] = new
    BY <1>2, CallTypes
<1>5. copy \in Copies /\ copy # NoCopy
    BY CopyNumbers DEF CacheInv, CacheTypeOK
<1> HIDE DEF new
<1>6. CacheTypeOK'
    BY <1>1, <1>2, <1>3, <1>5 DEF cacheHistory, CacheInv, CacheTypeOK
<1>7. FilesInv'
  <2>1. newest[k] = NoCopy /\ k \notin cleared
    BY <1>2 DEF CacheInv, FilesInv, CacheHoldsLastStore, StoredCopyStays
  <2>2. \A j \in Lists : entry'[j] = IF j = k THEN copy ELSE entry[j]
    BY <1>1 DEF CacheInv, CacheTypeOK
  <2>3. \A j \in Lists : j # k => legacy'[j] = legacy[j]
    BY <1>1 DEF CacheInv, CacheTypeOK
  <2>4. CacheHoldsLastStore'
    BY <1>2, <2>1, <2>2 DEF cacheHistory, CacheInv, CacheTypeOK, FilesInv, CacheHoldsLastStore,
                            StoredCopyStays, ClearedStaysCleared
  <2>5. OldCopyKept'
    BY <1>2, <1>5, <2>2, <2>3 DEF cacheHistory, CacheInv, FilesInv, OldCopyKept
  <2>6. \A j \in cleared' : legacy'[j] = {}
    BY <1>2, <2>1, <2>3 DEF cacheHistory, CacheInv, CacheTypeOK, FilesInv
  <2> QED
    BY <2>4, <2>5, <2>6 DEF FilesInv
<1>8. \A j \in Lists : Readable(j) => Readable(j)'
    BY <1>1, <1>2, <1>5 DEF Readable, cacheHistory, CacheInv, CacheTypeOK
<1>9. Readable(k)'
    BY <1>1, <1>5 DEF Readable, CacheInv, CacheTypeOK
<1>10. CallInv(t)'
    BY <1>2, <1>3, <1>4, <1>8, <1>9, CallTypes DEF CallInv, AtRest, cacheHistory
<1> QED
    BY <1>2, <1>3, <1>6, <1>7, <1>8, <1>10, CallKeepsInv DEF cacheHistory

LEMMA MovedCall ==
    ASSUME NEW call \in Calls, NEW f \in [Lists -> SUBSET Old], NEW a \in Lists \cup {Nowhere}
    PROVE  [call EXCEPT !.found = f, !.at = a] \in Calls
    BY DEF Calls

\* The deletion of the old files of a collection whose copy is readable.
LEMMA DeletesOldKeepsInv ==
    ASSUME CacheInv, NEW t \in CacheThreads, DeletesOld(t)
    PROVE  CacheInv'
<1> DEFINE k == cacheCall[t].at
<1>1. PICK copy \in cacheCall[t].found[k] :
          /\ legacy' \in {legacy, [legacy EXCEPT ![k] = @ \ {copy}]}
          /\ cacheCall' = [cacheCall EXCEPT
                ![t].found[k] = @ \ {copy},
                ![t].at = IF cacheCall[t].found[k] = {copy} THEN Nowhere ELSE k]
    BY DEF DeletesOld
<1> DEFINE new == [cacheCall[t] EXCEPT !.found[k] = @ \ {copy},
                       !.at = IF cacheCall[t].found[k] = {copy} THEN Nowhere ELSE k]
<1>2. /\ cacheCall[t].step = "migrating" /\ k # Nowhere /\ k \in Lists
      /\ UNCHANGED <<entry, marked, migrated, dirLock, puts, clears, cacheStops, cacheHistory>>
    BY CallTypes DEF DeletesOld, At
<1>3. cacheCall' = [cacheCall EXCEPT ![t] = new]
    BY <1>1
<1>4. /\ new.step = "migrating" /\ new.at \in {Nowhere, k}
      /\ new.of = cacheCall[t].of /\ new.copy = cacheCall[t].copy
      /\ new.found = [cacheCall[t].found EXCEPT ![k] = @ \ {copy}]
      /\ new.op = cacheCall[t].op
    BY <1>2, CallTypes DEF Calls
<1>5. new \in Calls
  <2>1. [cacheCall[t].found EXCEPT ![k] = @ \ {copy}] \in [Lists -> SUBSET Old]
    BY <1>2, CallTypes
  <2>2. new = [cacheCall[t] EXCEPT !.found = [cacheCall[t].found EXCEPT ![k] = @ \ {copy}],
                   !.at = IF cacheCall[t].found[k] = {copy} THEN Nowhere ELSE k]
    OBVIOUS
  <2>3. \A f \in [Lists -> SUBSET Old], a \in Lists \cup {Nowhere} :
           [cacheCall[t] EXCEPT !.found = f, !.at = a] \in Calls
    BY CallTypes, MovedCall
  <2>4. (IF cacheCall[t].found[k] = {copy} THEN Nowhere ELSE k) \in Lists \cup {Nowhere}
    BY <1>2
  <2> HIDE DEF new
  <2> QED
    BY <2>1, <2>2, <2>3, <2>4
<1>6. cacheCall'[t] = new
  <2> HIDE DEF new
  <2> QED
    BY <1>3, CallTypes
<1>7. Readable(k)
    BY <1>2, CallTypes DEF CallInv
<1> HIDE DEF new
<1>8. CacheTypeOK'
  <2>1. legacy' \in [Lists -> SUBSET Old]
    BY <1>1, <1>2 DEF CacheInv, CacheTypeOK
  <2>2. cacheCall' \in [CacheThreads -> Calls]
    BY <1>3, <1>5 DEF CacheInv, CacheTypeOK
  <2> QED
    BY <1>2, <2>1, <2>2 DEF cacheHistory, CacheInv, CacheTypeOK
<1>9. \A j \in Lists : legacy'[j] \subseteq legacy[j] /\ (j # k => legacy'[j] = legacy[j])
    BY <1>1 DEF CacheInv, CacheTypeOK
<1>10. FilesInv'
  <2>1. OldCopyKept'
    BY <1>2, <1>7, <1>9 DEF cacheHistory, CacheInv, FilesInv, OldCopyKept, Readable
  <2>2. CacheHoldsLastStore'
    BY <1>2 DEF cacheHistory, CacheInv, FilesInv, CacheHoldsLastStore, StoredCopyStays,
                ClearedStaysCleared
  <2>3. \A j \in cleared' : legacy'[j] = {}
    BY <1>2, <1>9 DEF cacheHistory, CacheInv, CacheTypeOK, FilesInv
  <2> QED
    BY <2>1, <2>2, <2>3 DEF FilesInv
<1>11. \A j \in Lists : Readable(j) => Readable(j)'
    BY <1>2 DEF Readable, cacheHistory
<1>12. \A j \in Lists : new.found[j] = {} => AtRest(j)'
  <2>1. \A j \in Lists : j # k => new.found[j] = cacheCall[t].found[j]
    BY <1>4, CallTypes
  <2>2. \A j \in Lists : j # k /\ new.found[j] = {} => AtRest(j)
    BY <1>2, <2>1, CallTypes DEF CallInv
  <2>3. AtRest(k)
    BY <1>7 DEF AtRest
  <2> QED
    BY <1>2, <2>2, <2>3 DEF AtRest, Readable, cacheHistory
<1>13. CallInv(t)'
    BY <1>2, <1>4, <1>6, <1>7, <1>11, <1>12, CallTypes DEF CallInv
<1> QED
    BY <1>2, <1>3, <1>5, <1>8, <1>10, <1>11, <1>13, CallKeepsInv DEF cacheHistory

\* A copy is stored: it is the newest, and the collection is not cleared any more.
LEMMA StoresKeepsInv ==
    ASSUME CacheInv, NEW t \in CacheThreads, Stores(t)
    PROVE  CacheInv'
<1> DEFINE k == cacheCall[t].of
           copy == cacheCall[t].copy
<1>1. /\ cacheCall[t].step = "storing"
      /\ entry' = [entry EXCEPT ![k] = copy] /\ newest' = [newest EXCEPT ![k] = copy]
      /\ cleared' = cleared \ {k}
      /\ dirLock' = Nobody /\ cacheCall' = [cacheCall EXCEPT ![t] = NoCacheCall]
      /\ UNCHANGED <<legacy, marked, migrated, puts, clears, cacheStops, kept, unrecovered>>
    BY DEF Stores, Releases, At
<1>2. dirLock = t /\ k \in Lists /\ copy \in Copies /\ copy # NoCopy
    BY <1>1, CallTypes, CopyNumbers DEF CallInv
<1> HIDE DEF k, copy
<1>3. CacheTypeOK'
    BY <1>1, <1>2, IdleCall DEF CacheInv, CacheTypeOK
<1>4. \A j \in Lists : /\ entry'[j] = IF j = k THEN copy ELSE entry[j]
                       /\ newest'[j] = IF j = k THEN copy ELSE newest[j]
    BY <1>1 DEF CacheInv, CacheTypeOK
<1>5. FilesInv'
    BY <1>1, <1>2, <1>4 DEF CacheInv, CacheTypeOK, FilesInv, CacheHoldsLastStore,
                            StoredCopyStays, ClearedStaysCleared, OldCopyKept
<1>6. \A j \in Lists : Readable(j) => Readable(j)'
    BY <1>1, <1>2, <1>4 DEF Readable
<1>7. CallInv(t)'
    BY <1>1, CallTypes, IdleCall DEF CallInv
<1> QED
    BY <1>1, <1>2, <1>3, <1>5, <1>6, <1>7, IdleCall, CallKeepsInv

\* The recency write puts back what the lock kept as it was.
LEMMA TouchesKeepsInv ==
    ASSUME CacheInv, NEW t \in CacheThreads, Touches(t)
    PROVE  CacheInv'
<1> DEFINE k == cacheCall[t].of
           copy == cacheCall[t].copy
<1>1. /\ cacheCall[t].step = "touching"
      /\ entry' \in {entry, [entry EXCEPT ![k] = copy]}
      /\ dirLock' = Nobody /\ cacheCall' = [cacheCall EXCEPT ![t] = NoCacheCall]
      /\ UNCHANGED <<legacy, marked, migrated, puts, clears, cacheStops, cacheHistory>>
    BY DEF Touches, Releases, At
<1>2. /\ dirLock = t /\ k \in Lists \ cleared /\ copy \in Copies /\ copy # NoCopy
      /\ newest[k] \in {NoCopy, copy}
    BY <1>1, CallTypes, CopyNumbers DEF CallInv
<1> HIDE DEF k, copy
<1>3. CacheTypeOK'
    BY <1>1, <1>2, IdleCall DEF CacheInv, CacheTypeOK, cacheHistory
<1>4. \A j \in Lists : entry'[j] = entry[j] \/ (j = k /\ entry'[j] = copy)
    BY <1>1 DEF CacheInv, CacheTypeOK
<1>5. FilesInv'
    BY <1>1, <1>2, <1>4 DEF CacheInv, CacheTypeOK, FilesInv, CacheHoldsLastStore,
                            StoredCopyStays, ClearedStaysCleared, OldCopyKept, cacheHistory
<1>6. \A j \in Lists : Readable(j) => Readable(j)'
    BY <1>1, <1>2, <1>4 DEF Readable, cacheHistory
<1>7. CallInv(t)'
    BY <1>1, CallTypes, IdleCall DEF CallInv
<1> QED
    BY <1>1, <1>2, <1>3, <1>5, <1>6, <1>7, IdleCall, CallKeepsInv DEF cacheHistory

\* The marker: every collection is settled.
LEMMA WritesMarkerKeepsInv ==
    ASSUME CacheInv, NEW t \in CacheThreads, WritesMarker(t)
    PROVE  CacheInv'
<1> DEFINE new == [cacheCall[t] EXCEPT !.step = "locking"]
<1>1. /\ cacheCall' = [cacheCall EXCEPT ![t] = new] /\ cacheCall[t].step = "marking"
      /\ marked' \in {marked, TRUE}
      /\ UNCHANGED <<entry, legacy, migrated, dirLock, puts, clears, cacheStops, cacheHistory>>
    BY DEF WritesMarker, At
<1>2. /\ new \in Calls /\ new.step = "locking" /\ new.at = cacheCall[t].at
      /\ new.of = cacheCall[t].of /\ new.copy = cacheCall[t].copy
    BY CallTypes DEF Calls
<1>3. cacheCall'[t] = new
    BY <1>1, CallTypes
<1> HIDE DEF new
<1>4. CacheTypeOK'
    BY <1>1, <1>2 DEF CacheInv, CacheTypeOK, cacheHistory
<1>5. \A k \in Lists : AtRest(k)
    BY <1>1, CallTypes DEF CallInv
<1>6. FilesInv'
    BY <1>1, <1>5 DEF CacheInv, FilesInv, CacheHoldsLastStore, StoredCopyStays,
                      ClearedStaysCleared, OldCopyKept, AtRest, Readable, cacheHistory
<1>7. \A k \in Lists : Readable(k) => Readable(k)'
    BY <1>1 DEF Readable, cacheHistory
<1>8. CallInv(t)'
    BY <1>1, <1>2, <1>3, <1>7, CallTypes DEF CallInv
<1> QED
    BY <1>1, <1>2, <1>4, <1>6, <1>7, <1>8, CallKeepsInv DEF cacheHistory

\* A clear deletes file by file: nothing it deleted is remembered as stored.
LEMMA ClearsKeepsInv ==
    ASSUME CacheInv, NEW t \in CacheThreads, Clears(t)
    PROVE  CacheInv'
<1>1. /\ cacheCall[t].step = "clearing" /\ cacheCall[t] \in Calls
      /\ UNCHANGED <<migrated, dirLock, cacheCall, puts, clears, cacheStops, cleared,
                     unrecovered>>
    BY CallTypes DEF Clears, At
<1>2. dirLock = t
    BY <1>1, CallTypes DEF CallInv
<1>3. cacheCall' = [cacheCall EXCEPT ![t] = cacheCall[t]]
    BY <1>1 DEF CacheInv, CacheTypeOK
<1>4. ASSUME NEW k \in Lists, kept' = [kept EXCEPT ![k] = NoCopy], UNCHANGED marked,
             \/ /\ entry' = [entry EXCEPT ![k] = NoCopy]
                /\ newest' = [newest EXCEPT ![k] = NoCopy]
                /\ UNCHANGED legacy
             \/ legacy' = [legacy EXCEPT ![k] = {}] /\ UNCHANGED <<entry, newest>>
      PROVE  CacheInv'
  <2>1. CacheTypeOK'
    BY <1>1, <1>4 DEF CacheInv, CacheTypeOK
  <2>2. \A j \in Lists :
           /\ j # k => entry'[j] = entry[j] /\ newest'[j] = newest[j] /\ kept'[j] = kept[j]
                       /\ legacy'[j] = legacy[j]
           /\ legacy'[j] \subseteq legacy[j]
    BY <1>4 DEF CacheInv, CacheTypeOK
  <2>3. /\ kept'[k] = NoCopy /\ entry'[k] \in {entry[k], NoCopy}
        /\ newest'[k] = NoCopy \/ (newest'[k] = newest[k] /\ entry'[k] = entry[k])
    BY <1>4 DEF CacheInv, CacheTypeOK
  <2>4. FilesInv'
    BY <1>1, <1>4, <2>2, <2>3 DEF CacheInv, CacheTypeOK, FilesInv, CacheHoldsLastStore,
                                  StoredCopyStays, ClearedStaysCleared, OldCopyKept
  <2>5. \A j \in Lists : Readable(j) => Readable(j)'
    BY <2>2, <2>3 DEF Readable
  <2>6. CallInv(t)'
    BY <1>1, <2>5, CallTypes DEF CallInv
  <2> QED
    BY <1>1, <1>2, <1>3, <2>1, <2>4, <2>5, <2>6, CallKeepsInv
<1>5. ASSUME marked' = FALSE, UNCHANGED <<entry, legacy, newest, kept>>
      PROVE  CacheInv'
  <2>1. CacheTypeOK'
    BY <1>1, <1>5 DEF CacheInv, CacheTypeOK
  <2>2. FilesInv'
    BY <1>1, <1>5 DEF CacheInv, FilesInv, CacheHoldsLastStore, StoredCopyStays,
                      ClearedStaysCleared, OldCopyKept
  <2>3. \A j \in Lists : Readable(j) => Readable(j)'
    BY <1>5 DEF Readable
  <2>4. CallInv(t)'
    BY <1>1, <2>3, CallTypes DEF CallInv
  <2> QED
    BY <1>1, <1>2, <1>3, <2>1, <2>2, <2>3, <2>4, CallKeepsInv
<1> QED
    BY <1>4, <1>5 DEF Clears

LEMMA ClearEndsKeepsInv ==
    ASSUME CacheInv, NEW t \in CacheThreads, ClearEnds(t)
    PROVE  CacheInv'
<1>1. /\ cacheCall[t].step = "clearing" /\ \A k \in Lists : entry[k] = NoCopy /\ legacy[k] = {}
      /\ cleared' = Lists
      /\ dirLock' = Nobody /\ cacheCall' = [cacheCall EXCEPT ![t] = NoCacheCall]
      /\ UNCHANGED <<cacheFiles, migrated, puts, clears, cacheStops, newest, kept, unrecovered>>
    BY DEF ClearEnds, Releases, At
<1>2. dirLock = t
    BY <1>1, CallTypes DEF CallInv
<1>3. CacheTypeOK'
    BY <1>1, IdleCall DEF CacheInv, CacheTypeOK, cacheFiles
<1>4. FilesInv'
    BY <1>1 DEF CacheInv, FilesInv, CacheHoldsLastStore, StoredCopyStays, ClearedStaysCleared,
                OldCopyKept, cacheFiles
<1>5. \A k \in Lists : Readable(k) => Readable(k)'
    BY <1>1 DEF Readable, cacheFiles
<1>6. CallInv(t)'
    BY <1>1, CallTypes, IdleCall DEF CallInv
<1> QED
    BY <1>1, <1>2, <1>3, <1>4, <1>5, <1>6, IdleCall, CallKeepsInv

\* The wipe takes no lock. It forgets every stored copy with the files; a call that
\* holds one in hand may bring it back, but never over a copy stored later.
LEMMA WipeKeepsInv == CacheInv /\ WipeDeletes => CacheInv'
<1> SUFFICES ASSUME CacheInv, WipeDeletes PROVE CacheInv'
    OBVIOUS
<1>1. CacheTypeOK'
  <2>1. clears' \in 0..MaxClears
    BY CacheAssumption DEF WipeDeletes, CacheInv, CacheTypeOK
  <2> QED
    BY <2>1 DEF WipeDeletes, CacheInv, CacheTypeOK
<1>2. FilesInv'
    BY DEF WipeDeletes, CacheInv, CacheTypeOK, FilesInv, CacheHoldsLastStore, StoredCopyStays,
           ClearedStaysCleared, OldCopyKept
<1>3. \A k \in Lists : Readable(k)' /\ AtRest(k)'
    BY DEF WipeDeletes, Readable, AtRest
<1>4. ASSUME NEW t \in CacheThreads PROVE CallInv(t)'
    BY <1>3, CallTypes DEF WipeDeletes, CallInv
<1> QED
    BY <1>1, <1>2, <1>4 DEF CacheInv

LEMMA StopKeepsInv == CacheInv /\ CacheStops => CacheInv'
<1> SUFFICES ASSUME CacheInv, CacheStops PROVE CacheInv'
    OBVIOUS
<1>1. CacheTypeOK'
  <2>1. cacheStops' \in 0..MaxCacheStops
    BY CacheAssumption DEF CacheStops, CacheInv, CacheTypeOK
  <2> QED
    BY <2>1, IdleCall DEF CacheStops, CacheInv, CacheTypeOK, cacheFiles, cacheHistory
<1>2. FilesInv'
    BY DEF CacheStops, CacheInv, FilesInv, CacheHoldsLastStore, StoredCopyStays,
           ClearedStaysCleared, OldCopyKept, cacheFiles, cacheHistory
<1>3. \A t \in CacheThreads : CallInv(t)'
    BY IdleCall DEF CacheStops, CallInv
<1> QED
    BY <1>1, <1>2, <1>3 DEF CacheInv

LEMMA NextKeepsCacheInv == CacheInv /\ [CacheNext]_cacheVars => CacheInv'
<1> SUFFICES ASSUME CacheInv, [CacheNext]_cacheVars PROVE CacheInv'
    OBVIOUS
<1>1. ASSUME NEW t \in CacheThreads, MigrationStep(t) PROVE CacheInv'
    BY <1>1, ScansDirKeepsInv, LockingKeepsInv, DeletesOldKeepsInv, MigrationEndsKeepsInv,
       WritesMarkerKeepsInv, SlotTakenKeepsInv, RecoversKeepsInv, RecoveryFailsKeepsInv
    DEF MigrationStep
<1>2. ASSUME NEW t \in CacheThreads, CacheStep(t) PROVE CacheInv'
    BY <1>2, LockingKeepsInv, StoresKeepsInv, EndsKeepsInv, TouchesKeepsInv,
       ClearBeginsKeepsInv, ClearsKeepsInv, ClearEndsKeepsInv, PutBeginsKeepsInv,
       ReadsCopyKeepsInv
    DEF CacheStep
<1>3. CASE UNCHANGED cacheVars
    BY <1>3 DEF cacheVars, cacheFiles, cacheHistory, CacheInv, CacheTypeOK, FilesInv,
                CacheHoldsLastStore, StoredCopyStays, ClearedStaysCleared, OldCopyKept,
                CallInv, AtRest, Readable
<1> QED
    BY <1>1, <1>2, <1>3, WipeKeepsInv, StopKeepsInv DEF CacheNext

\* The inductive invariant holds in every reachable state.
THEOREM CacheInvariant == CacheSpec => []CacheInv
    BY InitCacheInv, NextKeepsCacheInv, PTL DEF CacheSpec

\* Every variable of the cache keeps its type.
THEOREM CacheTypeCorrect == CacheSpec => []CacheTypeOK
<1>1. CacheInv => CacheTypeOK
    BY DEF CacheInv
<1> QED
    BY <1>1, CacheInvariant, PTL

\* No get, put, migration or clear that overlaps another undoes what the last store or
\* clear left (dir_write_lock).
THEOREM LastStoreHeld == CacheSpec => []CacheHoldsLastStore
<1>1. CacheInv => CacheHoldsLastStore
    BY DEF CacheInv, FilesInv
<1> QED
    BY <1>1, CacheInvariant, PTL

\* Wherever the process stops, the copy an old build left is readable, or still there
\* and found by the next start, unless its rename failed (migrate_legacy_entries).
THEOREM OldCopySurvives == CacheSpec => []OldCopyKept
<1>1. CacheInv => OldCopyKept
    BY DEF CacheInv, FilesInv
<1> QED
    BY <1>1, CacheInvariant, PTL

-----------------------------------------------------------------------------
(* The owner's own list: OwnerPayload *)

\* a says nothing older than b, file by file.
AtLeast(a, b) == a.draft >= b.draft /\ a.settings >= b.settings

\* A marker is read after the call began and the build reads the files after it;
\* changes only count up.
JobInv(job) ==
    /\ job.step # "idle" =>
          /\ job.browseKey \in BrowseKeys
          /\ job.marker.draft >= job.asked.draft
          /\ AtLeast(source, job.marker) /\ AtLeast(source, job.asked)
    /\ job.step \in {"looking", "loading", "truncating", "sealing"} =>
          job.marker.settings >= job.asked.settings
    /\ job.step \in {"truncating", "sealing"} => job.list.draft >= job.marker.draft
    /\ job.step = "sealing" => job.list.settings >= job.marker.settings

\* A cached list says nothing older than its marker.
EntryInv == sealedList # NoList => AtLeast(sealedList.list, sealedList.marker)

PayloadInv ==
    /\ PayloadTypeOK
    /\ \A r \in Resolvers : JobInv(resolver[r])
    /\ EntryInv
    /\ SentIsCurrent

LEMMA SourcesAreNaturals ==
    \A s \in Sources : s.draft \in Nat /\ s.settings \in Nat
    BY PayloadAssumption DEF Sources

LEMMA InitPayloadInv == PayloadInit => PayloadInv
<1> SUFFICES ASSUME PayloadInit PROVE PayloadInv
    OBVIOUS
<1>1. Unstamped \in Sources
    BY PayloadAssumption DEF Unstamped, Sources
<1>2. PayloadTypeOK
    BY <1>1, PayloadAssumption DEF PayloadInit, PayloadTypeOK, ResolverJobs, NotResolving
<1> QED
    BY <1>2 DEF PayloadInit, PayloadInv, JobInv, NotResolving, EntryInv, SentIsCurrent

\* A change of a file leaves every marker and every list behind it.
LEMMA ChangesKeepInv ==
    ASSUME PayloadInv, DraftChanges \/ SettingsChange
    PROVE  PayloadInv'
<1> USE PayloadAssumption
<1>1. source' \in Sources /\ AtLeast(source', source)
  <2>1. source.draft \in Nat /\ source.settings \in Nat /\ source \in Sources
    BY SourcesAreNaturals DEF PayloadInv, PayloadTypeOK
  <2>2. CASE DraftChanges
    BY <2>1, <2>2 DEF DraftChanges, Sources, AtLeast
  <2>3. CASE SettingsChange
    BY <2>1, <2>3 DEF SettingsChange, Sources, AtLeast
  <2> QED
    BY <2>2, <2>3
<1>2. UNCHANGED <<sealedList, resolver, resolves, sent>> /\ shareable' \in BOOLEAN
    BY DEF DraftChanges, SettingsChange, PayloadInv, PayloadTypeOK
<1>3. PayloadTypeOK'
    BY <1>1, <1>2 DEF PayloadInv, PayloadTypeOK
<1>4. \A r \in Resolvers : JobInv(resolver[r])'
  <2>1. SUFFICES ASSUME NEW r \in Resolvers PROVE JobInv(resolver[r])'
    OBVIOUS
  <2>2. /\ JobInv(resolver[r])
        /\ {source, resolver[r].marker, resolver[r].asked} \subseteq Sources
    BY DEF PayloadInv, PayloadTypeOK, ResolverJobs
  <2>3. /\ AtLeast(source, resolver[r].marker) => AtLeast(source', resolver[r].marker)
        /\ AtLeast(source, resolver[r].asked) => AtLeast(source', resolver[r].asked)
    BY <1>1, <2>2, SourcesAreNaturals DEF AtLeast
  <2> QED
    BY <1>2, <2>2, <2>3 DEF JobInv, AtLeast
<1> QED
    BY <1>2, <1>3, <1>4 DEF PayloadInv, EntryInv, SentIsCurrent

\* What every step of one caller needs: the others keep their records.
LEMMA CallerKeepsInv ==
    ASSUME PayloadInv, NEW r \in Resolvers,
           NEW job \in ResolverJobs, JobInv(job),
           resolver' = [resolver EXCEPT ![r] = job],
           UNCHANGED <<source, shareable>>,
           sealedList' \in {NoList} \cup
               [browseKey : BrowseKeys, marker : Sources, list : Sources],
           resolves' \in 0..MaxResolves,
           sent' \in {NoList} \cup
               [browseKey : BrowseKeys, under : BrowseKeys, list : Sources, asked : Sources],
           EntryInv', SentIsCurrent'
    PROVE  PayloadInv'
<1>1. PayloadTypeOK'
    BY DEF PayloadInv, PayloadTypeOK
<1>2. ASSUME NEW q \in Resolvers
      PROVE  JobInv(resolver[q])'
  <2>1. resolver'[q] = IF q = r THEN job ELSE resolver[q]
    BY DEF PayloadInv, PayloadTypeOK
  <2>2. JobInv(resolver'[q])
    BY <2>1 DEF PayloadInv
  <2> QED
    BY <2>2 DEF JobInv, AtLeast
<1> QED
    BY <1>1, <1>2 DEF PayloadInv

\* The records of one caller.
LEMMA ResolverTypes ==
    ASSUME PayloadInv, NEW r \in Resolvers
    PROVE  /\ resolver[r] \in ResolverJobs /\ NotResolving \in ResolverJobs
           /\ JobInv(resolver[r]) /\ JobInv(NotResolving)
           /\ {source, resolver[r].marker, resolver[r].list, resolver[r].asked} \subseteq Sources
           /\ source.draft \in Nat /\ source.settings \in Nat
           /\ resolver[r].marker.draft \in Nat /\ resolver[r].marker.settings \in Nat
           /\ resolver[r].asked.draft \in Nat /\ resolver[r].asked.settings \in Nat
           /\ resolver[r].list.draft \in Nat /\ resolver[r].list.settings \in Nat
<1>1. Unstamped \in Sources
    BY PayloadAssumption DEF Unstamped, Sources
<1>2. resolver[r] \in ResolverJobs /\ source \in Sources /\ JobInv(resolver[r])
    BY DEF PayloadInv, PayloadTypeOK
<1>3. NotResolving \in ResolverJobs /\ JobInv(NotResolving)
    BY <1>1 DEF ResolverJobs, NotResolving, JobInv
<1>4. {source, resolver[r].marker, resolver[r].list, resolver[r].asked} \subseteq Sources
    BY <1>2 DEF ResolverJobs
<1> QED
    BY <1>2, <1>3, <1>4, SourcesAreNaturals

\* The steps that cache nothing and give nothing out.
LEMMA BuildKeepsInv ==
    ASSUME PayloadInv, NEW r \in Resolvers,
           \/ StampsSettings(r) \/ Misses(r) \/ LoadsDraft(r) \/ LoadsSettings(r)
           \/ SealFails(r) \/ \E key \in BrowseKeys : Resolves(r, key)
    PROVE  PayloadInv'
<1> DEFINE Moves(job) == resolver' = [resolver EXCEPT ![r] = job]
<1>1. UNCHANGED <<source, shareable, sealedList, sent>>
    BY DEF StampsSettings, Misses, LoadsDraft, LoadsSettings, SealFails, Resolves
<1>2. resolves' \in 0..MaxResolves
  <2>1. resolves \in Nat /\ resolves <= MaxResolves /\ MaxResolves \in Nat
    BY PayloadAssumption DEF PayloadInv, PayloadTypeOK
  <2>2. resolves' = resolves \/ (resolves < MaxResolves /\ resolves' = resolves + 1)
    BY DEF StampsSettings, Misses, LoadsDraft, LoadsSettings, SealFails, Resolves
  <2> QED
    BY <2>1, <2>2
<1>3. EntryInv' /\ SentIsCurrent'
    BY <1>1 DEF PayloadInv, EntryInv, SentIsCurrent
<1>4. SUFFICES \E job \in ResolverJobs : Moves(job) /\ JobInv(job)
  <2>1. PICK job \in ResolverJobs : Moves(job) /\ JobInv(job)
    BY <1>4
  <2> HIDE DEF Moves
  <2>2. resolver' = [resolver EXCEPT ![r] = job]
    BY <2>1 DEF Moves
  <2> QED
    BY <1>1, <1>2, <1>3, <2>1, <2>2, CallerKeepsInv DEF PayloadInv, PayloadTypeOK
<1> DEFINE old == resolver[r]
<1> USE ResolverTypes
<1>5. CASE StampsSettings(r)
  <2> DEFINE job == [old EXCEPT !.step = "looking", !.marker.settings = source.settings]
  <2>1. Moves(job)
    BY <1>5 DEF StampsSettings, PayloadInv, PayloadTypeOK
  <2>2. job \in ResolverJobs
    BY DEF ResolverJobs, Sources
  <2>3. /\ job.step = "looking" /\ job.browseKey = old.browseKey /\ job.asked = old.asked
        /\ job.marker.draft = old.marker.draft /\ job.marker.settings = source.settings
    BY DEF ResolverJobs, Sources
  <2>4. old.step = "stamping" /\ AtLeast(source, old.asked)
    BY <1>5 DEF StampsSettings, JobInv, AtLeast
  <2>5. JobInv(job)
    BY <1>5, <2>3, <2>4 DEF StampsSettings, JobInv, AtLeast
  <2> QED
    BY <2>1, <2>2, <2>5
<1>6. CASE Misses(r)
  <2> DEFINE job == [old EXCEPT !.step = "loading"]
  <2>1. Moves(job)
    BY <1>6 DEF Misses, Goes
  <2>2. job \in ResolverJobs
    BY DEF ResolverJobs
  <2>3. JobInv(job)
    BY <1>6 DEF Misses, JobInv, ResolverJobs
  <2> QED
    BY <2>1, <2>2, <2>3
<1>7. CASE LoadsDraft(r)
  <2> DEFINE job == [old EXCEPT !.step = "truncating", !.list.draft = source.draft]
  <2>1. CASE shareable
    <3>1. Moves(job)
      BY <1>7, <2>1 DEF LoadsDraft
    <3>2. job \in ResolverJobs
      BY DEF ResolverJobs, Sources
    <3>3. JobInv(job)
      BY <1>7 DEF LoadsDraft, JobInv, AtLeast, ResolverJobs, Sources
    <3> QED
      BY <3>1, <3>2, <3>3
  <2>2. CASE ~shareable
    BY <1>7, <2>2 DEF LoadsDraft, Done
  <2> QED
    BY <2>1, <2>2
<1>8. CASE LoadsSettings(r)
  <2> DEFINE job == [old EXCEPT !.step = "sealing", !.list.settings = source.settings]
  <2>1. Moves(job)
    BY <1>8 DEF LoadsSettings
  <2>2. job \in ResolverJobs
    BY DEF ResolverJobs, Sources
  <2>3. JobInv(job)
    BY <1>8 DEF LoadsSettings, JobInv, AtLeast, ResolverJobs, Sources
  <2> QED
    BY <2>1, <2>2, <2>3
<1>9. CASE SealFails(r)
    BY <1>9 DEF SealFails, Done
<1>10. ASSUME NEW key \in BrowseKeys, Resolves(r, key)
       PROVE  \E job \in ResolverJobs : Moves(job) /\ JobInv(job)
  <2> DEFINE job == [NotResolving EXCEPT !.step = "stamping", !.browseKey = key,
                                         !.marker.draft = source.draft, !.asked = source]
  <2>1. Moves(job)
    BY <1>10 DEF Resolves
  <2>2. job \in ResolverJobs
    BY DEF ResolverJobs, Sources, NotResolving, Unstamped
  <2>3. JobInv(job)
    BY DEF JobInv, AtLeast, NotResolving, Unstamped
  <2> QED
    BY <2>1, <2>2, <2>3
<1> QED
    BY <1>5, <1>6, <1>7, <1>8, <1>9, <1>10

\* A list that is given out is the cached one of the right key and marker, or new.
LEMMA GiveKeepsInv ==
    ASSUME PayloadInv, NEW r \in Resolvers, GivesCached(r) \/ CachesList(r)
    PROVE  PayloadInv'
<1> USE ResolverTypes
<1> DEFINE job == resolver[r]
<1>1. /\ UNCHANGED <<source, shareable, resolves>>
      /\ resolver' = [resolver EXCEPT ![r] = NotResolving]
      /\ job.browseKey \in BrowseKeys /\ AtLeast(job.marker, job.asked)
    BY DEF GivesCached, CachesList, Gives, Done, JobInv, AtLeast
<1>2. CASE GivesCached(r)
  <2>1. /\ sealedList' = sealedList /\ sealedList # NoList
        /\ sealedList.browseKey = job.browseKey /\ sealedList.marker = job.marker
        /\ sent' = [browseKey |-> job.browseKey, under |-> sealedList.browseKey,
                    list |-> sealedList.list, asked |-> job.asked]
    BY <1>2 DEF GivesCached, Gives, Hit
  <2>2. sealedList \in [browseKey : BrowseKeys, marker : Sources, list : Sources]
    BY <2>1 DEF PayloadInv, PayloadTypeOK
  <2>3. sealedList.list \in Sources /\ AtLeast(sealedList.list, job.marker)
    BY <2>1, <2>2 DEF PayloadInv, EntryInv
  <2>4. AtLeast(sealedList.list, job.asked)
    BY <1>1, <2>3, SourcesAreNaturals DEF AtLeast
  <2>5. SentIsCurrent'
    BY <2>1, <2>4 DEF SentIsCurrent, AtLeast
  <2>6. EntryInv'
    BY <2>1 DEF PayloadInv, EntryInv, AtLeast
  <2>7. sent' \in [browseKey : BrowseKeys, under : BrowseKeys, list : Sources, asked : Sources]
    BY <1>1, <2>1, <2>3
  <2> QED
    BY <1>1, <2>1, <2>5, <2>6, <2>7, CallerKeepsInv DEF PayloadInv, PayloadTypeOK
<1>3. CASE CachesList(r)
  <2>1. /\ sealedList' = Entry(r)
        /\ sent' = [browseKey |-> job.browseKey, under |-> job.browseKey,
                    list |-> job.list, asked |-> job.asked]
    BY <1>3 DEF CachesList, Gives
  <2>2. AtLeast(job.list, job.marker)
    BY <1>3 DEF CachesList, JobInv, AtLeast
  <2>3. AtLeast(job.list, job.asked)
    BY <1>1, <2>2 DEF AtLeast
  <2>4. SentIsCurrent'
    BY <2>1, <2>3 DEF SentIsCurrent, AtLeast
  <2>5. EntryInv'
    BY <2>1, <2>2 DEF EntryInv, Entry, AtLeast
  <2>6. /\ sent' \in [browseKey : BrowseKeys, under : BrowseKeys, list : Sources, asked : Sources]
        /\ sealedList' \in [browseKey : BrowseKeys, marker : Sources, list : Sources]
    BY <1>1, <2>1 DEF Entry
  <2> QED
    BY <1>1, <2>4, <2>5, <2>6, CallerKeepsInv DEF PayloadInv, PayloadTypeOK
<1> QED
    BY <1>2, <1>3

LEMMA NextKeepsPayloadInv == PayloadInv /\ [PayloadNext]_payloadVars => PayloadInv'
<1> SUFFICES ASSUME PayloadInv, [PayloadNext]_payloadVars PROVE PayloadInv'
    OBVIOUS
<1>1. CASE DraftChanges \/ SettingsChange
    BY <1>1, ChangesKeepInv
<1>2. ASSUME NEW r \in Resolvers,
             \/ StampsSettings(r) \/ Misses(r) \/ LoadsDraft(r) \/ LoadsSettings(r)
             \/ SealFails(r) \/ \E key \in BrowseKeys : Resolves(r, key)
      PROVE  PayloadInv'
    BY <1>2, BuildKeepsInv
<1>3. ASSUME NEW r \in Resolvers, GivesCached(r) \/ CachesList(r)
      PROVE  PayloadInv'
    BY <1>3, GiveKeepsInv
<1>4. CASE UNCHANGED payloadVars
    BY <1>4 DEF payloadVars, PayloadInv, PayloadTypeOK, JobInv, AtLeast, EntryInv, SentIsCurrent
<1> QED
    BY <1>1, <1>2, <1>3, <1>4 DEF PayloadNext

\* The inductive invariant holds in every reachable state.
THEOREM PayloadInvariant == PayloadSpec => []PayloadInv
    BY InitPayloadInv, NextKeepsPayloadInv, PTL DEF PayloadSpec

\* Every variable of the cache keeps its type.
THEOREM PayloadTypeCorrect == PayloadSpec => []PayloadTypeOK
<1>1. PayloadInv => PayloadTypeOK
    BY DEF PayloadInv
<1> QED
    BY <1>1, PayloadInvariant, PTL

\* However many calls and edits overlap, no list that an approval or a serve gets is
\* older than its request, or sealed under another key (sealed_owner_payload).
THEOREM SentListIsCurrent == PayloadSpec => []SentIsCurrent
<1>1. PayloadInv => SentIsCurrent
    BY DEF PayloadInv
<1> QED
    BY <1>1, PayloadInvariant, PTL

=============================================================================
