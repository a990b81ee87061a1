---------------------------- MODULE ManifestCache ----------------------------
(***************************************************************************)
(* The cache of peers' manifests (manifest_cache.rs), one file per         *)
(* collection: the only offline copy of its full list. A put replaces the  *)
(* file, a get writes it again for its recency, a clear deletes the        *)
(* directory, and the first put of a process brings the files of builds    *)
(* that named them otherwise under their present name. All but that scan   *)
(* run under one lock per directory.                                       *)
(*                                                                         *)
(* Copies are numbered: those of old builds by the time they were last     *)
(* read, all others in the order they were stored. Left out: eviction (no  *)
(* caller sets a ceiling), what a copy says, and a get's fingerprint, a    *)
(* mismatch of which changes nothing.                                      *)
(***************************************************************************)
EXTENDS Naturals

CONSTANTS
    Lists,     \* what the user fetched: an author and a collection of theirs
    CacheThreads,    \* calls that may overlap
    OldCopies,       \* how many files of old builds there may be of one collection
    MaxPuts,         \* bound of the model: puts in one run
    MaxClears,       \* bound of the model: clears and wipes in one run
    MaxCacheStops,   \* bound of the model: ends of the process
    Nobody, Nowhere

ASSUME CacheAssumption ==
    /\ {OldCopies, MaxPuts, MaxClears, MaxCacheStops} \subseteq Nat
    /\ Nobody \notin CacheThreads /\ Nowhere \notin Lists

VARIABLES
    entry,       \* [Lists -> the copy under the present name, or NoCopy]
    legacy,      \* [Lists -> the copies under names of old builds]
    marked,      \* the marker file says that the migration is done
    migrated,    \* MIGRATED has the directory: it was begun in this process
    dirLock,     \* who holds the lock of the directory
    cacheCall,   \* [CacheThreads -> the call in flight]
    puts, clears, cacheStops,
    newest,      \* history: the copy stored last and not cleared since
    cleared,     \* history: collections cleared, and not stored since
    kept,        \* history: the copy an old build left that was read last, until cleared
    unrecovered  \* history: collections of which the rename of an old copy failed

cacheFiles == <<entry, legacy, marked>>
cacheHistory == <<newest, cleared, kept, unrecovered>>
cacheVars ==
    <<cacheFiles, migrated, dirLock, cacheCall, puts, clears, cacheStops, cacheHistory>>

NoCopy == 0

Old == 1..OldCopies

Copies == 1..(OldCopies + MaxPuts)

\* "found" is what the scan saw under old names and the migration has not dealt with;
\* "at" the collection of which it deletes the old files.
Calls ==
    [op : {"none", "put", "get", "clear"},
     step : {"idle", "scanning", "queueing", "migrating", "marking", "locking", "storing",
             "touching", "clearing"},
     of : Lists \cup {Nowhere}, copy : Copies \cup {NoCopy},
     found : [Lists -> SUBSET Old], at : Lists \cup {Nowhere}]

NoCacheCall ==
    [op |-> "none", step |-> "idle", of |-> Nowhere, copy |-> NoCopy,
     found |-> [k \in Lists |-> {}], at |-> Nowhere]

CacheTypeOK ==
    /\ entry \in [Lists -> Copies \cup {NoCopy}]
    /\ legacy \in [Lists -> SUBSET Old]
    /\ marked \in BOOLEAN /\ migrated \in BOOLEAN
    /\ dirLock \in CacheThreads \cup {Nobody}
    /\ cacheCall \in [CacheThreads -> Calls]
    /\ puts \in 0..MaxPuts /\ clears \in 0..MaxClears /\ cacheStops \in 0..MaxCacheStops
    /\ newest \in [Lists -> Copies \cup {NoCopy}]
    /\ kept \in [Lists -> Old \cup {NoCopy}]
    /\ cleared \subseteq Lists /\ unrecovered \subseteq Lists

\* A scan orders the copies by the time of their last read.
ReadLast(copy, copies) == copy \in copies /\ \A other \in copies : copy >= other

\* The first start of a build that names the files as today: a new user, or one
\* whose files the old build left.
CacheInit ==
    /\ entry = [k \in Lists |-> NoCopy]
    /\ legacy \in [Lists -> SUBSET Old]
    /\ marked = FALSE /\ migrated = FALSE
    /\ dirLock = Nobody
    /\ cacheCall = [t \in CacheThreads |-> NoCacheCall]
    /\ puts = 0 /\ clears = 0 /\ cacheStops = 0
    /\ newest = [k \in Lists |-> NoCopy]
    /\ cleared = {} /\ unrecovered = {}
    /\ kept \in [Lists -> Old \cup {NoCopy}]
    /\ \A k \in Lists : ReadLast(kept[k], {NoCopy} \cup legacy[k])

-----------------------------------------------------------------------------
(* The lock *)

\* Mutant of LockFree, for CacheHoldsLastStore: nobody waits for the lock.
LockIgnored(t) == TRUE

\* dir_write_lock: one holder at a time.
LockFree(t) == dirLock = Nobody

Takes(t, new) ==
    /\ LockFree(t)
    /\ dirLock' = t
    /\ cacheCall' = [cacheCall EXCEPT ![t] = new]

\* The call gives the lock back and goes on to "new".
Releases(t, new) ==
    /\ dirLock' = Nobody
    /\ cacheCall' = [cacheCall EXCEPT ![t] = new]

CacheIdle(t) == cacheCall[t] = NoCacheCall

At(t, step) == cacheCall[t].step = step

-----------------------------------------------------------------------------
(* migrate_legacy_entries *)

\* Mutant of MarkedAtStart, for OldCopyKept: the marker is written before the pass.
MarkedFirst == TRUE

\* The marker is written when the pass is over, not when it begins.
MarkedAtStart == marked

\* A put of a fresh copy looks whether the migration is to be run first.
PutBegins(t, k) ==
    /\ CacheIdle(t)
    /\ puts < MaxPuts
    /\ puts' = puts + 1
    /\ LET first == ~marked /\ ~migrated IN
          /\ cacheCall' = [cacheCall EXCEPT ![t] =
                [NoCacheCall EXCEPT !.op = "put", !.of = k, !.copy = OldCopies + puts + 1,
                               !.step = IF first THEN "scanning" ELSE "locking"]]
          /\ migrated' = (migrated \/ first)
          /\ marked' = IF first THEN MarkedAtStart ELSE marked
    /\ UNCHANGED <<entry, legacy, dirLock, clears, cacheStops, cacheHistory>>

\* The directory is read without the lock.
ScansDir(t) ==
    /\ At(t, "scanning")
    /\ cacheCall' = [cacheCall EXCEPT ![t].step = "queueing", ![t].found = legacy]
    /\ UNCHANGED <<cacheFiles, migrated, dirLock, puts, clears, cacheStops, cacheHistory>>

MigrationLocks(t) ==
    /\ At(t, "queueing")
    /\ Takes(t, [cacheCall[t] EXCEPT !.step = "migrating"])
    /\ UNCHANGED <<cacheFiles, migrated, puts, clears, cacheStops, cacheHistory>>

\* The next collection the scan found under an old name.
Considers(t, k) ==
    At(t, "migrating") /\ cacheCall[t].at = Nowhere /\ cacheCall[t].found[k] # {}

\* The present name is taken: only old files are left to delete.
SlotTaken(t, k) ==
    /\ Considers(t, k)
    /\ entry[k] # NoCopy
    /\ cacheCall' = [cacheCall EXCEPT ![t].at = k]
    /\ UNCHANGED <<cacheFiles, migrated, dirLock, puts, clears, cacheStops, cacheHistory>>

\* The old copy read last gets the present name, before any is deleted.
Recovers(t, k) ==
    /\ Considers(t, k)
    /\ entry[k] = NoCopy
    /\ \E copy \in legacy[k] :
          /\ ReadLast(copy, cacheCall[t].found[k])
          /\ entry' = [entry EXCEPT ![k] = copy]
          /\ legacy' = [legacy EXCEPT ![k] = @ \ {copy}]
    /\ cacheCall' = [cacheCall EXCEPT ![t].at = k]
    /\ UNCHANGED <<marked, migrated, dirLock, puts, clears, cacheStops, cacheHistory>>

\* The rename fails, or the file is gone: the collection is left as it is.
RecoveryFails(t, k) ==
    /\ Considers(t, k)
    /\ entry[k] = NoCopy
    /\ cacheCall' = [cacheCall EXCEPT ![t].found[k] = {}]
    /\ unrecovered' = unrecovered \cup {k}
    /\ UNCHANGED <<cacheFiles, migrated, dirLock, puts, clears, cacheStops, newest, cleared,
                   kept>>

\* The old files of a collection are deleted one by one; one that cannot be stays.
DeletesOld(t) ==
    /\ At(t, "migrating")
    /\ LET k == cacheCall[t].at IN
          /\ k # Nowhere
          /\ \E copy \in cacheCall[t].found[k] :
                /\ legacy' \in {legacy, [legacy EXCEPT ![k] = @ \ {copy}]}
                /\ cacheCall' = [cacheCall EXCEPT ![t].found[k] = @ \ {copy},
                                        ![t].at = IF cacheCall[t].found[k] = {copy}
                                                  THEN Nowhere ELSE k]
    /\ UNCHANGED <<entry, marked, migrated, dirLock, puts, clears, cacheStops, cacheHistory>>

MigrationEnds(t) ==
    /\ At(t, "migrating")
    /\ cacheCall[t].found = NoCacheCall.found
    /\ Releases(t, [cacheCall[t] EXCEPT !.step = "marking"])
    /\ UNCHANGED <<cacheFiles, migrated, puts, clears, cacheStops, cacheHistory>>

\* The marker is written whatever the pass achieved, if it can be.
WritesMarker(t) ==
    /\ At(t, "marking")
    /\ marked' \in {marked, TRUE}
    /\ cacheCall' = [cacheCall EXCEPT ![t].step = "locking"]
    /\ UNCHANGED <<entry, legacy, migrated, dirLock, puts, clears, cacheStops, cacheHistory>>

-----------------------------------------------------------------------------
(* put, get, clear_all *)

PutLocks(t) ==
    /\ At(t, "locking")
    /\ Takes(t, [cacheCall[t] EXCEPT !.step = "storing"])
    /\ UNCHANGED <<cacheFiles, migrated, puts, clears, cacheStops, cacheHistory>>

\* The copy is written beside and renamed.
Stores(t) ==
    /\ At(t, "storing")
    /\ entry' = [entry EXCEPT ![cacheCall[t].of] = cacheCall[t].copy]
    /\ newest' = [newest EXCEPT ![cacheCall[t].of] = cacheCall[t].copy]
    /\ cleared' = cleared \ {cacheCall[t].of}
    /\ Releases(t, NoCacheCall)
    /\ UNCHANGED <<legacy, marked, migrated, puts, clears, cacheStops, kept, unrecovered>>

\* The copy cannot be written: what was there stays.
StoreFails(t) ==
    /\ At(t, "storing")
    /\ Releases(t, NoCacheCall)
    /\ UNCHANGED <<cacheFiles, migrated, puts, clears, cacheStops, cacheHistory>>

\* get and get_latest find a copy.
ReadsCopy(t, k) ==
    /\ CacheIdle(t)
    /\ entry[k] # NoCopy
    /\ Takes(t, [NoCacheCall EXCEPT !.op = "get", !.step = "touching", !.of = k,
                                    !.copy = entry[k]])
    /\ UNCHANGED <<cacheFiles, migrated, puts, clears, cacheStops, cacheHistory>>

\* The whole file is written again with the new access time, or that fails.
Touches(t) ==
    /\ At(t, "touching")
    /\ entry' \in {entry, [entry EXCEPT ![cacheCall[t].of] = cacheCall[t].copy]}
    /\ Releases(t, NoCacheCall)
    /\ UNCHANGED <<legacy, marked, migrated, puts, clears, cacheStops, cacheHistory>>

ClearBegins(t) ==
    /\ CacheIdle(t)
    /\ clears < MaxClears
    /\ clears' = clears + 1
    /\ Takes(t, [NoCacheCall EXCEPT !.op = "clear", !.step = "clearing"])
    /\ UNCHANGED <<cacheFiles, migrated, puts, cacheStops, cacheHistory>>

\* remove_dir_all deletes file by file, in any order: a collection's copy, its
\* copies of old builds, the marker.
Clears(t) ==
    /\ At(t, "clearing")
    /\ \/ \E k \in Lists :
             /\ entry[k] # NoCopy \/ legacy[k] # {}
             /\ \/ /\ entry' = [entry EXCEPT ![k] = NoCopy]
                   /\ newest' = [newest EXCEPT ![k] = NoCopy]
                   /\ UNCHANGED legacy
                \/ legacy' = [legacy EXCEPT ![k] = {}] /\ UNCHANGED <<entry, newest>>
             /\ kept' = [kept EXCEPT ![k] = NoCopy]
             /\ UNCHANGED marked
       \/ marked' = FALSE /\ UNCHANGED <<entry, legacy, newest, kept>>
    /\ UNCHANGED <<migrated, dirLock, cacheCall, puts, clears, cacheStops, cleared,
                   unrecovered>>

\* Nothing is left.
ClearEnds(t) ==
    /\ At(t, "clearing")
    /\ \A k \in Lists : entry[k] = NoCopy /\ legacy[k] = {}
    /\ ~marked
    /\ cleared' = Lists
    /\ Releases(t, NoCacheCall)
    /\ UNCHANGED <<cacheFiles, migrated, puts, clears, cacheStops, newest, kept, unrecovered>>

\* A file cannot be deleted: the user is told, the rest stays.
ClearFails(t) ==
    /\ At(t, "clearing")
    /\ Releases(t, NoCacheCall)
    /\ UNCHANGED <<cacheFiles, migrated, puts, clears, cacheStops, cacheHistory>>

\* DataStore::wipe deletes this directory with all others, and takes no lock: a call
\* that is between its read and its write brings its copy back.
WipeDeletes ==
    /\ clears < MaxClears
    /\ clears' = clears + 1
    /\ entry' = [k \in Lists |-> NoCopy]
    /\ legacy' = [k \in Lists |-> {}]
    /\ marked' = FALSE
    /\ newest' = [k \in Lists |-> NoCopy]
    /\ kept' = [k \in Lists |-> NoCopy]
    /\ UNCHANGED <<migrated, dirLock, cacheCall, puts, cacheStops, cleared, unrecovered>>

CacheStops ==
    /\ cacheStops < MaxCacheStops
    /\ cacheStops' = cacheStops + 1
    /\ migrated' = FALSE
    /\ dirLock' = Nobody
    /\ cacheCall' = [t \in CacheThreads |-> NoCacheCall]
    /\ UNCHANGED <<cacheFiles, puts, clears, cacheHistory>>

MigrationStep(t) ==
    \/ ScansDir(t) \/ MigrationLocks(t) \/ DeletesOld(t) \/ MigrationEnds(t) \/ WritesMarker(t)
    \/ \E k \in Lists : SlotTaken(t, k) \/ Recovers(t, k) \/ RecoveryFails(t, k)

CacheStep(t) ==
    \/ PutLocks(t) \/ Stores(t) \/ StoreFails(t) \/ Touches(t)
    \/ ClearBegins(t) \/ Clears(t) \/ ClearEnds(t) \/ ClearFails(t)
    \/ \E k \in Lists : PutBegins(t, k) \/ ReadsCopy(t, k)

CacheNext == CacheStops \/ WipeDeletes \/ \E t \in CacheThreads : MigrationStep(t) \/ CacheStep(t)

CacheSpec == CacheInit /\ [][CacheNext]_cacheVars

-----------------------------------------------------------------------------
(* Properties *)

\* The copy stored last is the copy that is there: no read that began before, no
\* file of an old build and no other call takes the cache back.
StoredCopyStays == \A k \in Lists : newest[k] # NoCopy => entry[k] = newest[k]

\* What a clear deleted comes back only when it is fetched again.
ClearedStaysCleared == \A k \in cleared : entry[k] = NoCopy

\* The cache says what the last store or clear left, whatever overlaps with it.
CacheHoldsLastStore == StoredCopyStays /\ ClearedStaysCleared

\* The only offline copy of a collection is never lost on its way to its new name:
\* wherever the process stops it can be read, or the copy read last is still there
\* and a later start will find it ("a crash mid-migration leaves a readable copy,
\* never neither", manifest_cache.rs:450). Where the rename failed, it is there.
OldCopyKept ==
    \A k \in Lists : kept[k] # NoCopy =>
        \/ entry[k] # NoCopy
        \/ kept[k] \in legacy[k] /\ (~marked \/ k \in unrecovered)

\* What the code does not keep: a copy whose rename failed is tried again by a later
\* process (manifest_cache.rs:512). The marker is written nonetheless (line 478).
FailedRenameRetried == \A k \in Lists : kept[k] # NoCopy /\ entry[k] = NoCopy => ~marked

=============================================================================
