---------------------------- MODULE OwnerPayload -----------------------------
(***************************************************************************)
(* The owner's sealed full list (manifest_source.rs): a build takes up to  *)
(* a minute, so the result is kept in memory with the marker of the two    *)
(* files it was made from, the draft of the collection and the settings,   *)
(* and the browse key it is sealed under. An approval and the serves of    *)
(* its ticket resolve through the one cache, and may build side by side    *)
(* while the user edits the draft.                                         *)
(*                                                                         *)
(* A file is its number of changes. Left out: a change of the same length  *)
(* within one tick of the file system's clock, which the marker cannot     *)
(* tell; the identity, which is part of the key of an entry; other slugs.  *)
(***************************************************************************)
EXTENDS Naturals

CONSTANTS
    Resolvers,        \* approvals and serves that may overlap
    BrowseKeys,       \* browse keys of the sessions they belong to
    MaxDraftEdits, MaxSettingsEdits,   \* bounds of the model: changes of the files
    MaxResolves,      \* bound of the model: resolutions in one run
    NoList

ASSUME PayloadAssumption == {MaxDraftEdits, MaxSettingsEdits, MaxResolves} \subseteq Nat

VARIABLES
    source,      \* the two files: how often each was changed
    shareable,   \* the draft can be sent: it is there, it is not Private, it is not too big
    sealedList,  \* SEALED_OWNER_CACHE: the entry of the collection, or NoList
    resolver,    \* [Resolvers -> the call in flight]
    resolves,
    sent         \* history: what the last call gave its caller, or NoList

payloadVars == <<source, shareable, sealedList, resolver, resolves, sent>>

\* What the two files said, in a marker or in a list.
Sources == [draft : 0..MaxDraftEdits, settings : 0..MaxSettingsEdits]

Unstamped == [draft |-> 0, settings |-> 0]

\* "asked" is history: the files when the call began.
ResolverJobs ==
    [step : {"idle", "stamping", "looking", "loading", "truncating", "sealing"},
     browseKey : BrowseKeys \cup {NoList}, marker : Sources, list : Sources, asked : Sources]

NotResolving ==
    [step |-> "idle", browseKey |-> NoList, marker |-> Unstamped, list |-> Unstamped,
     asked |-> Unstamped]

PayloadTypeOK ==
    /\ source \in Sources /\ shareable \in BOOLEAN
    /\ sealedList \in {NoList} \cup [browseKey : BrowseKeys, marker : Sources, list : Sources]
    /\ resolver \in [Resolvers -> ResolverJobs]
    /\ resolves \in 0..MaxResolves
    /\ sent \in {NoList} \cup
           [browseKey : BrowseKeys, under : BrowseKeys, list : Sources, asked : Sources]

PayloadInit ==
    /\ source = Unstamped /\ shareable \in BOOLEAN
    /\ sealedList = NoList
    /\ resolver = [r \in Resolvers |-> NotResolving]
    /\ resolves = 0
    /\ sent = NoList

-----------------------------------------------------------------------------
(* The user *)

\* The draft is scanned again, edited, made Private or deleted.
DraftChanges ==
    /\ source.draft < MaxDraftEdits
    /\ source' = [source EXCEPT !.draft = @ + 1]
    /\ shareable' \in BOOLEAN
    /\ UNCHANGED <<sealedList, resolver, resolves, sent>>

SettingsChange ==
    /\ source.settings < MaxSettingsEdits
    /\ source' = [source EXCEPT !.settings = @ + 1]
    /\ UNCHANGED <<shareable, sealedList, resolver, resolves, sent>>

-----------------------------------------------------------------------------
(* sealed_owner_payload *)

Goes(r, step) == resolver' = [resolver EXCEPT ![r].step = step]

Done(r) == resolver' = [resolver EXCEPT ![r] = NotResolving]

Gives(r, list, under) ==
    /\ sent' = [browseKey |-> resolver[r].browseKey, under |-> under, list |-> list,
                asked |-> resolver[r].asked]
    /\ Done(r)

\* change_marker: the draft's stamp.
Resolves(r, key) ==
    /\ resolver[r] = NotResolving
    /\ resolves < MaxResolves
    /\ resolves' = resolves + 1
    /\ resolver' = [resolver EXCEPT ![r] =
          [NotResolving EXCEPT !.step = "stamping", !.browseKey = key,
                               !.marker.draft = source.draft, !.asked = source]]
    /\ UNCHANGED <<source, shareable, sealedList, sent>>

\* change_marker: the stamp of the settings.
StampsSettings(r) ==
    /\ resolver[r].step = "stamping"
    /\ resolver' = [resolver EXCEPT ![r].step = "looking",
                                    ![r].marker.settings = source.settings]
    /\ UNCHANGED <<source, shareable, sealedList, resolves, sent>>

\* cache_get: an entry of this very marker and this very key.
Hit(r) ==
    /\ sealedList # NoList
    /\ sealedList.browseKey = resolver[r].browseKey
    /\ sealedList.marker = resolver[r].marker

GivesCached(r) ==
    /\ resolver[r].step = "looking"
    /\ Hit(r)
    /\ Gives(r, sealedList.list, sealedList.browseKey)
    /\ UNCHANGED <<source, shareable, sealedList, resolves>>

Misses(r) ==
    /\ resolver[r].step = "looking"
    /\ ~Hit(r)
    /\ Goes(r, "loading")
    /\ UNCHANGED <<source, shareable, sealedList, resolves, sent>>

\* build_slug_manifest loads the draft, and gives up on one that cannot be sent.
LoadsDraft(r) ==
    /\ resolver[r].step = "loading"
    /\ IF shareable
       THEN resolver' = [resolver EXCEPT ![r].step = "truncating",
                                         ![r].list.draft = source.draft]
       ELSE Done(r)
    /\ UNCHANGED <<source, shareable, sealedList, resolves, sent>>

\* The address of the big relay goes into the list before it is cut.
LoadsSettings(r) ==
    /\ resolver[r].step = "truncating"
    /\ resolver' = [resolver EXCEPT ![r].step = "sealing",
                                    ![r].list.settings = source.settings]
    /\ UNCHANGED <<source, shareable, sealedList, resolves, sent>>

\* Mutant of Entry, for SentIsCurrent: the marker of the files as they are after the build.
StampedLate(r) ==
    [browseKey |-> resolver[r].browseKey, marker |-> source, list |-> resolver[r].list]

\* The entry bears the marker that was read before the build.
Entry(r) ==
    [browseKey |-> resolver[r].browseKey, marker |-> resolver[r].marker,
     list |-> resolver[r].list]

\* cache_put: the newest build replaces the entry.
CachesList(r) ==
    /\ resolver[r].step = "sealing"
    /\ sealedList' = Entry(r)
    /\ Gives(r, resolver[r].list, resolver[r].browseKey)
    /\ UNCHANGED <<source, shareable, resolves>>

\* The list is over the transport's ceiling.
SealFails(r) ==
    /\ resolver[r].step = "sealing"
    /\ Done(r)
    /\ UNCHANGED <<source, shareable, sealedList, resolves, sent>>

PayloadNext ==
    \/ DraftChanges \/ SettingsChange
    \/ \E r \in Resolvers :
          \/ StampsSettings(r) \/ GivesCached(r) \/ Misses(r) \/ LoadsDraft(r)
          \/ LoadsSettings(r) \/ CachesList(r) \/ SealFails(r)
          \/ \E key \in BrowseKeys : Resolves(r, key)

PayloadSpec == PayloadInit /\ [][PayloadNext]_payloadVars

-----------------------------------------------------------------------------
(* Properties *)

\* A list that is given out says nothing older than what the draft and the settings
\* said when it was asked for, and is sealed under the key of the session that
\* asked: "a serve still delivers the collection as it is NOW"
\* (manifest_source.rs:115), whoever built the list and whatever changed since.
SentIsCurrent ==
    sent # NoList =>
        /\ sent.under = sent.browseKey
        /\ sent.list.draft >= sent.asked.draft
        /\ sent.list.settings >= sent.asked.settings

=============================================================================
