----------------------------- MODULE Publishing -----------------------------
(***************************************************************************)
(* One collection from the wizard's scan to the relays and back: scan,     *)
(* publish, unpublish, delete (commands/collection.rs), the automatic      *)
(* republish of the snapshot watch (watch.rs), the marker and its          *)
(* revocation generation (store.rs), and the Add/Edit screen.              *)
(*                                                                         *)
(* A publish writes to the relays before it saves its marker, and an       *)
(* unpublish before it deletes it: commands of the user and the watch come *)
(* in between. A step below ends where the code awaits the network or      *)
(* walks the disk; loads and saves with no await between them are one      *)
(* step. The teaser of the profile, the big relay and the texts of the     *)
(* Details column are left out. A command is in a slot of PublishSlots, so *)
(* that as many may overlap as there are slots.                            *)
(***************************************************************************)
EXTENDS Naturals, FiniteSets

CONSTANTS
    Selections,    \* folder selections the user may tick
    PublishSlots,  \* publish, unpublish and delete commands that may overlap
    Watch,         \* the republish of the snapshot watch
    MaxEdits,      \* bound of the model: changes of the folders on disk
    MaxClicks,     \* bound of the model: what the user does in one run
    MaxExits,      \* bound of the model: ends of the app
    None

ASSUME PublishingAssumption ==
    Watch \notin PublishSlots /\ None \notin Selections /\ {MaxEdits, MaxClicks, MaxExits} \subseteq Nat

VARIABLES
    edits,      \* changes of the folders so far
    draft,      \* collections/<slug>.json, or None
    spec,       \* the persisted ScanSpec: a selection, or None
    waiting,    \* the slug's entry of scan_cache, or None
    marker,     \* the tier published/<slug>.json records
    revoked,    \* published/<slug>.gen
    baseline,   \* published/<slug>.fp.json: the tree, or None
    listing,    \* the public listing the relays serve, or None
    job,        \* [PublishSlots \cup {Watch} -> what is in flight]
    homeRow,    \* the row of the Home list, as the page last heard of it, or None
    screen,     \* the collection the Add/Edit screen has, or None
    publishing, \* the screen waits for its Publish
    clicks, exits,
    pressed,    \* history: selections shown when the user pressed Publish
    wish,       \* history: the visibility the user chose last
    current,    \* history: no unpublish since the publish that saved the marker began
    crossed,    \* history: jobs overlapped, a retraction failed, or the app ended
                \* between the relays and the marker
    unrecorded  \* history: a relay has a listing though its publish failed, or its marker
                \* or fingerprint was not written; until a publish or a retraction mends it

files == <<draft, spec, marker, revoked, baseline>>
publishHistory == <<pressed, wish, current, crossed, unrecorded>>
page == <<homeRow, screen, publishing>>
publishVars == <<edits, files, waiting, listing, job, page, clicks, exits, publishHistory>>

\* What a walk of the disk finds: the selection, and the folders as they are.
Trees == [choice : Selections, edit : 0..MaxEdits]

Tiers == {"Public", "Private"}

\* A Collection: its tree and its visibility.
Collections == [tree : Trees, tier : Tiers]

\* What the page knows of one.
Shown == [choice : Selections, tier : Tiers]

ViewOf(collection) == [choice |-> collection.tree.choice, tier |-> collection.tier]

\* The absence of a tree, a collection or a tier is none of them.
ASSUME AbsenceAssumption == None \notin Trees \cup Collections \cup Shown \cup Tiers

Steps == {"idle", "asked", "hiding", "sending", "marking", "undoing",
          "retracting", "dropping", "sweeping", "walking"}

\* "from" is what the screen hands back when its publish succeeds; "late" is
\* history: an unpublish has dropped the marker since the job began.
NoJob == [step |-> "idle", tree |-> None, tier |-> "Public", revoked |-> 0,
          deletes |-> FALSE, from |-> None, late |-> FALSE]

Jobs == [step : Steps, tree : Trees \cup {None}, tier : Tiers, revoked : 0..MaxClicks,
         deletes : BOOLEAN, from : Shown \cup {None}, late : BOOLEAN]

PublishTypeOK ==
    /\ edits \in 0..MaxEdits
    /\ draft \in Collections \cup {None} /\ waiting \in Collections \cup {None}
    /\ spec \in Selections \cup {None}
    /\ homeRow \in Shown \cup {None} /\ screen \in Shown \cup {None} /\ publishing \in BOOLEAN
    /\ marker \in Tiers \cup {None}
    /\ revoked \in 0..MaxClicks
    /\ baseline \in Trees \cup {None} /\ listing \in Trees \cup {None}
    /\ job \in [PublishSlots \cup {Watch} -> Jobs]
    /\ \A j \in PublishSlots \cup {Watch} :
          job[j].step \in {"hiding", "sending", "marking"} => job[j].tree # None
    /\ clicks \in 0..MaxClicks /\ exits \in 0..MaxExits
    /\ pressed \subseteq Selections /\ wish \in Tiers
    /\ current \in BOOLEAN /\ crossed \in BOOLEAN /\ unrecorded \in BOOLEAN

PublishInit ==
    /\ edits = 0
    /\ draft = None /\ spec = None /\ waiting = None
    /\ marker = None /\ revoked = 0 /\ baseline = None
    /\ listing = None
    /\ job = [j \in PublishSlots \cup {Watch} |-> NoJob]
    /\ homeRow = None /\ screen = None /\ publishing = FALSE
    /\ clicks = 0 /\ exits = 0
    /\ pressed = {} /\ wish = "Public" /\ current = FALSE
    /\ crossed = FALSE /\ unrecorded = FALSE

-----------------------------------------------------------------------------
(* Steps the jobs share *)

Quiet == \A j \in DOMAIN job : job[j].step = "idle"

Clicks == clicks < MaxClicks /\ clicks' = clicks + 1

\* A command starts in slot j, maybe beside others.
CommandBegins(j, new) ==
    /\ Clicks
    /\ job[j] = NoJob
    /\ job' = [job EXCEPT ![j] = new]
    /\ crossed' = (crossed \/ ~Quiet)

GoesTo(j, step) == job' = [job EXCEPT ![j].step = step]

\* A command answers with an error, or it is not one the page waits for.
Leaves(j) ==
    /\ job' = [job EXCEPT ![j] = NoJob]
    /\ publishing' = (publishing /\ job[j].from = None)
    /\ UNCHANGED <<homeRow, screen>>

\* handlePublish after a publish that succeeded: the row shows what the screen
\* sent, and the screen closes.
Succeeds(j) ==
    /\ job' = [job EXCEPT ![j] = NoJob]
    /\ IF job[j].from = None THEN UNCHANGED page
       ELSE homeRow' = job[j].from /\ screen' = None /\ publishing' = FALSE

\* retract_public_listing is best effort: without a relay it does nothing and
\* reports success.
Retracted ==
    \/ listing' = None /\ unrecorded' = FALSE /\ UNCHANGED crossed
    \/ listing # None /\ crossed' = TRUE /\ UNCHANGED <<listing, unrecorded>>

-----------------------------------------------------------------------------
(* The Home page and the Add/Edit screen *)

FoldersChange ==
    /\ edits < MaxEdits
    /\ edits' = edits + 1
    /\ UNCHANGED <<files, waiting, listing, job, page, clicks, exits, publishHistory>>

\* scan_directory: a collection that is not persisted yet is served from the
\* cache when the selection is the same; else the walk goes to the cache, with
\* the visibility of the draft.
Scanned(c) ==
    IF draft = None /\ waiting # None /\ waiting.tree.choice = c
    THEN waiting
    ELSE [tree |-> [choice |-> c, edit |-> edits],
          tier |-> IF draft = None THEN "Public" ELSE draft.tier]

Scan(c) ==
    /\ Clicks
    /\ waiting' = Scanned(c)
    /\ screen' = ViewOf(Scanned(c))
    /\ UNCHANGED <<edits, files, listing, job, homeRow, publishing, exits, publishHistory>>

\* The row's Rescan and Edit details show the row's copy of the collection.
OpenEditor ==
    /\ screen = None /\ homeRow # None
    /\ screen' = homeRow
    /\ UNCHANGED <<edits, files, waiting, listing, job, homeRow, publishing, clicks, exits,
                   publishHistory>>

\* Cancel, the cross, Esc. Nothing tells the backend.
Close ==
    /\ screen # None
    /\ screen' = None /\ publishing' = FALSE
    /\ UNCHANGED <<edits, files, waiting, listing, job, homeRow, clicks, exits, publishHistory>>

\* The Chat page reads the collections again.
Reload ==
    /\ screen = None
    /\ homeRow' = IF draft = None THEN None ELSE ViewOf(draft)
    /\ UNCHANGED <<edits, files, waiting, listing, job, screen, publishing, clicks, exits,
                   publishHistory>>

\* persist() sends the visibility only when it differs from that of the page's copy.
SendsVisibility(tier) == tier # screen.tier

\* handlePublish: update_collection_visibility, on the draft if there is one, else
\* on the scan; then publish_collection.
PublishFromScreen(j, tier) ==
    /\ screen # None /\ ~publishing
    /\ CommandBegins(j, [NoJob EXCEPT !.step = "asked", !.from = [screen EXCEPT !.tier = tier]])
    /\ draft # None \/ waiting # None
    /\ IF ~SendsVisibility(tier) THEN UNCHANGED <<draft, waiting>>
       ELSE IF draft # None
       THEN draft' = [draft EXCEPT !.tier = tier] /\ UNCHANGED waiting
       ELSE waiting' = [waiting EXCEPT !.tier = tier] /\ UNCHANGED draft
    /\ publishing' = TRUE
    /\ pressed' = pressed \cup {screen.choice}
    /\ wish' = tier
    /\ UNCHANGED <<edits, spec, marker, revoked, baseline, listing, homeRow, screen, exits, current,
                   unrecorded>>

PublishFromRow(j) ==
    /\ screen = None /\ homeRow # None
    /\ CommandBegins(j, [NoJob EXCEPT !.step = "asked"])
    /\ pressed' = pressed \cup {homeRow.choice}
    /\ UNCHANGED <<edits, files, waiting, listing, page, exits, wish, current, unrecorded>>

-----------------------------------------------------------------------------
(* publish_collection_inner *)

\* Mutant of Promoted, for VisibilityNeverFlips.
PromotedWithItsOwnTier(known) == IF waiting = None THEN known ELSE waiting

\* promote_cached_scan: the tree is the scan's, the visibility the draft's.
Promoted(known) ==
    IF waiting = None THEN known
    ELSE IF known = None THEN waiting
    ELSE [waiting EXCEPT !.tier = known.tier]

\* The waiting scan has content types: the screen has sent them for the scan it
\* shows, and of a scan left behind nobody knows.
Typed(j) == waiting # None /\ (job[j].from # None => job[j].from.choice = waiting.tree.choice)

\* From promote_cached_scan to the choice of the path, with no await. Without a
\* draft, a scan that has no content types is refused and stays in the cache. A
\* republish as Private takes back what the marker says is public.
Prepare(j, known, seen) ==
    LET new == Promoted(known)
    IN \/ /\ known = None /\ (~Typed(j) \/ job[j].from = None)
          /\ Leaves(j)
          /\ UNCHANGED <<draft, waiting, spec>>
       \/ /\ known # None \/ Typed(j)
          /\ draft' = new
          /\ waiting' = None
          /\ spec' = IF waiting = None THEN spec ELSE waiting.tree.choice
          /\ job' = [job EXCEPT
               ![j].step = IF new.tier = "Private" /\ marker = "Public" THEN "hiding" ELSE "sending",
               ![j].tree = new.tree, ![j].tier = new.tier, ![j].revoked = seen]
          /\ UNCHANGED page

PublishBegins(j) ==
    /\ job[j].step = "asked"
    /\ Prepare(j, draft, revoked)
    /\ UNCHANGED <<edits, marker, revoked, baseline, listing, clicks, exits, publishHistory>>

HidePublic(j) ==
    /\ job[j].step = "hiding"
    /\ Retracted
    /\ GoesTo(j, "sending")
    /\ UNCHANGED <<edits, files, waiting, page, clicks, exits, pressed, wish, current>>

\* The listing under the browse key, or one sealed event per recipient.
Send(j) ==
    /\ job[j].step = "sending"
    /\ listing' = IF job[j].tier = "Public" THEN job[j].tree ELSE listing
    /\ GoesTo(j, "marking")
    /\ UNCHANGED <<edits, files, waiting, page, clicks, exits, publishHistory>>

\* No relay says that it took it, though one may have, or a Private collection has no
\* recipients.
SendFails(j) ==
    /\ job[j].step = "sending"
    /\ \/ UNCHANGED <<listing, unrecorded>>
       \/ job[j].tier = "Public" /\ listing' = job[j].tree /\ unrecorded' = TRUE
    /\ Leaves(j)
    /\ UNCHANGED <<edits, files, waiting, clicks, exits, pressed, wish, current, crossed>>

\* save_published_guarded: not after an unpublish that came in between.
Unrevoked(j) == revoked = job[j].revoked

\* The marker, and the fingerprint of the draft as it is by now: nobody hears when
\* that one is not written.
Mark(j) ==
    /\ job[j].step = "marking"
    /\ Unrevoked(j)
    /\ marker' = job[j].tier
    /\ \E noted \in BOOLEAN :
          /\ baseline' = IF noted /\ draft # None THEN draft.tree ELSE baseline
          /\ unrecorded' = IF job[j].tier = "Public" THEN ~noted ELSE unrecorded
    /\ current' = ~job[j].late
    /\ Succeeds(j)
    /\ UNCHANGED <<edits, draft, spec, revoked, waiting, listing, clicks, exits,
                   pressed, wish, crossed>>

\* The marker cannot be written, and nothing is taken back.
MarkFails(j) ==
    /\ job[j].step = "marking"
    /\ Unrevoked(j)
    /\ unrecorded' = (unrecorded \/ job[j].tier = "Public")
    /\ Leaves(j)
    /\ UNCHANGED <<edits, files, waiting, listing, clicks, exits, pressed, wish, current,
                   crossed>>

\* save_public_marker_or_retract takes back what the publish sent; the sealed
\* events of a Private one cannot be taken back.
MarkRefused(j) ==
    /\ job[j].step = "marking"
    /\ ~Unrevoked(j)
    /\ IF job[j].tier = "Public" THEN GoesTo(j, "undoing") /\ UNCHANGED page ELSE Leaves(j)
    /\ UNCHANGED <<edits, files, waiting, listing, clicks, exits, publishHistory>>

Undo(j) ==
    /\ job[j].step = "undoing"
    /\ Retracted
    /\ Leaves(j)
    /\ UNCHANGED <<edits, files, waiting, clicks, exits, pressed, wish, current>>

-----------------------------------------------------------------------------
(* unpublish_collection_inner and delete_collection *)

\* DataStore::delete_collection, and the row goes: every file but the generation.
Swept ==
    /\ draft' = None /\ spec' = None /\ baseline' = None /\ marker' = None
    /\ homeRow' = None

\* Mutant of RetractsFirst, for ListingAccountedFor.
RetractsByDraft == draft = None \/ draft.tier # "Private"

\* The tier to take back is the one the marker records.
RetractsFirst == marker # "Private"

RetireBegins(j, deletes) ==
    /\ screen = None
    /\ deletes => homeRow # None /\ marker # None
    /\ CommandBegins(j, [NoJob EXCEPT !.step = IF RetractsFirst THEN "retracting" ELSE "dropping",
                               !.deletes = deletes])
    /\ UNCHANGED <<edits, files, waiting, listing, page, exits, pressed, wish, current,
                   unrecorded>>

\* delete_collection of a collection that is not published: the files, at once.
DeleteUnpublished ==
    /\ Clicks
    /\ screen = None /\ homeRow # None /\ marker = None
    /\ Swept
    /\ crossed' = (crossed \/ ~Quiet)
    /\ UNCHANGED <<edits, revoked, waiting, listing, job, screen, publishing, exits,
                   pressed, wish, current, unrecorded>>

Retract(j) ==
    /\ job[j].step = "retracting"
    /\ Retracted
    /\ GoesTo(j, "dropping")
    /\ UNCHANGED <<edits, files, waiting, page, clicks, exits, pressed, wish, current>>

\* delete_published: the marker and the generation, under the slug's lock.
Drop(j) ==
    /\ job[j].step = "dropping"
    /\ marker' = None
    /\ revoked' = revoked + 1
    /\ current' = FALSE
    /\ job' = [k \in DOMAIN job |->
          IF k # j
          THEN [job[k] EXCEPT !.late = job[k].step \notin {"idle", "asked"}]
          ELSE IF job[j].deletes THEN [job[j] EXCEPT !.step = "sweeping"] ELSE NoJob]
    /\ UNCHANGED <<edits, draft, spec, baseline, waiting, listing, page, clicks, exits,
                   pressed, wish, crossed, unrecorded>>

Sweep(j) ==
    /\ job[j].step = "sweeping"
    /\ Swept
    /\ job' = [job EXCEPT ![j] = NoJob]
    /\ UNCHANGED <<edits, revoked, waiting, listing, screen, publishing, clicks, exits,
                   publishHistory>>

-----------------------------------------------------------------------------
(* RelayPublishSink::republish *)

\* The generation is read before the walk, and the marker is looked at.
WatchBegins ==
    /\ job[Watch] = NoJob
    /\ marker # None
    /\ spec # None
    /\ job' = [job EXCEPT ![Watch] =
                 [NoJob EXCEPT !.step = "walking", !.revoked = revoked,
                               !.tree = [choice |-> spec, edit |-> edits]]]
    /\ crossed' = (crossed \/ ~Quiet)
    /\ UNCHANGED <<edits, files, waiting, listing, page, clicks, exits, pressed, wish, current,
                   unrecorded>>

\* Mutant of SeenBeforeWalk, for NoResurrectedListing.
SeenAfterWalk == revoked

SeenBeforeWalk == job[Watch].revoked

\* The walk is over: the draft takes its tree and the publish follows, unless the
\* tree is the published one.
WatchWalked ==
    /\ job[Watch].step = "walking"
    /\ \E edit \in job[Watch].tree.edit..edits :
          LET tree == [job[Watch].tree EXCEPT !.edit = edit]
          IN IF tree = baseline
             THEN Leaves(Watch) /\ UNCHANGED <<draft, waiting, spec>>
             ELSE Prepare(Watch,
                          IF draft = None THEN None ELSE [draft EXCEPT !.tree = tree],
                          SeenBeforeWalk)
    /\ UNCHANGED <<edits, marker, revoked, baseline, listing, clicks, exits, publishHistory>>

-----------------------------------------------------------------------------
\* What is on the relays is not yet what the marker says.
BetweenRelayAndDisk == \E j \in DOMAIN job : job[j].step \in {"marking", "undoing"}

\* The app ends, by a crash or by the user, and starts again: the scan cache is
\* gone, and the list is what is on disk.
AppEnds ==
    /\ exits < MaxExits
    /\ exits' = exits + 1
    /\ job' = [j \in DOMAIN job |-> NoJob]
    /\ waiting' = None
    /\ homeRow' = IF draft = None THEN None ELSE ViewOf(draft)
    /\ screen' = None /\ publishing' = FALSE
    /\ crossed' = (crossed \/ BetweenRelayAndDisk)
    /\ UNCHANGED <<edits, files, listing, clicks, pressed, wish, current, unrecorded>>

JobStep(j) ==
    \/ PublishBegins(j) \/ HidePublic(j) \/ Send(j) \/ SendFails(j) \/ Mark(j) \/ MarkFails(j)
    \/ MarkRefused(j) \/ Undo(j) \/ Retract(j) \/ Drop(j) \/ Sweep(j)

PublishNext ==
    \/ FoldersChange \/ OpenEditor \/ Close \/ Reload \/ DeleteUnpublished \/ AppEnds
    \/ \E c \in Selections : Scan(c)
    \/ \E j \in PublishSlots :
          \/ PublishFromRow(j)
          \/ \E tier \in Tiers : PublishFromScreen(j, tier)
          \/ \E deletes \in BOOLEAN : RetireBegins(j, deletes)
    \/ \E j \in PublishSlots \cup {Watch} : JobStep(j)
    \/ WatchBegins \/ WatchWalked

PublishSpec == PublishInit /\ [][PublishNext]_publishVars

-----------------------------------------------------------------------------
(* Properties *)

\* A marker on disk is that of a publish that began after the last unpublish: one
\* that was in flight, by hand or by the watch, does not bring it back
\* (save_published_guarded).
NoResurrectedListing == marker # None => current

\* When nothing is in flight, a public listing on the relays is one the marker
\* records, so that an unpublish will find it, and is the tree the watch compares
\* with, so that a change of the folders will be noticed (publish_collection_inner,
\* unpublish_collection_inner, republish). This is as long as no two commands crossed,
\* every retraction reached the relays, and the app did not end between the two; and a
\* publish that failed with its listing on a relay, or that could not write its files,
\* is mended by the next Public publish that succeeds or retraction that arrives.
ListingAccountedFor ==
    Quiet /\ ~crossed /\ ~unrecorded /\ listing # None => marker = "Public" /\ listing = baseline

\* "A rescan must never silently flip a Private collection back to Public": when
\* the visibility of a collection changes, it is to the one the user chose last.
VisibilityNeverFlips ==
    [][draft # None /\ draft' # None /\ draft'.tier # draft.tier => draft'.tier = wish']_publishVars

\* "A Close/Cancel before Publish discards this entry": what becomes the draft is a selection with which the
\* user pressed Publish (scan_directory_inner, promote_cached_scan). The code does not
\* keep it.
CancelledScanStaysOut == draft # None => draft.tree.choice \in pressed

\* "The next publish honours the new visibility" (update_collection_visibility):
\* what a publish sets out to send has the visibility the user chose last.
VisibilityHonoured ==
    [][\A j \in PublishSlots :
          job[j].step = "asked" /\ job'[j].step \in {"hiding", "sending"} => job'[j].tier = wish]_publishVars

=============================================================================
