# Hoardbook: TLA+ models, checks and proofs

Hoardbook is a desktop directory of people's collections. Every node publishes its profile,
collection listings and topics to Nostr relays. A node that wants the full list of a collection asks
its author, or a contact that holds a copy, by an encrypted direct message; the answer is a one-time
ticket; and the list itself (the manifest) moves over a QUIC plane (iroh) between the two nodes. There
is no server: relays store and replay messages in any order, peers come and go, and a desktop process
is killed at any time.

This directory models the parts of the program in which interleavings, failures, restarts or long call
sequences decide whether it is right. `*.tla` are the modules, `*.cfg` the configurations TLC runs,
`PROJECT.json` the list of components, runs, hazards, theorems, findings and the map from definitions
to source lines. Paths below are relative to the repository; `hb-app/src` stands for
`src/crates/hb-app/src`.

Contents: 1 the system and its parts, 2 the modules, 3 the runs, 4 fairness, 5 findings, 6 proofs,
7 what is not modelled, 8 plan, 9 how to run.

## 1. The system and its parts

Four crates: `hb-core` (keys, events, tickets, listings, manifests: pure functions), `hb-net` (queries
and publications on relays, splitting and rendering of listings), `hb-app` (a Tauri application:
commands, background loops, the data directory, the QUIC plane, a Svelte user interface) and `hb-it`
(integration harness). The state that matters is in `hb-app`, in three places: the data directory
(`store.rs`, one JSON file per thing, each write atomic by rename), shared memory (`SharedIdentity`,
`SharedEndpoint`, `SharedRelay`, statics behind mutexes) and the locals of the background loops.

What runs concurrently in one process: the Tauri commands (each is its own task, any number at once),
the auto-approve loop, the fetch driver, the enumeration queue, the presence loop, the folder watch,
the accept loop of the plane with one task per connection, and fire-and-forget tasks (NAT probe, online
count). They share the data directory and the handles, and synchronise with short mutexes or an
RwLock; nothing is transactional across two files or across a network call.

| component | state | operations | hard behaviour | what makes it right | status |
|---|---|---|---|---|---|
| Plane lifecycle (`transport_state.rs`) | bound endpoint, generation, RwLock | `ensure_endpoint`, `close_plane` | callers race wipes across awaits; a bind may fail or hang with the lock held | no plane outlives its identity; one endpoint; no listener lost | `PlaneLifecycle` |
| Session identity (`commands/identity.rs`, `identity_state.rs`) | identity on disk and in memory | generate, import, restore, load, wipe | check and save are separate steps; a wipe may fail half way | memory follows disk; identity changes go through a wipe | `PlaneLifecycle` |
| Ask trace (`store.rs` 1256-1580) | `manifest_asks.json`: nonce, claim, spent, attempts | record, claim, spend, note a failure, two evictions | two redeemers, replays, best-effort writes, crashes | one ticket per ask; dials only for asks that were made; dials bounded | `AskLedger` |
| Redemption (`commands/fulfil.rs`, Chat page) | page ledger, one redemption task each | check, claim, dial, accept, spend | the trace changes under a redemption in flight | a delivery spends its own ask only | `AskLedger` |
| Fetch driver (`fetch_driver.rs`, `peer_wave.rs`) | attempts per source, snapshot of a poll | drain, compare, wave, discovery | decides on stale snapshots; sources die; answers come late | a stale holding is refreshed; work is bounded | `AskLedger`, `FetchWave` |
| Serve protocol (`transport.rs`, `conn.rs`) | in-flight set, permits, two streams per connection | accept, claim, send, acknowledge, refuse, drain | every end may vanish, close overtakes data | a delivery is counted iff usable; claims are released | `ManifestServe` |
| Auto-approve (`auto_approve.rs`) | cursor, answered memory, hold queue, caps | poll, pace, serve, remember | replays, pacing, failures, restart | every ask gets an answer, none is answered twice | `AutoApprove` |
| Contacts (`store.rs`, `commands/browse.rs` and others) | one file per contact | refresh, follow, presence, tags, grants, accept, remove | load, change and save without a lock, across network calls | no stranger becomes trusted, no failed read passes as an empty peer | `ContactStore` |
| Enumeration queue (`enumeration_queue.rs`) | the pending rows | pick, resolve, defer | one failing row, spacing and idling | every pending row is classified | `EnumerationQueue` |
| Publish (`commands/collection.rs`, `watch.rs`) | draft, marker and generation per slug, scan cache | scan, publish, unpublish, delete, republish | relay write first, marker after, unpublish between | what is live has a marker, and the visibility the user chose | `Publishing` |
| Split, families and browse (`hb-net` `split.rs`, `render.rs`, `browse.rs`, `commands/browse.rs`) | index and parts on relays | pack, re-pack, upload, fetch, render | parts missing, replaced by another publish, cut twice | a list shown whole is one list | `ListingSplit`, `ListingFamily` |
| Manifest cache (`manifest_cache.rs`) | one file per collection, one lock | put, get, clear, migrate | recency writes against puts and clears; a stop half way | a put is not undone, the only copy survives | `ManifestCache` |
| Owner payload (`manifest_source.rs`) | sealed payload under a marker | look up, build, insert | builds of a minute beside edits | what is sent is not older than the request | `OwnerPayload` |
| Direct messages (`commands/chat.rs`, `dm_*.rs`) | cache, requests, declined, blocked; cursor | poll, accept, decline, block, send | four files under four locks, crash between two | no message lost that a relay gave, a block holds | `DmInbox`, `InboxCursor` |
| Topics (`commands/topics.rs`, `hb-net/topic.rs`) | topics, redeemed invites | join, redeem, leave, edit, republish | unlocked load, change, save across awaits | a single-use invite is used once, nothing that reads after a leave undoes it, relays and file agree | `Topics` |
| NAT probe (`nat.rs`) | slot, in-flight flag | probe after an identity event | read, check and claim around awaits | one probe at a time, the slot gets filled | not modelled |
| Relay client (`net.rs`) | shared client | get or connect, reset | double check around a handshake | one connect, current relay set and identity | not modelled |
| Presence and online count (`presence.rs`, `commands/online.rs`) | streak, cache | beacon, count | retries against a freshness window | an online node is not shown as gone | not modelled |

Pure functions over data (event encodings, similarity, title normalisation), one-shot I/O (updates, key
sealing, logging) and the views of the user interface are listed in `PROJECT.json` with the reason they
are left out.

How they interact. A fulfil command, the auto-approve loop and a redemption all obtain the endpoint
through `ensure_endpoint`; a wipe closes it. An ask command or the fetch driver sends a DM and then
records the ask; the other node's auto-approve loop takes the sealed list from the owner payload cache
and answers with a ticket; the Chat page or the fetch driver redeems it: claim in the trace, dial
through the serve protocol, accept into the manifest cache, spend. What the fetch driver holds in the
cache decides what it asks for next. A publish puts a teaser on the public relays and the split family
on a big relay; a browse shows the teaser and supersedes it by a full list from the manifest cache or a
big relay. The inbox poll decodes wraps, files them as messages or as requests of strangers, and an
accepted request becomes a contact row; a joined topic adds rows too; the enumeration queue reads the
listings of rows that are pending.

The hazards each component is exposed to are in `PROJECT.json` under `hazards`, each at the line where
it bites, with the properties that would notice, or the reason why none does.

## 2. The modules

| module | models | code it stands for |
|---|---|---|
| `PlaneLifecycle` | the endpoint of a session and the identity commands; implements `SessionEndpoint` | `transport_state.rs`, `commands/identity.rs`, `identity_state.rs` |
| `SessionEndpoint` | abstract: what a session has of its plane | (specification) |
| `AskLedger` | the ask trace with everything that reads and writes it; implements `Redemption` | `store.rs`, `fetch_driver.rs`, `commands/fulfil.rs`, `commands/chat.rs`, the Chat page |
| `Redemption` | abstract: what becomes of the tickets for an ask | (specification) |
| `ManifestExchange` | abstract: what the plane promises the two ends | (specification) |
| `ManifestServe` | accept loop, handlers and `fetch_manifest`; implements `ManifestExchange` | `transport.rs`, `transport_state.rs`, `conn.rs`, `hb-core/ticket.rs` |
| `FetchWave` | the refresh tier of the fetch driver and its wave policy | `fetch_driver.rs`, `peer_wave.rs`, `commands/browse.rs` |
| `AutoApprove` | the owner's loop that answers asks | `auto_approve.rs` |
| `ContactStore` | one contact row and all its writers | `store.rs`, `commands/browse.rs`, `private.rs`, `online.rs`, `topics.rs`, `chat.rs` |
| `EnumerationQueue` | the loop that reads the listings of pending contacts | `enumeration_queue.rs`, `commands/browse.rs` |
| `DmInbox` | what becomes of one peer's messages | `commands/chat.rs`, `dm_quarantine.rs`, `dm_cache_store.rs` |
| `InboxCursor` | which wraps a poll asks for, and how the cursor moves | `commands/chat.rs` |
| `Messages` | composes the two: a message's way from the relays to the user | (composition) |
| `Publishing` | one collection from the scan to the relays and back, with the Add/Edit screen | `commands/collection.rs`, `watch.rs`, `store.rs`, the Svelte screens |
| `Topics` | the membership of one topic | `commands/topics.rs`, `hb-net/topic.rs`, `hb-core/topic.rs` |
| `ManifestCache` | the cache of peers' manifests and its migration | `manifest_cache.rs` |
| `OwnerPayload` | the owner's sealed list and its marker | `manifest_source.rs` |
| `ListingSplit` | how a listing is cut into parts and rendered from those that arrive | `hb-net/split.rs`, `hb-net/render.rs` |
| `ListingFamily` | how families reach big relays and viewers | `commands/collection.rs`, `commands/browse.rs`, `hb-net/browse.rs` |
| `MC*` | constants, compositions and symmetry of the runs | |
| `PlaneLifecycleProofs`, `AskLedgerProofs`, `FetchWaveProofs` | theorems and proofs of the module they are named after | |
| `ManifestServeProofs` | theorems and proofs of `ManifestServe` and `AutoApprove` | |
| `CacheProofs` | theorems and proofs of `ManifestCache` and `OwnerPayload` | |
| `PublishingProofs` | theorems and proofs of `Publishing`, `ListingFamily` and `ListingSplit` | |
| `PeopleProofs` | theorems and proofs of `ContactStore`, `DmInbox`, `InboxCursor`, `Messages` and `Topics` | |
| `SafetyProofs` | that the eight parts of `MCSafety` each behave as their own module | |

Conventions: a component's own names come first (the variables and actions are those of the code, or
translate them); properties stand at the end of a module; constants that only bound the model say so in
their comment; definitions whose comment begins with "Mutant" are the slips described in section 3 and
are used by no specification.

### PlaneLifecycle

A *session* is one triple of npub, browse key and transport key; two sessions may share an npub,
because importing an nsec again draws fresh keys (`AppIdentity::from_imported`). `stored` is the
identity on disk, `live` the one in memory, `bound` and `generation` are the fields of `PlaneState`,
`writer` is the holder of its write lock, `open` the endpoints that exist. A call of `ensure_endpoint`
is a chain of actions that break where the code awaits: `Enter` snapshots identity, generation and the
satisfaction check under the read lock; `ReuseUnderLock` and `GenerationFence` are what happens when
the write lock is granted; `LiveFence` is the comparison with the identity in memory; `CloseOld`,
`BindFails` and `Finish` close the previous endpoint, bind and publish. The identity commands are
chains too: `SaveIdentity` then `SetLive` for generate, import and restore, the deletion of the store,
`ClearLive`, `ClosePlane` and `FinishClose` for a wipe, which may fail half way when `WipeCanFail`.
The endpoint's own behaviour (bind, close) is iroh's and appears only through what it does to `open`.
`SessionSpec` is the specification with the identity commands issued one at a time and no wipe that
failed half way, which is what the properties about the current npub need.

`SessionEndpoint` is what all of it amounts to for a session: an endpoint is published when it is bound,
withdrawn before it is closed, closed before the next one is bound and never bound again; the end of an
epoch (`close_plane`) withdraws what is published, and an endpoint is published only for a caller that
asked in the present epoch. The mapping reads it off `bound`, `open`, `unused` and `generation`
(`SessionPlane`); callers, the lock, the identities and the commands are gone. `KeepsOneEndpoint` says
that `PlaneLifecycle` implements it. That no two endpoints run (`AtMostOneEndpoint`) and that what is
published runs (`BoundIsOpen`) follow from it.

### AskLedger

`ask` is the trace on disk, one entry per `peer|author|slug` key; every change of it is one action,
because the code holds `MANIFEST_ASKS_LOCK` across load, change and save. Ask commands and the driver
send first and record later (`SendAsk`, `RecordAsk`), so an answer may come before the record. `tickets`
is everything the peers issued; a relay may deliver any of it at any time and again. A redemption is a
process with the steps of `redeem_ticket_inner`: started, claimed, dialling, accepted, spend, and for
the driver the failure note and its mirror in the poll's snapshot. `driver` is a poll: expiry, snapshot,
inbox fetch, drain, discovery. `page` is the Chat page's copy of the trace and its ledger. `Restart`
drops every process and keeps the trace and the tickets; `MaxLostWrites` allows best-effort writes to
fail. Time counts polls. History variables (`recorded`, `dialled`, `delivered`, `settled`, `dials`,
`failed`, and `attended`, whether the Chat page has redeemed anything) record what happened and guard
nothing.

`Redemption` is the promise without the trace: an ask is recorded once, a redeemer may take a ticket
for a recorded ask that is not closed as long as no other ticket for it was ever dialled or is held,
what is received was dialled, what is closed was received, and anyone may let go at any time, all of
them at once when the program ends. It never forgets an ask or a dial. `AskLedger` does: it evicts,
replaces and restarts, keeps one entry per key, and grants a claim by looking at that entry alone. That
this comes to the same is `KeepsRedemption`, under the mapping `AsksView`, `HoldsView` and the history
variables.

### ManifestServe and ManifestExchange

One connection is one redemption attempt. The owner's side is a handler (`owner[c]`): queued for a
permit, handshake, reading the request frame, resolving the payload, sending, waiting for the
acknowledgement, or refusing, flushing and draining. The asker's side (`asker[c]`) follows
`fetch_manifest`. `link` says who closed first: after a close the other end may or may not still read
what was written before, which is how QUIC's CONNECTION_CLOSE behaves and what the drain rules of the
code are about. `guard` is the in-flight claim a handler holds (`InFlightGuard`), `inFlight` the set.
Every deadline is an action that may fire at any time; the payload resolution has none, as in the code.
Connections of `OtherAskers` are dialled by some other program that speaks the protocol: it may stay
silent, send what the gate refuses, acknowledge without reading, or leave.

`ManifestExchange` is what both ends may rely on: a request is served on one connection at a time, a
delivery is counted only for a manifest the asker accepted, either end may give up, and no end changes
its mind. `ManifestServe` implements it for the connections both of whose ends run this code, under the
mapping `RequestView`, `OwnerView`, `AskerView`: a handler serves while it holds the claim, an asker has
accepted when the caller's gate passed the manifest. TLC checks this as the property `KeepsExchange`
and TLAPS proves it.

### FetchWave

One held collection, its author and the contacts that may carry a copy, in list order. `published` and
`carried` are the snapshots out there, `held` the one in the cache, `asks` the open asks with the
fingerprint each named, `tickets` the answers, `attempts` the `AskState` of the process. A poll drains
(`StartPoll`, `Redeem`, `RedeemFails`), reads what it holds (`ReadHeld`), resolves the author's listing
and either has nothing to ask or starts a wave (`ResolveFails`, `NothingToAsk`, `StartWave`), and asks
its sources one by one (`Ask`, `AskFails`). The Chat page may redeem between any two steps. Polls are
300 s apart and the longest backoff of one source is 4 s, so a source with attempts left is always
ready: backoff is not part of the state.

### AutoApprove

An ask is one nonce of one asker; `relay` is what the relays keep and `stamp` how each wrap is dated.
`Tick` is the pacing clock, which counts polls. `Fetch(batch)` is a poll whose relays answered: it moves the
cursor and takes the access asks, the hold queue (as the local list `replays`) and the fresh asks of the
batch. Each is then dealt with in one action: `AlreadyAnswered`, `Defer` (over budget, into the hold
queue unless that is full), `Serve` (ticket sent, caps charged), `TicketFails` (counted, given up at
`AttemptsMax`), `Grant` and `GrantFails` for access asks. `EndPoll` saves the answered memory, as well
as may be; `Crash` keeps only what was saved. The answered memory is cleared as a whole at `SeenMax`
(`NoteServedAtOnce` and `NoteServed`), the attempt counts at `AttemptKeysMax`. `served` counts answers
since the memory was last cleared or the process started, because that is the span for which the code
promises not to serve again; `settled` are asks answered or given up.

### ContactStore

The row of one contact and up to `MaxWriters` writers, with the enumeration queue as slot 0. A field is
what the writers tell apart: `label` (tags or petname of the user), `key` (a browse key), `listings`
(any at all), `state`, `source`, `seen` (the presence stamp). A writer loads the row, may ask the network
(`Refresh`, `Follow`, `Enumerate`), merges what it learnt (`Answer`, `Merge`, with `Resolved`,
`ListingsAfter` and `Refreshed` for the code's rules) and saves in two steps (`SaveRead` reads the
presence stamp again, `SaveWrite` writes the whole row). Nothing is locked, so any two may interleave.
The properties say what survives that: lost edits do occur (section 5), but no interleaving makes a
contact trusted that no person added, and none produces a row that claims an empty peer without such a
read.

### EnumerationQueue

`line` is the stored contacts in the order of `last_fetched`. `Pick` takes the first pending one,
`Classify` is a read that answered, `ResolveFails` and `DeferFailed` the failure that sends the row to
the back as it stands by then; both pauses are phases left by `Wake`. `broken` are contacts for which
every resolve errs. Other commands add, read and remove contacts meanwhile.

### DmInbox and InboxCursor

`DmInbox` follows one peer's messages through `dm_cache.json`, `dm_requests.json`, the declined and the
blocked file. A step is one critical section. A poll fetches, snapshots contacts, blocks and declines,
merges into the cache and files strangers afterwards (`FetchDms`, `SnapshotDms`, `MergeDms`,
`FileRequests`); an accept makes the contact, drains the bucket, removes the decline and adds the
messages to the cache; decline and block delete the bucket, then record. `owed` are messages decoded for
the user and not discarded; `dropped` what was decoded while the sender was shut out.

`InboxCursor` is the same poll seen from the wraps: each is dated up to `Margin` before it was posted
(NIP-59), or anything at all if another program made it (`Foreign`). A poll asks from the older of
cursor and clock less the margin. What it is given is any part of that window (`FetchWindow`), because
`RelayClient::fetch` returns what the relays that answered gave, and the filter has a limit. It decodes
what it can, remembers what it could not until the app restarts, and moves the cursor to the newest
settled stamp, never past its own clock (`Clamped`). `missed` records the unread messages that some poll
was not given although they were in its window: what the code keeps is stated with it
(`StrandedWereMissed`), what its comment promises without (`NoStrandedWrap`, finding 6).

### Publishing

One collection: the folders on disk (`edits`), the scan cache (`waiting`), `draft`, the watch's
selection (`spec`) and baseline, the `marker` with its revocation generation (`revoked`), what the
relays show (`listing`), the row of the home page and the open Add/Edit screen. Commands run in
`PublishSlots`, the watch's republish in a slot of its own. A publish promotes the scan into the draft
(`Prepare`), hides the public copy of a collection that became Private (`HidePublic`), sends, and marks
unless an unpublish came in between (`Mark`, `MarkRefused` with `Undo`, the generation guard of
`save_published_guarded`). A send fails whenever no OK came back, so that its listing may be on a relay
all the same (`SendFails`), and a marker or a fingerprint that cannot be written leaves the listing where
it is (`MarkFails`, `Mark`): `unrecorded` is history that says so, until a later publish or retraction
mends it. `RetireBegins`, `Retract`, `Drop` and `Sweep` are unpublish and delete.

### Topics

One topic, its row (`topicRow`: the number of the membership it records, or `OldSeal` of an old build),
what the relays accepted (`wired`), the membership they show (`roster`, the newest they have), and the
redeemed invites (`nonces`, in a file of their own). Join, leave, edit and the republish that opening
the roster triggers are chains that break at each await. topics.json has no lock, so a command that
saves the whole file with what it loaded breaks between load and save as well: `RecordLoads` of the
republish and `ElsewhereLoads` of a command about another topic take a copy of the row, and
`SavesLoaded` puts it back, over a leave that came between. `DropsRow` and `JoinStores` write this topic's row
whatever they loaded, so one step is enough for them; what their load and save do to another
topic is `ElsewhereLoads` of that one. Any step may fail and end its command (`TopicFails`): `Unheard` is
a publish that errs although a relay stored the membership, `CutShort` is everything else, a file that
cannot be saved included. The app may end at any time. History: `late` (in a command: the row it holds
was read before a leave), `left`, `broughtBack`, `admitted`, `joinsAstray` (joins overlapped, or one
ended with its membership out and its invite not saved) and `strayed` (commands overlapped, one ended
between the relays and the file, or a leave left something on the relays).

### ManifestCache and OwnerPayload

`ManifestCache` has `entry` (the present file of a collection), `legacy` (files of old builds),
`marked` (the migration's marker file), `migrated` (its flag in the process) and `dirLock`. A put first
migrates when the process has not; the scan is outside the lock, the rest inside. A get reads, then
writes the copy again. `WipeDeletes` is `DataStore::wipe`, which takes no lock.

`OwnerPayload` has the two files a list is made from as change counts, the one cache slot, and
resolvers that stamp the draft, stamp the settings, look, build (two loads with a pause between) and
insert. A build may take a minute, so files change between any two steps.

### ListingSplit and ListingFamily

`ListingSplit` takes every forest of up to `MaxPlainNodes` nodes with every assignment of weights, packs
it as `split.rs` does and renders what arrives in the order of the index with the mount rule of
`restitch_v2`. The calls of `pack_siblings` in progress are a stack of jobs, and a turn of its loop is a
step: an entry is taken into the run (`Fill`), the run is emitted (`Flush`), an entry goes out alone
(`ShipAlone`), as a shell with a call for its children (`Shed`), or not at all (`Refuse`). In the rounds
of `pack_tree` a chunk is kept or packed again with a smaller budget (`KeepChunk`, `PackAgain`), and
after `MaxRounds` of them it gives up (`Verify`). As there are no recursive operators, what the stack
does can be proved. Sealing is additive in the model; real sealing is not, which only changes which
chunks are too long.

`ListingFamily` is about whole families: `StartUpload`, `SendTeaser`, `SendIndex`, `SendPart` and
`UploadFails` of possibly overlapping publishes to one of two big relays, each part replacing what stood
under its name; and a viewer that reads the teaser, then the imported manifest under its fingerprint,
then the big relays, index first and parts by the hashes the index names. A draft has a *face*: the
entries the teaser has room for and the number of the others, which is what its fingerprint covers.

### How the modules fit together

The modules share boundaries, not variables. `ManifestServe` is what one dial of an `AskLedger`
redemption does: its two outcomes for the asker are the success and the failure of the dial there.
`FetchWave` takes the redemption of `AskLedger` as one step and adds what is redeemed. `AutoApprove` is
who issues the `tickets` of `AskLedger`; it mints them from `OwnerPayload`. The endpoint all of them use
is the one of `PlaneLifecycle`: a closed plane is `open = FALSE` in `ManifestServe` and a failing dial
elsewhere. `ManifestCache` holds what `AskLedger` accepts and what `ListingFamily` calls `imported`.
`EnumerationQueue` decides when slot 0 of `ContactStore` runs; `InboxCursor` decides which wraps reach
`DmInbox`.

Runs that ask the same kind of question of several modules are composed as a sum: a variable `part` is
chosen in the initial state, the module it names moves, the others rest. No two share a variable, so
the state spaces add up and each module is checked exactly as by itself. `MCSafety` sums eight modules,
`MCFullList` the three ways a full list travels, `MCProgress` the loops that must get somewhere and
`MCRefresh` the refresh of a holding and the plane (some by INSTANCE, since several modules use the same
short names). `MCAskLedger` sums
two scenes of one module: the driver by itself with wide budgets, and the driver, the Chat page and an
ask command with one dial per ask, one tick of the clock, no backoff, no restart and no lost write, the
second an INSTANCE of `AskLedger` over the same variables. An ask is retained for one tick and has no
grace, so that both evictions can hit it in either scene: a grace only takes evictions away. Every
property of the run is checked in both scenes.

## 3. The runs

Each run asks one question, or the same kind of question of several modules. All bounds are named
constants of the modules, given in the `.cfg`.

| run | question | instance, and why it is enough |
|---|---|---|
| `ask_trace` | Does one ask admit one ticket, do dials answer recorded asks, does a delivery close its own ask, do the driver's dials of an ask stay inside its budget although it decides on a snapshot? | Two scenes over 1 collection, 2 tickets, 2 asks, 1 tick of retention. Races: ask command, Chat page and driver, 1 dial per ask, 1 tick, expiry and eviction: two of each racer are the smallest cases in which a claim can be taken over, an old nonce come back, or an ask be evicted under a redemption. Driver: 2 ticks, batches of 2, 2 dials, 1 restart, 1 lost write, so that a backoff ends inside the run and the whole of the budget is used. |
| `full_list` | Are claims released, does the plane implement the exchange, do both ends agree, is a split list put together again, is a list shown in full one list? | 3 connections for one request over 2 permits, one of them from another program: two handlers race for the claim while a third waits for a permit; while the plane is open one of them meets a deadline or a lost link, when it closes all do. Every collection of up to 5 nodes (3 under the sealed measure) with weights 2, 3 and 5 against a limit of 5, cut and rendered from every subset of its parts: enough for a shell inside a shell, a second round of packing and a missing part in between. 4 drafts (two of one face), 2 publishes at once, 2 big relays, one import, one browse. |
| `refresh` | Who is asked, and does a source with the current snapshot get to deliver it? With commands one at a time, is the plane's npub current, and does every call and every wipe end? | Wave: 2 carriers and the author, waves of 1 carrier, 1 attempt per life of the process and 1 restart, 2 snapshots: a dead carrier can stand in front of a live one and use up its attempt, and after the restart a re-ask voids the ticket for the last ask. Plane: 2 callers, 1 command slot, 2 sessions of different npubs, 2 endpoints, 2 wipes: a stale caller needs one wipe, a second identity another npub. No symmetry, for liveness. |
| `auto_approve` | Is an ask answered or given up in the end, and never answered twice, while wraps come again, serves fail, and the memory overflows? | 2 manifest asks of one pair (so that pacing bites), 1 access ask, a hold queue of 1, a memory of 2 (so that it overflows with 3 asks), 2 attempts, 1 restart, 1 change of an asker. |
| `safety` | What do the locks, fences and merges guarantee, whatever interleaves? | Eight parts. Plane: 2 callers, 2 concurrent identity commands, wipes that fail half way. Contacts: 2 writers and the queue, 2 commands. Messages: 2 messages, 2 commands, 3 acts of the user, 1 crash. Cursor: 2 overlapping polls that may be given any part of their window, 1 wrap and a foreign one, 2 ticks against a margin of 1, so that the cursor can pass a wrap, 1 restart. Publishing: 2 command slots and the watch, 4 clicks, 1 change of the folders, 1 exit, no more than 5 of these in all (`MaxActs`). Topics: 2 slots, 2 invites, 3 commands, 1 exit. Cache: 1 collection, 2 calls, 2 old copies, 3 puts, a clear, 2 ends of the process. Payload: 2 resolvers, 2 keys, a change of either file, 3 resolutions. Two actors are what a lost update, a stale snapshot or a double claim needs; the third act is the one that shows it. |
| `progress` | Do the loops get somewhere? | Redemption: 1 ticket, 2 asks, 2 dials. Plane: 2 connections over 1 permit, one from another program that may go silent. Queue: 3 contacts, some always failing, 1 change from outside. Cursor: 1 wrap, 1 foreign wrap, 1 poll at a time, 2 ticks. No symmetry. |
| `plane_stale_keys`, `fetch_gives_up`, `auto_hold`, `dm_crash`, `publish_visibility`, `inbox_partial` | Findings, section 5. | The smallest instance that shows each. |

The properties in words, with the code behaviour they are about, stand above each definition. In short:

* PlaneLifecycle: after a finished wipe nothing is bound or open (`WipedSessionHasNoPlane`); never two
  endpoints, and none published that is closed or was asked for before a wipe (`KeepsOneEndpoint`); a
  listener goes only for a wipe or another owner (`ListenersSurvive`); the plane serves the current npub
  (`PlaneServesLiveNpub`); calls return and wipes complete (`NobodyWaitsForEver`).
* AskLedger: `OneTicketPerAsk`, `DialsAnswerRecordedAsks`, `SpentByOwnDelivery`, `InFlightAskKept`
  (the ask of a redemption stays until it is answered, asked anew or past its retention; expiry does not
  ask whether an ask is in use), `OwnBudgetHolds` (the driver dials an ask at most the cap allows whatever
  runs beside it, and an ask is charged for the failures of its own ticket only, until the Chat page
  redeems something), `AnswerSettles`,
  `KeepsRedemption` (an ask admits one ticket and, once its spend is written, none:
  `SettledAskStaysClosed`, which no run checks by itself, is proved).
* ManifestServe: `ClaimsMatchHandlers`, `DeliveredIsUsable`, `OutcomesAgree`, `KeepsExchange`,
  `ConnectionsEnd`.
* FetchWave: the author is asked alongside the carriers (`AuthorNotBehind`); a live source with the
  current snapshot and attempts left gets to deliver it (`CarrierDelivers`).
* AutoApprove: an answered ask is not served again before the memory is cleared, and memory, hold queue
  and attempt counts stay within their caps (`ServedOnce`); an ask
  in the window is answered or given up (`AskSettles`); an asker that grew large enough is granted
  (`GrownAskerGranted`).
* ContactStore: only a person makes a contact Manual, which is the trust gate (`HandAddedOnly`); a row
  that says "nothing published" was read so (`NoFalseEmpty`). EnumerationQueue: `PendingHasItsTurn`.
* DmInbox and InboxCursor: no message is lost between relay and file while the process lives, but one
  that some poll was not given (`MessagesKept`); strangers stay out of the conversations, what was shut out stays out, nobody is
  blocked and declined (`QuarantineHolds`); every message is decoded or left behind by the cursor
  (`EveryWrapDecoded`).
* Publishing: an unpublish is not undone (`NoResurrectedListing`); what is live has its marker and
  baseline when nothing crossed and nothing is unrecorded (`ListingAccountedFor`); the visibility changes only as the user chose
  (`VisibilityNeverFlips`).
* Topics: after a leave nothing but a join stores the topic again that read its row after the leave; a
  migrated row was accepted by a relay; and commands one after the other, none of which ended between
  the relays and the file, leave the relays showing the membership that the file records
  (`MembershipHonest`); an invite is spent only by letting in, and lets in twice only when joins overlapped
  or one ended before its invite was saved (`InviteAdmitsOnce`).
* ManifestCache and OwnerPayload: `CacheHoldsLastStore`, `OldCopyKept`, `SentIsCurrent`.
* ListingSplit and ListingFamily: the parts carry each node once, each short enough, each folder before
  what is in it (`EachNodeOnce`); what a reader is shown stands where it belongs, and packing comes to an
  end (`PartsReassemble`); a list shown in full is one list (`FullListInOnePiece`).

Some properties are stated with the case in which they fail taken out, and say so: `OwnBudgetHolds`
(what is charged, until the Chat page redeems), `PlaneServesLiveNpub` (commands one at a time, no half wipe),
`ListingAccountedFor` (no crossing commands, no failed write, and no send whose OK was lost, until that is
mended), `MessagesKept` and `EveryWrapDecoded` (what a poll was not given), `MembershipHonest` (a row
read before a leave and saved after it; for the relays, commands that overlap or end half way),
`InviteAdmitsOnce` (joins that overlap or end before the invite is saved), `RenderHonest` (families that
were not packed again). The cases taken out are listed in section 5.

Type invariants: `PartsTypeOK` in `safety`, the queue's and the auto-approve loop's as conjuncts of
`PendingHasItsTurn` and `ServedOnce`; those of AskLedger, ManifestServe, FetchWave, AutoApprove and
ListingFamily, and `PartsTypeOK`, are theorems (section 6).

Deadlock checking is off in all runs: the models stop where their bounds on asks, wipes, snapshots,
commands or restarts are reached, and a system with nothing to do may stop.

Every property of a passing run has been seen to fail: `PROJECT.json` lists, for each, a plausible slip
in the code (a dropped fence, a missing release, an attempt too many) written as an alternative
definition in the module, under which the run of the property reports a violation.

## 4. Fairness

Safety is checked without fairness. Where a property is temporal the specification assumes:

* PlaneLifecycle: a task that can go on goes on (weak fairness), because tokio polls a ready task. A
  request for the lock is granted in the end although others come and go (strong fairness of `GetsLock`,
  one per caller since a call waits in one place at a time, and of `ClosePlane`), because tokio's RwLock
  is fair and queues. Nothing is assumed of the network: a bind that never answers is covered by its
  deadline, which is one of the outcomes.
* AskLedger: the driver's loop goes on, the clock ticks, an ask command that sent its message records or
  abandons it. The inbox fetch and the redemption of a ticket that keeps being delivered are strongly
  fair: a relay that answers again and again delivers each wrap in the end. Dials are not assumed to
  succeed, nor the Chat page to do anything.
* ManifestServe: handlers and fetches take their steps, including their deadlines, and the handshake of
  a connection with a permit ends. Other programs are not assumed to do anything.
* FetchWave: the poll goes on; a listing is not unreadable for ever (strong fairness of the comparison);
  a source that stays up answers. Sources are not assumed to stay up: the property says so in its
  conclusion.
* AutoApprove: the loop goes on and the pacing clock ticks; a wrap that stays at a relay and in the
  window is handed back again and again (strong fairness per ask); the teaser of an asker is not
  unreadable for ever. Serves and grants may fail for ever: giving up settles an ask too.
* EnumerationQueue and InboxCursor: the loops go on; a resolve that is tried again and again is answered
  some time for a contact that is not broken; relays that are asked for a message again and again give it
  some time (strong fairness per message). In `progress` these
  assumptions on the network are one strong fairness, `NetworkAnswers`: only the part that moves can
  take its step.

## 5. Findings

Six places in which the code does something else than a comment of the repository says. Each is a run
that TLC ends with a counterexample.

1. `plane_stale_keys` (`transport_state.rs:200`). Both fences compare less than the credentials. A call
   that read its identity before a wipe, and enters `ensure_endpoint` after the same nsec was imported
   again, passes the npub comparison and publishes an endpoint on the wiped transport key. The comment
   at lines 71-74 says the fences exist to exclude this.
2. `fetch_gives_up` (`fetch_driver.rs:776`). The attempts of a source are counted for the lifetime of the
   process and never reset, neither by a delivered refresh nor by a new snapshot. After three asks of
   every source the collection is not refreshed again until a restart; the comment at 774 calls the
   bound self-healing.
3. `auto_hold` (`auto_approve.rs:871`). A poll that fails or brings no wrap sleeps before the hold queue
   is drained, so that a request held by the pacing is served only when a relay hands back some wrap; a
   replay whose serve fails is not put back. The comment at 322 says every request is served "now or
   shortly". What the code does keep is `AskSettles`: as long as the relays still hand the wrap back.
4. `dm_crash` (`commands/chat.rs:1767`). The poll saves the seen wraps before it files the strangers'
   messages; an accept empties the bucket before it adds to the cache. A crash in between loses the
   messages for good, and line 579 says of a seen wrap that "the message IS in the cache".
5. `publish_visibility` (`AddCollectionModal.svelte:229`). The screen sends the visibility only when it
   differs from its own copy, which a failed publish leaves behind the backend's. A Private collection
   that was tried as Public and set back is then published as Public; `collection.rs:1531` says the next
   publish honours the new visibility.
6. `inbox_partial` (`commands/chat.rs:594`). A poll moves the cursor to the newest stamp it settled, and
   what it was given may be the answer of some relays only. An unread message on a relay that was silent,
   dated further back than the margin, is then before the window of every later poll. The comment of `merge_wraps_into_cache` says that "the cursor never
   advances past a wrap that might still be decodable".

Met while modelling, and not runs of their own, either because nothing in the repository promises the
contrary or to keep the suite short. Where a formula is named, TLC refutes it on a small instance.

* Plane and asks: a refusal beside the Chat page is charged to the ask as a failed dial
  (`store.rs:1467`, where 1446 and 1452 call it a silent no-op); a carrier's older copy redeemed after
  the author's replaces it in the cache (`commands/browse.rs:1196`).
* Contacts: overlapping writers lose each other's edits, a browse key or a presence stamp included, and
  a refresh in flight brings a removed contact back; the queue idles 300 s after a single failure.
* Publishing: overlapping publish and unpublish strand a listing without a marker, and so do a publish
  whose OK was lost and one whose marker could not be written (`collection.rs:980`, `store.rs:675`), after
  which a republish as Private does not know of the public listing; a Private republish
  that overlaps one of the watch leaves a public listing behind a Private marker; deleting a collection
  while its first publish is in flight leaves a listing and a marker without a draft; a cancelled scan
  is published later (`CancelledScanStaysOut` as the comment at `collection.rs:405` has it, against 878).
* Topics: an edit of the description in flight brings a topic back that the user left, and so does any
  command that loaded topics.json before the leave and saves it after (`LeaveIsFinal`; `topics.rs:944` and
  954, `store.rs:1801`); a republish in flight over a leave enrols the user at the relays again, as
  `topics.rs:938` concedes, which `RosterAgrees` takes out with `strayed`; an edit writes an old membership
  over a republished one (`topics.rs:359`); the nonce file can lose an update, and an invite whose save
  failed, or whose join erred although a relay stored the membership, is redeemed twice (677, 721); a
  failure between the nonce file and the topic file uses up an invite; a leave while no relay answers is
  refused (810).
* Caches: a failed rename of the migration is never tried again (`FailedRenameRetried`,
  `manifest_cache.rs:478`); `DataStore::wipe` takes no cache lock, so that a get or put beside it leaves
  a copy (`store.rs:748`).
* Splitting: when a chunk is packed again because it is too long when sealed (`split.rs:829`), the mount
  of the children of a shell is counted from the start of that chunk and not of the folder (881-883), and
  those children are rendered under the wrong node. It concerns the encrypted family only. `RenderHonest`
  is therefore stated for families that were not packed again.
* Browsing: the teaser's fingerprint covers the visible entries and the count of the others, so that a
  change among the others alone leaves an older imported manifest, or an older family on the big relay,
  "current"; a later publish that fits whole, or under another setting, overwrites the big relay's
  address in the marker, and the family there is never cleaned up (`collection.rs:1048`, 1409).
* Identity and NAT: generate, import and restore check the store and save in separate steps
  (`identity.rs:60`), two in flight both pass; the probe slot is read before the claim (`nat.rs:339`), and
  a panic in a probe leaves the claim taken.

## 6. Proofs

TLC shows the properties on the instances above; TLAPS proves the following for every value of the
constants, from the named assumptions of the modules (types of the constants, special values outside the
sets). All proofs have the same shape: `Init => Inv`, `Inv /\ [Next]_vars => Inv'` with one step per
action, and the properties from `Inv`.

**PlaneLifecycleProofs.** `TypeCorrect`, `WipedPlaneGone`, `OneEndpoint`, `PublishedPlane`
(`BoundIsOpen`). None of the last three is inductive alone. The invariant `PlaneInv` adds: only the
holder of the write lock is in the critical section; an open endpoint is the bound one or the one a
call in the critical section has just bound; what is bound was published under the current
generation; and when nothing is live, what is bound is still owed a close by a wipe in flight. The last
conjunct needs the live fence, the one before it the generation fence: drop either and the induction
fails where the code would. `ImplementsSessionEndpoint` (`KeepsOneEndpoint`) is the refinement:
under `PlaneInv` every step of a caller (`CallerServes`) or of a command (`CommandServes`) is one step of
`SessionEndpoint` or a stutter. That a bind finds nothing running is where the close before it and the
lock are needed; that it is published for the present epoch, the generation fence.

`ListenersKept` (`ListenersSurvive`) is an action property: a step that closes an endpoint outside a wipe
has to be shown to serve another session. It rests on `MismatchWhileFencing`: a call past the fences
found, and still finds, that what is bound does not serve the session it wants, because nobody but the
holder of the lock may bind. `PlaneFollowsIdentity` (`PlaneServesLiveNpub`) is about `SessionSpec`,
the identity commands one at a time (`\A c, d \in Commands : c = d`) and no half wipe: then
memory agrees with the disk outside a command, so the live fence compares with the current npub.

**AskLedgerProofs.** `TypeCorrect`, `AtMostOneTicketDialled` (`OneTicketPerAsk`),
`OnlyRecordedAsksDialled` (`DialsAnswerRecordedAsks`) and `AskSpentByItsDelivery`
(`SpentByOwnDelivery`). The idea of the proof of the first: a nonce is recorded at most once, so an
entry that was evicted or replaced can never come back unclaimed; and all tickets held by a granted
redemption, or dialled, for a nonce are the claim the trace has for it as long as the entry lives
(`HeldAreClaims`), hence agree among themselves (`HeldAgree`) even after it is gone. Restarts keep the
trace, so the claim survives them; that is why the claim has to be on disk. `SettledAsksStayClosed`
(`SettledAskStaysClosed`) adds `SettledInv` to it: an entry with a settled nonce is spent. The spend
reaches the one entry that can have the nonce, and a re-ask has a nonce that was never recorded.
`ImplementsRedemption` (`KeepsRedemption`) puts them together with `FetchedDialled`: under
`TakenInv` a claim that the entry admits is one that `Redemption` would grant, since whoever holds or
dialled another ticket for the nonce is what the entry's claim would name (`GrantRedeems`); the other
steps record, dial, receive, close or let go (`RecordRedeems`, `FetchRedeems`, `SpendRedeems`,
`OthersRedeem`).

`EvictionSparesUse` (`InFlightAskKept`) needs `RecordTimed`: the trace's entry is the latest
record of its key and carries its time, so that an entry that is gone was renewed, answered or expired.
`BudgetKept` (`OwnBudgetHolds`) is the longest argument. The driver decides on a snapshot that it
mirrors itself, and the proof is that the mirror is good enough. `TicketInv`: every redemption holds
an issued ticket, and a claim names an issued ticket of its entry's key and nonce. `ChargeInv`: until the
page redeems something, what an entry is charged is what its claimed ticket has failed. `SnapshotFresh`:
the snapshot has the attempts of every entry that was charged, but for the one whose failure the
driver has just noted and not yet mirrored; nobody else charges, so the page beside it does no harm.
`DialsCharged`: each dial of an open ask was charged, is about to be, or its note was lost to a write or
a restart. With `StartedInBudget` and `ClaimedInBudget` the dials are at most the cap plus the writes
and lives that were lost, which is `DialBudget`. TLC checked these invariants on the instance of
`ask_trace` before they were proved.

**ManifestServeProofs.** `TypeCorrect`, `ClaimsReleased` (`ClaimsMatchHandlers`), `RequestServedOnce`
(`OneServePerRequest`), `DeliveriesAreUsable` (`DeliveredIsUsable`), `ClosingTruncatesNothing`
(`OutcomesAgree`) and `ImplementsExchange` (`KeepsExchange`). `QueueInv` says that a connection waits
in the queue once and only while queued, `GuardInv` that claims and handlers correspond one to one,
`DeliveryInv` that an acknowledgement on its way was preceded by an acceptance, `SentInv` that a
manifest on its way was preceded by a claim. `OutcomesAgree` says what holds at the end only;
`StageInv` lists the joint states of the two ends, the link and the frames on it that lead there when
no deadline fires, and each step leads from one to the next: whoever closes has read the last frame or
closes on one that has. The refinement maps every step to one step of the exchange or to a stutter,
with a lemma per kind of step.

Of `AutoApprove`: `AnswersAreFinal` (`ServedOnce`), for any asks, pacing and
caps. A replay from the hold queue is served whatever the memory says, so that the queue itself must
never hold an answered ask, nor the same ask twice, nor an ask that the poll has still to replay: that is
`HeldOnce` and `ReplaysFresh`, and `AnswersRemembered` says that an ask that was served is in the memory
until that is emptied. A restart loads a memory that is within its cap because the one that was saved
was (`SavedWithinCap`).

**FetchWaveProofs.** `TypeCorrect` and `AuthorAlongside` (`AuthorNotBehind`), for any list of carriers,
wave size and attempt cap. `AuthorNotBehind` is not inductive: a carrier may be asked after the author
in the same wave. Counting the ask that is still to go out (`Counted`), no carrier is ahead of the
author at any time: a wave raises every ready carrier by one and the author too, unless the author is
exhausted, and then it is at the cap.

**CacheProofs.** `CacheTypeCorrect`, `LastStoreHeld` (`CacheHoldsLastStore`), `OldCopySurvives`
(`OldCopyKept`). `CallInv` says who holds the lock where, that a get between read and write has in hand
what the file still is, and that what a migration found empty needs no migration. The latter is what
makes the marker file, written after the lock is gone, safe against puts and other migrations.
`PayloadTypeCorrect`, `SentListIsCurrent` (`SentIsCurrent`), for any number of
resolvers, keys and changes. A marker was read after the request, a list was built from files at least
as new as its marker, and the entry keeps the two together, hence a hit is at least as new as the
request that compared markers, whoever built it.

**PublishingProofs.** Of the families: `FamilyTypeCorrect`, `FullListIsOnePiece` (`FullListInOnePiece`),
for any drafts, parts, relays and number of publishes. `FamilyInv` follows the drafts on their way (being
sent, stored as teaser or index, imported, read); of the parts on a relay it claims nothing, because
another publish may replace them at any time. That every slot was filled by a part whose content is what
one index says (`ReassembledIsWhole`) is what makes the result whole.

Of the parts: `PartsAreTheCollection` (`EachNodeOnce`), for collections, weights and limits of any size
and however often chunks are packed again. The invariant (`SplitInv`) puts what was emitted, what each
call in progress has left, the innermost first, and what was not verified yet into one line of pieces
(`Line`). The line always has the whole collection (`Whole`), and no piece has a folder of which
something is in an earlier piece (`Laid`), which with the folders being nested also means that no node
is in two. A step cuts a piece in two, in order (`CutChunk`, `CutCall`), leaves out one with nothing in
it (`DropCall`), or moves one between the three (`SameCall`, `KeptChunk`, `OpenedChunk`, `NextRound`).
That a shell may go before its children needs that what is in a folder is exactly what is below its
children (`FolderIsChildren`), which is where preorder numbers come in, and `LeastOf`. A chunk that is
packed again is never a shell, for shells were measured.

Of the commands: `PublishTypeCorrect`, `UnpublishIsFinal` (`NoResurrectedListing`), `RelaysAccountedFor`
(`ListingAccountedFor`), `VisibilityIsTheUsers` (`VisibilityNeverFlips`), for any number of command slots,
contents and edits. What has to be shown is that a publish that sent before an unpublish either marks
under the generation it read, or is refused and takes its listing back; the invariant says for each stage
of a command what it has sent, what it has still to undo, and which generation it holds.
`ListingAccountedFor` takes out the crossings of section 5 (`crossed`) and what a lost OK or a failed write
left `unrecorded`: until something crosses at most one job is in flight, and what the relays serve is what
the files say but for the steps between a publish and its marker, and but for what is unrecorded
(`Sequential`).

**PeopleProofs.** Contacts: `ContactTypeCorrect`, `NoPromotedStranger` (`HandAddedOnly`), `EmptyMeansRead`
(`NoFalseEmpty`), for any number of writers. Every copy of the row that a writer has in hand
satisfies what the stored row satisfies; a save then preserves it, although it may undo another writer's
edit. Messages: `DmTypeCorrect`, `QuarantineNeverLeaks` (`QuarantineHolds`); `CursorTypeCorrect` and
`StrandedOnesWereMissed` (`StrandedWereMissed`), for overlapping polls that are given any part of
their window. `PollsTimely` says what a poll in flight may rely on: while it asks, no message yet to be
decoded is before its window, unless some poll missed it; once it has its answer, none that the answer
does not have, and that was never missed, is before the margin behind its clock, which is as far as it
will move the cursor. It needs that a non-empty set of stamps has a least element, `NatLeast`, which is proved from
well-ordering without an operator parameter. `EveryMessageKept` (`MessagesKept`) puts the two together
for `Messages`.

Topics: `TopicTypeCorrect`, `MembershipIsHonest` (`MembershipHonest`), `InvitesAdmitOnce`
(`InviteAdmitsOnce`). The invariant is `TopicInv`. Its `SlotInv` is what a command relies on between two
awaits, or between a load and a save: a membership about to be stored was accepted by a relay, a row held
over a leave is known to be late, and every invite a join counts as spent has let the user in, but for its
own. `AloneInv` holds as long as no join went astray: the one in flight knows every spent invite.
`Steady` holds as long as nothing strayed: at most one command is in flight, and what the relays show is
what the file says, or what that command is about to write. Together they give that an invite is spent
only by an admission, and admits twice only when joins went astray, and that relays and file agree at rest.

**SafetyProofs.** `PartsAreFree`: the sum of the eight modules satisfies the specification of each. A part
that rests is where its module may start, and a step of one part leaves the variables of the others, so
that every theorem above about one of them also holds of the sum that the run `safety` checks.
`PartsKeepTypes` (`PartsTypeOK`) draws the first consequence.

Assumptions on constants beyond their types, each named in its module and evaluated by every run:
`CapAssumption` (AskLedger: the cap on dials is positive, as `REDEEM_DIAL_CAP` is), `AbsenceAssumption`
(Publishing) and `NoRowAssumption` (ContactStore), by which the values for "nothing there" are outside
the sets of things that may be there.

Only model-checked: the liveness properties, since the prover does not reason about fairness and ENABLED
here, and the type part of `PendingHasItsTurn`. `PartsReassemble` says where the reader puts
a node and that the rounds come to an end: the first folds over the parts and counts siblings, the
second needs a measure that shrinks, and induction over data is out of reach of these provers.

## 7. What is not modelled, and why

Simplifications inside the modelled components:

* Plane and asks: the deletion of single files by a failing wipe (a failed wipe is one step), load
  errors of the trace file and the widening of its old keys, frame chunking, byte limits and progress
  reports, address sanitising and the home relay, and contacts that change while attempts are counted.
  Nonces are numbered in the order of sending: fresh by construction, as 128 random bits are.
* A load and a save with no await between them are one step where a lock is held over them, or where what
  is saved of the row in question does not depend on what was loaded; a scan of the folders is one step.
* Writes to disk fail where a module says so (the spend of an ask, the wipe, the marker and the fingerprint
  of a publish, the nonce file and topics.json, the memory of the auto-approve loop); others always
  succeed: the draft and the scan's specification of a publish, the marker and the generation of an
  unpublish, the contact rows, the files of the messages.
* Answers of relays may be partial for the inbox. For other reads (a teaser, a listing, the memberships of a
  topic) an answer is complete or missing. A publish whose OK was lost is modelled for listings and
  memberships, not for direct messages.
* Messages: caps and eviction of the caches, delivery of what we send, the read watermark, wrap parsing.
* Publishing: the profile teaser, notes and texts, the cadence of the watch. Topics: create, discovery
  and ranking, the channel and its announcements, the expiry of invites; two memberships never bear the
  same stamp, although stamps count seconds; another topic's commands are one kind of command
  (`JoinElsewhere`).
* OwnerPayload: an edit of the same length within one tick of the file system's clock. ListingSplit:
  sealing is additive. ListingFamily: the face of a draft does not depend on the big relay's address.
* Cryptography is perfect: what a peer signs is signed by the peer. Wrong or malformed answers appear
  as refusals or as a manifest that the gate of the asker rejects.

Components that are not modelled (`not_modelled` in `PROJECT.json`, with the reason):

* With behaviour worth a module, and next in line: the NAT probe, the relay client, the presence
  beacon, the discovery tier of the fetch driver with the ask throttle, the profile and its teaser, the
  order of restore steps, the cadence of watches.
* Sequential changes under one lock, of low priority: groups, title index and similarity.
* Pure data and encodings without state: keys, events, share codes, discovery and retraction filters.
* I/O of the operating system, views, logging, test programs, third-party code: updates, key sealing,
  settings and windows, the user interface but for the two screens named above, the harnesses, vendored
  crates.

The map covers a small part of the repository's lines. Much of the rest is tests beside the code,
encodings, views and test programs; the list above says what of it carries behaviour.

## 8. Plan

What a continuation would take up, in order:

1. `RelayClient` and `NatProbe`: get-or-connect and probe slots with their read, check, claim across
   awaits, composed with the identity changes of `PlaneLifecycle`.
2. The discovery tier of the fetch driver, with the one-per-second slot of asks and tickets shared by
   everything that sends.
3. `AutoApprove` composed with `FetchWave`: the asker asks again with a new nonce every 300 s while the
   owner paces per pair.
4. Restore: its steps and a failure between them, with the stores of the modules above.
5. An abstract register that the locked stores implement and the unlocked ones do not, with the proof
   for the locked ones.
6. Proofs: the order of the enumeration queue.

Where instances agree, new questions join an existing composition, so that the whole suite stays quick
enough to be run on every change.

## 9. How to run

    tlc -workers 2 -config safety.cfg MCSafety
    tlapm CacheProofs.tla

Every `.cfg` is run with the module that `PROJECT.json` names for it. The longest run takes two to four
minutes with two workers. Proofs of one module take from seconds to a few minutes.
