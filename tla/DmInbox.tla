------------------------------ MODULE DmInbox ------------------------------
(***************************************************************************)
(* What becomes of one peer's messages: the poll that routes them, the     *)
(* Request inbox of strangers, and the user's accept, decline, block and   *)
(* unblock (commands/chat.rs, dm_quarantine.rs, dm_cache_store.rs).        *)
(*                                                                         *)
(* The state is in four files under four locks, and a command or a poll    *)
(* that changes several of them takes the locks one after another: other   *)
(* commands, and a crash, come in between. A step below is one critical    *)
(* section. The poll holds DM_CACHE_LOCK over two steps, since it reads    *)
(* the other files and decodes while it holds it.                          *)
(***************************************************************************)
EXTENDS Naturals, FiniteSets

CONSTANTS
    Letters,        \* the peer's messages
    Echo,           \* a message of our own to the peer
    CommandSlots,   \* the user's commands that may overlap
    MaxUserActs,    \* bound of the model: commands and changes in one run
    MaxDmCrashes    \* bound of the model

ASSUME DmAssumption ==
    Echo \notin Letters /\ MaxUserActs \in Nat /\ MaxDmCrashes \in Nat

VARIABLES
    posted,       \* messages of the peer that a relay has
    dmCache,      \* dm_cache.json: the messages kept and the wraps decoded
    bucket,       \* dm_requests.json: the peer's Request bucket, {} for none
    declined,     \* dm_declined.json has the peer
    blocked,      \* dm_blocked.json has the peer
    contact,      \* the peer is a stored contact
    allowDms,     \* the allow_dms setting
    dmPoll,       \* the poll in flight
    dmCommand,    \* [CommandSlots -> the command in flight]
    acts,
    dmCrashes,
    owed,         \* history: messages routed to a file and not discarded since
    dropped,      \* history: messages decoded while their sender was unwanted
    befriended    \* history: the peer was a contact at some time

dmFiles == <<dmCache, bucket, declined, blocked, contact, allowDms>>
dmHistory == <<owed, dropped, befriended>>
dmVars == <<posted, dmFiles, dmPoll, dmCommand, acts, dmCrashes, dmHistory>>

Caches == [messages : SUBSET (Letters \cup {Echo}), seen : SUBSET (Letters \cup {Echo})]

\* DmClassifyCtx.
Views == [contact : BOOLEAN, blocked : BOOLEAN, declined : BOOLEAN, allow : BOOLEAN]

NowView == [contact |-> contact, blocked |-> blocked, declined |-> declined, allow |-> allowDms]

DmPolls ==
    [pc : {"idle", "fetched", "merging", "filing"}, batch : SUBSET Letters,
     view : Views, cache : Caches, requests : SUBSET Letters]

NoDmPoll ==
    [pc |-> "idle", batch |-> {}, requests |-> {},
     view |-> [contact |-> FALSE, blocked |-> FALSE, declined |-> FALSE, allow |-> FALSE],
     cache |-> [messages |-> {}, seen |-> {}]]

NoDmCommand == [op |-> "none", pc |-> "idle", adds |-> {}]

DmTypeOK ==
    /\ posted \subseteq Letters
    /\ dmCache \in Caches
    /\ bucket \subseteq Letters
    /\ declined \in BOOLEAN /\ blocked \in BOOLEAN /\ contact \in BOOLEAN
    /\ allowDms \in BOOLEAN
    /\ dmPoll \in DmPolls
    /\ dmCommand \in [CommandSlots ->
          [op : {"none", "accept", "decline", "block"},
           pc : {"idle", "draining", "relating", "keeping"}, adds : SUBSET Letters]]
    /\ \A c \in CommandSlots : dmCommand[c].pc = "idle" => dmCommand[c] = NoDmCommand
    /\ acts \in 0..MaxUserActs /\ dmCrashes \in 0..MaxDmCrashes
    /\ owed \subseteq Letters \cup {Echo} /\ dropped \subseteq Letters
    /\ befriended \in BOOLEAN

DmInit ==
    /\ posted = {}
    /\ dmCache = [messages |-> {}, seen |-> {}]
    /\ bucket = {}
    /\ declined = FALSE /\ blocked = FALSE /\ contact = FALSE
    /\ allowDms = TRUE
    /\ dmPoll = NoDmPoll
    /\ dmCommand = [c \in CommandSlots |-> NoDmCommand]
    /\ acts = 0 /\ dmCrashes = 0
    /\ owed = {} /\ dropped = {}
    /\ befriended = FALSE

PostDm(w) ==
    /\ w \notin posted
    /\ posted' = posted \cup {w}
    /\ UNCHANGED <<dmFiles, dmPoll, dmCommand, acts, dmCrashes, dmHistory>>

-----------------------------------------------------------------------------
(* get_messages *)

\* Mutant of CacheLockFree, for MessagesKept.
CacheUnlocked == TRUE

\* DM_CACHE_LOCK: the poll has it from its snapshot to its save.
CacheLockFree == dmPoll.pc # "merging"

\* The relays bring some of what they have; a poll that brings nothing changes nothing.
FetchDms ==
    /\ dmPoll.pc = "idle"
    /\ \E batch \in SUBSET posted :
          /\ batch # {}
          /\ dmPoll' = [NoDmPoll EXCEPT !.pc = "fetched", !.batch = batch]
    /\ UNCHANGED <<posted, dmFiles, dmCommand, acts, dmCrashes, dmHistory>>

\* After the fetch, with the locks: reload the cache, and only then take the
\* view the messages are classified under.
SnapshotDms ==
    /\ dmPoll.pc = "fetched"
    /\ dmPoll' = [dmPoll EXCEPT !.pc = "merging", !.view = NowView, !.cache = dmCache]
    /\ UNCHANGED <<posted, dmFiles, dmCommand, acts, dmCrashes, dmHistory>>

\* Mutant of Route, for QuarantineHolds.
RouteContactFirst(v) ==
    CASE v.contact -> "Inbox"
      [] v.allow /\ ~v.declined -> "Request"
      [] OTHER -> "Drop"

\* route_dm: blocked supersedes everything, and a contact was never declined.
Route(v) ==
    CASE v.blocked -> "Drop"
      [] ~v.blocked /\ v.contact -> "Inbox"
      [] ~v.blocked /\ ~v.contact /\ ~v.declined /\ v.allow -> "Request"
      [] OTHER -> "Drop"

Unwanted(v) == v.blocked \/ (~v.contact /\ (v.declined \/ ~v.allow))

\* merge_wraps_into_cache and the save, which ends DM_CACHE_LOCK: every wrap
\* decoded is remembered, whatever its route.
MergeDms ==
    /\ dmPoll.pc = "merging"
    /\ LET new == dmPoll.batch \ dmPoll.cache.seen
           inbox == IF Route(dmPoll.view) = "Inbox" THEN new ELSE {}
           requests == IF Route(dmPoll.view) = "Request" THEN new ELSE {}
       IN /\ dmCache' = [messages |-> dmPoll.cache.messages \cup inbox,
                         seen |-> dmPoll.cache.seen \cup new]
          /\ dmPoll' = IF requests = {} THEN NoDmPoll
                       ELSE [NoDmPoll EXCEPT !.pc = "filing", !.requests = requests]
          /\ owed' = owed \cup inbox \cup requests
          /\ dropped' = dropped \cup (IF Unwanted(dmPoll.view) THEN new ELSE {})
    /\ UNCHANGED <<posted, bucket, declined, blocked, contact, allowDms, dmCommand, acts,
                   dmCrashes, befriended>>

\* merge_into_requests, under DM_REQUESTS_LOCK.
FileRequests ==
    /\ dmPoll.pc = "filing"
    /\ bucket' = bucket \cup dmPoll.requests
    /\ dmPoll' = NoDmPoll
    /\ UNCHANGED <<posted, dmCache, declined, blocked, contact, allowDms, dmCommand, acts,
                   dmCrashes, owed, dropped, befriended>>

-----------------------------------------------------------------------------
(* The user's commands *)

UserActs == acts < MaxUserActs /\ acts' = acts + 1

Begins(c, op, pc, adds) ==
    /\ UserActs
    /\ dmCommand[c].pc = "idle"
    /\ dmCommand' = [dmCommand EXCEPT ![c] = [op |-> op, pc |-> pc, adds |-> adds]]

Continues(c, pc) == dmCommand' = [dmCommand EXCEPT ![c].pc = pc]

Ends(c) == dmCommand' = [dmCommand EXCEPT ![c] = NoDmCommand]

\* dm_request_accept: first the contact, so that later polls route to the inbox.
AcceptContact(c) ==
    /\ bucket # {}
    /\ Begins(c, "accept", "draining", {})
    /\ contact' = TRUE
    /\ befriended' = TRUE
    /\ UNCHANGED <<posted, dmCache, bucket, declined, blocked, allowDms, dmPoll, dmCrashes,
                   owed, dropped>>

AcceptDrains(c) ==
    /\ dmCommand[c].pc = "draining"
    /\ dmCommand' = [dmCommand EXCEPT ![c].pc = "relating", ![c].adds = bucket]
    /\ bucket' = {}
    /\ UNCHANGED <<posted, dmCache, declined, blocked, contact, allowDms, dmPoll, acts,
                   dmCrashes, dmHistory>>

AcceptUndeclines(c) ==
    /\ dmCommand[c].op = "accept" /\ dmCommand[c].pc = "relating"
    /\ declined' = FALSE
    /\ IF dmCommand[c].adds = {} THEN Ends(c) ELSE Continues(c, "keeping")
    /\ UNCHANGED <<posted, dmCache, bucket, blocked, contact, allowDms, dmPoll, acts,
                   dmCrashes, dmHistory>>

\* The bucket's messages become the conversation's history: their wraps are
\* seen, and no poll would bring them again.
Migrated(c) == dmCache.messages \cup dmCommand[c].adds

AcceptKeeps(c) ==
    /\ dmCommand[c].pc = "keeping"
    /\ CacheLockFree
    /\ dmCache' = [dmCache EXCEPT !.messages = Migrated(c)]
    /\ Ends(c)
    /\ UNCHANGED <<posted, bucket, declined, blocked, contact, allowDms, dmPoll, acts,
                   dmCrashes, dmHistory>>

Discarded == {}

\* dm_request_decline and dm_block delete the bucket first.
Discard(c, op) ==
    /\ Begins(c, op, "relating", {})
    /\ bucket' = Discarded
    /\ owed' = owed \ (bucket \ dmCache.messages)
    /\ UNCHANGED <<posted, dmCache, declined, blocked, contact, allowDms, dmPoll, dmCrashes,
                   dropped, befriended>>

\* blocked supersedes decline: consulted under both locks.
DeclineRecorded == IF blocked THEN declined ELSE TRUE

DeclineRelates(c) ==
    /\ dmCommand[c].op = "decline" /\ dmCommand[c].pc = "relating"
    /\ declined' = DeclineRecorded
    /\ Ends(c)
    /\ UNCHANGED <<posted, dmCache, bucket, blocked, contact, allowDms, dmPoll, acts,
                   dmCrashes, owed, dropped, befriended>>

BlockRelates(c) ==
    /\ dmCommand[c].op = "block" /\ dmCommand[c].pc = "relating"
    /\ declined' = FALSE
    /\ blocked' = TRUE
    /\ Ends(c)
    /\ UNCHANGED <<posted, dmCache, bucket, contact, allowDms, dmPoll, acts, dmCrashes,
                   owed, dropped, befriended>>

Unblock ==
    /\ UserActs
    /\ blocked
    /\ blocked' = FALSE
    /\ UNCHANGED <<posted, dmCache, bucket, declined, contact, allowDms, dmPoll, dmCommand,
                   dmCrashes, dmHistory>>

\* follow and unfollow_contact; set_settings.
ContactChanges ==
    /\ UserActs
    /\ contact' = ~contact
    /\ befriended' = TRUE
    /\ UNCHANGED <<posted, dmCache, bucket, declined, blocked, allowDms, dmPoll, dmCommand,
                   dmCrashes, owed, dropped>>

SettingChanges ==
    /\ UserActs
    /\ allowDms' = ~allowDms
    /\ UNCHANGED <<posted, dmCache, bucket, declined, blocked, contact, dmPoll, dmCommand,
                   dmCrashes, dmHistory>>

\* persist_sent_dm: the echo of our own message, once.
PersistEcho ==
    /\ UserActs
    /\ CacheLockFree
    /\ Echo \notin dmCache.seen
    /\ dmCache' = [messages |-> dmCache.messages \cup {Echo}, seen |-> dmCache.seen \cup {Echo}]
    /\ owed' = owed \cup {Echo}
    /\ UNCHANGED <<posted, bucket, declined, blocked, contact, allowDms, dmPoll, dmCommand,
                   dmCrashes, dropped, befriended>>

DmCrash ==
    /\ dmCrashes < MaxDmCrashes
    /\ dmCrashes' = dmCrashes + 1
    /\ dmPoll' = NoDmPoll
    /\ dmCommand' = [c \in CommandSlots |-> NoDmCommand]
    /\ UNCHANGED <<posted, dmFiles, acts, dmHistory>>

DmNext ==
    \/ \E w \in Letters : PostDm(w)
    \/ FetchDms \/ SnapshotDms \/ MergeDms \/ FileRequests
    \/ \E c \in CommandSlots :
          \/ AcceptContact(c) \/ AcceptDrains(c) \/ AcceptUndeclines(c) \/ AcceptKeeps(c)
          \/ \E op \in {"decline", "block"} : Discard(c, op)
          \/ DeclineRelates(c) \/ BlockRelates(c)
    \/ Unblock \/ ContactChanges \/ SettingChanges \/ PersistEcho \/ DmCrash

DmSpec == DmInit /\ [][DmNext]_dmVars

-----------------------------------------------------------------------------
(* Properties *)

DmInFlight == dmPoll.requests \cup UNION {dmCommand[c].adds : c \in CommandSlots}

Kept == dmCache.messages \cup bucket

\* While the process lives no message is lost between the files: what was
\* decoded for the user is in the conversation, in the Request bucket, or in the
\* hands of the poll or the accept that moves it, until the user discards it.
KeptUnlessCrashed == dmCrashes = 0 => owed \subseteq Kept \cup DmInFlight

\* The same, crashes or not: a wrap in the seen ledger has its message stored
\* (merge_wraps_into_cache: "decoded on a prior poll; the message IS in the cache").
NoMessageLost == owed \subseteq Kept \cup DmInFlight

\* A stranger's message is never among the conversations, which hold only what
\* was decoded for a contact or accepted by the user; and what was decoded while
\* its sender was blocked, declined or shut out does not surface later, whatever
\* the user does next (cached_inbox: "stays out"). No sender is both blocked and
\* declined, however the two commands overlap: an unblock would otherwise reveal a
\* silent decline.
QuarantineHolds ==
    /\ dmCache.messages \ {Echo} # {} => befriended
    /\ dropped \cap (Kept \cup DmInFlight) = {}
    /\ ~(blocked /\ declined)

=============================================================================
