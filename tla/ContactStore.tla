---------------------------- MODULE ContactStore ----------------------------
(***************************************************************************)
(* One contact's file in the data directory and every command that writes  *)
(* it (commands/browse.rs, commands/private.rs, commands/online.rs,        *)
(* commands/topics.rs, commands/chat.rs, enumeration_queue.rs).            *)
(*                                                                         *)
(* No lock guards the file. Each writer loads the row, may ask the network *)
(* for seconds, and writes the WHOLE row back: a save is a merge of what   *)
(* the writer read and what it learnt, and whatever another writer stored  *)
(* in between is overwritten. save_contact itself reads the row once more, *)
(* for the presence stamp alone.                                           *)
(***************************************************************************)
EXTENDS Naturals, FiniteSets

CONSTANTS
    MaxWriters,   \* commands that may be in flight at once
    MaxSeen,      \* presence stamps are 1 .. MaxSeen, and 0 is none
    MaxCommands,  \* bound of the model: commands started in one run
    NoRow

ASSUME ContactAssumption ==
    MaxWriters \in Nat /\ MaxSeen \in Nat /\ MaxCommands \in Nat

VARIABLES
    row,        \* contacts/<hash>.json, or NoRow
    slot,       \* the writer in each slot
    commands,   \* commands still to come
    byHand,     \* history: the user has followed or accepted this peer
    readEmpty   \* history: some read found that the peer publishes nothing

contactVars == <<row, slot, commands, byHand, readEmpty>>

Writers == 1..MaxWriters

\* The background enumeration queue is a writer of its own.
Queue == 0

Slots == Writers \cup {Queue}

ListingsStates == {"Pending", "Fetched", "Sealed", "FetchFailed"}

\* CachedPeer: the user's petname and tags, the browse key, the listings, what
\* is known of them, who added the row, and when a beacon was last seen.
Rows == [label : BOOLEAN, key : BOOLEAN, listings : BOOLEAN,
         state : ListingsStates, source : {"Manual", "Topic"}, seen : 0..MaxSeen]

\* The absence of a row is not a row.
ASSUME NoRowAssumption == NoRow \notin Rows

Stub(source) == [label |-> FALSE, key |-> FALSE, listings |-> FALSE,
                 state |-> "Pending", source |-> source, seen |-> 0]

Idle == [op |-> "none", pc |-> "idle", read |-> NoRow, new |-> NoRow, code |-> FALSE]

Ops == {"none", "refresh", "follow", "edit", "grant", "presence", "accept", "topic", "defer"}

SlotStates == [op : Ops, pc : {"idle", "trusted", "asking", "merging", "saving", "writing"},
               read : Rows \cup {NoRow}, new : Rows \cup {NoRow}, code : BOOLEAN]

ContactTypeOK ==
    /\ row \in Rows \cup {NoRow}
    /\ slot \in [Slots -> SlotStates]
    /\ commands \in 0..MaxCommands
    /\ byHand \in BOOLEAN /\ readEmpty \in BOOLEAN

\* A peer the user follows, with all that a row may hold but a stamp.
Followed == [label |-> TRUE, key |-> TRUE, listings |-> TRUE,
             state |-> "Fetched", source |-> "Manual", seen |-> 0]

\* The session starts with the row an earlier one left.
ContactInit ==
    /\ row \in {NoRow, Stub("Topic"), Followed}
    /\ slot = [s \in Slots |-> Idle]
    /\ commands = MaxCommands
    /\ byHand = (row = Followed)
    /\ readEmpty = FALSE

-----------------------------------------------------------------------------
(* Steps the writers share *)

Known == row # NoRow

Free(s) == slot[s].pc = "idle"

\* A command of the user, of a poll or of a topic starts in slot s, the first
\* that is free.
Starts(s) ==
    /\ s \in Writers
    /\ Free(s)
    /\ \A t \in Writers : Free(t) => s <= t
    /\ commands > 0
    /\ commands' = commands - 1

Put(s, op, pc, read, new, code) ==
    slot' = [slot EXCEPT ![s] = [op |-> op, pc |-> pc, read |-> read, new |-> new, code |-> code]]

\* The row the writer of slot s has decided to save.
Decide(s, op, new) == Put(s, op, "saving", row, new, FALSE)

\* save_contact: a row without a presence stamp takes the one on disk.
Stored(new) ==
    IF new.seen = 0 /\ Known THEN [new EXCEPT !.seen = row.seen] ELSE new

SaveRead(s) ==
    /\ slot[s].pc = "saving"
    /\ slot' = [slot EXCEPT ![s].pc = "writing", ![s].new = Stored(slot[s].new)]
    /\ UNCHANGED <<row, commands, byHand, readEmpty>>

SaveWrite(s) ==
    /\ slot[s].pc = "writing"
    /\ row' = slot[s].new
    /\ slot' = [slot EXCEPT ![s] = Idle]
    /\ UNCHANGED <<commands, byHand, readEmpty>>

-----------------------------------------------------------------------------
(* Commands without a network answer *)

\* set_contact_tags, set_contact_petname.
Edit(s) ==
    /\ Starts(s)
    /\ Known
    /\ Decide(s, "edit", [row EXCEPT !.label = TRUE])
    /\ UNCHANGED <<row, byHand, readEmpty>>

\* persist_presence: a late beacon does not move the stamp back.
Presence(s) ==
    /\ Starts(s)
    /\ Known
    /\ \E t \in 1..MaxSeen :
          /\ t > row.seen
          /\ Decide(s, "presence", [row EXCEPT !.seen = t])
    /\ UNCHANGED <<row, byHand, readEmpty>>

\* contact_author_allowlist: who may hand over a browse key.
Trusts == Known /\ row.source = "Manual"

\* apply_grant_to_contact: the allowlist first, then the row.
GrantTrusted(s) ==
    /\ Starts(s)
    /\ Trusts
    /\ Put(s, "grant", "trusted", NoRow, NoRow, FALSE)
    /\ UNCHANGED <<row, byHand, readEmpty>>

GrantLoads(s) ==
    /\ slot[s].pc = "trusted"
    /\ IF Known
       THEN Decide(s, "grant", [row EXCEPT !.key = TRUE])
       ELSE slot' = [slot EXCEPT ![s] = Idle]
    /\ UNCHANGED <<row, commands, byHand, readEmpty>>

TopicStub == Stub("Topic")

\* upsert_topic_contact: a contact that exists is left alone.
MeetInTopic(s) ==
    /\ Starts(s)
    /\ ~Known
    /\ Decide(s, "topic", TopicStub)
    /\ UNCHANGED <<row, byHand, readEmpty>>

\* The row dm_request_accept_inner builds: everything of an existing row but
\* its presence stamp, which the save brings back.
Accepted == IF Known THEN [row EXCEPT !.seen = 0] ELSE Stub("Manual")

\* The user accepts the peer's request and may give a petname.
Accept(s) ==
    /\ Starts(s)
    /\ \E petname \in BOOLEAN :
          Decide(s, "accept", [Accepted EXCEPT !.label = @ \/ petname])
    /\ byHand' = TRUE
    /\ UNCHANGED <<row, readEmpty>>

\* unfollow_contact.
Unfollow ==
    /\ commands > 0
    /\ commands' = commands - 1
    /\ Known
    /\ row' = NoRow
    /\ UNCHANGED <<slot, byHand, readEmpty>>

-----------------------------------------------------------------------------
(* Commands that resolve the peer over the network *)

\* refresh_contact_inner: the share code is rebuilt from the row it loads.
StartRefresh(s) ==
    /\ Known
    /\ Put(s, "refresh", "asking", row, NoRow, row.key)

Refresh(s) ==
    /\ Starts(s)
    /\ StartRefresh(s)
    /\ UNCHANGED <<row, byHand, readEmpty>>

\* follow, paste_key: the code the user pastes may carry a browse key.
Follow(s) ==
    /\ Starts(s)
    /\ \E code \in BOOLEAN : Put(s, "follow", "asking", NoRow, NoRow, code)
    /\ UNCHANGED <<row, byHand, readEmpty>>

\* What the read of the peer's listings says. Without a key, listings that
\* exist are always sealed.
Reads(keyed) ==
    {"empty", "sealed", "failed"} \cup (IF keyed THEN {"some"} ELSE {})

\* Mutant of StateOf, for NoFalseEmpty.
AlwaysFetched(read) == "Fetched"

StateOf(read) ==
    CASE read \in {"some", "empty"} -> "Fetched"
      [] read = "sealed" -> "Sealed"
      [] OTHER -> "FetchFailed"

\* reconciled_listing_collections: a keyed read that was sealed or failed keeps
\* the listings the row has; only a whole read may empty them.
ListingsAfter(keyed, read) ==
    \/ read = "some"
    \/ keyed /\ read \in {"sealed", "failed"} /\ Known /\ row.listings

\* The row resolve_peer returns. With no teaser it falls back on the stored
\* row, and adds to it what it did learn.
Resolved(code, read, teaser) ==
    IF ~teaser /\ Known
    THEN [row EXCEPT !.key = @ \/ code,
                     !.listings = @ \/ ListingsAfter(code, read),
                     !.state = StateOf(read)]
    ELSE [label |-> FALSE, key |-> code, listings |-> ListingsAfter(code, read),
          state |-> StateOf(read), source |-> "Manual", seen |-> 0]

\* Mutant of Refreshed, for HandAddedOnly.
RefreshedAsManual(read, new) == [new EXCEPT !.label = @ \/ read.label]

\* save_refreshed_contact: the label and the source are those of the row the
\* refresh loaded when it began.
Refreshed(read, new) ==
    [new EXCEPT !.label = @ \/ read.label, !.source = read.source]

\* The network answers. A follow without a teaser is refused when the stored
\* row has no profile either.
Answer(s) ==
    /\ slot[s].pc = "asking"
    /\ \E read \in Reads(slot[s].code), teaser \in BOOLEAN :
          LET new == Resolved(slot[s].code, read, teaser)
          IN /\ readEmpty' = (readEmpty \/ read = "empty")
             /\ \/ /\ slot[s].op = "refresh"
                   /\ slot' = [slot EXCEPT ![s].pc = "saving",
                                           ![s].new = Refreshed(slot[s].read, new)]
                   /\ UNCHANGED byHand
                \/ /\ slot[s].op = "follow"
                   /\ slot' = [slot EXCEPT ![s].pc = "merging", ![s].new = new]
                   /\ byHand' = TRUE
                \/ /\ slot[s].op = "follow" /\ ~teaser
                   /\ slot' = [slot EXCEPT ![s] = Idle]
                   /\ UNCHANGED byHand
    /\ UNCHANGED <<row, commands>>

\* merge_local_state: what only the stored row knows.
Merged(new) ==
    [new EXCEPT !.label = @ \/ row.label, !.source = row.source,
                !.key = @ \/ row.key, !.listings = @ \/ row.listings]

\* save_followed_peer: the user may type a petname, which wins.
Merge(s) ==
    /\ slot[s].pc = "merging"
    /\ \E petname \in BOOLEAN :
          LET new == [slot[s].new EXCEPT !.label = @ \/ petname]
          IN slot' = [slot EXCEPT ![s].pc = "saving", ![s].read = row,
                                  ![s].new = IF Known THEN Merged(new) ELSE new]
    /\ UNCHANGED <<row, commands, byHand, readEmpty>>

\* No relay client, or no answer at all: the command fails, nothing is written.
AnswerFails(s) ==
    /\ slot[s].pc = "asking"
    /\ s \in Writers
    /\ slot' = [slot EXCEPT ![s] = Idle]
    /\ UNCHANGED <<row, commands, byHand, readEmpty>>

-----------------------------------------------------------------------------
(* The enumeration queue *)

\* pick_next_pending.
PicksRow == Known /\ row.state = "Pending"

\* enumerate_next_pending.
Enumerate ==
    /\ Free(Queue)
    /\ PicksRow
    /\ StartRefresh(Queue)
    /\ UNCHANGED <<row, commands, byHand, readEmpty>>

\* The resolve failed: the row goes to the back of the queue, as it stands now.
Defer ==
    /\ slot[Queue].pc = "asking"
    /\ IF Known THEN Decide(Queue, "defer", row)
                ELSE slot' = [slot EXCEPT ![Queue] = Idle]
    /\ UNCHANGED <<row, commands, byHand, readEmpty>>

-----------------------------------------------------------------------------
WriterStep(s) ==
    \/ Edit(s) \/ Presence(s) \/ GrantTrusted(s) \/ GrantLoads(s)
    \/ MeetInTopic(s) \/ Accept(s) \/ Refresh(s) \/ Follow(s)
    \/ Answer(s) \/ AnswerFails(s) \/ Merge(s) \/ SaveRead(s) \/ SaveWrite(s)

ContactNext ==
    \/ \E s \in Slots : WriterStep(s)
    \/ Unfollow \/ Enumerate \/ Defer

ContactSpec == ContactInit /\ [][ContactNext]_contactVars

-----------------------------------------------------------------------------
(* Properties *)

\* Only a person makes a contact Manual: no refresh, topic, grant or beacon
\* promotes a stranger into the trust gate of grants and private listings
\* (contact_author_allowlist), whichever of them write over each other.
HandAddedOnly == Known /\ row.source = "Manual" => byHand

\* A row that says "they publish nothing" says so because a read found nothing,
\* and not because a stub, a failed read or a lost write left it empty.
NoFalseEmpty ==
    Known /\ row.state = "Fetched" /\ ~row.listings => readEmpty

=============================================================================
