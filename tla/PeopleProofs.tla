---------------------------- MODULE PeopleProofs ----------------------------
(***************************************************************************)
(* What TLAPS proves of a user's dealings with others: the row of a        *)
(* contact (ContactStore), the messages and the quarantine of strangers'   *)
(* (DmInbox), and the window of the relays that a poll reads               *)
(* (InboxCursor), for any number of writers, commands, polls, messages,    *)
(* restarts and crashes; and the membership of a topic (Topics), for any   *)
(* number of overlapping commands, invites and ends of the app: its types, *)
(* that the stored membership is honest, and that an invite admits at most *)
(* once when joins do not overlap.                                         *)
(***************************************************************************)
EXTENDS ContactStore, Messages, Topics, FiniteSetTheorems, WellFoundedInduction, TLAPS

-----------------------------------------------------------------------------
(* One contact's row: ContactStore *)

\* A row that may be on disk, given whether the user has added the contact by hand and
\* whether some read has found that it publishes nothing.
Honest(r, hand, empty) ==
    /\ r \in Rows
    /\ r.source = "Manual" => hand = TRUE
    /\ r.state = "Fetched" /\ r.listings = FALSE => empty = TRUE

\* The rows a writer has read or will save are honest too, and it has those it needs.
HonestWriter(w, hand, empty) ==
    /\ w \in SlotStates
    /\ w.read # NoRow => Honest(w.read, hand, empty)
    /\ w.new # NoRow => Honest(w.new, hand, empty)
    /\ w.pc = "asking" /\ w.op = "refresh" => w.read # NoRow
    /\ w.pc \in {"merging", "saving", "writing"} => w.new # NoRow

ContactInv ==
    /\ ContactTypeOK
    /\ Known => Honest(row, byHand, readEmpty)
    /\ \A s \in Slots : HonestWriter(slot[s], byHand, readEmpty)

LEMMA IdleWriter ==
    ASSUME NEW hand, NEW empty
    PROVE  HonestWriter(Idle, hand, empty)
BY DEF HonestWriter, Idle, SlotStates, Ops

LEMMA StubsHonest ==
    ASSUME NEW source \in {"Manual", "Topic"}, NEW hand, NEW empty,
           source = "Manual" => hand = TRUE
    PROVE  Honest(Stub(source), hand, empty)
BY ContactAssumption DEF Stub, Rows, ListingsStates, Honest

\* What a command puts in its slot is a writer.
LEMMA NewWriter ==
    ASSUME NEW op \in Ops, NEW pc \in {"trusted", "asking", "merging", "saving", "writing"},
           NEW read, NEW new, NEW code \in BOOLEAN, NEW hand, NEW empty,
           read = NoRow \/ Honest(read, hand, empty),
           new = NoRow \/ Honest(new, hand, empty),
           pc = "asking" /\ op = "refresh" => read # NoRow,
           pc \in {"merging", "saving", "writing"} => new # NoRow
    PROVE  HonestWriter([op |-> op, pc |-> pc, read |-> read, new |-> new, code |-> code],
                        hand, empty)
BY DEF HonestWriter, SlotStates, Honest

LEMMA InitContactInv == ContactInit => ContactInv
<1> SUFFICES ASSUME ContactInit PROVE ContactInv
    OBVIOUS
<1>1. row # NoRow => row \in Rows /\ Honest(row, byHand, readEmpty)
  <2>1. Honest(Stub("Topic"), byHand, readEmpty)
      BY StubsHonest
  <2>2. Followed \in Rows /\ Followed.listings = TRUE
      BY ContactAssumption DEF Followed, Rows, ListingsStates
  <2>3. row = Followed => byHand = TRUE
      BY DEF ContactInit
  <2> QED BY <2>1, <2>2, <2>3 DEF ContactInit, Honest
<1>2. \A s \in Slots : slot[s] = Idle
    BY DEF ContactInit
<1>3. ContactTypeOK
  <2>1. byHand \in BOOLEAN /\ readEmpty \in BOOLEAN
      BY DEF ContactInit
  <2>2. commands \in 0..MaxCommands /\ row \in Rows \cup {NoRow}
      BY <1>1, ContactAssumption DEF ContactInit
  <2>3. slot \in [Slots -> SlotStates]
      BY IdleWriter DEF ContactInit, HonestWriter
  <2> QED BY <2>1, <2>2, <2>3 DEF ContactTypeOK
<1> QED BY <1>1, <1>2, <1>3, IdleWriter DEF ContactInv, Known

\* What the user does and the reads find only ever makes more rows honest.
Learns ==
    /\ byHand' \in BOOLEAN /\ readEmpty' \in BOOLEAN
    /\ byHand = TRUE => byHand' = TRUE
    /\ readEmpty = TRUE => readEmpty' = TRUE

LEMMA HonestStays ==
    ASSUME Learns, NEW r, Honest(r, byHand, readEmpty)
    PROVE  Honest(r, byHand', readEmpty')
BY DEF Honest, Learns

LEMMA WriterStays ==
    ASSUME Learns, NEW w, HonestWriter(w, byHand, readEmpty)
    PROVE  HonestWriter(w, byHand', readEmpty')
BY HonestStays DEF HonestWriter

\* A step that gives one slot a writer, and leaves the row or stores an honest one.
LEMMA WriterMoves ==
    ASSUME ContactInv, Learns, NEW s \in Slots, NEW w, slot' = [slot EXCEPT ![s] = w],
           HonestWriter(w, byHand', readEmpty'), commands' \in 0..MaxCommands,
           row' = row \/ Honest(row', byHand', readEmpty')
    PROVE  ContactInv'
<1>1. \A t \in Slots : slot'[t] = IF t = s THEN w ELSE slot[t]
    BY DEF ContactInv, ContactTypeOK
<1>2. ASSUME NEW t \in Slots PROVE HonestWriter(slot'[t], byHand', readEmpty')
  <2>1. CASE t = s
      BY <1>1, <2>1
  <2>2. CASE t # s
    <3>1. HonestWriter(slot[t], byHand, readEmpty)
        BY DEF ContactInv
    <3>2. slot'[t] = slot[t]
        BY <1>1, <2>2
    <3> QED BY <3>1, <3>2, WriterStays
  <2> QED BY <2>1, <2>2
<1>3. slot' \in [Slots -> SlotStates]
  <2>1. w \in SlotStates
      BY DEF HonestWriter
  <2> QED BY <2>1 DEF ContactInv, ContactTypeOK
<1>4. row' \in Rows \cup {NoRow} /\ (row' # NoRow => Honest(row', byHand', readEmpty'))
    BY HonestStays DEF ContactInv, ContactTypeOK, Known, Honest
<1>5. ContactTypeOK'
    BY <1>3, <1>4 DEF ContactTypeOK, Learns
<1> QED BY <1>2, <1>4, <1>5 DEF ContactInv, Known

LEMMA WriterFacts ==
    ASSUME ContactInv, NEW s \in Slots
    PROVE  /\ slot[s] \in SlotStates /\ HonestWriter(slot[s], byHand, readEmpty)
           /\ commands \in 0..MaxCommands
           /\ Known => row \in Rows /\ Honest(row, byHand, readEmpty) /\ row # NoRow
           /\ UNCHANGED <<byHand, readEmpty>> => Learns
           /\ Starts(s) => commands' \in 0..MaxCommands
           /\ HonestWriter(Idle, byHand', readEmpty')
<1>1. slot[s] \in SlotStates /\ commands \in 0..MaxCommands /\ byHand \in BOOLEAN
      /\ readEmpty \in BOOLEAN
    BY DEF ContactInv, ContactTypeOK
<1>2. Known => row \in Rows /\ Honest(row, byHand, readEmpty) /\ row # NoRow
    BY DEF ContactInv, ContactTypeOK, Known
<1>3. Starts(s) => commands' \in 0..MaxCommands
    BY <1>1, ContactAssumption DEF Starts
<1> QED BY <1>1, <1>2, <1>3, IdleWriter DEF ContactInv, Learns

LEMMA SaveStepContact ==
    ASSUME ContactInv, NEW s \in Slots, SaveRead(s) \/ SaveWrite(s)
    PROVE  ContactInv'
<1>0. UNCHANGED <<commands, byHand, readEmpty>>
    BY DEF SaveRead, SaveWrite
<1>1. CASE SaveRead(s)
  <2> DEFINE new == Stored(slot[s].new)
             w == [slot[s] EXCEPT !.pc = "writing", !.new = new]
  <2>1. slot[s].pc = "saving" /\ slot' = [slot EXCEPT ![s] = w] /\ row' = row
    <3>1. slot[s].pc = "saving" /\ row' = row
          /\ slot' = [slot EXCEPT ![s].pc = "writing", ![s].new = Stored(slot[s].new)]
        BY <1>1 DEF SaveRead
    <3> QED BY <3>1
  <2>2. slot[s].new # NoRow /\ Honest(slot[s].new, byHand, readEmpty)
      BY <2>1, WriterFacts DEF HonestWriter
  <2>3. Honest(new, byHand, readEmpty)
    <3>1. Known => row \in Rows
        BY WriterFacts
    <3> QED BY <2>2, <3>1 DEF Stored, Honest, Rows
  <2>4. HonestWriter(w, byHand, readEmpty)
    <3>1. new \in Rows /\ new # NoRow
        BY <2>3, NoRowAssumption DEF Honest
    <3> HIDE DEF new
    <3>2. w \in SlotStates /\ w.read = slot[s].read /\ w.new = new /\ w.pc = "writing"
        BY <3>1, WriterFacts DEF SlotStates
    <3> QED BY <2>3, <3>1, <3>2, WriterFacts DEF HonestWriter
  <2> HIDE DEF w
  <2> QED BY <1>0, <2>1, <2>4, WriterFacts, WriterMoves
<1>2. CASE SaveWrite(s)
  <2>1. slot[s].pc = "writing" /\ row' = slot[s].new /\ slot' = [slot EXCEPT ![s] = Idle]
      BY <1>2 DEF SaveWrite
  <2>2. Honest(slot[s].new, byHand, readEmpty)
      BY <2>1, WriterFacts DEF HonestWriter
  <2> QED BY <1>0, <2>1, <2>2, WriterFacts, WriterMoves
<1> QED BY <1>1, <1>2

\* A command that saves what it makes of the row as it is.
LEMMA Decides ==
    ASSUME ContactInv, Learns, NEW s \in Slots, NEW op \in Ops, NEW new, Decide(s, op, new),
           Honest(new, byHand', readEmpty'), commands' \in 0..MaxCommands, row' = row
    PROVE  ContactInv'
<1> DEFINE w == [op |-> op, pc |-> "saving", read |-> row, new |-> new, code |-> FALSE]
<1>1. slot' = [slot EXCEPT ![s] = w]
    BY DEF Decide, Put
<1>2. row = NoRow \/ Honest(row, byHand', readEmpty')
    BY WriterFacts, HonestStays DEF Known
<1>3. new # NoRow
    BY NoRowAssumption DEF Honest
<1>4. HonestWriter(w, byHand', readEmpty')
    BY <1>2, <1>3, NewWriter
<1> HIDE DEF w
<1> QED BY <1>1, <1>4, WriterMoves

LEMMA LocalStepContact ==
    ASSUME ContactInv, NEW s \in Slots,
           Edit(s) \/ Presence(s) \/ GrantTrusted(s) \/ GrantLoads(s) \/ MeetInTopic(s) \/ Accept(s)
    PROVE  ContactInv'
<1> USE DEF Ops
<1>1. CASE Edit(s)
  <2>1. Known /\ Starts(s) /\ Decide(s, "edit", [row EXCEPT !.label = TRUE])
        /\ UNCHANGED <<row, byHand, readEmpty>>
      BY <1>1 DEF Edit
  <2>2. Honest([row EXCEPT !.label = TRUE], byHand, readEmpty)
      BY <2>1, WriterFacts DEF Honest, Rows
  <2> QED BY <2>1, <2>2, WriterFacts, Decides
<1>2. CASE Presence(s)
  <2>1. PICK t \in 1..MaxSeen :
            Known /\ Starts(s) /\ Decide(s, "presence", [row EXCEPT !.seen = t])
            /\ UNCHANGED <<row, byHand, readEmpty>>
      BY <1>2 DEF Presence
  <2>2. Honest([row EXCEPT !.seen = t], byHand, readEmpty)
    <3>1. t \in 0..MaxSeen
        BY ContactAssumption
    <3>2. row \in Rows /\ Honest(row, byHand, readEmpty)
        BY <2>1, WriterFacts
    <3> QED BY <3>1, <3>2 DEF Honest, Rows
  <2> QED BY <2>1, <2>2, WriterFacts, Decides
<1>3. CASE GrantTrusted(s)
  <2> DEFINE w == [op |-> "grant", pc |-> "trusted", read |-> NoRow, new |-> NoRow, code |-> FALSE]
  <2>1. Starts(s) /\ slot' = [slot EXCEPT ![s] = w] /\ UNCHANGED <<row, byHand, readEmpty>>
      BY <1>3 DEF GrantTrusted, Put
  <2>2. HonestWriter(w, byHand, readEmpty)
      BY NewWriter
  <2> HIDE DEF w
  <2> QED BY <2>1, <2>2, WriterFacts, WriterMoves
<1>4. CASE GrantLoads(s)
  <2>1. UNCHANGED <<row, commands, byHand, readEmpty>>
      BY <1>4 DEF GrantLoads
  <2>2. CASE Known
    <3>1. Decide(s, "grant", [row EXCEPT !.key = TRUE])
        BY <1>4, <2>2 DEF GrantLoads
    <3>2. Honest([row EXCEPT !.key = TRUE], byHand, readEmpty)
        BY <2>2, WriterFacts DEF Honest, Rows
    <3> QED BY <2>1, <3>1, <3>2, WriterFacts, Decides
  <2>3. CASE ~Known
    <3>1. slot' = [slot EXCEPT ![s] = Idle]
        BY <1>4, <2>3 DEF GrantLoads
    <3> QED BY <2>1, <3>1, WriterFacts, WriterMoves
  <2> QED BY <2>2, <2>3
<1>5. CASE MeetInTopic(s)
  <2>1. Starts(s) /\ Decide(s, "topic", Stub("Topic")) /\ UNCHANGED <<row, byHand, readEmpty>>
      BY <1>5 DEF MeetInTopic, TopicStub
  <2> QED BY <2>1, StubsHonest, WriterFacts, Decides
<1>6. CASE Accept(s)
  <2>1. PICK petname \in BOOLEAN :
            Starts(s) /\ Decide(s, "accept", [Accepted EXCEPT !.label = @ \/ petname])
      BY <1>6 DEF Accept
  <2>2. byHand' = TRUE /\ UNCHANGED <<row, readEmpty>>
      BY <1>6 DEF Accept
  <2>3. Learns /\ commands' \in 0..MaxCommands
      BY <2>1, <2>2, WriterFacts DEF Learns, ContactInv, ContactTypeOK
  <2>4. Honest(Accepted, byHand', readEmpty')
    <3>1. CASE Known
      <4>1. Honest(row, byHand', readEmpty')
          BY <2>3, <3>1, WriterFacts, HonestStays
      <4> QED BY <3>1, <4>1, ContactAssumption DEF Accepted, Honest, Rows
    <3>2. CASE ~Known
        BY <2>2, <3>2, StubsHonest DEF Accepted
    <3> QED BY <3>1, <3>2
  <2>5. Honest([Accepted EXCEPT !.label = @ \/ petname], byHand', readEmpty')
      BY <2>4 DEF Honest, Rows
  <2> QED BY <2>1, <2>2, <2>3, <2>5, Decides
<1> QED BY <1>1, <1>2, <1>3, <1>4, <1>5, <1>6

LEMMA AskStepContact ==
    ASSUME ContactInv, NEW s \in Slots, Refresh(s) \/ Follow(s) \/ AnswerFails(s)
    PROVE  ContactInv'
<1> USE DEF Ops
<1>0. UNCHANGED <<row, byHand, readEmpty>> /\ Learns /\ commands' \in 0..MaxCommands
  <2>1. UNCHANGED <<row, byHand, readEmpty>> /\ (Starts(s) \/ commands' = commands)
      BY DEF Refresh, Follow, AnswerFails
  <2> QED BY <2>1, WriterFacts
<1>1. CASE Refresh(s)
  <2> DEFINE w == [op |-> "refresh", pc |-> "asking", read |-> row, new |-> NoRow, code |-> row.key]
  <2>1. Known /\ slot' = [slot EXCEPT ![s] = w]
      BY <1>1 DEF Refresh, StartRefresh, Put
  <2>2. row.key \in BOOLEAN
      BY <2>1, WriterFacts DEF Rows
  <2>3. HonestWriter(w, byHand, readEmpty)
      BY <2>1, <2>2, NewWriter, WriterFacts
  <2> HIDE DEF w
  <2> QED BY <1>0, <2>1, <2>3, WriterMoves
<1>2. CASE Follow(s)
  <2>1. PICK code \in BOOLEAN : Put(s, "follow", "asking", NoRow, NoRow, code)
      BY <1>2 DEF Follow
  <2> DEFINE w == [op |-> "follow", pc |-> "asking", read |-> NoRow, new |-> NoRow, code |-> code]
  <2>2. slot' = [slot EXCEPT ![s] = w]
      BY <2>1 DEF Put
  <2>3. HonestWriter(w, byHand, readEmpty)
      BY NewWriter
  <2> HIDE DEF w
  <2> QED BY <1>0, <2>2, <2>3, WriterMoves
<1>3. CASE AnswerFails(s)
  <2>1. slot' = [slot EXCEPT ![s] = Idle]
      BY <1>3 DEF AnswerFails
  <2> QED BY <1>0, <2>1, WriterFacts, WriterMoves
<1> QED BY <1>1, <1>2, <1>3

\* The row a resolve returns says "nothing published" only after a whole read found so.
LEMMA ResolvedHonest ==
    ASSUME ContactInv, NEW s \in Slots, NEW code \in BOOLEAN, NEW read \in Reads(code),
           NEW teaser \in BOOLEAN, NEW empty, readEmpty = TRUE => empty = TRUE,
           read = "empty" => empty = TRUE
    PROVE  Honest(Resolved(code, read, teaser), TRUE, empty)
<1>1. read \in {"empty", "sealed", "failed", "some"}
    BY DEF Reads
<1>2. StateOf(read) \in ListingsStates /\ (StateOf(read) = "Fetched" => read \in {"some", "empty"})
    BY <1>1 DEF StateOf, ListingsStates
<1>3. ListingsAfter(code, read) \in BOOLEAN /\ (read = "some" => ListingsAfter(code, read) = TRUE)
    BY DEF ListingsAfter
<1>4. CASE ~teaser /\ Known
  <2> DEFINE new == [row EXCEPT !.key = @ \/ code,
                                !.listings = @ \/ ListingsAfter(code, read),
                                !.state = StateOf(read)]
  <2>1. Resolved(code, read, teaser) = new
      BY <1>4 DEF Resolved
  <2>2. row \in Rows
      BY <1>4, WriterFacts
  <2>3. new \in Rows
      BY <1>2, <1>3, <2>2 DEF Rows
  <2>4. new.state = StateOf(read) /\ (read = "some" => new.listings = TRUE)
      BY <1>3, <2>2 DEF Rows
  <2> QED BY <1>2, <2>1, <2>3, <2>4 DEF Honest
<1>5. CASE ~(~teaser /\ Known)
  <2> DEFINE new == [label |-> FALSE, key |-> code, listings |-> ListingsAfter(code, read),
                     state |-> StateOf(read), source |-> "Manual", seen |-> 0]
  <2>1. Resolved(code, read, teaser) = new
      BY <1>5 DEF Resolved
  <2>2. new \in Rows
      BY <1>2, <1>3, ContactAssumption DEF Rows
  <2> QED BY <1>2, <1>3, <2>1, <2>2 DEF Honest
<1> QED BY <1>4, <1>5

LEMMA AnswerStepContact ==
    ASSUME ContactInv, NEW s \in Slots, Answer(s)
    PROVE  ContactInv'
<1>0. slot[s] \in SlotStates /\ HonestWriter(slot[s], byHand, readEmpty)
    BY WriterFacts
<1>1. slot[s].pc = "asking" /\ slot[s].code \in BOOLEAN /\ UNCHANGED <<row, commands>>
    BY <1>0 DEF Answer, SlotStates
<1>2. PICK read \in Reads(slot[s].code), teaser \in BOOLEAN :
          LET new == Resolved(slot[s].code, read, teaser)
          IN /\ readEmpty' = (readEmpty \/ read = "empty")
             /\ \/ /\ slot[s].op = "refresh"
                   /\ slot' = [slot EXCEPT ![s].pc = "saving",
                                           ![s].new = Refreshed(slot[s].read, new)]
                   /\ UNCHANGED byHand
                \/ /\ slot[s].op = "follow"
                   /\ slot' = [slot EXCEPT ![s].pc = "merging", ![s].new = new]
                   /\ byHand' = TRUE
                \/ /\ slot[s].op = "follow" /\ ~teaser
                   /\ slot' = [slot EXCEPT ![s] = Idle]
                   /\ UNCHANGED byHand
    BY DEF Answer
<1> DEFINE new == Resolved(slot[s].code, read, teaser)
<1>3. /\ readEmpty' \in BOOLEAN /\ (readEmpty = TRUE => readEmpty' = TRUE)
      /\ read = "empty" => readEmpty' = TRUE
    BY <1>2 DEF ContactInv, ContactTypeOK
<1>4. Honest(new, TRUE, readEmpty')
    BY <1>1, <1>3, ResolvedHonest
<1>5. byHand \in BOOLEAN /\ commands' \in 0..MaxCommands
    BY <1>1 DEF ContactInv, ContactTypeOK
<1> HIDE DEF new
<1>6. CASE /\ slot[s].op = "refresh"
           /\ slot' = [slot EXCEPT ![s].pc = "saving", ![s].new = Refreshed(slot[s].read, new)]
           /\ UNCHANGED byHand
  <2> DEFINE saved == Refreshed(slot[s].read, new)
             w == [slot[s] EXCEPT !.pc = "saving", !.new = saved]
  <2>1. Learns
      BY <1>3, <1>5, <1>6 DEF Learns
  <2>2. slot[s].read \in Rows /\ Honest(slot[s].read, byHand, readEmpty)
      BY <1>0, <1>1, <1>6 DEF HonestWriter, Honest
  <2>3. Honest(saved, byHand', readEmpty')
      BY <1>4, <1>6, <2>2 DEF Refreshed, Honest, Rows
  <2>4. saved \in Rows /\ saved # NoRow
      BY <2>3, NoRowAssumption DEF Honest
  <2>5. slot' = [slot EXCEPT ![s] = w]
      BY <1>6
  <2> HIDE DEF saved
  <2>6. w \in SlotStates /\ w.read = slot[s].read /\ w.new = saved /\ w.pc = "saving"
      BY <1>0, <2>4 DEF SlotStates
  <2>7. Honest(slot[s].read, byHand', readEmpty')
      BY <2>1, <2>2, HonestStays
  <2>8. HonestWriter(w, byHand', readEmpty')
      BY <2>3, <2>4, <2>6, <2>7 DEF HonestWriter
  <2> HIDE DEF w
  <2> QED BY <1>1, <1>5, <2>1, <2>5, <2>8, WriterMoves
<1>7. CASE /\ slot[s].op = "follow"
           /\ slot' = [slot EXCEPT ![s].pc = "merging", ![s].new = new]
           /\ byHand' = TRUE
  <2> DEFINE w == [slot[s] EXCEPT !.pc = "merging", !.new = new]
  <2>1. Learns
      BY <1>3, <1>7 DEF Learns
  <2>2. slot' = [slot EXCEPT ![s] = w]
      BY <1>7
  <2>3. new \in Rows /\ new # NoRow
      BY <1>4, NoRowAssumption DEF Honest
  <2>4. w \in SlotStates /\ w.read = slot[s].read /\ w.new = new /\ w.pc = "merging"
      BY <1>0, <2>3 DEF SlotStates
  <2>5. slot[s].read # NoRow => Honest(slot[s].read, byHand', readEmpty')
      BY <1>0, <2>1, HonestStays DEF HonestWriter
  <2>6. HonestWriter(w, byHand', readEmpty')
      BY <1>4, <1>7, <2>3, <2>4, <2>5 DEF HonestWriter
  <2> HIDE DEF w
  <2> QED BY <1>1, <1>5, <2>1, <2>2, <2>6, WriterMoves
<1>8. CASE slot' = [slot EXCEPT ![s] = Idle] /\ UNCHANGED byHand
  <2>1. Learns
      BY <1>3, <1>5, <1>8 DEF Learns
  <2> QED BY <1>1, <1>5, <1>8, <2>1, WriterFacts, WriterMoves
<1> QED BY <1>2, <1>6, <1>7, <1>8 DEF new

LEMMA MergeStepContact ==
    ASSUME ContactInv, NEW s \in Slots, Merge(s)
    PROVE  ContactInv'
<1>0. slot[s] \in SlotStates /\ HonestWriter(slot[s], byHand, readEmpty)
    BY WriterFacts
<1>1. /\ slot[s].pc = "merging" /\ UNCHANGED <<row, commands, byHand, readEmpty>>
      /\ Learns /\ commands' \in 0..MaxCommands
    BY WriterFacts DEF Merge
<1>2. PICK petname \in BOOLEAN :
          LET new == [slot[s].new EXCEPT !.label = @ \/ petname]
          IN slot' = [slot EXCEPT ![s].pc = "saving", ![s].read = row,
                                  ![s].new = IF Known THEN Merged(new) ELSE new]
    BY DEF Merge
<1> DEFINE named == [slot[s].new EXCEPT !.label = @ \/ petname]
           saved == IF Known THEN Merged(named) ELSE named
           w == [slot[s] EXCEPT !.pc = "saving", !.read = row, !.new = saved]
<1>3. slot' = [slot EXCEPT ![s] = w]
    BY <1>2
<1>4. Honest(named, byHand, readEmpty)
  <2>1. Honest(slot[s].new, byHand, readEmpty)
      BY <1>0, <1>1 DEF HonestWriter
  <2> QED BY <2>1 DEF Honest, Rows
<1>5. Honest(saved, byHand, readEmpty)
  <2> HIDE DEF named
  <2>1. CASE Known
    <3>1. row \in Rows /\ Honest(row, byHand, readEmpty)
        BY <2>1, WriterFacts
    <3>2. Honest(Merged(named), byHand, readEmpty)
        BY <1>4, <3>1 DEF Merged, Honest, Rows
    <3> QED BY <2>1, <3>2
  <2>2. CASE ~Known
      BY <1>4, <2>2
  <2> QED BY <2>1, <2>2
<1>6. saved \in Rows /\ saved # NoRow
    BY <1>5, NoRowAssumption DEF Honest
<1> HIDE DEF saved
<1>7. row \in Rows \cup {NoRow} /\ (row # NoRow => Honest(row, byHand, readEmpty))
    BY DEF ContactInv, ContactTypeOK, Known
<1>8. w \in SlotStates /\ w.read = row /\ w.new = saved /\ w.pc = "saving"
    BY <1>0, <1>6, <1>7 DEF SlotStates
<1>9. HonestWriter(w, byHand, readEmpty)
    BY <1>5, <1>6, <1>7, <1>8 DEF HonestWriter
<1> HIDE DEF w
<1> QED BY <1>1, <1>3, <1>9, WriterMoves

\* The queue's own steps, and an unfollow.
LEMMA QueueStepContact ==
    ASSUME ContactInv, Enumerate \/ Defer \/ Unfollow
    PROVE  ContactInv'
<1> USE DEF Ops
<1>0. Queue \in Slots
    BY DEF Slots
<1>1. CASE Enumerate
  <2> DEFINE w == [op |-> "refresh", pc |-> "asking", read |-> row, new |-> NoRow, code |-> row.key]
  <2>1. Known /\ slot' = [slot EXCEPT ![Queue] = w] /\ UNCHANGED <<row, commands, byHand, readEmpty>>
      BY <1>1 DEF Enumerate, StartRefresh, Put
  <2>2. row.key \in BOOLEAN
      BY <1>0, <2>1, WriterFacts DEF Rows
  <2>3. HonestWriter(w, byHand, readEmpty)
      BY <1>0, <2>1, <2>2, NewWriter, WriterFacts
  <2> HIDE DEF w
  <2> QED BY <1>0, <2>1, <2>3, WriterFacts, WriterMoves
<1>2. CASE Defer
  <2>1. UNCHANGED <<row, commands, byHand, readEmpty>>
      BY <1>2 DEF Defer
  <2>2. CASE Known
    <3>1. Decide(Queue, "defer", row)
        BY <1>2, <2>2 DEF Defer
    <3> QED BY <1>0, <2>1, <2>2, <3>1, WriterFacts, Decides
  <2>3. CASE ~Known
    <3>1. slot' = [slot EXCEPT ![Queue] = Idle]
        BY <1>2, <2>3 DEF Defer
    <3> QED BY <1>0, <2>1, <3>1, WriterFacts, WriterMoves
  <2> QED BY <2>2, <2>3
<1>3. CASE Unfollow
  <2>1. row' = NoRow /\ commands' \in 0..MaxCommands /\ UNCHANGED <<slot, byHand, readEmpty>>
      BY <1>3, ContactAssumption DEF Unfollow, ContactInv, ContactTypeOK
  <2> QED BY <2>1 DEF ContactInv, ContactTypeOK, Known
<1> QED BY <1>1, <1>2, <1>3

LEMMA ContactInvStep == ContactInv /\ [ContactNext]_contactVars => ContactInv'
<1> SUFFICES ASSUME ContactInv, [ContactNext]_contactVars PROVE ContactInv'
    OBVIOUS
<1>1. ASSUME NEW s \in Slots, WriterStep(s) PROVE ContactInv'
    BY <1>1, LocalStepContact, AskStepContact, AnswerStepContact, MergeStepContact,
       SaveStepContact DEF WriterStep
<1>2. CASE Enumerate \/ Defer \/ Unfollow
    BY <1>2, QueueStepContact
<1>3. CASE UNCHANGED contactVars
    BY <1>3 DEF contactVars, ContactInv, ContactTypeOK, Known
<1> QED BY <1>1, <1>2, <1>3 DEF ContactNext

LEMMA ContactInvariant == ContactSpec => []ContactInv
BY InitContactInv, ContactInvStep, PTL DEF ContactSpec

\* The row and what every writer of it has in its hands keep their types, for any number
\* of writers.
THEOREM ContactTypeCorrect == ContactSpec => []ContactTypeOK
<1>1. ContactInv => ContactTypeOK
    BY DEF ContactInv
<1> QED BY <1>1, ContactInvariant, PTL

\* No refresh, topic, grant or beacon promotes a stranger to a contact added by hand,
\* however many of them write over each other.
THEOREM NoPromotedStranger == ContactSpec => []HandAddedOnly
<1>1. ContactInv => HandAddedOnly
    BY DEF ContactInv, HandAddedOnly, Honest
<1> QED BY <1>1, ContactInvariant, PTL

\* A row says that its peer publishes nothing only when a read found nothing.
THEOREM EmptyMeansRead == ContactSpec => []NoFalseEmpty
<1>1. ContactInv => NoFalseEmpty
  <2> SUFFICES ASSUME ContactInv, Known, row.state = "Fetched", ~row.listings PROVE readEmpty
      BY DEF NoFalseEmpty
  <2>1. Honest(row, byHand, readEmpty) /\ row.listings = FALSE
      BY DEF ContactInv, Honest, Rows
  <2> QED BY <2>1 DEF Honest
<1> QED BY <1>1, ContactInvariant, PTL

-----------------------------------------------------------------------------
(* Messages: DmInbox *)

\* The poll has the cache's lock from its snapshot to its save, so the copy it
\* merges into is the file. What a poll or an accept has in its hands is decoded.
DmPollInv ==
    /\ dmPoll.pc = "merging" =>
          /\ dmPoll.cache = dmCache
          /\ dmPoll.view.contact => befriended
    /\ dmPoll.pc # "filing" => dmPoll.requests = {}

\* Only an accept that has emptied the bucket has messages in its hands.
DmCommandInv ==
    \A c \in CommandSlots :
        /\ dmCommand[c].op = "accept" => befriended
        /\ dmCommand[c].pc \in {"draining", "keeping"} => dmCommand[c].op = "accept"
        /\ dmCommand[c].adds # {} =>
              dmCommand[c].op = "accept" /\ dmCommand[c].pc \in {"relating", "keeping"}

\* Whatever is kept, under way or dropped was decoded, and nothing is decoded twice.
DecodedOnce == Kept \cup DmInFlight \cup dropped \subseteq dmCache.seen

DmInv ==
    /\ DmTypeOK
    /\ contact => befriended
    /\ DmPollInv
    /\ DmCommandInv
    /\ DecodedOnce
    /\ QuarantineHolds
    /\ KeptUnlessCrashed

DmJobs ==
    [op : {"none", "accept", "decline", "block"},
     pc : {"idle", "draining", "relating", "keeping"}, adds : SUBSET Letters]

LEMMA NoDmPollIdle ==
    /\ NoDmPoll \in DmPolls /\ NoDmPoll.pc = "idle" /\ NoDmPoll.requests = {}
    /\ NoDmCommand \in DmJobs
    /\ NoDmCommand.op = "none" /\ NoDmCommand.pc = "idle" /\ NoDmCommand.adds = {}
BY DEF NoDmPoll, NoDmCommand, DmJobs, DmPolls, Views, Caches

LEMMA InitDmInv == DmInit => DmInv
<1> SUFFICES ASSUME DmInit PROVE DmInv
    OBVIOUS
<1>1. DmInFlight = {} /\ Kept = {}
    BY NoDmPollIdle DEF DmInit, DmInFlight, Kept
<1>2. DmTypeOK
  <2>1. dmCache \in Caches /\ acts \in 0..MaxUserActs /\ dmCrashes \in 0..MaxDmCrashes
      BY DmAssumption DEF DmInit, Caches
  <2>2. dmCommand \in [CommandSlots ->
            DmJobs]
      BY NoDmPollIdle DEF DmInit
  <2> QED BY <2>1, <2>2, NoDmPollIdle DEF DmInit, DmTypeOK, DmJobs
<1> QED BY <1>1, <1>2, NoDmPollIdle
        DEF DmInit, DmInv, DmPollInv, DmCommandInv, DecodedOnce, QuarantineHolds,
            KeptUnlessCrashed

\* Steps that leave the messages where they are.
LEMMA MessagesStay ==
    ASSUME DmInv, DmTypeOK', contact' => befriended', befriended => befriended',
           DmPollInv', DmCommandInv', ~(blocked' /\ declined'),
           UNCHANGED <<dmCache, bucket, owed, dropped>>, dmCrashes' = 0 => dmCrashes = 0,
           \/ DmInFlight' = DmInFlight
           \/ dmCrashes' # 0 /\ DmInFlight' = {}
    PROVE  DmInv'
BY DEF DmInv, DecodedOnce, QuarantineHolds, KeptUnlessCrashed, Kept

LEMMA PollStepDm ==
    ASSUME DmInv, FetchDms \/ SnapshotDms \/ MergeDms \/ FileRequests
    PROVE  DmInv'
<1> USE NoDmPollIdle
<1>1. CASE FetchDms
  <2>1. PICK batch \in SUBSET posted :
            dmPoll' = [NoDmPoll EXCEPT !.pc = "fetched", !.batch = batch]
      BY <1>1 DEF FetchDms
  <2>2. /\ dmPoll' \in DmPolls /\ dmPoll'.pc = "fetched" /\ dmPoll'.requests = {}
      BY <2>1 DEF NoDmPoll, DmPolls, DmInv, DmTypeOK, DmJobs
  <2>3. UNCHANGED <<dmFiles, posted, dmCommand, acts, dmCrashes, dmHistory>>
      BY <1>1 DEF FetchDms
  <2>4. dmPoll.requests = {}
      BY <1>1 DEF FetchDms, DmInv, DmPollInv
  <2>5. DmTypeOK'
      BY <2>2, <2>3 DEF DmInv, DmTypeOK, DmJobs, dmFiles, dmHistory
  <2>6. DmInFlight' = DmInFlight
      BY <2>2, <2>3, <2>4 DEF DmInFlight
  <2>7. DmPollInv' /\ DmCommandInv'
      BY <2>2, <2>3 DEF DmInv, DmPollInv, DmCommandInv, dmHistory
  <2> QED BY <2>3, <2>5, <2>6, <2>7, MessagesStay
          DEF DmInv, QuarantineHolds, dmFiles, dmHistory
<1>2. CASE SnapshotDms
  <2>1. dmPoll' = [dmPoll EXCEPT !.pc = "merging", !.view = NowView, !.cache = dmCache]
      BY <1>2 DEF SnapshotDms
  <2>2. /\ dmPoll' \in DmPolls /\ dmPoll'.pc = "merging" /\ dmPoll'.requests = dmPoll.requests
        /\ dmPoll'.cache = dmCache /\ dmPoll'.view = NowView
      BY <2>1 DEF DmPolls, Views, NowView, DmInv, DmTypeOK, DmJobs
  <2>3. UNCHANGED <<dmFiles, posted, dmCommand, acts, dmCrashes, dmHistory>>
      BY <1>2 DEF SnapshotDms
  <2>4. dmPoll.requests = {}
      BY <1>2 DEF SnapshotDms, DmInv, DmPollInv
  <2>5. DmTypeOK'
      BY <2>2, <2>3 DEF DmInv, DmTypeOK, DmJobs, dmFiles, dmHistory
  <2>6. DmInFlight' = DmInFlight
      BY <2>2, <2>3 DEF DmInFlight
  <2>7. DmPollInv' /\ DmCommandInv'
      BY <2>2, <2>3, <2>4 DEF DmInv, DmPollInv, DmCommandInv, dmHistory, dmFiles, NowView
  <2> QED BY <2>3, <2>5, <2>6, <2>7, MessagesStay
          DEF DmInv, QuarantineHolds, dmFiles, dmHistory
<1>3. CASE MergeDms
  <2> DEFINE new == dmPoll.batch \ dmPoll.cache.seen
             inbox == IF Route(dmPoll.view) = "Inbox" THEN new ELSE {}
             requests == IF Route(dmPoll.view) = "Request" THEN new ELSE {}
  <2>1. /\ dmPoll.pc = "merging" /\ dmPoll.cache = dmCache /\ dmPoll.requests = {}
        /\ dmPoll.view.contact => befriended
      BY <1>3 DEF MergeDms, DmInv, DmPollInv
  <2>2. new \subseteq Letters /\ new \cap dmCache.seen = {} /\ Echo \notin new
      BY <2>1, DmAssumption DEF DmInv, DmTypeOK, DmJobs, DmPolls
  <2>3. /\ dmCache' = [messages |-> dmCache.messages \cup inbox, seen |-> dmCache.seen \cup new]
        /\ owed' = owed \cup inbox \cup requests
        /\ dropped' = dropped \cup (IF Unwanted(dmPoll.view) THEN new ELSE {})
        /\ UNCHANGED <<posted, bucket, declined, blocked, contact, allowDms, dmCommand, acts,
                       dmCrashes, befriended>>
      BY <1>3, <2>1 DEF MergeDms
  <2>4. /\ dmPoll' \in DmPolls /\ dmPoll'.requests = requests
        /\ dmPoll'.pc # "merging"
        /\ dmPoll'.pc # "filing" => requests = {}
    <3>1. dmPoll' = IF requests = {} THEN NoDmPoll
                    ELSE [NoDmPoll EXCEPT !.pc = "filing", !.requests = requests]
        BY <1>3 DEF MergeDms
    <3> QED BY <2>2, <3>1 DEF NoDmPoll, DmPolls
  <2>5. /\ inbox \subseteq new /\ requests \subseteq new
        /\ Unwanted(dmPoll.view) => inbox = {} /\ requests = {}
        /\ inbox # {} => befriended
    <3>1. dmPoll.view \in Views
        BY DEF DmInv, DmTypeOK, DmJobs, DmPolls
    <3>2. Unwanted(dmPoll.view) => Route(dmPoll.view) = "Drop"
        BY <3>1 DEF Route, Unwanted, Views
    <3>3. Route(dmPoll.view) = "Inbox" => dmPoll.view.contact
        BY <3>1 DEF Route, Views
    <3> QED BY <2>1, <3>2, <3>3
  <2>6. /\ dmCache'.messages = dmCache.messages \cup inbox
        /\ dmCache'.seen = dmCache.seen \cup new
      BY <2>3
  <2>7. DmInFlight' = DmInFlight \cup requests /\ Kept' = Kept \cup inbox
      BY <2>1, <2>3, <2>4, <2>6 DEF DmInFlight, Kept
  <2>8. DmTypeOK'
      BY <2>2, <2>3, <2>4, <2>5 DEF DmInv, DmTypeOK, DmJobs, Caches
  <2>9. DmPollInv' /\ DmCommandInv'
      BY <2>3, <2>4 DEF DmInv, DmPollInv, DmCommandInv
  <2>10. DecodedOnce'
      BY <2>2, <2>3, <2>5, <2>6, <2>7 DEF DmInv, DecodedOnce
  <2>11. dropped' \cap (Kept' \cup DmInFlight') = {}
    <3>1. CASE Unwanted(dmPoll.view)
        BY <2>2, <2>3, <2>5, <2>7, <3>1 DEF DmInv, DecodedOnce, QuarantineHolds
    <3>2. CASE ~Unwanted(dmPoll.view)
        BY <2>2, <2>3, <2>5, <2>7, <3>2 DEF DmInv, DecodedOnce, QuarantineHolds
    <3> QED BY <3>1, <3>2
  <2>12. QuarantineHolds'
      BY <2>3, <2>5, <2>6, <2>11 DEF DmInv, QuarantineHolds
  <2>13. KeptUnlessCrashed'
      BY <2>3, <2>7 DEF DmInv, KeptUnlessCrashed
  <2> QED BY <2>3, <2>8, <2>9, <2>10, <2>12, <2>13 DEF DmInv
<1>4. CASE FileRequests
  <2>1. /\ dmPoll' = NoDmPoll /\ bucket' = bucket \cup dmPoll.requests
        /\ UNCHANGED <<posted, dmCache, declined, blocked, contact, allowDms, dmCommand, acts,
                       dmCrashes, owed, dropped, befriended>>
      BY <1>4 DEF FileRequests
  <2>2. /\ Kept' \cup DmInFlight' = Kept \cup DmInFlight
      BY <2>1 DEF Kept, DmInFlight
  <2>3. DmTypeOK'
      BY <2>1 DEF DmInv, DmTypeOK, DmJobs, DmPolls
  <2> QED BY <2>1, <2>2, <2>3
          DEF DmInv, DmPollInv, DmCommandInv, DecodedOnce, QuarantineHolds, KeptUnlessCrashed
<1> QED BY <1>1, <1>2, <1>3, <1>4

\* What a step of one command does to the jobs of all.
LEMMA JobOf ==
    ASSUME DmTypeOK, NEW c \in CommandSlots, NEW job, dmCommand' = [dmCommand EXCEPT ![c] = job]
    PROVE  /\ dmCommand'[c] = job
           /\ \A d \in CommandSlots \ {c} : dmCommand'[d] = dmCommand[d]
           /\ UNION {dmCommand'[d].adds : d \in CommandSlots}
                = job.adds \cup UNION {dmCommand[d].adds : d \in CommandSlots \ {c}}
           /\ UNION {dmCommand[d].adds : d \in CommandSlots}
                = dmCommand[c].adds \cup UNION {dmCommand[d].adds : d \in CommandSlots \ {c}}
<1>1. dmCommand'[c] = job /\ \A d \in CommandSlots \ {c} : dmCommand'[d] = dmCommand[d]
    BY DEF DmTypeOK, DmJobs
<1>2. UNION {dmCommand'[d].adds : d \in CommandSlots \ {c}}
        = UNION {dmCommand[d].adds : d \in CommandSlots \ {c}}
    BY <1>1
<1>3. CommandSlots = {c} \cup (CommandSlots \ {c})
    OBVIOUS
<1> QED BY <1>1, <1>2, <1>3

LEMMA NewJobTypes ==
    ASSUME DmInv, NEW c \in CommandSlots, NEW job, dmCommand' = [dmCommand EXCEPT ![c] = job],
           job \in DmJobs,
           job.pc = "idle" => job = NoDmCommand,
           job.op = "accept" => befriended',
           job.pc \in {"draining", "keeping"} => job.op = "accept",
           job.adds # {} => job.op = "accept" /\ job.pc \in {"relating", "keeping"},
           befriended => befriended'
    PROVE  /\ dmCommand' \in [CommandSlots ->
                   DmJobs]
           /\ \A d \in CommandSlots : dmCommand'[d].pc = "idle" => dmCommand'[d] = NoDmCommand
           /\ DmCommandInv'
<1>1. DmTypeOK
    BY DEF DmInv
<1>2. dmCommand'[c] = job /\ \A d \in CommandSlots \ {c} : dmCommand'[d] = dmCommand[d]
    BY <1>1, JobOf
<1>3. dmCommand' \in [CommandSlots ->
          DmJobs]
    BY <1>1 DEF DmTypeOK, DmJobs
<1>4. \A d \in CommandSlots : dmCommand'[d].pc = "idle" => dmCommand'[d] = NoDmCommand
    BY <1>1, <1>2 DEF DmTypeOK, DmJobs
<1>5. DmCommandInv'
    BY <1>2 DEF DmInv, DmCommandInv
<1> QED BY <1>3, <1>4, <1>5

LEMMA ActsCounted ==
    ASSUME DmTypeOK, UserActs
    PROVE  acts' \in 0..MaxUserActs
BY DmAssumption DEF DmTypeOK, DmJobs, UserActs

LEMMA DrainedJob ==
    ASSUME NEW job \in DmJobs, NEW letters \in SUBSET Letters
    PROVE  [job EXCEPT !.pc = "relating", !.adds = letters]
             = [op |-> job.op, pc |-> "relating", adds |-> letters]
<1> DEFINE new == [job EXCEPT !.pc = "relating", !.adds = letters]
<1>1. new \in DmJobs
    BY DEF DmJobs
<1>2. new.op = job.op /\ new.pc = "relating" /\ new.adds = letters
    BY DEF DmJobs
<1> HIDE DEF new
<1>3. new = [op |-> new.op, pc |-> new.pc, adds |-> new.adds]
    BY <1>1 DEF DmJobs
<1>4. new = [op |-> job.op, pc |-> "relating", adds |-> letters]
    BY <1>2, <1>3
<1> QED BY <1>4 DEF new

LEMMA AcceptStepDm ==
    ASSUME DmInv, NEW c \in CommandSlots,
           AcceptContact(c) \/ AcceptDrains(c) \/ AcceptUndeclines(c) \/ AcceptKeeps(c)
    PROVE  DmInv'
<1> USE NoDmPollIdle
<1> DEFINE others == UNION {dmCommand[d].adds : d \in CommandSlots \ {c}}
<1>0. DmTypeOK /\ DmInFlight = dmPoll.requests \cup dmCommand[c].adds \cup others
    BY JobOf DEF DmInv, DmInFlight
<1>1. CASE AcceptContact(c)
  <2> DEFINE job == [op |-> "accept", pc |-> "draining", adds |-> {}]
  <2>1. /\ dmCommand' = [dmCommand EXCEPT ![c] = job] /\ dmCommand[c].adds = {}
        /\ contact' = TRUE /\ befriended' = TRUE /\ acts' \in 0..MaxUserActs
        /\ UNCHANGED <<posted, dmCache, bucket, declined, blocked, allowDms, dmPoll, dmCrashes,
                       owed, dropped>>
      BY <1>0, <1>1, ActsCounted DEF AcceptContact, Begins, DmTypeOK, DmJobs
  <2>2. DmCommandInv' /\ DmTypeOK'
      BY <1>0, <2>1, NewJobTypes DEF DmTypeOK, DmJobs
  <2>3. DmPollInv'
      BY <2>1 DEF DmInv, DmPollInv
  <2>4. DmInFlight' = DmInFlight
      BY <1>0, <2>1, JobOf DEF DmInFlight
  <2> QED BY <2>1, <2>2, <2>3, <2>4, MessagesStay DEF DmInv, QuarantineHolds
<1>2. CASE AcceptDrains(c)
  <2> DEFINE job == [dmCommand[c] EXCEPT !.pc = "relating", !.adds = bucket]
  <2>1. /\ dmCommand' = [dmCommand EXCEPT ![c] = job] /\ bucket' = {}
        /\ dmCommand[c].op = "accept" /\ dmCommand[c].adds = {}
        /\ UNCHANGED <<posted, dmCache, declined, blocked, contact, allowDms, dmPoll, acts,
                       dmCrashes, dmHistory>>
      BY <1>0, <1>2 DEF AcceptDrains, DmInv, DmCommandInv
  <2>2. job = [op |-> "accept", pc |-> "relating", adds |-> bucket]
    <3>1. dmCommand[c] \in DmJobs
        BY <1>0 DEF DmTypeOK, DmJobs
    <3>2. bucket \in SUBSET Letters
        BY <1>0 DEF DmTypeOK
    <3> QED BY <2>1, <3>1, <3>2, DrainedJob
  <2>3. DmCommandInv' /\ DmTypeOK'
      BY <1>0, <2>1, <2>2, NewJobTypes DEF DmInv, DmCommandInv, DmTypeOK, DmJobs, dmHistory
  <2>4. Kept' \cup DmInFlight' = Kept \cup DmInFlight
    <3>1. DmInFlight' = dmPoll.requests \cup bucket \cup others
      <4>1. UNION {dmCommand'[d].adds : d \in CommandSlots} = job.adds \cup others
          BY <1>0, <2>1, JobOf
      <4> QED BY <2>1, <2>2, <4>1 DEF DmInFlight
    <3> QED BY <1>0, <2>1, <3>1 DEF Kept
  <2>5. DmPollInv'
      BY <2>1 DEF DmInv, DmPollInv, dmHistory
  <2> QED BY <2>1, <2>3, <2>4, <2>5
          DEF DmInv, DecodedOnce, QuarantineHolds, KeptUnlessCrashed, dmHistory
<1>3. CASE AcceptUndeclines(c)
  <2> DEFINE job == IF dmCommand[c].adds = {} THEN NoDmCommand
                    ELSE [dmCommand[c] EXCEPT !.pc = "keeping"]
  <2>1. /\ dmCommand' = [dmCommand EXCEPT ![c] = job] /\ declined' = FALSE
        /\ dmCommand[c].op = "accept"
        /\ UNCHANGED <<posted, dmCache, bucket, blocked, contact, allowDms, dmPoll, acts,
                       dmCrashes, dmHistory>>
      BY <1>3 DEF AcceptUndeclines, Ends, Continues
  <2>2. /\ job \in DmJobs
        /\ job.adds = dmCommand[c].adds
        /\ job = NoDmCommand \/ (job.op = "accept" /\ job.pc = "keeping")
    <3>1. dmCommand[c] \in DmJobs
        BY <1>0 DEF DmTypeOK, DmJobs
    <3>2. CASE dmCommand[c].adds = {}
      <4>1. job = NoDmCommand
          BY <3>2
      <4> HIDE DEF job
      <4> QED BY <3>2, <4>1
    <3>3. CASE dmCommand[c].adds # {}
      <4>1. job = [op |-> "accept", pc |-> "keeping", adds |-> dmCommand[c].adds]
          BY <2>1, <3>1, <3>3 DEF DmJobs
      <4> QED BY <3>1, <4>1 DEF DmJobs
    <3> QED BY <3>2, <3>3
  <2>3. DmCommandInv' /\ DmTypeOK'
      BY <1>0, <2>1, <2>2, NewJobTypes DEF DmInv, DmCommandInv, DmTypeOK, DmJobs, dmHistory
  <2>4. DmInFlight' = DmInFlight
      BY <1>0, <2>1, <2>2, JobOf DEF DmInFlight
  <2>5. DmPollInv'
      BY <2>1 DEF DmInv, DmPollInv, dmHistory
  <2> QED BY <2>1, <2>3, <2>4, <2>5, MessagesStay DEF DmInv, dmHistory
<1>4. CASE AcceptKeeps(c)
  <2>1. /\ dmCommand' = [dmCommand EXCEPT ![c] = NoDmCommand]
        /\ dmCache' = [dmCache EXCEPT !.messages = dmCache.messages \cup dmCommand[c].adds]
        /\ dmPoll.pc # "merging" /\ befriended
        /\ UNCHANGED <<posted, bucket, declined, blocked, contact, allowDms, dmPoll, acts,
                       dmCrashes, dmHistory>>
      BY <1>4 DEF AcceptKeeps, Ends, Migrated, CacheLockFree, DmInv, DmCommandInv
  <2>2. /\ dmCache' \in Caches
        /\ dmCache'.messages = dmCache.messages \cup dmCommand[c].adds
        /\ dmCache'.seen = dmCache.seen
      BY <1>0, <2>1 DEF DmTypeOK, DmJobs, Caches
  <2>3. NoDmCommand \in DmJobs
      BY DEF NoDmCommand
  <2>4. DmCommandInv' /\ DmTypeOK'
      BY <1>0, <2>1, <2>2, <2>3, NewJobTypes DEF DmInv, DmTypeOK, DmJobs, dmHistory
  <2>5. Kept' \cup DmInFlight' = Kept \cup DmInFlight
    <3>1. DmInFlight' = dmPoll.requests \cup others
        BY <1>0, <2>1, JobOf DEF DmInFlight
    <3> QED BY <1>0, <2>1, <2>2, <3>1 DEF Kept
  <2>6. DmPollInv'
      BY <2>1 DEF DmInv, DmPollInv, dmHistory
  <2> QED BY <2>1, <2>2, <2>4, <2>5, <2>6
          DEF DmInv, DecodedOnce, QuarantineHolds, KeptUnlessCrashed, dmHistory
<1> QED BY <1>1, <1>2, <1>3, <1>4

LEMMA RefuseStepDm ==
    ASSUME DmInv, NEW c \in CommandSlots,
           \/ \E op \in {"decline", "block"} : Discard(c, op)
           \/ DeclineRelates(c) \/ BlockRelates(c)
    PROVE  DmInv'
<1> USE NoDmPollIdle
<1> DEFINE others == UNION {dmCommand[d].adds : d \in CommandSlots \ {c}}
<1>0. DmTypeOK /\ DmInFlight = dmPoll.requests \cup dmCommand[c].adds \cup others
    BY JobOf DEF DmInv, DmInFlight
<1>1. CASE \E op \in {"decline", "block"} : Discard(c, op)
  <2>1. PICK op \in {"decline", "block"} : Discard(c, op)
      BY <1>1
  <2> DEFINE job == [op |-> op, pc |-> "relating", adds |-> {}]
  <2>2. /\ dmCommand' = [dmCommand EXCEPT ![c] = job] /\ dmCommand[c].adds = {}
        /\ bucket' = {} /\ owed' = owed \ (bucket \ dmCache.messages)
        /\ acts' \in 0..MaxUserActs
        /\ UNCHANGED <<posted, dmCache, declined, blocked, contact, allowDms, dmPoll, dmCrashes,
                       dropped, befriended>>
      BY <1>0, <2>1, ActsCounted DEF Discard, Begins, Discarded, DmTypeOK, DmJobs
  <2>3. DmCommandInv' /\ DmTypeOK'
      BY <1>0, <2>2, NewJobTypes DEF DmTypeOK, DmJobs
  <2>4. DmInFlight' = DmInFlight
      BY <1>0, <2>2, JobOf DEF DmInFlight
  <2>5. DmPollInv'
      BY <2>2 DEF DmInv, DmPollInv
  <2> QED BY <2>2, <2>3, <2>4, <2>5
          DEF DmInv, DecodedOnce, QuarantineHolds, KeptUnlessCrashed, Kept
<1>2. CASE DeclineRelates(c) \/ BlockRelates(c)
  <2>1. /\ dmCommand' = [dmCommand EXCEPT ![c] = NoDmCommand] /\ dmCommand[c].op # "accept"
        /\ declined' \in BOOLEAN /\ blocked' \in BOOLEAN /\ ~(blocked' /\ declined')
        /\ UNCHANGED <<posted, dmCache, bucket, contact, allowDms, dmPoll, acts, dmCrashes,
                       owed, dropped, befriended>>
    <3>1. CASE DeclineRelates(c)
        BY <1>0, <3>1 DEF DeclineRelates, DeclineRecorded, Ends, DmTypeOK, DmInv, QuarantineHolds
    <3>2. CASE BlockRelates(c)
        BY <1>0, <3>2 DEF BlockRelates, Ends, DmTypeOK
    <3> QED BY <1>2, <3>1, <3>2
  <2>2. dmCommand[c].adds = {}
      BY <2>1 DEF DmInv, DmCommandInv
  <2>3. NoDmCommand \in DmJobs
      BY DEF NoDmCommand
  <2>4. DmCommandInv' /\ DmTypeOK'
      BY <1>0, <2>1, <2>3, NewJobTypes DEF DmTypeOK, DmJobs
  <2>5. DmInFlight' = DmInFlight
      BY <1>0, <2>1, <2>2, JobOf DEF DmInFlight
  <2>6. DmPollInv'
      BY <2>1 DEF DmInv, DmPollInv
  <2> QED BY <2>1, <2>4, <2>5, <2>6, MessagesStay DEF DmInv
<1> QED BY <1>1, <1>2

\* What the user and the relays do besides, and a crash.
LEMMA OtherStepDm ==
    ASSUME DmInv,
           \/ \E w \in Letters : PostDm(w)
           \/ Unblock \/ ContactChanges \/ SettingChanges \/ PersistEcho \/ DmCrash
    PROVE  DmInv'
<1> USE NoDmPollIdle
<1>0. DmTypeOK
    BY DEF DmInv
<1>1. CASE (\E w \in Letters : PostDm(w)) \/ Unblock \/ ContactChanges \/ SettingChanges
  <2>1. /\ UNCHANGED <<dmCache, bucket, declined, dmPoll, dmCommand, dmCrashes, owed, dropped>>
        /\ posted' \subseteq Letters /\ contact' \in BOOLEAN /\ blocked' \in BOOLEAN
        /\ allowDms' \in BOOLEAN /\ befriended' \in BOOLEAN /\ acts' \in 0..MaxUserActs
        /\ (befriended => befriended') /\ (contact' => befriended')
        /\ blocked' => blocked
    <3>1. CASE \E w \in Letters : PostDm(w)
        BY <1>0, <3>1 DEF PostDm, DmInv, DmTypeOK, dmFiles, dmHistory
    <3>2. CASE Unblock
        BY <1>0, <3>2, ActsCounted DEF Unblock, DmInv, DmTypeOK, dmHistory
    <3>3. CASE ContactChanges
        BY <1>0, <3>3, ActsCounted DEF ContactChanges, DmInv, DmTypeOK
    <3>4. CASE SettingChanges
        BY <1>0, <3>4, ActsCounted DEF SettingChanges, DmInv, DmTypeOK, dmHistory
    <3> QED BY <1>1, <3>1, <3>2, <3>3, <3>4
  <2>2. DmTypeOK'
      BY <1>0, <2>1 DEF DmTypeOK, DmJobs
  <2>3. DmPollInv' /\ DmCommandInv'
      BY <2>1 DEF DmInv, DmPollInv, DmCommandInv
  <2>4. DmInFlight' = DmInFlight
      BY <2>1 DEF DmInFlight
  <2>5. ~(blocked' /\ declined')
      BY <2>1 DEF DmInv, QuarantineHolds
  <2>6. DmInv /\ (dmCrashes' = 0 => dmCrashes = 0)
      BY <2>1
  <2> QED BY <2>1, <2>2, <2>3, <2>4, <2>5, <2>6, MessagesStay
<1>2. CASE PersistEcho
  <2>1. /\ acts' \in 0..MaxUserActs /\ dmPoll.pc # "merging" /\ Echo \notin dmCache.seen
        /\ dmCache' = [messages |-> dmCache.messages \cup {Echo},
                       seen |-> dmCache.seen \cup {Echo}]
        /\ owed' = owed \cup {Echo}
        /\ UNCHANGED <<posted, bucket, declined, blocked, contact, allowDms, dmPoll, dmCommand,
                       dmCrashes, dropped, befriended>>
      BY <1>0, <1>2, ActsCounted DEF PersistEcho, CacheLockFree
  <2>2. /\ dmCache' \in Caches
        /\ dmCache'.messages = dmCache.messages \cup {Echo}
        /\ dmCache'.seen = dmCache.seen \cup {Echo}
      BY <1>0, <2>1 DEF DmTypeOK, DmJobs, Caches
  <2>3. DmTypeOK'
      BY <1>0, <2>1, <2>2 DEF DmTypeOK, DmJobs
  <2>4. DmInFlight' = DmInFlight /\ Kept' = Kept \cup {Echo}
      BY <2>1, <2>2 DEF DmInFlight, Kept
  <2>5. Echo \notin dropped
      BY <1>0, DmAssumption DEF DmTypeOK, DmJobs
  <2> QED BY <2>1, <2>2, <2>3, <2>4, <2>5
          DEF DmInv, DmPollInv, DmCommandInv, DecodedOnce, QuarantineHolds, KeptUnlessCrashed
<1>3. CASE DmCrash
  <2>1. /\ dmCrashes' \in 0..MaxDmCrashes /\ dmCrashes' # 0
        /\ dmPoll' = NoDmPoll /\ dmCommand' = [d \in CommandSlots |-> NoDmCommand]
        /\ UNCHANGED <<posted, dmFiles, acts, dmHistory>>
      BY <1>0, <1>3, DmAssumption DEF DmCrash, DmTypeOK, DmJobs
  <2>2. NoDmCommand \in DmJobs
      BY DEF NoDmCommand
  <2>3. DmTypeOK'
      BY <1>0, <2>1, <2>2 DEF DmTypeOK, DmJobs, dmFiles, dmHistory
  <2>4. DmInFlight' = {}
      BY <2>1 DEF DmInFlight
  <2>5. DmPollInv' /\ DmCommandInv'
      BY <2>1 DEF DmPollInv, DmCommandInv
  <2> QED BY <2>1, <2>3, <2>4, <2>5, MessagesStay
          DEF DmInv, QuarantineHolds, dmFiles, dmHistory
<1> QED BY <1>1, <1>2, <1>3

LEMMA DmInvStep == DmInv /\ [DmNext]_dmVars => DmInv'
<1> SUFFICES ASSUME DmInv, [DmNext]_dmVars PROVE DmInv'
    OBVIOUS
<1>1. CASE FetchDms \/ SnapshotDms \/ MergeDms \/ FileRequests
    BY <1>1, PollStepDm
<1>2. CASE \E c \in CommandSlots :
              AcceptContact(c) \/ AcceptDrains(c) \/ AcceptUndeclines(c) \/ AcceptKeeps(c)
    BY <1>2, AcceptStepDm
<1>3. CASE \E c \in CommandSlots :
              \/ \E op \in {"decline", "block"} : Discard(c, op)
              \/ DeclineRelates(c) \/ BlockRelates(c)
    BY <1>3, RefuseStepDm
<1>4. CASE \/ \E w \in Letters : PostDm(w)
           \/ Unblock \/ ContactChanges \/ SettingChanges \/ PersistEcho \/ DmCrash
    BY <1>4, OtherStepDm
<1>5. CASE UNCHANGED dmVars
    BY <1>5 DEF dmVars, dmFiles, dmHistory, DmInv, DmTypeOK, DmJobs, DmPollInv, DmCommandInv,
                DecodedOnce, QuarantineHolds, KeptUnlessCrashed, Kept, DmInFlight
<1> QED BY <1>1, <1>2, <1>3, <1>4, <1>5 DEF DmNext

LEMMA DmInvariant == DmSpec => []DmInv
BY InitDmInv, DmInvStep, PTL DEF DmSpec

\* The files, the poll and the commands keep their types, for any messages and any
\* number of commands that overlap.
THEOREM DmTypeCorrect == DmSpec => []DmTypeOK
<1>1. DmInv => DmTypeOK
    BY DEF DmInv
<1> QED BY <1>1, DmInvariant, PTL

\* Strangers' messages stay out of the conversations and what was dropped stays out
\* of everything, however commands, polls and crashes interleave.
THEOREM QuarantineNeverLeaks == DmSpec => []QuarantineHolds
<1>1. DmInv => QuarantineHolds
    BY DEF DmInv
<1> QED BY <1>1, DmInvariant, PTL

-----------------------------------------------------------------------------
(* The chat's cursor: InboxCursor *)

LEMMA NatLeast ==
    ASSUME NEW S \in SUBSET Nat, S # {}
    PROVE  \E x \in S : \A y \in S : x <= y
<1> DEFINE Below == {0..x : x \in S}
<1>1. Below \subseteq FiniteSubsetsOf(Nat) /\ Below # {}
  <2>1. \A x \in S : 0..x \in SUBSET Nat /\ IsFiniteSet(0..x)
      BY FS_Interval
  <2> QED BY <2>1 DEF FiniteSubsetsOf
<1>2. PICK B \in Below : \A C \in Below : ~ (<<C, B>> \in StrictSubsetOrdering(Nat))
    BY <1>1, FS_StrictSubsetOrderingWellFounded, WFMin
<1>3. PICK x \in S : B = 0..x
    BY <1>2
<1>4. ASSUME NEW y \in S, y < x PROVE FALSE
  <2>1. 0..y \in Below /\ (0..y) \subseteq B /\ 0..y # B
      BY <1>3, <1>4
  <2> QED BY <1>1, <1>2, <2>1 DEF StrictSubsetOrdering, FiniteSubsetsOf
<1> QED BY <1>4

\* What the least and the greatest stamp of a set are.
LEMMA LeastStamp ==
    ASSUME NEW S \in SUBSET Nat, S # {}
    PROVE  Min(S) \in S /\ \A y \in S : Min(S) <= y
BY NatLeast DEF Min

LEMMA LatestStamp ==
    ASSUME NEW n \in Nat, NEW S \in SUBSET (0..n), S # {}
    PROVE  Max(S) \in S /\ \A y \in S : y <= Max(S)
<1> DEFINE D == {n - x : x \in S}
<1>1. D \in SUBSET Nat /\ D # {}
  <2>1. PICK x \in S : TRUE
      OBVIOUS
  <2>2. n - x \in D
      BY <2>1
  <2>3. \A y \in S : n - y \in Nat
      OBVIOUS
  <2> QED BY <2>2, <2>3
<1>2. PICK d \in D : \A y \in D : d <= y
  <2> HIDE DEF D
  <2> QED  BY <1>1, NatLeast
<1>3. PICK x \in S : d = n - x
    BY <1>2
<1>4. \A y \in S : y <= x
    BY <1>2, <1>3
<1> QED BY <1>4 DEF Max

LEMMA LeastOfTwo ==
    ASSUME NEW a \in Nat, NEW b \in Nat
    PROVE  Min({a, b}) = IF a <= b THEN a ELSE b
<1>1. {a, b} \in SUBSET Nat /\ {a, b} # {}
    OBVIOUS
<1>2. Min({a, b}) \in {a, b} /\ \A y \in {a, b} : Min({a, b}) <= y
    BY <1>1, LeastStamp
<1> QED BY <1>2

LEMMA BehindOrder ==
    ASSUME NEW a \in Nat, NEW b \in Nat, a <= b
    PROVE  Behind(a) \in Nat /\ Behind(a) <= a /\ Behind(a) <= Behind(b)
BY CursorAssumption DEF Behind

CursorPolls == [pc : {"idle", "asking", "merging"}, now : 0..MaxNow, since : 0..MaxNow,
                batch : SUBSET AllWraps]

\* The messages yet to be decoded that every poll whose window held them was given.
Reachable == Unread \ missed

\* What a poll in flight may rely on: its clock is of the past; while it asks, no
\* reachable message is before its window; once it has its answer, none that the answer
\* does not hold is before the margin behind its clock, which is as far as it will move
\* the cursor.
PollsTimely ==
    \A p \in PollSlots :
        /\ poll[p].now <= now
        /\ poll[p].since <= Behind(poll[p].now)
        /\ poll[p].batch \subseteq OnRelay
        /\ poll[p].pc = "asking" => \A w \in Reachable : stamp[w] >= poll[p].since
        /\ poll[p].pc = "merging" =>
              \A w \in Reachable \ poll[p].batch : stamp[w] >= Behind(poll[p].now)

\* No reachable message is before the window of the next poll.
NoneLeftBehind == \A w \in Reachable : stamp[w] >= Behind(cursor)

CursorInv == CursorTypeOK /\ PollsTimely /\ NoneLeftBehind

LEMMA CursorTyped ==
    ASSUME CursorTypeOK
    PROVE  /\ now \in Nat /\ cursor \in Nat /\ cursor <= now
           /\ \A w \in OnRelay : stamp[w] \in Stamps /\ stamp[w] \in Nat
           /\ poll \in [PollSlots -> CursorPolls]
           /\ \A p \in PollSlots : poll[p].now \in Nat /\ poll[p].since \in Nat
<1> USE CursorAssumption
<1>1. now \in Nat /\ cursor \in Nat /\ cursor <= now
    BY DEF CursorTypeOK
<1>2. \A w \in OnRelay : stamp[w] \in Stamps /\ stamp[w] \in Nat
    BY DEF CursorTypeOK, OnRelay, Stamps
<1>3. poll \in [PollSlots -> CursorPolls]
    BY DEF CursorTypeOK, CursorPolls
<1>4. \A p \in PollSlots : poll[p].now \in Nat /\ poll[p].since \in Nat
    BY <1>3 DEF CursorPolls
<1> QED BY <1>1, <1>2, <1>3, <1>4

LEMMA NoPollTyped ==
    /\ NoPoll \in CursorPolls /\ NoPoll.pc = "idle" /\ NoPoll.now = 0 /\ NoPoll.since = 0
    /\ NoPoll.batch = {}
BY CursorAssumption DEF NoPoll, CursorPolls

LEMMA InitCursorInv == CursorInit => CursorInv
<1> SUFFICES ASSUME CursorInit PROVE CursorInv
    OBVIOUS
<1>1. OnRelay = {} /\ Reachable = {}
    BY DEF CursorInit, OnRelay, Unread, Reachable
<1>2. CursorTypeOK
  <2>1. poll \in [PollSlots -> CursorPolls]
      BY NoPollTyped DEF CursorInit
  <2> QED BY <2>1, CursorAssumption DEF CursorInit, CursorTypeOK, CursorPolls, Stamps
<1>3. 0 <= Behind(0)
    BY BehindOrder
<1> QED BY <1>1, <1>2, <1>3, NoPollTyped, CursorAssumption
        DEF CursorInv, PollsTimely, NoneLeftBehind, CursorInit

LEMMA WorldStepCursor ==
    ASSUME CursorInv,
           ClockTicks \/ (\E w \in AllWraps : PostWrap(w) \/ PostForeign(w)) \/ AppRestarts
    PROVE  CursorInv'
<1> USE CursorAssumption
<1>0. CursorTypeOK /\ PollsTimely /\ NoneLeftBehind
    BY DEF CursorInv
<1>1. CASE ClockTicks
  <2>1. /\ now' = now + 1 /\ now' \in 0..MaxNow
        /\ UNCHANGED <<stamp, cursor, seen, failed, poll, restarts, missed>>
      BY <1>0, <1>1 DEF ClockTicks, CursorTypeOK
  <2>2. CursorTypeOK'
      BY <1>0, <2>1, CursorTyped DEF CursorTypeOK
  <2>3. OnRelay' = OnRelay /\ Reachable' = Reachable
      BY <2>1 DEF OnRelay, Unread, Reachable
  <2>4. \A p \in PollSlots : poll[p].now <= now'
      BY <1>0, <2>1, CursorTyped DEF PollsTimely
  <2> QED BY <1>0, <2>1, <2>2, <2>3, <2>4
          DEF CursorInv, PollsTimely, NoneLeftBehind, Behind
<1>2. CASE \E w \in AllWraps : PostWrap(w) \/ PostForeign(w)
  <2>1. PICK w \in AllWraps : PostWrap(w) \/ PostForeign(w)
      BY <1>2
  <2>2. PICK t \in Stamps : /\ stamp' = [stamp EXCEPT ![w] = t]
                            /\ w \in Wraps => t >= Behind(now)
    <3>1. \A u \in Behind(now)..now : u \in Stamps
        BY <1>0, CursorTyped, BehindOrder DEF CursorTypeOK, Stamps
    <3> QED BY <1>0, <2>1, <3>1, CursorTyped, BehindOrder DEF PostWrap, PostForeign
  <2>3. /\ w \notin OnRelay
        /\ UNCHANGED <<now, cursor, seen, failed, poll, restarts, missed>>
      BY <2>1 DEF PostWrap, PostForeign
  <2>4. CursorTypeOK'
      BY <1>0, <2>2, <2>3 DEF CursorTypeOK
  <2>5. /\ OnRelay' = OnRelay \cup {w} /\ Reachable' \subseteq Reachable \cup {w}
        /\ \A v \in OnRelay : stamp'[v] = stamp[v]
        /\ stamp'[w] = t
        /\ w \in Reachable' => t >= Behind(now)
    <3>1. stamp'[w] = t /\ t # Unsent /\ \A v \in AllWraps \ {w} : stamp'[v] = stamp[v]
        BY <1>0, <2>2 DEF CursorTypeOK, Stamps
    <3>2. OnRelay' = OnRelay \cup {w} /\ \A v \in OnRelay : stamp'[v] = stamp[v]
        BY <2>3, <3>1 DEF OnRelay
    <3> QED BY <2>2, <2>3, <3>1, <3>2 DEF Unread, Reachable
  <2>6. NoneLeftBehind'
    <3>1. Behind(cursor) <= Behind(now)
        BY <1>0, CursorTyped, BehindOrder
    <3>2. t \in Nat /\ Behind(cursor) \in Nat /\ Behind(now) \in Nat
        BY <1>0, CursorTyped, BehindOrder DEF Stamps
    <3>3. Behind(cursor)' = Behind(cursor)
        BY <2>3 DEF Behind
    <3> QED BY <1>0, <2>5, <3>1, <3>2, <3>3 DEF NoneLeftBehind, Unread, Reachable
  <2>7. PollsTimely'
    <3> SUFFICES ASSUME NEW p \in PollSlots
                 PROVE  /\ poll[p].now <= now
                        /\ poll[p].since <= Behind(poll[p].now)
                        /\ poll[p].batch \subseteq OnRelay'
                        /\ poll[p].pc = "asking" => \A v \in Reachable' : stamp'[v] >= poll[p].since
                        /\ poll[p].pc = "merging" =>
                              \A v \in Reachable' \ poll[p].batch : stamp'[v] >= Behind(poll[p].now)
        BY <2>3 DEF PollsTimely, Behind
    <3>1. /\ Behind(poll[p].now) <= Behind(now) /\ Behind(poll[p].now) \in Nat
          /\ poll[p].since \in Nat /\ Behind(now) \in Nat /\ t \in Nat
          /\ poll[p].since <= Behind(poll[p].now)
        BY <1>0, CursorTyped, BehindOrder DEF PollsTimely, Stamps
    <3>2. w \in Reachable' => t >= poll[p].since /\ t >= Behind(poll[p].now)
        BY <2>5, <3>1
    <3>3. \A v \in Reachable' : v = w \/ (v \in Reachable /\ stamp'[v] = stamp[v])
        BY <2>5 DEF Unread, Reachable
    <3> QED BY <1>0, <2>5, <3>2, <3>3 DEF PollsTimely
  <2> QED BY <2>4, <2>6, <2>7 DEF CursorInv
<1>3. CASE AppRestarts
  <2>1. /\ restarts' \in 0..MaxRestarts /\ failed' = {}
        /\ poll' = [p \in PollSlots |-> NoPoll]
        /\ UNCHANGED <<now, stamp, cursor, seen, missed>>
      BY <1>0, <1>3 DEF AppRestarts, CursorTypeOK
  <2>2. poll' \in [PollSlots -> CursorPolls]
      BY <2>1, NoPollTyped
  <2>3. CursorTypeOK'
      BY <1>0, <2>1, <2>2 DEF CursorTypeOK, CursorPolls
  <2>4. OnRelay' = OnRelay /\ Reachable' = Reachable
      BY <2>1 DEF OnRelay, Unread, Reachable
  <2>5. 0 <= Behind(0) /\ 0 <= now
      BY <1>0, BehindOrder, CursorTyped
  <2> QED BY <1>0, <2>1, <2>3, <2>4, <2>5, NoPollTyped
          DEF CursorInv, PollsTimely, NoneLeftBehind, Behind
<1> QED BY <1>1, <1>2, <1>3

LEMMA FetchStepCursor ==
    ASSUME CursorInv, NEW p \in PollSlots, StartPoll(p) \/ FetchWindow(p) \/ FetchFailed(p)
    PROVE  CursorInv'
<1> USE CursorAssumption
<1>0. CursorTypeOK /\ PollsTimely /\ NoneLeftBehind
    BY DEF CursorInv
<1>1. UNCHANGED <<now, stamp, cursor, seen, failed, restarts>>
    BY DEF StartPoll, FetchWindow, FetchFailed
<1>2. OnRelay' = OnRelay /\ missed' \subseteq Wraps /\ Reachable' \subseteq Reachable
  <2>1. OnRelay' = OnRelay /\ Unread' = Unread
      BY <1>1 DEF OnRelay, Unread
  <2>2. missed \subseteq missed' /\ missed' \subseteq Wraps
      BY <1>0 DEF StartPoll, FetchWindow, FetchFailed, CursorTypeOK, Unread
  <2> QED BY <2>1, <2>2 DEF Reachable
<1>3. /\ poll' \in [PollSlots -> CursorPolls]
      /\ \A q \in PollSlots \ {p} : poll'[q] = poll[q]
      /\ poll'[p].now <= now /\ poll'[p].since <= Behind(poll'[p].now)
      /\ poll'[p].batch \subseteq OnRelay
      /\ poll'[p].pc = "asking" => \A w \in Reachable : stamp[w] >= poll'[p].since
      /\ poll'[p].pc = "merging" =>
            \A w \in Reachable' \ poll'[p].batch : stamp[w] >= Behind(poll'[p].now)
  <2>0. poll \in [PollSlots -> CursorPolls] /\ poll[p] \in CursorPolls
      BY <1>0, CursorTyped
  <2>1. CASE StartPoll(p)
    <3> DEFINE new == [pc |-> "asking", now |-> now, since |-> Since(now), batch |-> {}]
    <3>1. poll' = [poll EXCEPT ![p] = new]
        BY <2>1 DEF StartPoll
    <3>2. Since(now) = Behind(cursor) /\ cursor <= now /\ now \in 0..MaxNow
        BY <1>0, CursorTyped, LeastOfTwo DEF Since, CursorTypeOK
    <3>3. /\ Since(now) \in 0..MaxNow /\ Since(now) <= Behind(now)
        BY <1>0, <3>2, CursorTyped, BehindOrder
    <3>4. new \in CursorPolls
        BY <3>2, <3>3 DEF CursorPolls
    <3>5. poll'[p] = new /\ \A q \in PollSlots \ {p} : poll'[q] = poll[q]
        BY <2>0, <3>1
    <3>6. \A w \in Reachable : stamp[w] >= Since(now)
        BY <1>0, <3>2 DEF NoneLeftBehind
    <3> QED BY <2>0, <3>1, <3>2, <3>3, <3>4, <3>5, <3>6
  <2>2. CASE FetchWindow(p)
    <3>1. PICK batch \in SUBSET InWindow(p) :
             /\ poll' = [poll EXCEPT ![p].pc = "merging", ![p].batch = batch]
             /\ missed' = missed \cup ((InWindow(p) \cap Unread) \ batch)
        BY <2>2 DEF FetchWindow
    <3>2. batch \subseteq OnRelay /\ batch \subseteq AllWraps /\ poll[p].pc = "asking"
        BY <2>2, <3>1 DEF FetchWindow, InWindow, OnRelay
    <3>3. /\ poll' \in [PollSlots -> CursorPolls]
          /\ \A q \in PollSlots \ {p} : poll'[q] = poll[q]
          /\ poll'[p].now = poll[p].now /\ poll'[p].since = poll[p].since
          /\ poll'[p].batch = batch /\ poll'[p].pc = "merging"
        BY <2>0, <3>1, <3>2 DEF CursorPolls
    <3>4. Reachable' \ batch = {}
      <4> SUFFICES ASSUME NEW w \in Reachable', w \notin batch PROVE FALSE
          OBVIOUS
      <4>1. w \in Reachable /\ w \in Unread /\ w \in OnRelay
          BY <1>2 DEF Reachable, Unread
      <4>2. stamp[w] >= poll[p].since
          BY <1>0, <3>2, <4>1 DEF PollsTimely
      <4>3. w \in missed'
          BY <3>1, <4>1, <4>2 DEF InWindow
      <4> QED BY <4>3 DEF Reachable
    <3> QED BY <1>0, <3>2, <3>3, <3>4 DEF PollsTimely
  <2>3. CASE FetchFailed(p)
    <3>1. poll' = [poll EXCEPT ![p] = NoPoll]
        BY <2>3 DEF FetchFailed
    <3>2. poll'[p] = NoPoll /\ \A q \in PollSlots \ {p} : poll'[q] = poll[q]
        BY <2>0, <3>1
    <3>3. 0 <= Behind(0) /\ 0 <= now
        BY <1>0, BehindOrder, CursorTyped
    <3> QED BY <2>0, <3>1, <3>2, <3>3, NoPollTyped
  <2> QED BY <2>1, <2>2, <2>3
<1>4. CursorTypeOK'
    BY <1>0, <1>1, <1>2, <1>3 DEF CursorTypeOK, CursorPolls
<1>5. PollsTimely'
  <2> SUFFICES ASSUME NEW q \in PollSlots
               PROVE  /\ poll'[q].now <= now
                      /\ poll'[q].since <= Behind(poll'[q].now)
                      /\ poll'[q].batch \subseteq OnRelay
                      /\ poll'[q].pc = "asking" => \A w \in Reachable' : stamp[w] >= poll'[q].since
                      /\ poll'[q].pc = "merging" =>
                            \A w \in Reachable' \ poll'[q].batch : stamp[w] >= Behind(poll'[q].now)
      BY <1>1, <1>2 DEF PollsTimely, Behind
  <2>1. CASE q = p
      BY <1>2, <1>3, <2>1
  <2>2. CASE q # p
      BY <1>0, <1>2, <1>3, <2>2 DEF PollsTimely
  <2> QED BY <2>1, <2>2
<1>6. NoneLeftBehind'
    BY <1>0, <1>1, <1>2 DEF NoneLeftBehind, Behind
<1> QED BY <1>4, <1>5, <1>6 DEF CursorInv

\* A merge moves the cursor to its own clock at most.
LEMMA MergedCursor ==
    ASSUME CursorInv, NEW p \in PollSlots, MergeWraps(p)
    PROVE  cursor' \in 0..poll[p].now
<1>0. CursorTypeOK /\ PollsTimely
    BY DEF CursorInv
<1> DEFINE reached == {Min({cursor, poll[p].now})} \cup {Clamped(p, w) : w \in Settled(p)}
<1>1. poll[p].now \in Nat /\ cursor \in Nat
    BY <1>0, CursorTyped
<1>2. Min({cursor, poll[p].now}) \in 0..poll[p].now
    BY <1>1, LeastOfTwo
<1>3. ASSUME NEW w \in Settled(p) PROVE Clamped(p, w) \in 0..poll[p].now
  <2>1. w \in OnRelay
      BY <1>0 DEF Settled, PollsTimely
  <2>2. stamp[w] \in Nat
      BY <1>0, <2>1, CursorTyped
  <2> QED BY <1>1, <2>2, LeastOfTwo DEF Clamped
<1>4. reached \in SUBSET (0..poll[p].now) /\ reached # {}
    BY <1>2, <1>3
<1>5. cursor' = Max(reached)
    BY DEF MergeWraps
<1> HIDE DEF reached
<1> QED BY <1>1, <1>4, <1>5, LatestStamp

LEMMA MergeStepCursor ==
    ASSUME CursorInv, NEW p \in PollSlots, MergeWraps(p)
    PROVE  CursorInv'
<1> USE CursorAssumption
<1>0. CursorTypeOK /\ PollsTimely /\ NoneLeftBehind
    BY DEF CursorInv
<1>1. /\ poll[p].pc = "merging"
      /\ seen' = seen \cup (poll[p].batch \cap Wraps)
      /\ failed' = failed \cup (poll[p].batch \cap Foreign)
      /\ poll' = [poll EXCEPT ![p] = NoPoll]
      /\ UNCHANGED <<now, stamp, restarts, missed>>
    BY DEF MergeWraps, Decoded
<1>2. poll \in [PollSlots -> CursorPolls] /\ poll[p].now \in Nat /\ poll[p].now <= now
    BY <1>0, CursorTyped DEF PollsTimely
<1>3. poll' \in [PollSlots -> CursorPolls] /\ poll'[p] = NoPoll
      /\ \A q \in PollSlots \ {p} : poll'[q] = poll[q]
    BY <1>1, <1>2, NoPollTyped
<1>4. cursor' \in Nat /\ cursor' <= poll[p].now /\ cursor' \in 0..now
    BY <1>0, <1>2, MergedCursor, CursorTyped
<1>5. OnRelay' = OnRelay /\ Reachable' \subseteq Reachable \ poll[p].batch
    BY <1>1 DEF OnRelay, Unread, Reachable
<1>6. CursorTypeOK'
    BY <1>0, <1>1, <1>3, <1>4 DEF CursorTypeOK, CursorPolls
<1>7. PollsTimely'
  <2>1. 0 <= Behind(0) /\ 0 <= now
      BY <1>0, BehindOrder, CursorTyped
  <2> SUFFICES ASSUME NEW q \in PollSlots
               PROVE  /\ poll'[q].now <= now
                      /\ poll'[q].since <= Behind(poll'[q].now)
                      /\ poll'[q].batch \subseteq OnRelay
                      /\ poll'[q].pc = "asking" => \A w \in Reachable' : stamp[w] >= poll'[q].since
                      /\ poll'[q].pc = "merging" =>
                            \A w \in Reachable' \ poll'[q].batch : stamp[w] >= Behind(poll'[q].now)
      BY <1>1, <1>5 DEF PollsTimely, Behind
  <2>2. CASE q = p
      BY <1>3, <2>1, <2>2, NoPollTyped
  <2>3. CASE q # p
      BY <1>0, <1>3, <1>5, <2>3 DEF PollsTimely
  <2> QED BY <2>2, <2>3
<1>8. NoneLeftBehind'
  <2>1. Behind(cursor') <= Behind(poll[p].now) /\ Behind(cursor') \in Nat
        /\ Behind(poll[p].now) \in Nat
      BY <1>2, <1>4, BehindOrder
  <2>2. \A w \in Reachable' : stamp[w] >= Behind(poll[p].now) /\ stamp[w] \in Nat
      BY <1>0, <1>1, <1>5, CursorTyped DEF PollsTimely, Unread, Reachable
  <2>3. Behind(cursor)' = Behind(cursor')
      BY DEF Behind
  <2> QED BY <1>1, <2>1, <2>2, <2>3 DEF NoneLeftBehind
<1> QED BY <1>6, <1>7, <1>8 DEF CursorInv

LEMMA CursorInvStep == CursorInv /\ [CursorNext]_cursorVars => CursorInv'
<1> SUFFICES ASSUME CursorInv, [CursorNext]_cursorVars PROVE CursorInv'
    OBVIOUS
<1>1. CASE ClockTicks \/ (\E w \in AllWraps : PostWrap(w) \/ PostForeign(w)) \/ AppRestarts
    BY <1>1, WorldStepCursor
<1>2. CASE \E p \in PollSlots : StartPoll(p) \/ FetchWindow(p) \/ FetchFailed(p)
    BY <1>2, FetchStepCursor
<1>3. CASE \E p \in PollSlots : MergeWraps(p)
    BY <1>3, MergeStepCursor
<1>4. CASE UNCHANGED cursorVars
    BY <1>4 DEF cursorVars, CursorInv, CursorTypeOK, PollsTimely, NoneLeftBehind, Reachable, OnRelay,
                Unread, Behind
<1> QED BY <1>1, <1>2, <1>3, <1>4 DEF CursorNext

LEMMA CursorInvariant == CursorSpec => []CursorInv
BY InitCursorInv, CursorInvStep, PTL DEF CursorSpec

\* The window's state keeps its types, and the cursor is never of the future.
THEOREM CursorTypeCorrect == CursorSpec => []CursorTypeOK
<1>1. CursorInv => CursorTypeOK
    BY DEF CursorInv
<1> QED BY <1>1, CursorInvariant, PTL

LEMMA CursorInvStrands == CursorInv => StrandedWereMissed
<1> SUFFICES ASSUME CursorInv, NEW w \in Wraps, Stranded(w), w \notin missed PROVE FALSE
    BY DEF StrandedWereMissed
<1>1. w \in Reachable /\ stamp[w] < Behind(cursor) /\ w \in OnRelay
    BY DEF Stranded, Reachable, Unread
<1>2. stamp[w] \in Nat /\ Behind(cursor) \in Nat /\ stamp[w] >= Behind(cursor)
    BY <1>1, CursorTyped, BehindOrder DEF CursorInv, NoneLeftBehind
<1> QED BY <1>1, <1>2

\* A message that the window of the next poll leaves out while it is still to be decoded
\* is one that some earlier poll asked for and was not given.
THEOREM StrandedOnesWereMissed == CursorSpec => []StrandedWereMissed
<1>1. CursorInv => StrandedWereMissed
    BY CursorInvStrands
<1> QED BY <1>1, CursorInvariant, PTL

-----------------------------------------------------------------------------
(* Both ways a message could be lost: Messages *)

\* While the process lives, every message that was decoded is kept or was dropped on
\* purpose, and every one that was not is still within reach of a poll, unless a poll
\* whose window held it was not given it.
THEOREM EveryMessageKept == DmSpec /\ CursorSpec => []MessagesKept
<1>1. DmInv /\ CursorInv => MessagesKept
    BY CursorInvStrands DEF DmInv, MessagesKept
<1> QED BY <1>1, DmInvariant, CursorInvariant, PTL

-----------------------------------------------------------------------------
(* The membership of a topic: Topics *)

\* What a command relies on between two of its steps.
SlotInv(s) ==
    LET c == topicCommand[s] IN
    /\ c.step \in {"asking", "publishing"} => c.op = "join"
    /\ c.step \in {"filing", "storing"} => c.op \in {"join", "elsewhere"}
    /\ c.step \in {"retracting", "dropping"} => c.op = "leave"
    /\ c.step \in {"republishing", "recording"} => c.op = "roster"
    /\ c.step \in {"asking", "publishing", "republishing"} =>
          c.membership \in Seals /\ c.membership <= sealed
    /\ c.step \in {"filing", "storing"} /\ c.op = "join" => c.membership \in wired
    /\ c.step = "recording" => c.membership \in wired
    /\ c.step \in {"announcing", "saving"} =>
          /\ c.row \in {OldSeal, NoTopic} \cup wired
          /\ left /\ c.row # NoTopic => c.late \/ broughtBack
    /\ c.step \in {"asking", "republishing"} => c.invite = NoTopic
    /\ c.step = "publishing" /\ c.invite # NoTopic => c.invite \in c.seen
    /\ \A i \in c.seen : admitted[i] > 0 \/ (c.step = "publishing" /\ i = c.invite)

\* What holds as long as joins came one after the other and none was cut short: the
\* one in flight knows every spent invite, and its own has let nobody in before it
\* files it.
AloneInv ==
    /\ \A s, q \in TopicSlots : Joins(s) /\ Joins(q) => s = q
    /\ \A s \in TopicSlots : Joins(s) =>
          /\ nonces \subseteq topicCommand[s].seen
          /\ topicCommand[s].step = "publishing" /\ topicCommand[s].invite # NoTopic =>
                admitted[topicCommand[s].invite] = 0
    /\ \A i \in Invites :
          /\ admitted[i] <= 1
          /\ admitted[i] = 1 =>
                \/ i \in nonces
                \/ \E s \in TopicSlots : Unsaved(topicCommand[s]) /\ i \in topicCommand[s].seen

\* What the relays show when they agree with a stored row.
RosterOf(recorded) == IF recorded \in Seals THEN recorded ELSE NoTopic

\* A command that runs alone knows what the relays show: the stored row, until it
\* changed that; from then on what it is to store.
SteadyJob(c, recorded, shown) ==
    /\ c.step \in {"asking", "publishing", "republishing"} =>
          shown = NoTopic \/ shown < c.membership
    /\ c.step \in {"republishing", "recording"} => recorded # NoTopic
    /\ c.step \in {"announcing", "saving"} => shown = RosterOf(c.row)
    /\ ~Midway(c) => shown = RosterOf(recorded)
    /\ c.step = "dropping" => shown = NoTopic
    /\ c.step = "recording" \/ (c.op = "join" /\ c.step \in {"filing", "storing"}) =>
          shown = c.membership

\* What holds as long as nothing strayed.
Steady ==
    /\ \A s, q \in TopicSlots : ~Vacant(s) /\ ~Vacant(q) => s = q
    /\ \A s \in TopicSlots : ~Vacant(s) => SteadyJob(topicCommand[s], topicRow, roster)
    /\ (\A s \in TopicSlots : Vacant(s)) => roster = RosterOf(topicRow)

TopicInv ==
    /\ TopicTypeOK
    /\ sealed <= topicCommands + 1
    /\ roster # NoTopic => roster <= sealed
    /\ LeaveWins /\ NoPoisonedMigration
    /\ \A i \in nonces : admitted[i] > 0
    /\ \A s \in TopicSlots : SlotInv(s)
    /\ joinsAstray \/ AloneInv
    /\ strayed \/ Steady

LEMMA TopicNumbers ==
    /\ MaxTopicCommands \in Nat /\ MaxTopicExits \in Nat
    /\ Seals \subseteq Nat /\ OldSeal \notin Seals /\ NoTopic \notin Seals \cup {OldSeal}
    /\ 1 \in Seals /\ OldSeal \in Nat
    /\ NoTopic \notin Invites
    BY TopicAssumption DEF Seals, OldSeal

LEMMA IdleJob ==
    /\ NoTopicJob \in TopicJobs /\ NoTopicJob.op = "none" /\ NoTopicJob.step = "idle"
    /\ NoTopicJob.seen = {} /\ NoTopicJob.invite = NoTopic /\ NoTopicJob.late = FALSE
    BY DEF NoTopicJob, TopicJobs, TopicRows

LEMMA InitTopicInv == TopicInit => TopicInv
<1> SUFFICES ASSUME TopicInit PROVE TopicInv
    OBVIOUS
<1>1. TopicTypeOK
  <2>1. 0 \in 0..MaxTopicCommands /\ 0 \in 0..MaxTopicExits
    BY TopicNumbers
  <2>2. topicRow \in TopicRows /\ roster \in Seals \cup {NoTopic} /\ wired \subseteq Seals
    BY TopicNumbers DEF TopicInit, TopicRows
  <2> QED
    BY <2>1, <2>2, TopicNumbers, IdleJob DEF TopicInit, TopicTypeOK
<1>2. LeaveWins /\ NoPoisonedMigration
    BY TopicNumbers DEF TopicInit, LeaveWins, NoPoisonedMigration
<1>3. \A s \in TopicSlots : SlotInv(s)
    BY IdleJob DEF TopicInit, SlotInv
<1>4. AloneInv
    BY IdleJob DEF TopicInit, AloneInv, Joins
<1>5. sealed <= topicCommands + 1 /\ nonces = {} /\ (roster # NoTopic => roster <= sealed)
    BY DEF TopicInit
<1>6. Steady
    BY TopicNumbers DEF TopicInit, Steady, Vacant, RosterOf
<1> QED
    BY <1>1, <1>2, <1>3, <1>4, <1>5, <1>6 DEF TopicInv

\* The step of one command leaves what the others rely on.
LEMMA SlotKeepsInv ==
    ASSUME TopicInv, NEW s \in TopicSlots, NEW new \in TopicJobs,
           topicCommand' = [topicCommand EXCEPT ![s] = new],
           wired \subseteq wired', sealed <= sealed',
           \A i \in Invites : admitted'[i] >= admitted[i],
           left' = FALSE \/ (left' = left /\ (broughtBack => broughtBack')),
           SlotInv(s)', TopicTypeOK', LeaveWins' /\ NoPoisonedMigration',
           sealed' <= topicCommands' + 1, roster' # NoTopic => roster' <= sealed',
           \A i \in nonces' : admitted'[i] > 0,
           joinsAstray' \/ AloneInv', strayed' \/ Steady'
    PROVE  TopicInv'
<1>1. ASSUME NEW q \in TopicSlots, q # s
      PROVE  SlotInv(q)'
  <2>1. /\ topicCommand'[q] = topicCommand[q] /\ SlotInv(q) /\ topicCommand[q] \in TopicJobs
    BY <1>1 DEF TopicInv, TopicTypeOK
  <2>2. \A i \in topicCommand[q].seen : admitted[i] > 0 => admitted'[i] > 0
    BY <2>1 DEF TopicInv, TopicTypeOK, TopicJobs
  <2>3. topicCommand[q].membership <= sealed => topicCommand[q].membership <= sealed'
    <3>1. topicCommand[q].membership \in Nat
      BY <2>1, TopicNumbers DEF TopicJobs
    <3>2. sealed \in Nat
      BY TopicNumbers DEF TopicInv, TopicTypeOK
    <3>3. sealed' \in Nat
      BY TopicNumbers DEF TopicTypeOK
    <3> QED
      BY <3>1, <3>2, <3>3
  <2> QED
    BY <2>1, <2>2, <2>3 DEF SlotInv
<1> QED
    BY <1>1 DEF TopicInv

LEMMA JobTypes ==
    ASSUME TopicInv, NEW s \in TopicSlots
    PROVE  /\ topicCommand[s] \in TopicJobs /\ SlotInv(s)
           /\ topicCommand[s].row \in TopicRows
           /\ topicCommand[s].membership \in Seals \cup {OldSeal}
           /\ topicCommand[s].seen \subseteq Invites
           /\ topicCommand[s].invite \in Invites \cup {NoTopic}
           /\ \A new : [topicCommand EXCEPT ![s] = new][s] = new
           /\ \A new, q \in TopicSlots :
                 q # s => [topicCommand EXCEPT ![s] = new][q] = topicCommand[q]
    BY DEF TopicInv, TopicTypeOK, TopicJobs

\* A step of a command that has no redeemed invites to save.
LEMMA AsideKeepsAlone ==
    ASSUME TopicInv, NEW s \in TopicSlots, NEW new \in TopicJobs,
           topicCommand' = [topicCommand EXCEPT ![s] = new],
           ~Joins(s), new.step \notin {"asking", "publishing", "filing"},
           UNCHANGED <<nonces, admitted, joinsAstray>>
    PROVE  joinsAstray' \/ AloneInv'
<1>1. \A q \in TopicSlots :
         /\ Joins(q)' <=> Joins(q)
         /\ Joins(q) => topicCommand'[q] = topicCommand[q]
         /\ Unsaved(topicCommand[q]) => Joins(q)
    BY JobTypes DEF Joins, Unsaved
<1>2. CASE joinsAstray
    BY <1>2
<1>3. CASE AloneInv
  <2>1. \A a, b \in TopicSlots : Joins(a)' /\ Joins(b)' => a = b
    BY <1>1, <1>3 DEF AloneInv
  <2>2. \A q \in TopicSlots : Joins(q)' =>
          /\ nonces' \subseteq topicCommand'[q].seen
          /\ topicCommand'[q].step = "publishing" /\ topicCommand'[q].invite # NoTopic =>
                admitted'[topicCommand'[q].invite] = 0
    BY <1>1, <1>3 DEF AloneInv
  <2>3. \A i \in Invites :
          /\ admitted'[i] <= 1
          /\ admitted'[i] = 1 =>
                \/ i \in nonces'
                \/ \E q \in TopicSlots : Unsaved(topicCommand'[q]) /\ i \in topicCommand'[q].seen
    BY <1>1, <1>3 DEF AloneInv
  <2> QED
    BY <2>1, <2>2, <2>3 DEF AloneInv, Unsaved
<1> QED
    BY <1>2, <1>3 DEF TopicInv

\* A command that runs while all the others are idle.
LEMMA Undisturbed ==
    ASSUME TopicInv, NEW s \in TopicSlots, ~strayed, ~Vacant(s)
    PROVE  /\ \A q \in TopicSlots : q # s => Vacant(q)
           /\ SteadyJob(topicCommand[s], topicRow, roster)
    BY DEF TopicInv, Steady

LEMMA SteadyStep ==
    ASSUME TopicInv, NEW s \in TopicSlots, NEW new,
           topicCommand' = [topicCommand EXCEPT ![s] = new],
           \A q \in TopicSlots : q # s => Vacant(q),
           new = NoTopicJob => roster' = RosterOf(topicRow'),
           new # NoTopicJob => SteadyJob(new, topicRow', roster')
    PROVE  Steady'
<1>1. topicCommand'[s] = new /\ \A q \in TopicSlots : q # s => topicCommand'[q] = NoTopicJob
    BY JobTypes DEF Vacant
<1>2. \A a, b \in TopicSlots : ~Vacant(a)' /\ ~Vacant(b)' => a = b
    BY <1>1 DEF Vacant
<1>3. \A a \in TopicSlots : ~Vacant(a)' => SteadyJob(topicCommand'[a], topicRow', roster')
    BY <1>1 DEF Vacant
<1>4. (\A a \in TopicSlots : Vacant(a)') => roster' = RosterOf(topicRow')
    BY <1>1 DEF Vacant
<1> QED
    BY <1>2, <1>3, <1>4 DEF Steady, SteadyJob, RosterOf, Midway

\* What the beginning of a command that is no join leaves to show.
LEMMA BeginsKeepsInv ==
    ASSUME TopicInv, NEW s \in TopicSlots, NEW new \in TopicJobs,
           TopicBegins(s, new),
           new # NoTopicJob, new.step \in {"retracting", "announcing", "republishing"},
           new.seen = {},
           UNCHANGED <<private, topicFiles, roster, invited, topicExits, joinHistory>>,
           sealed' \in {sealed, sealed + 1}, sealed' \in {0} \cup Seals,
           SlotInv(s)', roster = RosterOf(topicRow) => SteadyJob(new, topicRow, roster)
    PROVE  TopicInv'
<1>1. /\ topicCommand' = [topicCommand EXCEPT ![s] = new] /\ Vacant(s)
      /\ topicCommands' = topicCommands + 1 /\ topicCommands < MaxTopicCommands
      /\ strayed' = (strayed \/ \E t \in TopicSlots : ~Vacant(t))
    BY DEF TopicBegins
<1>2. /\ private' = private /\ topicRow' = topicRow /\ nonces' = nonces /\ roster' = roster
      /\ invited' = invited /\ topicExits' = topicExits /\ wired' = wired
      /\ admitted' = admitted /\ left' = left /\ broughtBack' = broughtBack
      /\ joinsAstray' = joinsAstray
    BY DEF topicFiles, joinHistory
<1>3. /\ topicCommands \in Nat /\ topicCommands' \in 0..MaxTopicCommands
      /\ sealed \in Nat /\ sealed' \in Nat /\ sealed <= sealed'
      /\ sealed' <= topicCommands' + 1
  <2>1. topicCommands \in 0..MaxTopicCommands /\ sealed \in {0} \cup Seals
    BY DEF TopicInv, TopicTypeOK
  <2>2. sealed \in Nat /\ sealed' \in {sealed, sealed + 1} /\ sealed <= topicCommands + 1
    BY <2>1, TopicNumbers DEF TopicInv
  <2> QED
    BY <1>1, <2>1, <2>2, TopicNumbers
<1>4. TopicTypeOK'
  <2>1. topicCommand' \in [TopicSlots -> TopicJobs] /\ strayed' \in BOOLEAN
    BY <1>1 DEF TopicInv, TopicTypeOK
  <2> QED
    BY <1>2, <1>3, <2>1 DEF TopicInv, TopicTypeOK
<1>5. roster' # NoTopic => roster' <= sealed'
  <2>1. roster # NoTopic => roster \in Nat /\ roster <= sealed
    BY TopicNumbers DEF TopicInv, TopicTypeOK
  <2> QED
    BY <1>2, <1>3, <2>1
<1>6. LeaveWins' /\ NoPoisonedMigration' /\ \A i \in nonces' : admitted'[i] > 0
    BY <1>2 DEF TopicInv, LeaveWins, NoPoisonedMigration, Member
<1>7. joinsAstray' \/ AloneInv'
    BY <1>1, <1>2, IdleJob, AsideKeepsAlone DEF Joins, Vacant
<1>8. strayed' \/ Steady'
  <2> SUFFICES ASSUME ~strayed' PROVE Steady'
    OBVIOUS
  <2>1. ~strayed /\ \A t \in TopicSlots : Vacant(t)
    BY <1>1
  <2>2. roster = RosterOf(topicRow)
    BY <2>1 DEF TopicInv, Steady
  <2> QED
    BY <1>1, <1>2, <2>1, <2>2, SteadyStep
<1>9. \A i \in Invites : admitted'[i] >= admitted[i]
    BY <1>2 DEF TopicInv, TopicTypeOK
<1> QED
    BY <1>1, <1>2, <1>3, <1>4, <1>5, <1>6, <1>7, <1>8, <1>9, SlotKeepsInv

LEMMA LeaveBeginsKeepsInv ==
    ASSUME TopicInv, NEW s \in TopicSlots, LeaveBegins(s)
    PROVE  TopicInv'
<1> DEFINE new == [NoTopicJob EXCEPT !.op = "leave", !.step = "retracting", !.row = topicRow]
<1>1. /\ TopicBegins(s, new)
      /\ UNCHANGED <<private, topicFiles, roster, invited, sealed, topicExits, joinHistory>>
    BY DEF LeaveBegins, ReadsRow
<1>2. /\ new \in TopicJobs /\ new.op = "leave" /\ new.step = "retracting" /\ new.seen = {}
    BY IdleJob DEF TopicJobs, TopicInv, TopicTypeOK
<1> HIDE DEF new
<1>3. topicCommand'[s] = new /\ new # NoTopicJob
    BY <1>1, <1>2, JobTypes, IdleJob DEF TopicBegins
<1>4. SlotInv(s)'
    BY <1>2, <1>3 DEF SlotInv
<1>5. roster = RosterOf(topicRow) => SteadyJob(new, topicRow, roster)
    BY <1>2 DEF SteadyJob
<1>6. sealed' = sealed /\ sealed \in {0} \cup Seals
    BY <1>1 DEF TopicInv, TopicTypeOK
<1> QED
    BY <1>1, <1>2, <1>3, <1>4, <1>5, <1>6, BeginsKeepsInv

LEMMA EditBeginsKeepsInv ==
    ASSUME TopicInv, NEW s \in TopicSlots, EditBegins(s)
    PROVE  TopicInv'
<1> DEFINE new == [NoTopicJob EXCEPT !.op = "edit", !.step = "announcing", !.row = topicRow]
<1>1. /\ TopicBegins(s, new) /\ Member
      /\ UNCHANGED <<private, topicFiles, roster, invited, sealed, topicExits, joinHistory>>
    BY DEF EditBegins, ReadsRow
<1>2. /\ new \in TopicJobs /\ new.op = "edit" /\ new.step = "announcing" /\ new.seen = {}
      /\ new.row = topicRow
    BY IdleJob DEF TopicJobs, TopicInv, TopicTypeOK
<1> HIDE DEF new
<1>3. topicCommand'[s] = new /\ new # NoTopicJob
    BY <1>1, <1>2, JobTypes, IdleJob DEF TopicBegins
<1>4. SlotInv(s)'
  <2>1. topicRow \in {OldSeal} \cup wired /\ (left => broughtBack)
    BY <1>1 DEF TopicInv, TopicTypeOK, TopicRows, LeaveWins, NoPoisonedMigration, Member
  <2> QED
    BY <1>1, <1>2, <1>3, <2>1 DEF SlotInv, joinHistory
<1>5. roster = RosterOf(topicRow) => SteadyJob(new, topicRow, roster)
    BY <1>2 DEF SteadyJob
<1>6. sealed' = sealed /\ sealed \in {0} \cup Seals
    BY <1>1 DEF TopicInv, TopicTypeOK
<1> QED
    BY <1>1, <1>2, <1>3, <1>4, <1>5, <1>6, BeginsKeepsInv

LEMMA RosterBeginsKeepsInv ==
    ASSUME TopicInv, NEW s \in TopicSlots, RosterBegins(s)
    PROVE  TopicInv'
<1> DEFINE new == [NoTopicJob EXCEPT !.op = "roster", !.step = "republishing", !.row = topicRow,
                                     !.membership = sealed + 1]
<1>1. /\ TopicBegins(s, new) /\ sealed' = sealed + 1 /\ topicRow = OldSeal
      /\ UNCHANGED <<private, topicFiles, roster, invited, topicExits, joinHistory>>
    BY DEF RosterBegins
<1>2. sealed + 1 \in Seals /\ sealed \in Nat
    BY <1>1, TopicNumbers DEF TopicBegins, TopicInv, TopicTypeOK, Seals
<1>3. /\ new \in TopicJobs /\ new.op = "roster" /\ new.step = "republishing" /\ new.seen = {}
      /\ new.membership = sealed + 1 /\ new.invite = NoTopic
    BY <1>2, IdleJob DEF TopicJobs, TopicInv, TopicTypeOK
<1> HIDE DEF new
<1>4. topicCommand'[s] = new /\ new # NoTopicJob
    BY <1>1, <1>3, JobTypes, IdleJob DEF TopicBegins
<1>5. SlotInv(s)'
    BY <1>1, <1>2, <1>3, <1>4 DEF SlotInv
<1>6. roster = RosterOf(topicRow) => SteadyJob(new, topicRow, roster)
    BY <1>1, <1>3, TopicNumbers DEF SteadyJob, RosterOf
<1> QED
    BY <1>1, <1>2, <1>3, <1>4, <1>5, <1>6, BeginsKeepsInv

\* The relays keep the newest of two memberships.
LEMMA ServedType ==
    ASSUME TopicInv, NEW m \in Seals
    PROVE  /\ Served(m) \in Seals \cup {NoTopic}
           /\ m <= sealed => (Served(m) # NoTopic => Served(m) <= sealed)
           /\ (roster = NoTopic \/ roster < m) => Served(m) = m
<1>1. /\ m \in Nat /\ sealed \in Nat /\ roster \in Seals \cup {NoTopic}
      /\ roster # NoTopic => roster \in Nat /\ roster <= sealed
    BY TopicNumbers DEF TopicInv, TopicTypeOK
<1> QED
    BY <1>1 DEF Served

\* What a step of a running command that is no join leaves to show.
LEMMA AsideKeepsInv ==
    ASSUME TopicInv, NEW s \in TopicSlots, NEW new \in TopicJobs,
           topicCommand' = [topicCommand EXCEPT ![s] = new],
           ~Joins(s), new.step \notin {"asking", "publishing", "filing"},
           UNCHANGED <<private, nonces, invited, sealed, topicCommands, topicExits, admitted,
                       left, joinsAstray>>,
           wired \subseteq wired', wired' \subseteq Seals,
           broughtBack => broughtBack', broughtBack' \in BOOLEAN, strayed' \in BOOLEAN,
           topicRow' \in TopicRows, roster' \in Seals \cup {NoTopic},
           roster' # NoTopic => roster' <= sealed,
           SlotInv(s)', LeaveWins' /\ NoPoisonedMigration', strayed' \/ Steady'
    PROVE  TopicInv'
<1>1. TopicTypeOK' /\ sealed' <= topicCommands' + 1
    BY DEF TopicInv, TopicTypeOK
<1>2. \A i \in nonces' : admitted'[i] > 0
    BY DEF TopicInv
<1>3. \A i \in Invites : admitted'[i] >= admitted[i]
    BY DEF TopicInv, TopicTypeOK
<1>4. joinsAstray' \/ AloneInv'
    BY AsideKeepsAlone
<1>5. sealed <= sealed' /\ (roster' # NoTopic => roster' <= sealed')
  <2>1. sealed \in Nat /\ sealed' = sealed
    BY TopicNumbers DEF TopicInv, TopicTypeOK
  <2> QED
    BY <2>1
<1> QED
    BY <1>1, <1>2, <1>3, <1>4, <1>5, SlotKeepsInv

LEMMA RosterType ==
    ASSUME TopicInv
    PROVE  /\ roster \in Seals \cup {NoTopic} /\ (roster # NoTopic => roster <= sealed)
           /\ topicRow \in TopicRows /\ wired \subseteq Seals
           /\ left \in BOOLEAN /\ broughtBack \in BOOLEAN /\ strayed \in BOOLEAN
    BY DEF TopicInv, TopicTypeOK

LEMMA RetractsKeepsInv ==
    ASSUME TopicInv, NEW s \in TopicSlots, RetractsMembership(s)
    PROVE  TopicInv'
<1> DEFINE new == [topicCommand[s] EXCEPT !.step = "dropping"]
<1>1. /\ topicCommand' = [topicCommand EXCEPT ![s] = new]
      /\ topicCommand[s].step = "retracting"
      /\ roster' \in {roster, NoTopic} /\ strayed' = (strayed \/ roster' # NoTopic)
      /\ UNCHANGED <<private, topicFiles, invited, sealed, topicCommands, topicExits,
                     joinHistory>>
    BY DEF RetractsMembership, TopicGoes
<1>2. /\ new \in TopicJobs /\ new.step = "dropping" /\ new.op = topicCommand[s].op
      /\ new.seen = topicCommand[s].seen
    BY JobTypes DEF TopicJobs
<1>3. topicCommand'[s] = new /\ topicCommand[s].op = "leave"
    BY <1>1, JobTypes DEF SlotInv
<1> HIDE DEF new
<1>4. SlotInv(s)' /\ ~Joins(s)
    BY <1>1, <1>2, <1>3, JobTypes DEF SlotInv, Joins, joinHistory
<1>5. LeaveWins' /\ NoPoisonedMigration'
    BY <1>1 DEF TopicInv, LeaveWins, NoPoisonedMigration, Member, topicFiles, joinHistory
<1>6. strayed' \/ Steady'
  <2> SUFFICES ASSUME ~strayed' PROVE Steady'
    OBVIOUS
  <2>1. ~strayed /\ roster' = NoTopic /\ ~Vacant(s)
    BY <1>1, IdleJob DEF Vacant
  <2>2. SteadyJob(new, topicRow', roster') /\ new # NoTopicJob
    BY <1>2, <1>3, <2>1, IdleJob DEF SteadyJob, Midway
  <2> QED
    BY <1>1, <2>1, <2>2, Undisturbed, SteadyStep
<1>7. UNCHANGED <<private, nonces, invited, sealed, topicCommands, topicExits, admitted,
                  left, joinsAstray>>
    BY <1>1 DEF topicFiles, joinHistory
<1>8. wired' = wired /\ broughtBack' = broughtBack /\ topicRow' = topicRow
    BY <1>1 DEF topicFiles, joinHistory
<1>9. wired \subseteq wired' /\ wired' \subseteq Seals
    BY <1>8, RosterType
<1>10. (broughtBack => broughtBack') /\ broughtBack' \in BOOLEAN /\ strayed' \in BOOLEAN
    BY <1>1, <1>8, RosterType
<1>11. topicRow' \in TopicRows /\ roster' \in Seals \cup {NoTopic}
    BY <1>1, <1>8, RosterType
<1>12. roster' # NoTopic => roster' <= sealed
    BY <1>1, RosterType
<1>13. new.step \notin {"asking", "publishing", "filing"}
    BY <1>2
<1> QED
    BY <1>1, <1>2, <1>4, <1>5, <1>6, <1>7, <1>9, <1>10, <1>11, <1>12, <1>13, AsideKeepsInv

LEMMA RepublishedKeepsInv ==
    ASSUME TopicInv, NEW s \in TopicSlots, Republished(s)
    PROVE  TopicInv'
<1> DEFINE new == [topicCommand[s] EXCEPT !.step = "recording"]
           m == topicCommand[s].membership
<1>1. /\ topicCommand' = [topicCommand EXCEPT ![s] = new]
      /\ topicCommand[s].step = "republishing"
      /\ roster' = Served(m) /\ wired' = wired \cup {m}
      /\ UNCHANGED <<private, topicFiles, invited, sealed, topicCommands, topicExits, admitted,
                     left, broughtBack, joinsAstray, strayed>>
    BY DEF Republished, Published, TopicGoes
<1>2. /\ new \in TopicJobs /\ new.step = "recording" /\ new.op = topicCommand[s].op
      /\ new.seen = topicCommand[s].seen /\ new.membership = m
    BY JobTypes DEF TopicJobs
<1>3. topicCommand'[s] = new
    BY <1>1, JobTypes
<1>4. m \in Seals /\ m <= sealed /\ topicCommand[s].op = "roster"
    BY <1>1, JobTypes DEF SlotInv
<1>5. /\ Served(m) \in Seals \cup {NoTopic} /\ (Served(m) # NoTopic => Served(m) <= sealed)
      /\ (roster = NoTopic \/ roster < m) => Served(m) = m
    BY <1>4, ServedType
<1>6. strayed' \/ Steady'
  <2> SUFFICES ASSUME ~strayed PROVE Steady'
    BY <1>1
  <2>1. ~Vacant(s)
    BY <1>1, IdleJob DEF Vacant
  <2>2. SteadyJob(topicCommand[s], topicRow, roster) /\ \A q \in TopicSlots : q # s => Vacant(q)
    BY <2>1, Undisturbed
  <2>3. roster' = m /\ topicRow' = topicRow /\ topicRow # NoTopic
    BY <1>1, <1>5, <2>2 DEF SteadyJob, topicFiles
  <2>4. SteadyJob(new, topicRow', roster') /\ new # NoTopicJob
    BY <1>2, <1>4, <2>3, IdleJob DEF SteadyJob, Midway
  <2> QED
    BY <1>1, <2>2, <2>4, SteadyStep
<1> HIDE DEF new, m
<1>7. SlotInv(s)' /\ ~Joins(s)
    BY <1>1, <1>2, <1>3, <1>4, JobTypes DEF SlotInv, Joins
<1>8. LeaveWins' /\ NoPoisonedMigration'
    BY <1>1 DEF TopicInv, LeaveWins, NoPoisonedMigration, Member, topicFiles
<1>9. UNCHANGED <<private, nonces, invited, sealed, topicCommands, topicExits, admitted,
                  left, joinsAstray>>
    BY <1>1 DEF topicFiles
<1>10. broughtBack' = broughtBack /\ topicRow' = topicRow /\ strayed' = strayed
    BY <1>1 DEF topicFiles
<1>11. wired \subseteq wired' /\ wired' \subseteq Seals
    BY <1>1, <1>4, RosterType
<1>12. (broughtBack => broughtBack') /\ broughtBack' \in BOOLEAN /\ strayed' \in BOOLEAN
    BY <1>10, RosterType
<1>13. topicRow' \in TopicRows /\ roster' \in Seals \cup {NoTopic}
    BY <1>1, <1>5, <1>10, RosterType
<1>14. roster' # NoTopic => roster' <= sealed
    BY <1>1, <1>5
<1>15. new.step \notin {"asking", "publishing", "filing"}
    BY <1>2
<1> QED
    BY <1>1, <1>2, <1>6, <1>7, <1>8, <1>9, <1>11, <1>12, <1>13, <1>14, <1>15, AsideKeepsInv

\* What a step that moves one command on, or ends it, and changes nothing else leaves
\* to show.
LEMMA QuietKeepsInv ==
    ASSUME TopicInv, NEW s \in TopicSlots, NEW new \in TopicJobs,
           topicCommand' = [topicCommand EXCEPT ![s] = new],
           ~Joins(s), new.step \notin {"asking", "publishing", "filing"},
           UNCHANGED <<private, topicFiles, roster, invited, sealed, topicCommands, topicExits,
                       topicHistory>>,
           SlotInv(s)', strayed \/ Steady'
    PROVE  TopicInv'
<1>1. UNCHANGED <<private, nonces, invited, sealed, topicCommands, topicExits, admitted,
                  left, joinsAstray>>
    BY DEF topicFiles, topicHistory, joinHistory
<1>2. /\ wired' = wired /\ broughtBack' = broughtBack /\ topicRow' = topicRow
      /\ roster' = roster /\ strayed' = strayed /\ left' = left
    BY DEF topicFiles, topicHistory, joinHistory
<1>3. LeaveWins' /\ NoPoisonedMigration'
    BY <1>2 DEF TopicInv, LeaveWins, NoPoisonedMigration, Member
<1>4. wired \subseteq wired' /\ wired' \subseteq Seals
    BY <1>2, RosterType
<1>5. (broughtBack => broughtBack') /\ broughtBack' \in BOOLEAN /\ strayed' \in BOOLEAN
    BY <1>2, RosterType
<1>6. topicRow' \in TopicRows /\ roster' \in Seals \cup {NoTopic}
    BY <1>2, RosterType
<1>7. roster' # NoTopic => roster' <= sealed
    BY <1>2, RosterType
<1>8. strayed' \/ Steady'
    BY <1>2
<1> QED
    BY <1>1, <1>3, <1>4, <1>5, <1>6, <1>7, <1>8, AsideKeepsInv

\* A row that is there when the file is loaded is to be saved with what a relay accepted.
LEMMA RecordLoadsKeepsInv ==
    ASSUME TopicInv, NEW s \in TopicSlots, RecordLoads(s)
    PROVE  TopicInv'
<1> DEFINE old == topicCommand[s]
           saving == [old EXCEPT !.step = "saving", !.late = FALSE, !.row = old.membership]
           new == IF Member THEN saving ELSE NoTopicJob
<1>1. /\ old.step = "recording"
      /\ topicCommand' = [topicCommand EXCEPT ![s] = new]
      /\ UNCHANGED <<private, topicFiles, roster, invited, sealed, topicCommands, topicExits,
                     topicHistory>>
    BY DEF RecordLoads, RowToUpdate, TopicEnds
<1>2. old \in TopicJobs /\ old.membership \in wired /\ old.op = "roster" /\ SlotInv(s) /\ ~Joins(s)
    BY <1>1, JobTypes DEF SlotInv, Joins
<1>3. /\ saving \in TopicJobs /\ saving.step = "saving" /\ saving.op = "roster"
      /\ saving.row = old.membership /\ saving.seen = old.seen
  <2> HIDE DEF old
  <2>1. old.membership \in TopicRows
    BY <1>2 DEF TopicJobs, TopicRows
  <2>2. saving.step = "saving" /\ saving.row = old.membership
    BY <1>2 DEF TopicJobs
  <2>3. saving.op = "roster" /\ saving.seen = old.seen
    BY <1>2 DEF TopicJobs
  <2>4. saving \in TopicJobs
    BY <1>2, <2>1 DEF TopicJobs
  <2> HIDE DEF saving
  <2> QED
    BY <2>2, <2>3, <2>4
<1>4. topicCommand'[s] = new /\ topicCommand[s] = old
  <2>1. topicCommand' = [topicCommand EXCEPT ![s] = new]
    BY <1>1
  <2> HIDE DEF new
  <2>2. topicCommand'[s] = new
    BY <2>1, JobTypes
  <2> QED
    BY <2>2
<1>5. left /\ Member => broughtBack
    BY DEF TopicInv, LeaveWins
<1>6. /\ left' = left /\ broughtBack' = broughtBack /\ wired' = wired /\ admitted' = admitted
      /\ topicRow' = topicRow /\ roster' = roster
    BY <1>1 DEF topicFiles, topicHistory, joinHistory
<1>7. new \in TopicJobs /\ new.step \notin {"asking", "publishing", "filing"}
    BY <1>3, IdleJob
<1>8. strayed \/ Steady'
  <2> SUFFICES ASSUME ~strayed PROVE Steady'
    OBVIOUS
  <2>1. ~Vacant(s)
    BY <1>1, IdleJob DEF Vacant
  <2>2. SteadyJob(old, topicRow, roster) /\ \A q \in TopicSlots : q # s => Vacant(q)
    BY <2>1, Undisturbed
  <2>3. Member /\ roster = old.membership
    BY <1>1, <2>2 DEF SteadyJob, Member
  <2>4. old.membership \in Seals
    BY <1>2, RosterType
  <2>5. SteadyJob(saving, topicRow', roster') /\ saving # NoTopicJob
    BY <1>3, <1>6, <2>3, <2>4, IdleJob DEF SteadyJob, Midway, RosterOf
  <2>6. new = saving
    BY <2>3
  <2> QED
    BY <1>1, <2>2, <2>5, <2>6, SteadyStep
<1>9. SlotInv(s)'
  <2>1. CASE Member
    <3>1. topicCommand'[s] = saving
      BY <1>4, <2>1
    <3> HIDE DEF saving, new, old
    <3>2. \A i \in saving.seen : admitted[i] > 0
      BY <1>1, <1>2, <1>3, <1>4 DEF SlotInv
    <3> QED
      BY <1>2, <1>3, <1>5, <1>6, <2>1, <3>1, <3>2 DEF SlotInv
  <2>2. CASE ~Member
    BY <1>4, <2>2, IdleJob DEF SlotInv
  <2> QED
    BY <2>1, <2>2
<1> HIDE DEF new
<1> QED
    BY <1>1, <1>2, <1>7, <1>8, <1>9, QuietKeepsInv

\* A save of another topic takes the row of this one along, as it loads it.
LEMMA ElsewhereLoadsKeepsInv ==
    ASSUME TopicInv, NEW s \in TopicSlots, ElsewhereLoads(s)
    PROVE  TopicInv'
<1> DEFINE old == topicCommand[s]
           new == [old EXCEPT !.step = "saving", !.row = topicRow, !.late = FALSE]
<1>1. /\ old.op = "elsewhere" /\ old.step = "storing"
      /\ topicCommand' = [topicCommand EXCEPT ![s] = new]
      /\ UNCHANGED <<private, topicFiles, roster, invited, sealed, topicCommands, topicExits,
                     topicHistory>>
    BY DEF ElsewhereLoads
<1>2. old \in TopicJobs /\ SlotInv(s) /\ ~Joins(s) /\ topicRow \in TopicRows
    BY <1>1, JobTypes, RosterType DEF Joins
<1>3. /\ new \in TopicJobs /\ new.step = "saving" /\ new.op = "elsewhere"
      /\ new.row = topicRow /\ new.seen = old.seen
  <2> HIDE DEF old
  <2> QED
    BY <1>1, <1>2 DEF TopicJobs
<1>4. topicCommand'[s] = new /\ topicCommand[s] = old
    BY <1>1, JobTypes
<1>5. /\ left /\ topicRow # NoTopic => broughtBack
      /\ topicRow \in {OldSeal, NoTopic} \cup wired
    BY <1>2 DEF TopicInv, LeaveWins, NoPoisonedMigration, Member, TopicRows
<1>6. /\ left' = left /\ broughtBack' = broughtBack /\ wired' = wired /\ admitted' = admitted
      /\ topicRow' = topicRow /\ roster' = roster
    BY <1>1 DEF topicFiles, topicHistory, joinHistory
<1>7. strayed \/ Steady'
  <2> SUFFICES ASSUME ~strayed PROVE Steady'
    OBVIOUS
  <2>1. ~Vacant(s)
    BY <1>1, IdleJob DEF Vacant
  <2>2. SteadyJob(old, topicRow, roster) /\ \A q \in TopicSlots : q # s => Vacant(q)
    BY <2>1, Undisturbed
  <2>3. roster = RosterOf(topicRow)
    BY <1>1, <2>2 DEF SteadyJob, Midway
  <2>4. SteadyJob(new, topicRow', roster') /\ new # NoTopicJob
    BY <1>3, <1>6, <2>3, IdleJob DEF SteadyJob, Midway
  <2> QED
    BY <1>1, <2>2, <2>4, SteadyStep
<1> HIDE DEF new, old
<1>8. SlotInv(s)'
  <2>1. \A i \in new.seen : admitted[i] > 0
    BY <1>1, <1>2, <1>3, <1>4 DEF SlotInv
  <2> QED
    BY <1>3, <1>4, <1>5, <1>6, <2>1 DEF SlotInv
<1> QED
    BY <1>1, <1>2, <1>3, <1>7, <1>8, QuietKeepsInv

\* What was read before a leave is saved after it, and the history says so.
LEMMA SavesRowKeepsInv ==
    ASSUME TopicInv, NEW s \in TopicSlots, SavesRow(s),
           topicCommand[s].step \in {"announcing", "saving"}
    PROVE  TopicInv'
<1>1. /\ topicCommand' = [topicCommand EXCEPT ![s] = NoTopicJob]
      /\ topicRow' = topicCommand[s].row
      /\ broughtBack' = (broughtBack \/ (topicCommand[s].late /\ topicCommand[s].row # NoTopic))
      /\ UNCHANGED <<private, roster, nonces, invited, sealed, topicCommands, topicExits, wired,
                     admitted, left, joinsAstray, strayed>>
    BY DEF SavesRow, TopicEnds
<1>2. /\ topicCommand[s].row \in {OldSeal, NoTopic} \cup wired
      /\ left /\ topicCommand[s].row # NoTopic => topicCommand[s].late \/ broughtBack
      /\ ~Joins(s)
    BY JobTypes DEF SlotInv, Joins
<1>3. topicCommand'[s] = NoTopicJob
    BY <1>1, JobTypes
<1>4. SlotInv(s)'
    BY <1>3, IdleJob DEF SlotInv
<1>5. LeaveWins' /\ NoPoisonedMigration' /\ topicRow' \in TopicRows
    BY <1>1, <1>2, TopicNumbers, JobTypes
    DEF TopicInv, TopicTypeOK, LeaveWins, NoPoisonedMigration, Member
<1>6. strayed' \/ Steady'
  <2> SUFFICES ASSUME ~strayed PROVE Steady'
    BY <1>1
  <2>1. ~Vacant(s)
    BY IdleJob DEF Vacant
  <2>2. SteadyJob(topicCommand[s], topicRow, roster) /\ \A q \in TopicSlots : q # s => Vacant(q)
    BY <2>1, Undisturbed
  <2>3. roster' = RosterOf(topicRow')
    BY <1>1, <2>2 DEF SteadyJob
  <2> QED
    BY <1>1, <2>2, <2>3, SteadyStep
<1>7. /\ broughtBack' \in BOOLEAN /\ strayed' \in BOOLEAN /\ (broughtBack => broughtBack')
      /\ wired \subseteq wired' /\ wired' \subseteq Seals
      /\ roster' \in Seals \cup {NoTopic} /\ (roster' # NoTopic => roster' <= sealed)
    BY <1>1, RosterType, JobTypes DEF TopicJobs
<1>8. NoTopicJob \in TopicJobs /\ NoTopicJob.step \notin {"asking", "publishing", "filing"}
    BY IdleJob
<1> QED
    BY <1>1, <1>2, <1>4, <1>5, <1>6, <1>7, <1>8, AsideKeepsInv

LEMMA LateJob ==
    ASSUME NEW job \in TopicJobs
    PROVE  LET late == [job EXCEPT !.late = TRUE] IN
           /\ late \in TopicJobs /\ late.late = TRUE /\ late.op = job.op /\ late.step = job.step
           /\ late.row = job.row /\ late.seen = job.seen /\ late.membership = job.membership
           /\ late.invite = job.invite
    BY DEF TopicJobs

\* The leave drops the row and marks every command in flight as begun before it.
LEMMA DropsRowKeepsInv ==
    ASSUME TopicInv, NEW s \in TopicSlots, DropsRow(s)
    PROVE  TopicInv'
<1> DEFINE Late(t) == [topicCommand[t] EXCEPT !.late = TRUE]
<1>1. /\ topicCommand[s].step = "dropping"
      /\ topicRow' = NoTopic /\ left' = TRUE /\ broughtBack' = FALSE
      /\ topicCommand' = [t \in TopicSlots |->
            IF t = s \/ Vacant(t) THEN NoTopicJob ELSE Late(t)]
      /\ UNCHANGED <<private, roster, nonces, invited, sealed, topicCommands, topicExits, wired,
                     admitted, joinsAstray, strayed>>
    BY DEF DropsRow
<1>2. ASSUME NEW t \in TopicSlots
      PROVE  /\ Late(t) \in TopicJobs /\ Late(t).late = TRUE
             /\ Late(t).op = topicCommand[t].op /\ Late(t).step = topicCommand[t].step
             /\ Late(t).row = topicCommand[t].row /\ Late(t).seen = topicCommand[t].seen
             /\ Late(t).membership = topicCommand[t].membership
             /\ Late(t).invite = topicCommand[t].invite
  <2>1. topicCommand[t] \in TopicJobs
    BY JobTypes
  <2> QED
    BY <2>1, LateJob
<1>3. ~Joins(s)
    BY <1>1 DEF Joins
<1>4. \A t \in TopicSlots :
         \/ topicCommand'[t] = NoTopicJob /\ ~Joins(t)
         \/ topicCommand'[t] = Late(t)
    BY <1>1, <1>3, IdleJob DEF Joins, Vacant
<1>5. strayed' \/ Steady'
  <2> SUFFICES ASSUME ~strayed PROVE Steady'
    BY <1>1
  <2>1. ~Vacant(s)
    BY <1>1, IdleJob DEF Vacant
  <2>2. SteadyJob(topicCommand[s], topicRow, roster) /\ \A q \in TopicSlots : q # s => Vacant(q)
    BY <2>1, Undisturbed
  <2>3. roster' = NoTopic /\ \A t \in TopicSlots : topicCommand'[t] = NoTopicJob
    BY <1>1, <2>2 DEF SteadyJob
  <2>4. roster' = RosterOf(topicRow')
    BY <1>1, <2>3, TopicNumbers DEF RosterOf
  <2> QED
    BY <2>3, <2>4 DEF Steady, Vacant, RosterOf
<1> HIDE DEF Late
<1>6. TopicTypeOK'
  <2>1. topicCommand' \in [TopicSlots -> TopicJobs]
    BY <1>1, <1>2, IdleJob
  <2> QED
    BY <1>1, <2>1 DEF TopicInv, TopicTypeOK, TopicRows
<1>7. ASSUME NEW t \in TopicSlots PROVE SlotInv(t)'
  <2>1. CASE topicCommand'[t] = NoTopicJob
    BY <2>1, IdleJob DEF SlotInv
  <2>2. CASE topicCommand'[t] = Late(t)
    <3>1. SlotInv(t)
      BY JobTypes
    <3>2. /\ topicCommand'[t].late = TRUE
          /\ topicCommand'[t].op = topicCommand[t].op
          /\ topicCommand'[t].step = topicCommand[t].step
          /\ topicCommand'[t].row = topicCommand[t].row
          /\ topicCommand'[t].seen = topicCommand[t].seen
          /\ topicCommand'[t].membership = topicCommand[t].membership
          /\ topicCommand'[t].invite = topicCommand[t].invite
      BY <1>2, <2>2
    <3> QED
      BY <1>1, <3>1, <3>2 DEF SlotInv
  <2> QED
    BY <1>4, <2>1, <2>2
<1>8. joinsAstray' \/ AloneInv'
  <2>1. CASE joinsAstray
    BY <1>1, <2>1
  <2>2. CASE AloneInv
    <3>1. \A t \in TopicSlots :
             /\ Joins(t)' <=> Joins(t)
             /\ Joins(t) => /\ topicCommand'[t].step = topicCommand[t].step
                            /\ topicCommand'[t].op = topicCommand[t].op
                            /\ topicCommand'[t].seen = topicCommand[t].seen
                            /\ topicCommand'[t].invite = topicCommand[t].invite
      <4> SUFFICES ASSUME NEW t \in TopicSlots
                   PROVE  /\ Joins(t)' <=> Joins(t)
                          /\ Joins(t) => /\ topicCommand'[t].step = topicCommand[t].step
                                         /\ topicCommand'[t].op = topicCommand[t].op
                                         /\ topicCommand'[t].seen = topicCommand[t].seen
                                         /\ topicCommand'[t].invite = topicCommand[t].invite
        OBVIOUS
      <4>1. CASE topicCommand'[t] = NoTopicJob /\ ~Joins(t)
        BY <4>1, IdleJob DEF Joins
      <4>2. CASE topicCommand'[t] = Late(t)
        <5>1. /\ Late(t).op = topicCommand[t].op /\ Late(t).step = topicCommand[t].step
              /\ Late(t).seen = topicCommand[t].seen /\ Late(t).invite = topicCommand[t].invite
          BY <1>2
        <5> QED
          BY <4>2, <5>1 DEF Joins
      <4> QED
        BY <1>4, <4>1, <4>2
    <3>2. \A a, b \in TopicSlots : Joins(a)' /\ Joins(b)' => a = b
      BY <2>2, <3>1 DEF AloneInv
    <3>3. \A q \in TopicSlots : Joins(q)' =>
            /\ nonces' \subseteq topicCommand'[q].seen
            /\ topicCommand'[q].step = "publishing" /\ topicCommand'[q].invite # NoTopic =>
                  admitted'[topicCommand'[q].invite] = 0
      BY <1>1, <2>2, <3>1 DEF AloneInv
    <3>4. \A t \in TopicSlots : Unsaved(topicCommand[t]) => Unsaved(topicCommand'[t])
      BY <3>1 DEF Unsaved, Joins
    <3>5. \A t \in TopicSlots : Unsaved(topicCommand[t]) =>
                                   topicCommand'[t].seen = topicCommand[t].seen
      BY <3>1 DEF Unsaved, Joins
    <3>6. \A i \in Invites :
            /\ admitted'[i] <= 1
            /\ admitted'[i] = 1 =>
                  \/ i \in nonces'
                  \/ \E q \in TopicSlots : Unsaved(topicCommand'[q]) /\ i \in topicCommand'[q].seen
      BY <1>1, <2>2, <3>4, <3>5 DEF AloneInv
    <3> QED
      BY <3>2, <3>3, <3>6 DEF AloneInv, Unsaved
  <2> QED
    BY <2>1, <2>2 DEF TopicInv
<1>9. LeaveWins' /\ NoPoisonedMigration'
    BY <1>1, TopicNumbers DEF LeaveWins, NoPoisonedMigration, Member
<1> QED
    BY <1>1, <1>5, <1>6, <1>7, <1>8, <1>9 DEF TopicInv

LEMMA AppEndsKeepsInv == TopicInv /\ TopicAppEnds => TopicInv'
<1> SUFFICES ASSUME TopicInv, TopicAppEnds PROVE TopicInv'
    OBVIOUS
<1>1. /\ topicExits < MaxTopicExits /\ topicExits' = topicExits + 1
      /\ topicCommand' = [s \in TopicSlots |-> NoTopicJob]
      /\ joinsAstray' = (joinsAstray \/ \E s \in TopicSlots : Unsaved(topicCommand[s]))
      /\ strayed' = (strayed \/ \E s \in TopicSlots : Midway(topicCommand[s]))
      /\ UNCHANGED <<private, topicFiles, roster, invited, sealed, topicCommands, wired,
                     admitted, left, broughtBack>>
    BY DEF TopicAppEnds
<1>2. TopicTypeOK'
  <2>1. topicExits' \in 0..MaxTopicExits
    BY <1>1, TopicNumbers DEF TopicInv, TopicTypeOK
  <2>2. joinsAstray' \in BOOLEAN /\ strayed' \in BOOLEAN
    BY <1>1
  <2> QED
    BY <1>1, <2>1, <2>2, IdleJob DEF TopicInv, TopicTypeOK, topicFiles
<1>3. \A s \in TopicSlots : SlotInv(s)'
    BY <1>1, IdleJob DEF SlotInv
<1>4. joinsAstray' \/ AloneInv'
  <2> SUFFICES ASSUME ~joinsAstray' PROVE AloneInv'
    OBVIOUS
  <2>1. AloneInv /\ \A s \in TopicSlots : ~Unsaved(topicCommand[s])
    BY <1>1 DEF TopicInv
  <2> QED
    BY <1>1, <2>1, IdleJob DEF AloneInv, Joins, topicFiles
<1>5. strayed' \/ Steady'
  <2> SUFFICES ASSUME ~strayed' PROVE Steady'
    OBVIOUS
  <2>1. ~strayed /\ Steady /\ \A s \in TopicSlots : ~Midway(topicCommand[s])
    BY <1>1 DEF TopicInv
  <2>2. roster = RosterOf(topicRow)
    BY <2>1 DEF Steady, SteadyJob
  <2>3. roster' = RosterOf(topicRow') /\ \A s \in TopicSlots : topicCommand'[s] = NoTopicJob
    BY <1>1, <2>2 DEF topicFiles
  <2> QED
    BY <2>3 DEF Steady, Vacant, RosterOf
<1>6. LeaveWins' /\ NoPoisonedMigration' /\ \A i \in nonces' : admitted'[i] > 0
    BY <1>1 DEF TopicInv, LeaveWins, NoPoisonedMigration, Member, topicFiles
<1>7. sealed' <= topicCommands' + 1 /\ (roster' # NoTopic => roster' <= sealed')
    BY <1>1 DEF TopicInv
<1> QED
    BY <1>2, <1>3, <1>4, <1>5, <1>6, <1>7 DEF TopicInv

LEMMA InviteArrivesKeepsInv ==
    ASSUME TopicInv, NEW i \in Invites, InviteArrives(i)
    PROVE  TopicInv'
<1>1. /\ invited' \subseteq Invites
      /\ UNCHANGED <<private, topicFiles, roster, topicCommand, sealed, topicCommands, topicExits,
                     topicHistory>>
    BY DEF InviteArrives, TopicInv, TopicTypeOK
<1>2. TopicTypeOK'
    BY <1>1 DEF TopicInv, TopicTypeOK, topicFiles, topicHistory, joinHistory
<1>3. \A s \in TopicSlots : SlotInv(s)'
    BY <1>1 DEF TopicInv, SlotInv, topicHistory, joinHistory
<1>4. joinsAstray' \/ AloneInv'
    BY <1>1 DEF TopicInv, AloneInv, Joins, Unsaved, topicFiles, topicHistory, joinHistory
<1>5. strayed' \/ Steady'
    BY <1>1 DEF TopicInv, Steady, SteadyJob, RosterOf, Midway, Vacant, topicFiles, topicHistory
<1>6. /\ LeaveWins' /\ NoPoisonedMigration' /\ \A j \in nonces' : admitted'[j] > 0
      /\ sealed' <= topicCommands' + 1 /\ (roster' # NoTopic => roster' <= sealed')
    BY <1>1 DEF TopicInv, LeaveWins, NoPoisonedMigration, Member, topicFiles, topicHistory,
       joinHistory
<1> QED
    BY <1>2, <1>3, <1>4, <1>5, <1>6 DEF TopicInv

\* A join that begins alone knows every spent invite.
LEMMA NewJoinAlone ==
    ASSUME TopicInv, NEW s \in TopicSlots, NEW new \in TopicJobs,
           topicCommand' = [topicCommand EXCEPT ![s] = new], Vacant(s),
           new.step \in {"asking", "filing"}, new.seen = nonces,
           JoinsCross, UNCHANGED <<nonces, admitted>>
    PROVE  joinsAstray' \/ AloneInv'
<1> SUFFICES ASSUME ~joinsAstray' PROVE AloneInv'
    OBVIOUS
<1>1. AloneInv /\ \A q \in TopicSlots : ~Joins(q)
    BY DEF TopicInv, JoinsCross
<1>2. \A q \in TopicSlots : ~Unsaved(topicCommand[q])
    BY <1>1 DEF Unsaved, Joins
<1>3. \A q \in TopicSlots :
         IF q = s THEN topicCommand'[q] = new ELSE ~Joins(q)'
    BY <1>1, JobTypes DEF Joins
<1>4. \A i \in Invites : admitted[i] <= 1 /\ (admitted[i] = 1 => i \in nonces)
    BY <1>1, <1>2 DEF AloneInv
<1>5. \A a, b \in TopicSlots : Joins(a)' /\ Joins(b)' => a = b
    BY <1>3
<1>6. \A q \in TopicSlots : Joins(q)' =>
        /\ nonces' \subseteq topicCommand'[q].seen
        /\ topicCommand'[q].step # "publishing"
    BY <1>3
<1> QED
    BY <1>4, <1>5, <1>6 DEF AloneInv

\* What the beginning of a join, of this topic or another, leaves to show.
LEMMA JoinKeepsInv ==
    ASSUME TopicInv, NEW s \in TopicSlots, NEW new \in TopicJobs,
           TopicBegins(s, new), JoinsCross, new # NoTopicJob,
           new.step \in {"asking", "filing"}, new.seen = nonces,
           UNCHANGED <<private, topicFiles, roster, invited, topicExits, wired, admitted, left,
                       broughtBack>>,
           sealed' \in {sealed, sealed + 1}, sealed' \in {0} \cup Seals,
           SlotInv(s)', roster = RosterOf(topicRow) => SteadyJob(new, topicRow, roster)
    PROVE  TopicInv'
<1>1. /\ topicCommand' = [topicCommand EXCEPT ![s] = new] /\ Vacant(s)
      /\ topicCommands' = topicCommands + 1 /\ topicCommands < MaxTopicCommands
      /\ strayed' = (strayed \/ \E t \in TopicSlots : ~Vacant(t))
    BY DEF TopicBegins
<1>2. /\ private' = private /\ topicRow' = topicRow /\ nonces' = nonces /\ roster' = roster
      /\ invited' = invited /\ topicExits' = topicExits /\ wired' = wired
      /\ admitted' = admitted /\ left' = left /\ broughtBack' = broughtBack
    BY DEF topicFiles
<1>3. /\ topicCommands \in Nat /\ topicCommands' \in 0..MaxTopicCommands
      /\ sealed \in Nat /\ sealed' \in Nat /\ sealed <= sealed'
      /\ sealed' <= topicCommands' + 1
  <2>1. topicCommands \in 0..MaxTopicCommands /\ sealed \in {0} \cup Seals
    BY DEF TopicInv, TopicTypeOK
  <2>2. sealed \in Nat /\ sealed' \in {sealed, sealed + 1} /\ sealed <= topicCommands + 1
    BY <2>1, TopicNumbers DEF TopicInv
  <2> QED
    BY <1>1, <2>1, <2>2, TopicNumbers
<1>4. TopicTypeOK'
  <2>1. topicCommand' \in [TopicSlots -> TopicJobs] /\ strayed' \in BOOLEAN
    BY <1>1 DEF TopicInv, TopicTypeOK
  <2>2. joinsAstray' \in BOOLEAN
    BY DEF JoinsCross
  <2> QED
    BY <1>2, <1>3, <2>1, <2>2 DEF TopicInv, TopicTypeOK
<1>5. roster' # NoTopic => roster' <= sealed'
  <2>1. roster # NoTopic => roster \in Nat /\ roster <= sealed
    BY TopicNumbers DEF TopicInv, TopicTypeOK
  <2> QED
    BY <1>2, <1>3, <2>1
<1>6. LeaveWins' /\ NoPoisonedMigration' /\ \A i \in nonces' : admitted'[i] > 0
    BY <1>2 DEF TopicInv, LeaveWins, NoPoisonedMigration, Member
<1>7. joinsAstray' \/ AloneInv'
    BY <1>1, <1>2, NewJoinAlone
<1>8. strayed' \/ Steady'
  <2> SUFFICES ASSUME ~strayed' PROVE Steady'
    OBVIOUS
  <2>1. ~strayed /\ \A t \in TopicSlots : Vacant(t)
    BY <1>1
  <2>2. roster = RosterOf(topicRow)
    BY <2>1 DEF TopicInv, Steady
  <2> QED
    BY <1>1, <1>2, <2>1, <2>2, SteadyStep
<1>9. \A i \in Invites : admitted'[i] >= admitted[i]
    BY <1>2 DEF TopicInv, TopicTypeOK
<1>10. wired \subseteq wired' /\ sealed <= sealed' /\ sealed' <= topicCommands' + 1
    BY <1>2, <1>3
<1>11. left' = left /\ (broughtBack => broughtBack')
    BY <1>2
<1>12. topicCommand' = [topicCommand EXCEPT ![s] = new]
    BY <1>1
<1> QED
    BY <1>4, <1>5, <1>6, <1>7, <1>8, <1>9, <1>10, <1>11, <1>12, SlotKeepsInv

LEMMA JoinBeginsKeepsInv ==
    ASSUME TopicInv, NEW s \in TopicSlots, JoinBegins(s)
    PROVE  TopicInv'
<1> DEFINE new == [NoTopicJob EXCEPT !.op = "join", !.step = "asking", !.seen = nonces,
                                     !.membership = sealed + 1]
<1>1. /\ TopicBegins(s, new) /\ sealed' = sealed + 1 /\ JoinsCross
      /\ UNCHANGED <<private, topicFiles, roster, invited, topicExits, wired, admitted, left,
                     broughtBack>>
    BY DEF JoinBegins
<1>2. sealed + 1 \in Seals /\ sealed \in Nat
    BY <1>1, TopicNumbers DEF TopicBegins, TopicInv, TopicTypeOK, Seals
<1>3. /\ new \in TopicJobs /\ new.op = "join" /\ new.step = "asking" /\ new.seen = nonces
      /\ new.membership = sealed + 1 /\ new.invite = NoTopic
    BY <1>2, IdleJob DEF TopicJobs, TopicInv, TopicTypeOK
<1> HIDE DEF new
<1>4. topicCommand'[s] = new /\ new # NoTopicJob
    BY <1>1, <1>3, JobTypes, IdleJob DEF TopicBegins
<1>5. SlotInv(s)'
  <2>1. \A i \in nonces : admitted'[i] > 0
    BY <1>1 DEF TopicInv
  <2> QED
    BY <1>1, <1>2, <1>3, <1>4, <2>1 DEF SlotInv
<1>6. roster = RosterOf(topicRow) => SteadyJob(new, topicRow, roster)
  <2>1. roster = NoTopic \/ roster < sealed + 1
    BY <1>2, TopicNumbers DEF TopicInv, TopicTypeOK
  <2> QED
    BY <1>3, <2>1 DEF SteadyJob
<1> QED
    BY <1>1, <1>2, <1>3, <1>4, <1>5, <1>6, JoinKeepsInv

LEMMA JoinElsewhereKeepsInv ==
    ASSUME TopicInv, NEW s \in TopicSlots, JoinElsewhere(s)
    PROVE  TopicInv'
<1> DEFINE new == [NoTopicJob EXCEPT !.op = "elsewhere", !.step = "filing", !.seen = nonces]
<1>1. /\ TopicBegins(s, new) /\ JoinsCross
      /\ UNCHANGED <<private, topicFiles, roster, invited, sealed, topicExits, wired, admitted,
                     left, broughtBack>>
    BY DEF JoinElsewhere
<1>2. /\ new \in TopicJobs /\ new.op = "elsewhere" /\ new.step = "filing"
      /\ new.seen = nonces
    BY IdleJob DEF TopicJobs, TopicInv, TopicTypeOK
<1> HIDE DEF new
<1>3. topicCommand'[s] = new /\ new # NoTopicJob
    BY <1>1, <1>2, JobTypes, IdleJob DEF TopicBegins
<1>4. SlotInv(s)'
  <2>1. \A i \in nonces : admitted'[i] > 0
    BY <1>1 DEF TopicInv
  <2> QED
    BY <1>1, <1>2, <1>3, <2>1 DEF SlotInv
<1>5. roster = RosterOf(topicRow) => SteadyJob(new, topicRow, roster)
    BY <1>2 DEF SteadyJob
<1>6. sealed' = sealed /\ sealed \in {0} \cup Seals
    BY <1>1 DEF TopicInv, TopicTypeOK
<1> QED
    BY <1>1, <1>2, <1>3, <1>4, <1>5, <1>6, JoinKeepsInv

\* The one join in flight, while none went astray.
LEMMA OnlyJoin ==
    ASSUME TopicInv, NEW s \in TopicSlots, Joins(s), ~joinsAstray, NEW new,
           topicCommand' = [topicCommand EXCEPT ![s] = new]
    PROVE  /\ AloneInv /\ topicCommand'[s] = new
           /\ \A q \in TopicSlots : q # s => ~Joins(q) /\ ~Joins(q)'
           /\ \A i \in Invites : admitted[i] = 0 \/ i \in nonces
                 \/ (Unsaved(topicCommand[s]) /\ i \in topicCommand[s].seen)
<1>1. AloneInv /\ topicCommand'[s] = new
    BY JobTypes DEF TopicInv
<1>2. \A q \in TopicSlots : q # s => ~Joins(q) /\ ~Unsaved(topicCommand[q])
    BY <1>1 DEF AloneInv, Unsaved, Joins
<1>3. \A q \in TopicSlots : q # s => ~Joins(q)'
    BY <1>2, JobTypes DEF Joins
<1>4. \A i \in Invites : admitted[i] \in Nat
    BY DEF TopicInv, TopicTypeOK
<1> QED
    BY <1>1, <1>2, <1>3, <1>4 DEF AloneInv

LEMMA JoinStepAlone ==
    ASSUME TopicInv, NEW s \in TopicSlots, Joins(s), ~joinsAstray, NEW new,
           topicCommand' = [topicCommand EXCEPT ![s] = new],
           new.step \in {"asking", "publishing", "filing"} =>
              /\ nonces' \subseteq new.seen
              /\ new.step = "publishing" /\ new.invite # NoTopic => admitted'[new.invite] = 0,
           \A i \in Invites :
              /\ admitted'[i] <= 1
              /\ admitted'[i] = 1 => i \in nonces' \/ (Unsaved(new) /\ i \in new.seen)
    PROVE  AloneInv'
<1>1. /\ topicCommand'[s] = new
      /\ \A q \in TopicSlots : q # s => ~Joins(q)'
    BY OnlyJoin
<1>2. \A a, b \in TopicSlots : Joins(a)' /\ Joins(b)' => a = b
    BY <1>1
<1>3. \A q \in TopicSlots : Joins(q)' =>
        /\ nonces' \subseteq topicCommand'[q].seen
        /\ topicCommand'[q].step = "publishing" /\ topicCommand'[q].invite # NoTopic =>
              admitted'[topicCommand'[q].invite] = 0
    BY <1>1 DEF Joins
<1>4. \A i \in Invites :
        /\ admitted'[i] <= 1
        /\ admitted'[i] = 1 =>
              \/ i \in nonces'
              \/ \E q \in TopicSlots : Unsaved(topicCommand'[q]) /\ i \in topicCommand'[q].seen
    BY <1>1
<1> QED
    BY <1>2, <1>3, <1>4 DEF AloneInv, Unsaved

\* A join that runs alone and moves on with the relays and the topic's row as they were.
LEMMA JoinStepSteady ==
    ASSUME TopicInv, NEW s \in TopicSlots, NEW new, ~Vacant(s),
           topicCommand' = [topicCommand EXCEPT ![s] = new],
           UNCHANGED <<topicRow, roster, strayed>>,
           new # NoTopicJob,
           SteadyJob(topicCommand[s], topicRow, roster) => SteadyJob(new, topicRow, roster)
    PROVE  strayed' \/ Steady'
<1> SUFFICES ASSUME ~strayed PROVE Steady'
    OBVIOUS
<1>1. SteadyJob(topicCommand[s], topicRow, roster) /\ \A q \in TopicSlots : q # s => Vacant(q)
    BY Undisturbed
<1>2. SteadyJob(new, topicRow', roster')
    BY <1>1
<1> QED
    BY <1>1, <1>2, SteadyStep

\* The invite that is redeemed is not among the spent ones, so it admitted nobody yet.
LEMMA RedeemsKeepsInv ==
    ASSUME TopicInv, NEW s \in TopicSlots, Redeems(s)
    PROVE  TopicInv'
<1>1. PICK i \in invited \ topicCommand[s].seen :
         topicCommand' = [topicCommand EXCEPT
               ![s].step = "publishing", ![s].invite = i, ![s].seen = @ \cup {i}]
    BY Zenon DEF Redeems
<1> DEFINE old == topicCommand[s]
           new == [old EXCEPT !.step = "publishing", !.invite = i, !.seen = @ \cup {i}]
<1>2. /\ old.step = "asking" /\ i \in Invites
      /\ UNCHANGED <<private, topicRow, nonces, roster, invited, sealed, topicCommands,
                     topicExits, wired, admitted, left, broughtBack, joinsAstray, strayed>>
    BY DEF Redeems, NoncesOnRedeem, TopicInv, TopicTypeOK, topicHistory, joinHistory
<1>3. topicCommand' = [topicCommand EXCEPT ![s] = new]
    BY <1>1
<1>4. /\ new \in TopicJobs /\ new.step = "publishing" /\ new.invite = i
      /\ new.seen = old.seen \cup {i} /\ new.op = old.op /\ new.membership = old.membership
      /\ new # NoTopicJob
  <2>1. old \in TopicJobs
      BY JobTypes
  <2> HIDE DEF old
  <2>2. new \in TopicJobs
      BY <1>2, <2>1 DEF TopicJobs
  <2>3. new.step = "publishing" /\ new.invite = i /\ new.seen = old.seen \cup {i}
      BY <2>1 DEF TopicJobs
  <2>4. new.op = old.op /\ new.membership = old.membership
      BY <2>1 DEF TopicJobs
  <2> QED BY <2>2, <2>3, <2>4, IdleJob
<1>5. Joins(s) /\ old.op = "join" /\ SlotInv(s) /\ ~Vacant(s)
    BY <1>2, JobTypes, IdleJob DEF SlotInv, Joins, Vacant
<1> HIDE DEF new
<1>6. topicCommand'[s] = new
    BY <1>3, JobTypes
<1>7. SlotInv(s)'
  <2>1. \A j \in new.seen : admitted[j] > 0 \/ j = i
    BY <1>2, <1>4, <1>5 DEF SlotInv
  <2> QED
    BY <1>2, <1>4, <1>5, <1>6, <2>1 DEF SlotInv
<1>8. TopicTypeOK' /\ sealed' <= topicCommands' + 1 /\ (roster' # NoTopic => roster' <= sealed')
  <2>1. topicCommand' \in [TopicSlots -> TopicJobs]
    BY <1>3, <1>4 DEF TopicInv, TopicTypeOK
  <2>2. TopicTypeOK'
    BY <1>2, <2>1 DEF TopicInv, TopicTypeOK
  <2> QED
    BY <1>2, <2>2 DEF TopicInv
<1>9. LeaveWins' /\ NoPoisonedMigration' /\ \A j \in nonces' : admitted'[j] > 0
    BY <1>1, <1>2 DEF TopicInv, LeaveWins, NoPoisonedMigration, Member
<1>10. joinsAstray' \/ AloneInv'
  <2> SUFFICES ASSUME ~joinsAstray PROVE AloneInv'
    BY <1>2
  <2>1. /\ AloneInv
        /\ \A j \in Invites : admitted[j] = 0 \/ j \in nonces
    BY <1>2, <1>3, <1>5, OnlyJoin DEF Unsaved
  <2>2. nonces \subseteq old.seen /\ \A j \in Invites : admitted[j] <= 1
    BY <1>5, <2>1 DEF AloneInv
  <2>3. admitted[i] = 0
    BY <1>1, <1>2, <2>1, <2>2
  <2>4. nonces' \subseteq new.seen /\ admitted'[new.invite] = 0
    BY <1>1, <1>2, <1>4, <2>2, <2>3
  <2>5. \A j \in Invites : admitted'[j] <= 1 /\ (admitted'[j] = 1 => j \in nonces')
    BY <1>1, <1>2, <2>1, <2>2
  <2> QED
    BY <1>3, <1>5, <2>4, <2>5, JoinStepAlone
<1>11. strayed' \/ Steady'
  <2>1. SteadyJob(old, topicRow, roster) => SteadyJob(new, topicRow, roster)
    BY <1>2, <1>4, <1>5 DEF SteadyJob, Midway
  <2>2. UNCHANGED <<topicRow, roster, strayed>>
    BY <1>2
  <2> QED
    BY <1>3, <1>4, <1>5, <2>1, <2>2, JoinStepSteady
<1>12. (\A j \in Invites : admitted'[j] >= admitted[j]) /\ sealed <= sealed' /\ wired \subseteq wired'
    BY <1>2, TopicNumbers DEF TopicInv, TopicTypeOK
<1> QED
    BY <1>2, <1>3, <1>4, <1>7, <1>8, <1>9, <1>10, <1>11, <1>12, SlotKeepsInv

LEMMA FindsCredentialKeepsInv ==
    ASSUME TopicInv, NEW s \in TopicSlots, FindsCredential(s)
    PROVE  TopicInv'
<1> DEFINE old == topicCommand[s]
           new == [old EXCEPT !.step = "publishing"]
<1>1. /\ old.step = "asking" /\ topicCommand' = [topicCommand EXCEPT ![s] = new]
      /\ UNCHANGED <<private, topicRow, nonces, roster, invited, sealed, topicCommands,
                     topicExits, wired, admitted, left, broughtBack, joinsAstray, strayed>>
    BY DEF FindsCredential, TopicGoes, topicFiles, topicHistory, joinHistory
<1>2. /\ new \in TopicJobs /\ new.step = "publishing" /\ new.invite = old.invite
      /\ new.seen = old.seen /\ new.op = old.op /\ new.membership = old.membership
      /\ new # NoTopicJob
    BY JobTypes, IdleJob DEF TopicJobs
<1>3. Joins(s) /\ old.invite = NoTopic /\ SlotInv(s) /\ ~Vacant(s)
    BY <1>1, JobTypes, IdleJob DEF SlotInv, Joins, Vacant
<1> HIDE DEF new
<1>4. topicCommand'[s] = new
    BY <1>1, JobTypes
<1>5. SlotInv(s)'
    BY <1>1, <1>2, <1>3, <1>4 DEF SlotInv
<1>6. TopicTypeOK' /\ sealed' <= topicCommands' + 1 /\ (roster' # NoTopic => roster' <= sealed')
    BY <1>1, <1>2 DEF TopicInv, TopicTypeOK
<1>7. LeaveWins' /\ NoPoisonedMigration' /\ \A j \in nonces' : admitted'[j] > 0
    BY <1>1 DEF TopicInv, LeaveWins, NoPoisonedMigration, Member
<1>8. joinsAstray' \/ AloneInv'
  <2> SUFFICES ASSUME ~joinsAstray PROVE AloneInv'
    BY <1>1
  <2>1. /\ AloneInv
        /\ \A j \in Invites : admitted[j] = 0 \/ j \in nonces
    BY <1>1, <1>3, OnlyJoin DEF Unsaved
  <2>2. nonces \subseteq old.seen /\ \A j \in Invites : admitted[j] <= 1
    BY <1>3, <2>1 DEF AloneInv
  <2>3. nonces' \subseteq new.seen /\ new.invite = NoTopic
    BY <1>1, <1>2, <1>3, <2>2
  <2>4. \A j \in Invites : admitted'[j] <= 1 /\ (admitted'[j] = 1 => j \in nonces')
    BY <1>1, <2>1, <2>2
  <2> QED
    BY <1>1, <1>3, <2>3, <2>4, JoinStepAlone
<1>9. strayed' \/ Steady'
  <2>1. SteadyJob(old, topicRow, roster) => SteadyJob(new, topicRow, roster)
    BY <1>1, <1>2 DEF SteadyJob, Midway
  <2> QED
    BY <1>1, <1>2, <1>3, <2>1, JoinStepSteady
<1>10. (\A j \in Invites : admitted'[j] >= admitted[j]) /\ sealed <= sealed' /\ wired \subseteq wired'
    BY <1>1, TopicNumbers DEF TopicInv, TopicTypeOK
<1> QED
    BY <1>1, <1>2, <1>5, <1>6, <1>7, <1>8, <1>9, <1>10, SlotKeepsInv

\* The invite of a join whose membership a relay has stored.
LEMMA AdmittedOnce ==
    ASSUME TopicInv, NEW s \in TopicSlots, topicCommand[s].step \in {"publishing", "republishing"}
    PROVE  /\ Admitted(s) \in [Invites -> Nat]
           /\ \A i \in Invites : Admitted(s)[i] >= admitted[i]
           /\ \A i \in Invites : Admitted(s)[i] = IF i = topicCommand[s].invite
                                                  THEN admitted[i] + 1 ELSE admitted[i]
<1>1. admitted \in [Invites -> Nat]
    BY DEF TopicInv, TopicTypeOK
<1> QED
    BY <1>1 DEF Admitted

\* A relay accepts the membership: the invite has let the user in once more.
LEMMA JoinPublishedKeepsInv ==
    ASSUME TopicInv, NEW s \in TopicSlots, JoinPublished(s)
    PROVE  TopicInv'
<1> DEFINE old == topicCommand[s]
           new == [old EXCEPT !.step = "filing"]
<1>1. /\ old.step = "publishing" /\ topicCommand' = [topicCommand EXCEPT ![s] = new]
      /\ roster' = Served(old.membership) /\ wired' = wired \cup {old.membership}
      /\ admitted' = Admitted(s)
      /\ UNCHANGED <<private, topicRow, nonces, invited, sealed, topicCommands, topicExits, left,
                     broughtBack, joinsAstray, strayed>>
    BY DEF JoinPublished, Published, TopicGoes, topicFiles
<1>2. /\ new \in TopicJobs /\ new.step = "filing" /\ new.invite = old.invite
      /\ new.seen = old.seen /\ new.op = old.op /\ new.membership = old.membership
      /\ new # NoTopicJob
    BY JobTypes, IdleJob DEF TopicJobs
<1>3. /\ Joins(s) /\ old.membership \in Seals /\ old.membership <= sealed /\ SlotInv(s)
      /\ old.op = "join" /\ ~Vacant(s)
    BY <1>1, JobTypes, IdleJob DEF SlotInv, Joins, Vacant
<1>4. \A i \in Invites : /\ admitted[i] \in Nat /\ admitted'[i] \in Nat
                         /\ admitted'[i] = IF i = old.invite THEN admitted[i] + 1 ELSE admitted[i]
    BY <1>1, AdmittedOnce DEF TopicInv, TopicTypeOK
<1>5. old.seen \subseteq Invites
    BY JobTypes
<1> HIDE DEF new
<1>6. topicCommand'[s] = new
    BY <1>1, JobTypes
<1>7. SlotInv(s)'
  <2>1. \A i \in new.seen : admitted'[i] > 0
    BY <1>1, <1>2, <1>3, <1>4, <1>5 DEF SlotInv
  <2> QED
    BY <1>1, <1>2, <1>3, <1>6, <2>1 DEF SlotInv
<1>8. /\ roster' \in Seals \cup {NoTopic} /\ (roster' # NoTopic => roster' <= sealed')
      /\ (roster = NoTopic \/ roster < old.membership) => roster' = old.membership
    BY <1>1, <1>3, ServedType
<1>9. TopicTypeOK' /\ sealed' <= topicCommands' + 1
    BY <1>1, <1>2, <1>3, <1>8, AdmittedOnce DEF TopicInv, TopicTypeOK
<1>10. LeaveWins' /\ NoPoisonedMigration' /\ \A j \in nonces' : admitted'[j] > 0
  <2>1. nonces' = nonces /\ nonces \subseteq Invites
    BY <1>1 DEF TopicInv, TopicTypeOK
  <2>2. \A j \in nonces : admitted'[j] > 0
    BY <1>4, <2>1 DEF TopicInv
  <2>3. LeaveWins' /\ NoPoisonedMigration'
    BY <1>1 DEF TopicInv, LeaveWins, NoPoisonedMigration, Member
  <2> QED
    BY <2>1, <2>2, <2>3
<1>11. joinsAstray' \/ AloneInv'
  <2> SUFFICES ASSUME ~joinsAstray PROVE AloneInv'
    BY <1>1
  <2>1. /\ AloneInv
        /\ \A j \in Invites : admitted[j] = 0 \/ j \in nonces
    BY <1>1, <1>3, OnlyJoin DEF Unsaved
  <2>2. /\ nonces \subseteq old.seen /\ \A j \in Invites : admitted[j] <= 1
        /\ old.invite # NoTopic => admitted[old.invite] = 0 /\ old.invite \in old.seen
    BY <1>1, <1>3, <2>1 DEF AloneInv, SlotInv
  <2>3. \A j \in Invites : /\ admitted'[j] <= 1
                           /\ admitted'[j] = 1 => j \in nonces \/ j \in old.seen
    BY <1>4, <2>1, <2>2, TopicNumbers
  <2>4. Unsaved(new)
    BY <1>2, <1>3 DEF Unsaved
  <2> QED
    BY <1>1, <1>2, <1>3, <2>2, <2>3, <2>4, JoinStepAlone
<1>12. strayed' \/ Steady'
  <2> SUFFICES ASSUME ~strayed PROVE Steady'
    BY <1>1
  <2>1. SteadyJob(old, topicRow, roster) /\ \A q \in TopicSlots : q # s => Vacant(q)
    BY <1>3, Undisturbed
  <2>2. roster' = old.membership
    BY <1>1, <1>8, <2>1 DEF SteadyJob
  <2>3. SteadyJob(new, topicRow', roster')
    BY <1>2, <1>3, <2>2 DEF SteadyJob, Midway
  <2> QED
    BY <1>1, <1>2, <2>1, <2>3, SteadyStep
<1>13. (\A j \in Invites : admitted'[j] >= admitted[j]) /\ sealed <= sealed' /\ wired \subseteq wired'
    BY <1>1, <1>4, TopicNumbers DEF TopicInv, TopicTypeOK
<1> QED
    BY <1>1, <1>2, <1>7, <1>8, <1>9, <1>10, <1>11, <1>12, <1>13, SlotKeepsInv

\* The spent invites a join knows are saved, those before it among them.
LEMMA JoinFilesKeepsInv ==
    ASSUME TopicInv, NEW s \in TopicSlots, JoinFiles(s)
    PROVE  TopicInv'
<1> DEFINE old == topicCommand[s]
           new == [old EXCEPT !.step = "storing"]
<1>1. /\ old.step = "filing" /\ topicCommand' = [topicCommand EXCEPT ![s] = new]
      /\ nonces' = old.seen
      /\ UNCHANGED <<private, topicRow, roster, invited, sealed, topicCommands, topicExits,
                     wired, admitted, left, broughtBack, joinsAstray, strayed>>
    BY DEF JoinFiles, TopicGoes, topicHistory, joinHistory
<1>2. /\ new \in TopicJobs /\ new.step = "storing" /\ new.seen = old.seen
      /\ new.op = old.op /\ new.membership = old.membership /\ new # NoTopicJob
    BY JobTypes, IdleJob DEF TopicJobs
<1>3. Joins(s) /\ SlotInv(s) /\ ~Vacant(s) /\ old.op \in {"join", "elsewhere"}
    BY <1>1, JobTypes, IdleJob DEF SlotInv, Joins, Vacant
<1>4. nonces' \subseteq Invites /\ \A i \in nonces' : admitted'[i] > 0
    BY <1>1, <1>3, JobTypes DEF SlotInv
<1> HIDE DEF new
<1>5. topicCommand'[s] = new
    BY <1>1, JobTypes
<1>6. SlotInv(s)'
  <2>1. \A i \in new.seen : admitted'[i] > 0
    BY <1>1, <1>2, <1>4
  <2> QED
    BY <1>1, <1>2, <1>3, <1>5, <2>1 DEF SlotInv
<1>7. TopicTypeOK' /\ sealed' <= topicCommands' + 1 /\ (roster' # NoTopic => roster' <= sealed')
    BY <1>1, <1>2, <1>4 DEF TopicInv, TopicTypeOK
<1>8. LeaveWins' /\ NoPoisonedMigration'
    BY <1>1 DEF TopicInv, LeaveWins, NoPoisonedMigration, Member
<1>9. joinsAstray' \/ AloneInv'
  <2> SUFFICES ASSUME ~joinsAstray PROVE AloneInv'
    BY <1>1
  <2>1. /\ AloneInv
        /\ \A j \in Invites : admitted[j] = 0 \/ j \in nonces \/ j \in old.seen
    BY <1>1, <1>3, OnlyJoin
  <2>2. nonces \subseteq old.seen /\ \A j \in Invites : admitted[j] <= 1
    BY <1>3, <2>1 DEF AloneInv
  <2>3. \A j \in Invites : admitted'[j] <= 1 /\ (admitted'[j] = 1 => j \in nonces')
    BY <1>1, <2>1, <2>2
  <2> QED
    BY <1>1, <1>2, <1>3, <2>3, JoinStepAlone
<1>10. strayed' \/ Steady'
  <2>1. SteadyJob(old, topicRow, roster) => SteadyJob(new, topicRow, roster)
    BY <1>1, <1>2, <1>3 DEF SteadyJob, Midway
  <2> QED
    BY <1>1, <1>2, <1>3, <2>1, JoinStepSteady
<1>11. (\A j \in Invites : admitted'[j] >= admitted[j]) /\ sealed <= sealed' /\ wired \subseteq wired'
    BY <1>1, TopicNumbers DEF TopicInv, TopicTypeOK
<1> QED
    BY <1>1, <1>2, <1>4, <1>6, <1>7, <1>8, <1>9, <1>10, <1>11, SlotKeepsInv

\* The topic is stored with a membership that a relay accepted.
LEMMA JoinStoresKeepsInv ==
    ASSUME TopicInv, NEW s \in TopicSlots, JoinStores(s)
    PROVE  TopicInv'
<1>1. /\ topicCommand[s].op = "join" /\ topicCommand[s].step = "storing"
      /\ topicCommand' = [topicCommand EXCEPT ![s] = NoTopicJob]
      /\ topicRow' = topicCommand[s].membership
      /\ left' = FALSE /\ broughtBack' = FALSE
      /\ UNCHANGED <<private, roster, nonces, invited, sealed, topicCommands, topicExits, wired,
                     admitted, joinsAstray, strayed>>
    BY DEF JoinStores, TopicEnds
<1>2. topicCommand[s].membership \in wired /\ ~Joins(s) /\ topicCommand[s].membership \in Seals
    BY <1>1, JobTypes, RosterType DEF SlotInv, Joins
<1>3. topicCommand'[s] = NoTopicJob
    BY <1>1, JobTypes
<1>4. SlotInv(s)'
    BY <1>3, IdleJob DEF SlotInv
<1>5. LeaveWins' /\ NoPoisonedMigration'
    BY <1>1, <1>2 DEF LeaveWins, NoPoisonedMigration
<1>6. TopicTypeOK' /\ sealed' <= topicCommands' + 1 /\ (roster' # NoTopic => roster' <= sealed')
    BY <1>1, <1>2, IdleJob DEF TopicInv, TopicTypeOK, TopicRows
<1>7. joinsAstray' \/ AloneInv'
    BY <1>1, <1>2, IdleJob, AsideKeepsAlone
<1>8. strayed' \/ Steady'
  <2> SUFFICES ASSUME ~strayed PROVE Steady'
    BY <1>1
  <2>1. ~Vacant(s)
    BY <1>1, IdleJob DEF Vacant
  <2>2. SteadyJob(topicCommand[s], topicRow, roster) /\ \A q \in TopicSlots : q # s => Vacant(q)
    BY <2>1, Undisturbed
  <2>3. roster' = RosterOf(topicRow')
    BY <1>1, <1>2, <2>2 DEF SteadyJob, RosterOf
  <2> QED
    BY <1>1, <2>2, <2>3, SteadyStep
<1>9. /\ \A j \in Invites : admitted'[j] >= admitted[j]
      /\ sealed <= sealed' /\ wired \subseteq wired' /\ \A i \in nonces' : admitted'[i] > 0
    BY <1>1, TopicNumbers DEF TopicInv, TopicTypeOK
<1> QED
    BY <1>1, <1>4, <1>5, <1>6, <1>7, <1>8, <1>9, IdleJob, SlotKeepsInv

\* The command fails after a relay stored what it sealed: that counts as strayed, and
\* the join that sealed it as gone astray.
LEMMA UnheardKeepsInv ==
    ASSUME TopicInv, NEW s \in TopicSlots, TopicFails(s), Unheard(s)
    PROVE  TopicInv'
<1> DEFINE m == topicCommand[s].membership
<1>1. /\ topicCommand[s].step \in {"publishing", "republishing"}
      /\ topicCommand' = [topicCommand EXCEPT ![s] = NoTopicJob]
      /\ roster' = Served(m) /\ wired' = wired \cup {m}
      /\ admitted' = Admitted(s) /\ strayed' = TRUE
      /\ joinsAstray' = (joinsAstray \/ Joins(s))
      /\ UNCHANGED <<private, topicRow, nonces, invited, sealed, topicCommands, topicExits, left,
                     broughtBack>>
    BY DEF TopicFails, TopicEnds, Unheard, Published, topicFiles
<1>2. m \in Seals /\ m <= sealed /\ SlotInv(s)
    BY <1>1, JobTypes DEF SlotInv
<1>3. /\ roster' \in Seals \cup {NoTopic} /\ (roster' # NoTopic => roster' <= sealed')
    BY <1>1, <1>2, ServedType
<1> HIDE DEF m
<1>4. topicCommand'[s] = NoTopicJob
    BY <1>1, JobTypes
<1>5. SlotInv(s)'
    BY <1>4, IdleJob DEF SlotInv
<1>6. admitted' \in [Invites -> Nat] /\ \A i \in Invites : admitted'[i] >= admitted[i]
    BY <1>1, AdmittedOnce
<1>7. TopicTypeOK' /\ sealed' <= topicCommands' + 1
  <2>1. joinsAstray' \in BOOLEAN /\ strayed' \in BOOLEAN
    BY <1>1
  <2> QED
    BY <1>1, <1>2, <1>3, <1>6, <2>1, IdleJob DEF TopicInv, TopicTypeOK
<1>8. LeaveWins' /\ NoPoisonedMigration'
    BY <1>1 DEF TopicInv, LeaveWins, NoPoisonedMigration, Member
<1>9. \A i \in nonces' : admitted'[i] > 0
  <2>1. nonces \subseteq Invites /\ admitted \in [Invites -> Nat]
    BY DEF TopicInv, TopicTypeOK
  <2>2. \A i \in nonces : admitted[i] > 0
    BY DEF TopicInv
  <2> QED
    BY <1>1, <1>6, <2>1, <2>2
<1>10. joinsAstray' \/ AloneInv'
  <2>1. CASE Joins(s)
    BY <1>1, <2>1
  <2>2. CASE ~Joins(s)
    <3>1. topicCommand[s].step = "republishing"
      BY <1>1, <2>2 DEF Joins
    <3>2. topicCommand[s].invite = NoTopic /\ admitted \in [Invites -> Nat]
      BY <3>1, JobTypes DEF SlotInv, TopicInv, TopicTypeOK
    <3>3. admitted' = admitted /\ joinsAstray' = joinsAstray
      <4>1. joinsAstray' = joinsAstray
        BY <1>1, <2>2 DEF TopicInv, TopicTypeOK
      <4>2. \A i \in Invites : admitted'[i] = admitted[i]
        BY <1>1, <3>2, AdmittedOnce, TopicNumbers
      <4> QED
        BY <1>6, <3>2, <4>1, <4>2
    <3> QED
      BY <1>1, <2>2, <3>3, IdleJob, AsideKeepsAlone
  <2> QED
    BY <2>1, <2>2
<1>11. sealed <= sealed' /\ wired \subseteq wired'
    BY <1>1, TopicNumbers DEF TopicInv, TopicTypeOK
<1> QED
    BY <1>1, <1>3, <1>5, <1>6, <1>7, <1>8, <1>9, <1>10, <1>11, IdleJob, SlotKeepsInv

\* The command fails with the relays as they were, and perhaps half done: that counts
\* as strayed, and as astray for a join whose invite is not saved.
LEMMA CutShortKeepsInv ==
    ASSUME TopicInv, NEW s \in TopicSlots, TopicFails(s), CutShort(s)
    PROVE  TopicInv'
<1>1. /\ topicCommand' = [topicCommand EXCEPT ![s] = NoTopicJob] /\ ~Vacant(s)
      /\ strayed' = (strayed \/ Midway(topicCommand[s]))
      /\ joinsAstray' = (joinsAstray \/ Unsaved(topicCommand[s]))
      /\ UNCHANGED <<private, topicRow, nonces, roster, invited, sealed, topicCommands,
                     topicExits, wired, admitted, left, broughtBack>>
    BY DEF TopicFails, TopicEnds, CutShort, topicFiles
<1>2. topicCommand'[s] = NoTopicJob
    BY <1>1, JobTypes
<1>3. SlotInv(s)'
    BY <1>2, IdleJob DEF SlotInv
<1>4. TopicTypeOK' /\ sealed' <= topicCommands' + 1 /\ (roster' # NoTopic => roster' <= sealed')
  <2>1. joinsAstray' \in BOOLEAN /\ strayed' \in BOOLEAN
    BY <1>1
  <2> QED
    BY <1>1, <2>1, IdleJob DEF TopicInv, TopicTypeOK
<1>5. LeaveWins' /\ NoPoisonedMigration' /\ \A i \in nonces' : admitted'[i] > 0
    BY <1>1 DEF TopicInv, LeaveWins, NoPoisonedMigration, Member
<1>6. joinsAstray' \/ AloneInv'
  <2> SUFFICES ASSUME ~joinsAstray' PROVE AloneInv'
    OBVIOUS
  <2>1. ~joinsAstray /\ ~Unsaved(topicCommand[s])
    BY <1>1
  <2>2. joinsAstray' = joinsAstray
    BY <1>1, <2>1 DEF TopicInv, TopicTypeOK
  <2>3. CASE ~Joins(s)
    BY <1>1, <2>1, <2>2, <2>3, IdleJob, AsideKeepsAlone
  <2>4. CASE Joins(s)
    <3>1. AloneInv /\ \A i \in Invites : admitted[i] = 0 \/ i \in nonces
      BY <1>1, <2>1, <2>4, OnlyJoin
    <3>2. \A i \in Invites : admitted[i] <= 1
      BY <3>1 DEF AloneInv
    <3>3. \A i \in Invites : admitted'[i] <= 1 /\ (admitted'[i] = 1 => i \in nonces')
      BY <1>1, <3>1, <3>2
    <3> QED
      BY <1>1, <2>1, <2>4, <3>3, IdleJob, JoinStepAlone
  <2> QED
    BY <2>3, <2>4
<1>7. strayed' \/ Steady'
  <2> SUFFICES ASSUME ~strayed' PROVE Steady'
    OBVIOUS
  <2>1. ~strayed /\ ~Midway(topicCommand[s])
    BY <1>1
  <2>2. SteadyJob(topicCommand[s], topicRow, roster) /\ \A q \in TopicSlots : q # s => Vacant(q)
    BY <1>1, <2>1, Undisturbed
  <2>3. roster' = RosterOf(topicRow')
    BY <1>1, <2>1, <2>2 DEF SteadyJob
  <2> QED
    BY <1>1, <2>2, <2>3, SteadyStep
<1>8. (\A i \in Invites : admitted'[i] >= admitted[i]) /\ sealed <= sealed' /\ wired \subseteq wired'
    BY <1>1, TopicNumbers DEF TopicInv, TopicTypeOK
<1> QED
    BY <1>1, <1>3, <1>4, <1>5, <1>6, <1>7, <1>8, IdleJob, SlotKeepsInv

LEMMA NextKeepsTopicInv == TopicInv /\ [TopicNext]_topicVars => TopicInv'
<1> SUFFICES ASSUME TopicInv, [TopicNext]_topicVars PROVE TopicInv'
    OBVIOUS
<1>1. ASSUME NEW s \in TopicSlots, SavesLoaded(s) \/ EditStores(s) PROVE TopicInv'
    BY <1>1, SavesRowKeepsInv DEF SavesLoaded, EditStores
<1>2. ASSUME NEW s \in TopicSlots, TopicFails(s) PROVE TopicInv'
    BY <1>2, UnheardKeepsInv, CutShortKeepsInv DEF TopicFails
<1>3. ASSUME NEW s \in TopicSlots, TopicStep(s) PROVE TopicInv'
    BY <1>1, <1>2, <1>3, JoinBeginsKeepsInv, JoinElsewhereKeepsInv, RedeemsKeepsInv,
       FindsCredentialKeepsInv, JoinPublishedKeepsInv, JoinFilesKeepsInv, JoinStoresKeepsInv,
       ElsewhereLoadsKeepsInv, LeaveBeginsKeepsInv, RetractsKeepsInv, DropsRowKeepsInv,
       EditBeginsKeepsInv, RosterBeginsKeepsInv, RepublishedKeepsInv, RecordLoadsKeepsInv
    DEF TopicStep
<1>4. CASE UNCHANGED topicVars
  <2>1. UNCHANGED <<private, topicRow, nonces, roster, invited, topicCommand, sealed,
                    topicCommands, topicExits, wired, admitted, left, broughtBack, joinsAstray,
                    strayed>>
    BY <1>4 DEF topicVars, topicFiles, topicHistory, joinHistory
  <2>2. TopicTypeOK'
    BY <2>1 DEF TopicInv, TopicTypeOK
  <2>3. \A s \in TopicSlots : SlotInv(s)'
    BY <2>1 DEF TopicInv, SlotInv
  <2>4. joinsAstray' \/ AloneInv'
    BY <2>1 DEF TopicInv, AloneInv, Joins
  <2>5. strayed' \/ Steady'
    BY <2>1 DEF TopicInv, Steady, Vacant
  <2>6. /\ LeaveWins' /\ NoPoisonedMigration' /\ \A j \in nonces' : admitted'[j] > 0
        /\ sealed' <= topicCommands' + 1 /\ (roster' # NoTopic => roster' <= sealed')
    BY <2>1 DEF TopicInv, LeaveWins, NoPoisonedMigration, Member
  <2> QED
    BY <2>2, <2>3, <2>4, <2>5, <2>6 DEF TopicInv
<1> QED
    BY <1>3, <1>4, AppEndsKeepsInv, InviteArrivesKeepsInv DEF TopicNext

\* The inductive invariant holds in every reachable state.
THEOREM TopicInvariant == TopicSpec => []TopicInv
    BY InitTopicInv, NextKeepsTopicInv, PTL DEF TopicSpec

\* Every variable of the topic commands keeps its type.
THEOREM TopicTypeCorrect == TopicSpec => []TopicTypeOK
<1>1. TopicInv => TopicTypeOK
    BY DEF TopicInv
<1> QED
    BY <1>1, TopicInvariant, PTL

\* No republish brings back a row it found gone, a row of today records what a relay
\* accepted, and commands one after the other leave the relays showing that row
\* (store_republished_membership, topic_leave, join_topic).
THEOREM MembershipIsHonest == TopicSpec => []MembershipHonest
<1>1. TopicInv => MembershipHonest
    BY DEF TopicInv, MembershipHonest, RosterAgrees, Steady, RosterOf
<1> QED
    BY <1>1, TopicInvariant, PTL

\* A spent invite has let the user in, and none does twice while joins do not overlap
\* and none ends between its membership and its invite (topic_redeem_invite,
\* redeem_opened_invite).
THEOREM InvitesAdmitOnce == TopicSpec => []InviteAdmitsOnce
<1>1. TopicInv => InviteAdmitsOnce
  <2> SUFFICES ASSUME TopicInv, NEW i \in Invites
               PROVE  /\ i \in nonces => admitted[i] > 0
                      /\ admitted[i] > 1 => joinsAstray
    BY DEF InviteAdmitsOnce
  <2>1. admitted[i] \in Nat
    BY DEF TopicInv, TopicTypeOK
  <2> QED
    BY <2>1 DEF TopicInv, AloneInv
<1> QED
    BY <1>1, TopicInvariant, PTL

=============================================================================
