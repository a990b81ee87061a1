------------------------------- MODULE Topics -------------------------------
(***************************************************************************)
(* The user's membership of one topic (commands/topics.rs): join by name   *)
(* or by invite, leave, the edit of the description, and the republish of  *)
(* an old membership when the roster is opened.                            *)
(*                                                                         *)
(* topics.json and topic_nonces.json have no lock. A command reads them,   *)
(* asks the network, and writes back what it read and learnt, while other  *)
(* commands run on other threads. A step below ends where the code awaits  *)
(* an answer, between what a relay accepted and what the command stores,   *)
(* and between the load and the save of a file when what was loaded        *)
(* decides what is saved of the topic.                                     *)
(*                                                                         *)
(* A membership is numbered in the order of the stamps it is sealed with;  *)
(* OldSeal is one sealed by a build before the pseudonyms changed, which   *)
(* no roster shows. Left out: create, the channel and its announcements,   *)
(* the texts, the expiry of invites, and the contacts a join adds.         *)
(***************************************************************************)
EXTENDS Naturals, FiniteSets

CONSTANTS
    TopicSlots,        \* commands that may overlap
    Invites,           \* single-use invites to the topic
    MaxTopicCommands,  \* bound of the model: commands in one run
    MaxTopicExits,     \* bound of the model: ends of the app
    NoTopic

ASSUME TopicAssumption ==
    NoTopic \notin Invites \cup Nat /\ {MaxTopicCommands, MaxTopicExits} \subseteq Nat

VARIABLES
    private,     \* the topic is joined by invite, else by its name
    topicRow,    \* the membership topics.json records, or NoTopic
    roster,      \* the user's membership that relays serve, or NoTopic
    nonces,      \* topic_nonces.json
    invited,     \* invites the relays have for the user
    topicCommand,\* [TopicSlots -> the command in flight]
    sealed,      \* memberships sealed so far
    topicCommands, topicExits,
    wired,       \* history: memberships a relay accepted
    admitted,    \* history: how often each invite let the user in
    left,        \* history: the user's last finished join or leave is a leave
    broughtBack, \* history: what was read before that leave was written after it
    joinsAstray, \* history: joins overlapped, or one ended admitted with its invite unsaved
    strayed      \* history: commands overlapped, or one ended with only the relays changed

topicFiles == <<topicRow, nonces>>
joinHistory == <<wired, admitted, left, broughtBack, joinsAstray>>
topicHistory == <<joinHistory, strayed>>
topicVars == <<private, topicFiles, roster, invited, topicCommand, sealed, topicCommands,
               topicExits, topicHistory>>

OldSeal == 0

Seals == 1 .. (MaxTopicCommands + 1)

TopicRows == Seals \cup {OldSeal, NoTopic}

\* "row" is the membership a command has read or is to save. "late" is history:
\* the user has left since the command read the row.
TopicJobs ==
    [op : {"none", "join", "elsewhere", "leave", "edit", "roster"},
     step : {"idle", "asking", "publishing", "filing", "storing", "retracting",
             "dropping", "announcing", "republishing", "recording", "saving"},
     row : TopicRows, membership : Seals \cup {OldSeal}, invite : Invites \cup {NoTopic},
     seen : SUBSET Invites, late : BOOLEAN]

NoTopicJob ==
    [op |-> "none", step |-> "idle", row |-> NoTopic, membership |-> OldSeal,
     invite |-> NoTopic, seen |-> {}, late |-> FALSE]

TopicTypeOK ==
    /\ private \in BOOLEAN
    /\ topicRow \in TopicRows /\ roster \in Seals \cup {NoTopic}
    /\ nonces \subseteq Invites /\ invited \subseteq Invites
    /\ topicCommand \in [TopicSlots -> TopicJobs]
    /\ sealed \in {0} \cup Seals
    /\ topicCommands \in 0..MaxTopicCommands /\ topicExits \in 0..MaxTopicExits
    /\ wired \subseteq Seals
    /\ admitted \in [Invites -> Nat]
    /\ left \in BOOLEAN /\ broughtBack \in BOOLEAN
    /\ joinsAstray \in BOOLEAN /\ strayed \in BOOLEAN

\* The user is no member, one since an old build, or one of today.
TopicInit ==
    /\ private \in BOOLEAN
    /\ topicRow \in {NoTopic, OldSeal, 1}
    /\ roster = IF topicRow = 1 THEN 1 ELSE NoTopic
    /\ wired = IF topicRow = 1 THEN {1} ELSE {}
    /\ sealed = 1
    /\ nonces = {} /\ invited = {}
    /\ topicCommand = [s \in TopicSlots |-> NoTopicJob]
    /\ topicCommands = 0 /\ topicExits = 0
    /\ admitted = [i \in Invites |-> 0]
    /\ left = FALSE /\ broughtBack = FALSE /\ joinsAstray = FALSE /\ strayed = FALSE

-----------------------------------------------------------------------------
(* Steps the commands share *)

Vacant(s) == topicCommand[s] = NoTopicJob

\* A join that has loaded the redeemed invites and not saved them yet.
Joins(s) == topicCommand[s].step \in {"asking", "publishing", "filing"}

\* The relays know of what a command did to this topic, topics.json does not.
Midway(c) ==
    /\ c.op # "elsewhere"
    /\ c.step \in {"filing", "storing", "dropping", "recording", "saving"}

\* The membership of a join is out, and its invite is not saved as redeemed.
Unsaved(c) == c.op = "join" /\ c.step = "filing"

\* A command starts in slot s, maybe beside others.
TopicBegins(s, new) ==
    /\ topicCommands < MaxTopicCommands
    /\ topicCommands' = topicCommands + 1
    /\ Vacant(s)
    /\ topicCommand' = [topicCommand EXCEPT ![s] = new]
    /\ strayed' = (strayed \/ \E t \in TopicSlots : ~Vacant(t))

TopicGoes(s, step) == topicCommand' = [topicCommand EXCEPT ![s].step = step]

TopicEnds(s) == topicCommand' = [topicCommand EXCEPT ![s] = NoTopicJob]

\* A join begins while another is in flight.
JoinsCross == joinsAstray' = (joinsAstray \/ \E s \in TopicSlots : Joins(s))

\* The relays keep the newest membership of one author in one topic.
Served(membership) ==
    IF roster = NoTopic \/ membership > roster THEN membership ELSE roster

\* join_topic: a relay has accepted what the command sealed.
Published(s) ==
    /\ roster' = Served(topicCommand[s].membership)
    /\ wired' = wired \cup {topicCommand[s].membership}

\* The invite the join has redeemed lets the user in.
Admitted(s) ==
    [i \in Invites |-> IF i = topicCommand[s].invite THEN admitted[i] + 1 ELSE admitted[i]]

\* topics.json is saved with the row the command holds.
SavesRow(s) ==
    /\ topicRow' = topicCommand[s].row
    /\ broughtBack' = (broughtBack \/ (topicCommand[s].late /\ topicCommand[s].row # NoTopic))
    /\ TopicEnds(s)
    /\ UNCHANGED <<private, roster, nonces, invited, sealed, topicCommands, topicExits, wired,
                   admitted, left, joinsAstray, strayed>>

\* No OK came back of a publish, but a relay has stored the event.
Unheard(s) ==
    /\ topicCommand[s].step \in {"publishing", "republishing"}
    /\ Published(s)
    /\ admitted' = Admitted(s)
    /\ strayed' = TRUE
    /\ joinsAstray' = (joinsAstray \/ Joins(s))

\* Nothing more comes of the step: nobody was reached, or a file cannot be read or saved.
CutShort(s) ==
    /\ strayed' = (strayed \/ Midway(topicCommand[s]))
    /\ joinsAstray' = (joinsAstray \/ Unsaved(topicCommand[s]))
    /\ UNCHANGED <<roster, wired, admitted>>

\* Any step of a command may fail, and ends it. A leave that has no client ends
\* before the row is dropped.
TopicFails(s) ==
    /\ ~Vacant(s)
    /\ TopicEnds(s)
    /\ Unheard(s) \/ CutShort(s)
    /\ UNCHANGED <<private, topicFiles, invited, sealed, topicCommands, topicExits, left,
                   broughtBack>>

-----------------------------------------------------------------------------
(* topic_join_public and topic_redeem_invite *)

InviteArrives(i) ==
    /\ private
    /\ i \notin invited
    /\ invited' = invited \cup {i}
    /\ UNCHANGED <<private, topicFiles, roster, topicCommand, sealed, topicCommands,
                   topicExits, topicHistory>>

\* The set of redeemed invites is loaded, and the membership has its stamp.
JoinBegins(s) ==
    /\ TopicBegins(s, [NoTopicJob EXCEPT !.op = "join", !.step = "asking", !.seen = nonces,
                                         !.membership = sealed + 1])
    /\ sealed' = sealed + 1
    /\ JoinsCross
    /\ UNCHANGED <<private, topicFiles, roster, invited, topicExits, wired, admitted, left,
                   broughtBack>>

\* A join of another topic, which shares both files. It stands for what else saves
\* topics.json whole: a leave, an edit or a republish of another topic.
JoinElsewhere(s) ==
    /\ TopicBegins(s, [NoTopicJob EXCEPT !.op = "elsewhere", !.step = "filing",
                                         !.seen = nonces])
    /\ JoinsCross
    /\ UNCHANGED <<private, topicFiles, roster, invited, sealed, topicExits, wired, admitted,
                   left, broughtBack>>

\* Mutant of NoncesOnRedeem, for InviteAdmitsOnce: saved before the membership is out.
BurntOnRedeem(i) == nonces \cup {i}

\* redeem_opened_invite records the invite in the set the command loaded; the
\* file follows when the membership is out.
NoncesOnRedeem(i) == nonces

\* fetch_invite finds an invite that is not in the set.
Redeems(s) ==
    /\ private
    /\ topicCommand[s].step = "asking"
    /\ \E i \in invited \ topicCommand[s].seen :
          /\ topicCommand' = [topicCommand EXCEPT ![s].step = "publishing", ![s].invite = i,
                                                  ![s].seen = @ \cup {i}]
          /\ nonces' = NoncesOnRedeem(i)
    /\ UNCHANGED <<private, topicRow, roster, invited, sealed, topicCommands, topicExits,
                   topicHistory>>

\* join_public: the credential is reusable, and no invite is consumed.
FindsCredential(s) ==
    /\ ~private
    /\ topicCommand[s].step = "asking"
    /\ TopicGoes(s, "publishing")
    /\ UNCHANGED <<private, topicFiles, roster, invited, sealed, topicCommands, topicExits,
                   topicHistory>>

JoinPublished(s) ==
    /\ topicCommand[s].step = "publishing"
    /\ Published(s)
    /\ admitted' = Admitted(s)
    /\ TopicGoes(s, "filing")
    /\ UNCHANGED <<private, topicFiles, invited, sealed, topicCommands, topicExits, left,
                   broughtBack, joinsAstray, strayed>>

\* The set is saved, as loaded and with the invite the join has redeemed.
JoinFiles(s) ==
    /\ topicCommand[s].step = "filing"
    /\ nonces' = topicCommand[s].seen
    /\ TopicGoes(s, "storing")
    /\ UNCHANGED <<private, topicRow, roster, invited, sealed, topicCommands, topicExits,
                   topicHistory>>

\* The contacts of the roster are added, then store_topic puts the new row in the
\* place of whatever row it loads: one step as far as this topic goes.
JoinStores(s) ==
    /\ topicCommand[s].op = "join" /\ topicCommand[s].step = "storing"
    /\ topicRow' = topicCommand[s].membership
    /\ left' = FALSE /\ broughtBack' = FALSE
    /\ TopicEnds(s)
    /\ UNCHANGED <<private, roster, nonces, invited, sealed, topicCommands, topicExits, wired,
                   admitted, joinsAstray, strayed>>

\* store_topic for the other topic loads the row of this one with the file.
ElsewhereLoads(s) ==
    /\ topicCommand[s].op = "elsewhere" /\ topicCommand[s].step = "storing"
    /\ topicCommand' = [topicCommand EXCEPT ![s].step = "saving", ![s].row = topicRow,
                                            ![s].late = FALSE]
    /\ UNCHANGED <<private, topicFiles, roster, invited, sealed, topicCommands, topicExits,
                   topicHistory>>

\* save_topics writes the rows as they were loaded, but for the one it is about.
SavesLoaded(s) ==
    /\ topicCommand[s].step = "saving"
    /\ SavesRow(s)

-----------------------------------------------------------------------------
(* topic_leave *)

Member == topicRow # NoTopic

\* A command on the stored topic begins with a copy of its row.
ReadsRow(s, op, step) ==
    /\ Member
    /\ TopicBegins(s, [NoTopicJob EXCEPT !.op = op, !.step = step, !.row = topicRow])

LeaveBegins(s) ==
    /\ ReadsRow(s, "leave", "retracting")
    /\ UNCHANGED <<private, topicFiles, roster, invited, sealed, topicExits, joinHistory>>

\* leave_topic deletes the stored membership by its id. It refuses for an old
\* seal, and a failed publish is only logged: the relays may go on showing it.
RetractsMembership(s) ==
    /\ topicCommand[s].step = "retracting"
    /\ roster' \in {roster} \cup {NoTopic : m \in {roster} \cap {topicCommand[s].row}}
    /\ strayed' = (strayed \/ roster' # NoTopic)
    /\ TopicGoes(s, "dropping")
    /\ UNCHANGED <<private, topicFiles, invited, sealed, topicCommands, topicExits,
                   joinHistory>>

\* The file is loaded, filtered and saved: the row is gone from what is saved
\* whatever was loaded, and what the step does to the others is ElsewhereLoads.
DropsRow(s) ==
    /\ topicCommand[s].step = "dropping"
    /\ topicRow' = NoTopic
    /\ left' = TRUE /\ broughtBack' = FALSE
    /\ topicCommand' = [t \in TopicSlots |->
          IF t = s \/ Vacant(t) THEN NoTopicJob
          ELSE [topicCommand[t] EXCEPT !.late = TRUE]]
    /\ UNCHANGED <<private, roster, nonces, invited, sealed, topicCommands, topicExits, wired,
                   admitted, joinsAstray, strayed>>

-----------------------------------------------------------------------------
(* topic_update_meta: a private topic is stored at once, and its row says what it said *)

EditBegins(s) ==
    /\ ~private
    /\ ReadsRow(s, "edit", "announcing")
    /\ UNCHANGED <<private, topicFiles, roster, invited, sealed, topicExits, joinHistory>>

\* store_topic: the copy replaces the row, or is added where there is none.
EditStores(s) ==
    /\ topicCommand[s].step = "announcing"
    /\ SavesRow(s)

-----------------------------------------------------------------------------
(* republish_pre_v2_membership, when the roster is opened *)

\* A membership of today is left alone.
RosterBegins(s) ==
    /\ topicRow = OldSeal
    /\ TopicBegins(s, [NoTopicJob EXCEPT !.op = "roster", !.step = "republishing",
                                         !.row = topicRow, !.membership = sealed + 1])
    /\ sealed' = sealed + 1
    /\ UNCHANGED <<private, topicFiles, roster, invited, topicExits, joinHistory>>

Republished(s) ==
    /\ topicCommand[s].step = "republishing"
    /\ Published(s)
    /\ TopicGoes(s, "recording")
    /\ UNCHANGED <<private, topicFiles, invited, sealed, topicCommands, topicExits, admitted,
                   left, broughtBack, joinsAstray, strayed>>

\* Mutant of RowToUpdate, for MembershipHonest: store_topic adds the row again.
RowToRestore == TRUE

\* store_republished_membership updates a row and adds none.
RowToUpdate == Member

\* The file is loaded: a topic left before that stays left.
RecordLoads(s) ==
    /\ topicCommand[s].step = "recording"
    /\ IF RowToUpdate
       THEN topicCommand' = [topicCommand EXCEPT ![s].step = "saving", ![s].late = FALSE,
                                                 ![s].row = topicCommand[s].membership]
       ELSE TopicEnds(s)
    /\ UNCHANGED <<private, topicFiles, roster, invited, sealed, topicCommands, topicExits,
                   topicHistory>>

-----------------------------------------------------------------------------
TopicAppEnds ==
    /\ topicExits < MaxTopicExits
    /\ topicExits' = topicExits + 1
    /\ topicCommand' = [s \in TopicSlots |-> NoTopicJob]
    /\ joinsAstray' = (joinsAstray \/ \E s \in TopicSlots : Unsaved(topicCommand[s]))
    /\ strayed' = (strayed \/ \E s \in TopicSlots : Midway(topicCommand[s]))
    /\ UNCHANGED <<private, topicFiles, roster, invited, sealed, topicCommands, wired,
                   admitted, left, broughtBack>>

TopicStep(s) ==
    \/ JoinBegins(s) \/ JoinElsewhere(s) \/ Redeems(s) \/ FindsCredential(s)
    \/ JoinPublished(s) \/ JoinFiles(s) \/ JoinStores(s)
    \/ ElsewhereLoads(s) \/ SavesLoaded(s)
    \/ LeaveBegins(s) \/ RetractsMembership(s) \/ DropsRow(s)
    \/ EditBegins(s) \/ EditStores(s)
    \/ RosterBegins(s) \/ Republished(s) \/ RecordLoads(s)
    \/ TopicFails(s)

TopicNext ==
    \/ \E s \in TopicSlots : TopicStep(s)
    \/ \E i \in Invites : InviteArrives(i)
    \/ TopicAppEnds

TopicSpec == TopicInit /\ [][TopicNext]_topicVars

-----------------------------------------------------------------------------
(* Properties *)

\* After a leave nothing stores the topic again that read its row after the leave,
\* but a join: a republish that finds it gone adds none ("the leave wins",
\* topics.rs:949). What was read before the leave and is written after it, by an
\* edit or by a save of the whole file, does bring the topic back.
LeaveWins == Member /\ left => broughtBack

\* A row that records a membership of today records one that some relay accepted:
\* otherwise it would never be republished ("a one-shot migration with a
\* poisoned flag", topics.rs:927).
NoPoisonedMigration == topicRow \in Seals => topicRow \in wired

\* Commands that came one after the other, and none of which ended between the
\* relays and the file, leave the relays showing what topics.json records: the
\* membership of today, and nothing of a topic left or an old membership.
RosterAgrees ==
    (\A s \in TopicSlots : Vacant(s)) /\ ~strayed =>
        roster = (IF topicRow \in Seals THEN topicRow ELSE NoTopic)

\* What the stored membership owes to the user's last join or leave, to the
\* relays' answers, and to what the relays show of it.
MembershipHonest == LeaveWins /\ NoPoisonedMigration /\ RosterAgrees

\* An invite that cannot be redeemed any more has let the user in, and none lets
\* the user in twice unless joins overlapped, or a join ended after its membership
\* was out and before the invite was saved as redeemed.
InviteAdmitsOnce ==
    \A i \in Invites :
        /\ i \in nonces => admitted[i] > 0
        /\ admitted[i] > 1 => joinsAstray

\* What the code does not keep: no command but a join stores a topic the user left.
LeaveIsFinal == Member => ~left

=============================================================================
