----------------------------- MODULE MCProgress -----------------------------
(***************************************************************************)
(* The loops that must get somewhere: the fetch driver's redemptions, the  *)
(* serve protocol, the enumeration queue and the chat's inbox poll. "part" *)
(* names the one that moves in this behaviour. The others rest in a state  *)
(* in which nothing fair is enabled, so that what is assumed of them holds *)
(* of its own. No two share a variable: their state spaces add up.         *)
(***************************************************************************)
EXTENDS EnumerationQueue, InboxCursor

CONSTANTS
    Keys, PeerOf, AuthorOf, Ids, Users, Chats, Driver, DialCap, BackoffBase, Grace,
    Retention, MaxAsks, MaxTime, BatchSize, MaxAskRestarts, MaxLostWrites,
    Conns, OtherAskers, Slugs, SlugOf, Permits, NONE,
    peer, slug

MCPeerOf == [k \in Keys |-> peer]
MCSlugOf == [i \in Ids |-> slug]

VARIABLES
    time, minted, sentTo, ask, asker, tickets, proc, driver, page, recorded, dialled,
    delivered, settled, dials, failures, attended, askRestarts, lostWrites

askVars == <<time, minted, sentTo, ask, asker, tickets, proc, driver, page, recorded, dialled,
             delivered, settled, dials, failures, attended, askRestarts, lostWrites>>

VARIABLES
    open, request, queue, owner, fetch, link, toOwner, toAsker, inFlight, guard, accepted, late

serveVars == <<open, request, queue, owner, fetch, link, toOwner, toAsker, inFlight, guard,
               accepted, late>>

VARIABLE part

Ask == INSTANCE AskLedger
    WITH now <- time, failed <- failures, restarts <- askRestarts, MaxRestarts <- MaxAskRestarts

Serve == INSTANCE ManifestServe WITH asker <- fetch

-----------------------------------------------------------------------------
\* The clock has stopped and the driver does not run.
AskRests ==
    /\ time = MaxTime
    /\ minted = 0 /\ tickets = {} /\ recorded = {} /\ dialled = {} /\ delivered = {}
    /\ settled = {} /\ attended = FALSE /\ askRestarts = 0 /\ lostWrites = 0
    /\ sentTo = [n \in Ask!Nonces |-> NONE]
    /\ ask = [k \in Keys |-> Ask!NoAsk]
    /\ asker = [a \in Ask!Askers |-> Ask!NotAsking]
    /\ proc = [r \in Ask!Redeemers |-> Ask!NotRedeeming]
    /\ driver = [Ask!Sleeping EXCEPT !.pc = "off"]
    /\ page = Ask!FreshPage
    /\ dials = [n \in Ask!Nonces |-> 0] /\ failures = [n \in Ask!Nonces |-> 0]

\* No connection is dialled.
ServeRests == Serve!Init /\ request = [c \in Conns |-> CHOOSE i \in Ids : TRUE]

\* The app has not started.
QueueRests ==
    /\ line = <<>> /\ status = [c \in Contacts |-> "Pending"]
    /\ hasKeys = FALSE /\ broken = {} /\ phase = "off" /\ reading = NoContact /\ changes = 0

\* No wrap is on a relay, and no poll runs.
CursorRests == CursorInit

ProgressInit ==
    \/ part = "ask" /\ Ask!Init /\ ServeRests /\ QueueRests /\ CursorRests
    \/ part = "serve" /\ AskRests /\ Serve!Init /\ QueueRests /\ CursorRests
    \/ part = "queue" /\ AskRests /\ ServeRests /\ QueueInit /\ CursorRests
    \/ part = "cursor" /\ AskRests /\ ServeRests /\ QueueRests /\ CursorInit

ProgressNext ==
    \/ part = "ask" /\ Ask!Next /\ UNCHANGED <<part, serveVars, queueVars, cursorVars>>
    \/ part = "serve" /\ Serve!Next /\ UNCHANGED <<part, askVars, queueVars, cursorVars>>
    \/ part = "queue" /\ QueueNext /\ UNCHANGED <<part, askVars, serveVars, cursorVars>>
    \/ part = "cursor" /\ CursorNext /\ UNCHANGED <<part, askVars, serveVars, queueVars>>

progressVars == <<part, askVars, serveVars, queueVars, cursorVars>>

\* What the network answers when it is asked again and again. Only the part that
\* moves can do its step, so this is the strong fairness of that one step.
NetworkAnswers(w) ==
    \/ Ask!FetchInbox /\ UNCHANGED <<part, serveVars, queueVars, cursorVars>>
    \/ Classify /\ UNCHANGED <<part, askVars, serveVars, cursorVars>>
    \/ Given(w) /\ UNCHANGED <<part, askVars, serveVars, queueVars>>

Progress ==
    /\ Ask!LoopFairness
    /\ Serve!Fairness
    /\ QueueLoopFairness
    /\ CursorLoopFairness
    /\ \A w \in Wraps : SF_progressVars(NetworkAnswers(w))

ProgressSpec == ProgressInit /\ [][ProgressNext]_progressVars /\ Progress

-----------------------------------------------------------------------------
\* The properties of AskLedger and ManifestServe, under their own names.
AnswerSettles == Ask!AnswerSettles
ConnectionsEnd == Serve!ConnectionsEnd
=============================================================================
