------------------------------ MODULE Messages ------------------------------
(***************************************************************************)
(* A message's way from the relays to the user: the window that a poll     *)
(* reads of the relays (InboxCursor), and what the poll and the user's     *)
(* commands make of what it finds (DmInbox). The two share no variable:    *)
(* the first hands over what it has decoded, once.                         *)
(***************************************************************************)
EXTENDS DmInbox, InboxCursor

\* No message is lost on its way: between the relays and the poll the cursor leaves
\* none behind but one that some poll was not given (StrandedWereMissed), and between
\* the files none is lost while the process lives (KeptUnlessCrashed).
MessagesKept == KeptUnlessCrashed /\ StrandedWereMissed

=============================================================================
