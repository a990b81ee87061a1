---------------------------- MODULE MCFetchWave ----------------------------
(* FetchWave of a collection that no contact carries. *)
EXTENDS FetchWave

NoCarriers == <<>>

=============================================================================
