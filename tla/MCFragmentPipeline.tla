------------------------ MODULE MCFragmentPipeline ------------------------
(***************************************************************************)
(* Two channels.  One slot makes the exhausted pool, and with it two       *)
(* handling threads, common; one slot for every fragment rules it out, for *)
(* two fragments of a channel that are named alike.                        *)
(***************************************************************************)
EXTENDS FragmentPipeline

MCChannels == {0, 1}
MCMinutes == 1..2
MCLoads == {[pool |-> 1, last |-> 2, parts |-> 1], [pool |-> 4, last |-> 1, parts |-> 2]}

=============================================================================
