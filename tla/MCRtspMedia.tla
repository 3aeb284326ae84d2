---------------------------- MODULE MCRtspMedia ----------------------------
(* Instances of RtspMedia for TLC. *)
EXTENDS RtspMedia

MCCaps == {1, 2}
=============================================================================
