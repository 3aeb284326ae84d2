-------------------------- MODULE MCCaptureRequests --------------------------
(***************************************************************************)
(* One channel: two clients while frames stream, one while they are        *)
(* collected for the PNG encoder.                                          *)
(***************************************************************************)
EXTENDS CaptureRequests

MCClients == {"ipc", "tcp"}
MCCounts == {1, 2, 3}
MCFewCounts == {1, 2}
MCModes ==
  {[png |-> FALSE, instant |-> TRUE, fails |-> TRUE, callers |-> MCClients, chain |-> 2],
   [png |-> TRUE, instant |-> FALSE, fails |-> FALSE, callers |-> {"ipc"}, chain |-> 3]}
MCStreaming ==
  {[png |-> FALSE, instant |-> FALSE, fails |-> FALSE, callers |-> {"ipc"}, chain |-> 1]}

=============================================================================
