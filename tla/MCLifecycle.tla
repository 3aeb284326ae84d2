---------------------------- MODULE MCLifecycle ----------------------------
(* Two domains; each service is enabled in one of the configurations, so   *)
(* that both ends of the shutdown, with and without the IPC server, occur. *)
EXTENDS Lifecycle

MCConfigurations == {{"terminal"}, {"tcp"}, {"ipc"}}
MCIpc == {{"ipc"}}
=============================================================================
