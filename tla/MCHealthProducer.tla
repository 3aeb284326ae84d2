-------------------------- MODULE MCHealthProducer --------------------------
(* A channel in use, and one that is not. *)
EXTENDS HealthProducer
MCChannels == <<0, 1>>
MCEnabled == {0}
MCStorages == {"OK", "STORAGE_FULL"}
=============================================================================
