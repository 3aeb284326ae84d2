---------------------------- MODULE MCSplitCheck ----------------------------
(* Two channels, an hour of three minutes of eight seconds. *)
EXTENDS SplitCheck
MCTwo == {1, 2}
MCSteps == {0 - 3}
MCExact == {0}

(* These settings are such as the theorems of SplitCheckProofs ask for. *)
ASSUME MCSettingsInOrder == Punctual /\ ReachIs(3)
=============================================================================
