--------------------------- MODULE Max9296Domain ---------------------------
(***************************************************************************)
(* One CSI domain of the MAX9296 driver, as max9296Prepare.cpp sees it     *)
(* through the sysfs prepare node: the fields of the status line that      *)
(* Max9296PrepareStatus holds, and what the driver may do to them.  The    *)
(* driver is outside the repository; its moves are those the classifier,   *)
(* the final validation and the integration design take into account.      *)
(*                                                                         *)
(* "match" stands for the driver's match flag together with the request's  *)
(* fingerprint (mode, table, size, rate, enable mask and code): the code   *)
(* never uses one without the other.  Error numbers are reduced to         *)
(* whether they are zero.                                                  *)
(***************************************************************************)
EXTENDS Naturals

CONSTANTS
  Generations,   \* the generations a request or a status may carry, 0: none
  MaxEpoch       \* bound on the hardware epoch

ASSUME DomainAssumption ==
  /\ 0 \in Generations
  /\ Generations \subseteq Nat
  /\ MaxEpoch \in Nat \ {0}

Epochs == 0..MaxEpoch

States == {"IDLE", "PREPARING", "READY", "STALE", "CONSUMED", "FAILED",
           "EXPIRED"}

Status == [state        : States,
           generation   : Generations,
           epoch        : Epochs,
           lease        : {0, 1},
           match        : BOOLEAN,
           last_errno   : BOOLEAN,
           worker_errno : BOOLEAN]

NoStatus == [state |-> "IDLE", generation |-> 0, epoch |-> 0, lease |-> 0,
             match |-> FALSE, last_errno |-> FALSE, worker_errno |-> FALSE]

-----------------------------------------------------------------------------

(* Max9296PrepareDisposition *)
Dispositions == {"WARM", "REFRESH_READY", "NEW_PREPARE", "FAIL"}

Retained(s) == s.match /\ s.generation # 0 /\ s.epoch # 0

(***************************************************************************)
(* max9296_prepare_classify: what a domain's status calls for.  PREPARING  *)
(* and a lease outside READY are errors of their own in the code; the      *)
(* caller handles them as it handles FAIL.                                 *)
(***************************************************************************)
Classify(s) ==
  CASE s.state = "PREPARING" -> "FAIL"
    [] s.state # "PREPARING" /\ s.lease = 1 ->
         IF s.state = "READY" /\ ~s.worker_errno /\ Retained(s)
         THEN "REFRESH_READY" ELSE "FAIL"
    [] s.lease = 0 /\ s.state = "CONSUMED" ->
         IF s.worker_errno THEN "FAIL"
         ELSE IF Retained(s) THEN "WARM" ELSE "NEW_PREPARE"
    [] s.lease = 0 /\ s.state = "READY" -> "FAIL"
    [] s.lease = 0 /\ s.state \in {"IDLE", "FAILED", "EXPIRED", "STALE"} ->
         IF s.worker_errno THEN "FAIL" ELSE "NEW_PREPARE"

(***************************************************************************)
(* validate_final_status: the status re-read after the workers joined is   *)
(* the one the disposition promised.                                       *)
(***************************************************************************)
FinalStatusValid(before, after, disposition, generation) ==
  LET warm == disposition = "WARM"
      expected == IF disposition = "NEW_PREPARE" THEN generation
                  ELSE before.generation
  IN  /\ warm \/ ~after.last_errno
      /\ after.state = (IF warm THEN "CONSUMED" ELSE "READY")
      /\ after.generation = expected
      /\ after.epoch # 0
      /\ ~after.worker_errno
      /\ after.lease = (IF warm THEN 0 ELSE 1)
      /\ after.match

-----------------------------------------------------------------------------
(* What the driver does to a status. *)

(* A complete prepare store: the lease is published, or refreshed. *)
Publish(s, generation, epoch) ==
  [state |-> "READY", generation |-> generation,
   epoch |-> IF s.lease = 1 THEN s.epoch ELSE epoch,
   lease |-> 1, match |-> TRUE, last_errno |-> FALSE, worker_errno |-> FALSE]

(* A refused store: the request's errno is kept; a cold domain that failed *)
(* half way is FAILED, an existing lease or owner is left as it was.       *)
Refusals(s) ==
  {s, [s EXCEPT !.last_errno = TRUE]} \cup
  IF s.lease = 0 /\ s.state # "CONSUMED"
  THEN {[s EXCEPT !.state = "FAILED", !.last_errno = TRUE,
                  !.match = FALSE]}
  ELSE {}

(* "0" written to the node: the unused lease is given back. *)
Release(s) ==
  IF s.lease = 1
  THEN [s EXCEPT !.state = "IDLE", !.lease = 0, !.match = FALSE]
  ELSE s

(* The 60-second unused-lease timer. *)
Expire(s) == [s EXCEPT !.state = "EXPIRED", !.lease = 0, !.match = FALSE]

(* The first V4L2 s_power(1) takes the lease over. *)
Consume(s) == [s EXCEPT !.state = "CONSUMED", !.lease = 0]

=============================================================================
