-------------------------- MODULE MCMax9296Prepare --------------------------
(***************************************************************************)
(* Two CSI domains.  Generation 1 is an earlier start's, 2 this one's.     *)
(***************************************************************************)
EXTENDS Max9296Prepare

MCGenerations == 0..2

Earlier(state, lease, match, worker_errno) ==
  [state |-> state, generation |-> 1, epoch |-> 1, lease |-> lease,
   match |-> match, last_errno |-> FALSE, worker_errno |-> worker_errno]

(* one status for each disposition, and one that rules a start out *)
MCFewStatuses ==
  { NoStatus, Earlier("READY", 1, TRUE, FALSE),
    Earlier("CONSUMED", 0, TRUE, FALSE),
    Earlier("PREPARING", 0, FALSE, FALSE) }

=============================================================================
