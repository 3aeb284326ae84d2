-------------------------- MODULE LeaseTransaction --------------------------
(***************************************************************************)
(* What max9296_prepare_all() promises its caller, without saying how: it  *)
(* publishes leases while it runs, stops publishing before it returns, and *)
(* what is still held when it returns is no more than the outcome allows.  *)
(* A lease may also end on its own at any time (the driver's timer).       *)
(***************************************************************************)
CONSTANT Domains

VARIABLES
  outcome,   \* "none" until the call returns
  held,      \* the domains whose lease, published by this call, is held
  failed,    \* the domains reported with an error
  stuck      \* the domains whose cancel is reported to have failed

vars == <<outcome, held, failed, stuck>>

TypeOK == /\ outcome \in {"none", "OK", "LEGACY", "PARTIAL", "FAIL"}
          /\ held \subseteq Domains
          /\ failed \subseteq Domains
          /\ stuck \subseteq Domains

Init == /\ outcome = "none"
        /\ held = {}
        /\ failed = {}
        /\ stuck = {}

Publish(d) == /\ outcome = "none"
              /\ held' = held \cup {d}
              /\ UNCHANGED <<outcome, failed, stuck>>

(* A lease is cancelled by the call, or ends by itself. *)
Release(d) == /\ held' = held \ {d}
              /\ UNCHANGED <<outcome, failed, stuck>>

Report == /\ outcome = "none"
          /\ failed' \in SUBSET Domains
          /\ UNCHANGED <<outcome, held, stuck>>

(* A cancel is reported as failed, whether or not it had an effect. *)
CancelFails(d) == /\ outcome = "none"
                  /\ stuck' = stuck \cup {d}
                  /\ held' \in {held, held \ {d}}
                  /\ UNCHANGED <<outcome, failed>>

(* The outcome, and with it the final list of failed domains. *)
Return(result, reported) ==
  /\ outcome = "none"
  /\ outcome' = result
  /\ failed' = reported
  /\ result = "FAIL" => held \subseteq stuck
  /\ result = "PARTIAL" => /\ reported # {}
                           /\ held \cap reported \subseteq stuck
  /\ result = "LEGACY" => held = {} /\ stuck = {} /\ reported = {}
  /\ result = "OK" => stuck = {} /\ reported = {}
  /\ UNCHANGED <<held, stuck>>

Next == \/ \E d \in Domains : Publish(d) \/ Release(d) \/ CancelFails(d)
        \/ Report
        \/ \E r \in {"OK", "LEGACY", "PARTIAL", "FAIL"},
              f \in SUBSET Domains : Return(r, f)

Spec == Init /\ [][Next]_vars

=============================================================================
