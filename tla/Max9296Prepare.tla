--------------------------- MODULE Max9296Prepare ---------------------------
(***************************************************************************)
(* max9296_prepare_all(): the start-up transaction that prepares every     *)
(* active CSI domain of the MAX9296 driver before the pipeline is built.   *)
(*                                                                         *)
(* The coordinator (main thread) reads and classifies every active domain, *)
(* starts one worker thread per domain that needs a store, joins them,     *)
(* re-reads and validates, and either returns success, isolates the        *)
(* domains whose store the driver refused (PARTIAL), or cancels every      *)
(* lease it published and fails.  The workers block in the driver; the     *)
(* driver's unused-lease timer and its epoch run on meanwhile.             *)
(*                                                                         *)
(* An error number is kept as "none", "ENOENT" or "error": those are the   *)
(* values the control flow tells apart.  A read's EAGAIN retries leave no  *)
(* trace and are part of the read; a store's retries are steps, because    *)
(* each of them may take effect.                                           *)
(***************************************************************************)
EXTENDS Max9296Domain

CONSTANTS
  NumCsi,            \* the number of CSI domains, 2 in the code
  InitialStatuses,   \* the statuses a domain may have when the call is made
  MaxAttempts        \* stores retry_write() tries at most, 3 in the code

ASSUME PrepareAssumption ==
  /\ NumCsi \in Nat \ {0}
  /\ InitialStatuses \subseteq Status
  /\ MaxAttempts \in Nat \ {0}

Csi == 0..(NumCsi - 1)

VARIABLES
  drv,             \* the driver's status of each domain
  hw_epoch,        \* the hardware epoch a newly published lease gets
  pc,              \* where the coordinator is
  csi,             \* its loop index
  generation,      \* report->generation: this transaction's generation
  active,          \* the domains with an enabled channel
  before,          \* domain.before
  after,           \* domain.after
  disposition,
  error,           \* domain.error
  rollback_owned,  \* domain.rollback_owned
  rollback_error,  \* domain.rollback_error # 0
  join_error,      \* a join of the current thread has failed
  write_rejected,
  global_failure,
  partial,
  wpc,             \* where each worker is
  store,           \* what its retry_write() came back with
  attempts,        \* stores tried by the current retry_write() of a domain
  result           \* what max9296_prepare_all() returned

driverVars == <<drv, hw_epoch>>
workerVars == <<wpc, store>>
reportVars == <<before, after, disposition, error, rollback_owned,
                rollback_error, write_rejected, global_failure, partial>>
inputVars == <<generation, active>>
prepareVars == <<pc, csi, join_error, attempts, result, driverVars,
                 workerVars, reportVars, inputVars>>

-----------------------------------------------------------------------------

Errors == {"none", "ENOENT", "error"}

Failed == {c \in active : error[c] # "none"}
Survivors == active \ Failed

(* The lease this transaction published for c is still held. *)
OurLease(c) == drv[c].lease = 1 /\ drv[c].generation = generation

NeedsStore(c) == c \in active /\ disposition[c] # "WARM"

(* request_generation: a refresh repeats the generation it found. *)
RequestGeneration(c) ==
  IF disposition[c] = "REFRESH_READY" THEN before[c].generation
  ELSE generation

Init ==
  /\ generation \in Generations \ {0}
  /\ active \in SUBSET Csi
  /\ drv \in [Csi -> {s \in InitialStatuses : s.generation # generation}]
  /\ hw_epoch = 1
  /\ pc = "probe"
  /\ csi = 0
  /\ before = [c \in Csi |-> NoStatus]
  /\ after = [c \in Csi |-> NoStatus]
  /\ disposition = [c \in Csi |-> "FAIL"]
  /\ error = [c \in Csi |-> "none"]
  /\ rollback_owned = [c \in Csi |-> FALSE]
  /\ rollback_error = [c \in Csi |-> FALSE]
  /\ join_error = FALSE
  /\ write_rejected = {}
  /\ global_failure = FALSE
  /\ partial = FALSE
  /\ wpc = [c \in Csi |-> "idle"]
  /\ store = [c \in Csi |-> "none"]
  /\ attempts = [c \in Csi |-> 0]
  /\ result = "none"

-----------------------------------------------------------------------------
(* The coordinator. *)

Goto(label) == pc' = label /\ csi' = 0

Return(outcome) == result' = outcome /\ pc' = "returned" /\ UNCHANGED csi

(* An inactive domain is skipped by every loop. *)
Skip(label, skipped) ==
  /\ pc = label
  /\ csi < NumCsi
  /\ skipped
  /\ csi' = csi + 1
  /\ UNCHANGED <<pc, join_error, attempts, result, driverVars, workerVars,
                 reportVars, inputVars>>

ReadBefore ==
  /\ pc = "probe"
  /\ csi \in active
  /\ csi' = csi + 1
  /\ \/ /\ before' = [before EXCEPT ![csi] = drv[csi]]
        /\ UNCHANGED error
     \/ /\ \E e \in {"ENOENT", "error"} : error' = [error EXCEPT ![csi] = e]
        /\ UNCHANGED before
  /\ UNCHANGED <<pc, join_error, attempts, result, driverVars, workerVars,
                 after, disposition, rollback_owned, rollback_error,
                 write_rejected, global_failure, partial, inputVars>>

(* Every active node is missing: the driver predates the prepare ABI. *)
ReturnLegacy ==
  /\ pc = "probe"
  /\ csi = NumCsi
  /\ active # {}
  /\ \A c \in active : error[c] = "ENOENT"
  /\ error' = [c \in Csi |-> "none"]
  /\ Return("LEGACY")
  /\ UNCHANGED <<join_error, attempts, driverVars, workerVars, before, after,
                 disposition, rollback_owned, rollback_error, write_rejected,
                 global_failure, partial, inputVars>>

ReturnProbeFailure ==
  /\ pc = "probe"
  /\ csi = NumCsi
  /\ Failed # {}
  /\ \E c \in active : error[c] # "ENOENT"
  /\ Return("FAIL")
  /\ UNCHANGED <<join_error, attempts, driverVars, workerVars, reportVars,
                 inputVars>>

ClassifyAll ==
  /\ pc = "probe"
  /\ csi = NumCsi
  /\ Failed = {}
  /\ disposition' = [c \in Csi |-> IF c \in active THEN Classify(before[c])
                                   ELSE "FAIL"]
  /\ error' = [c \in Csi |-> IF c \in active /\ Classify(before[c]) = "FAIL"
                             THEN "error" ELSE error[c]]
  /\ IF \E c \in active : Classify(before[c]) = "FAIL"
     THEN Return("FAIL")
     ELSE Goto("create") /\ UNCHANGED result
  /\ UNCHANGED <<join_error, attempts, driverVars, workerVars, before, after,
                 rollback_owned, rollback_error, write_rejected,
                 global_failure, partial, inputVars>>

CreateWorker ==
  /\ pc = "create"
  /\ csi < NumCsi
  /\ NeedsStore(csi)
  /\ wpc' = [wpc EXCEPT ![csi] = "writing"]
  /\ csi' = csi + 1
  /\ UNCHANGED <<pc, join_error, attempts, result, driverVars, store,
                 reportVars, inputVars>>

(* The domains after the one whose thread could not be made get none. *)
CreateFails ==
  /\ pc = "create"
  /\ csi < NumCsi
  /\ NeedsStore(csi)
  /\ error' = [error EXCEPT ![csi] = "error"]
  /\ global_failure' = TRUE
  /\ Goto("join")
  /\ UNCHANGED <<join_error, attempts, result, driverVars, workerVars,
                 before, after, disposition, rollback_owned, rollback_error,
                 write_rejected, partial, inputVars>>

EndOfLoop(label, next) ==
  /\ pc = label
  /\ csi = NumCsi
  /\ Goto(next)
  /\ UNCHANGED <<join_error, attempts, result, driverVars, workerVars,
                 reportVars, inputVars>>

(* A failed join says nothing about the worker: it is tried again. *)
JoinFails ==
  /\ pc = "join"
  /\ csi < NumCsi
  /\ wpc[csi] # "idle"
  /\ join_error' = TRUE
  /\ UNCHANGED <<pc, csi, attempts, result, driverVars, workerVars,
                 reportVars, inputVars>>

JoinWorker ==
  /\ pc = "join"
  /\ csi < NumCsi
  /\ wpc[csi] = "done"
  /\ csi' = csi + 1
  /\ join_error' = FALSE
  /\ error' = [error EXCEPT ![csi] =
                 IF join_error /\ @ = "none" THEN "error" ELSE @]
  /\ global_failure' = (global_failure \/ join_error)
  /\ write_rejected' = IF ~join_error /\ error[csi] # "none"
                       THEN write_rejected \cup {csi} ELSE write_rejected
  /\ UNCHANGED <<pc, attempts, result, driverVars, workerVars, before, after,
                 disposition, rollback_owned, rollback_error, partial,
                 inputVars>>

(* Every active domain is read again, the refused ones too: the read has   *)
(* to succeed, but only the others are held to what they promised.         *)
ReadAfter ==
  /\ pc = "final"
  /\ csi \in active
  /\ csi' = csi + 1
  /\ \E readable \in BOOLEAN :
       LET valid == /\ readable
                    /\ \/ csi \in write_rejected
                       \/ FinalStatusValid(before[csi], drv[csi],
                                           disposition[csi], generation)
       IN  /\ after' = IF readable THEN [after EXCEPT ![csi] = drv[csi]]
                       ELSE after
           /\ error' = IF valid \/ error[csi] # "none" THEN error
                       ELSE [error EXCEPT ![csi] = "error"]
           /\ global_failure' = (global_failure \/ ~valid)
  /\ UNCHANGED <<pc, join_error, attempts, result, driverVars, workerVars,
                 before, disposition, rollback_owned, rollback_error,
                 write_rejected, partial, inputVars>>

(* The domains the epoch comparison looks at, and those that differ from   *)
(* the first of them.                                                      *)
Compared == {c \in active \ write_rejected : after[c].epoch # 0}
(* slip: the epochs are not compared *)
NoneOutOfEpoch == {}
OutOfEpoch ==
  {c \in Compared : \E d \in Compared :
     /\ \A x \in Compared : d <= x
     /\ after[c].epoch # after[d].epoch}

Decide ==
  /\ pc = "final"
  /\ csi = NumCsi
  /\ error' = [c \in Csi |-> IF c \in OutOfEpoch /\ error[c] = "none"
                             THEN "error" ELSE error[c]]
  /\ global_failure' = (global_failure \/ OutOfEpoch # {})
  /\ IF Failed = {} /\ OutOfEpoch = {}
     THEN /\ Return("OK")
          /\ UNCHANGED partial
     ELSE /\ partial' = (/\ ~global_failure /\ OutOfEpoch = {}
                         /\ Survivors # {})
          /\ Goto("rollback")
          /\ UNCHANGED result
  /\ UNCHANGED <<join_error, attempts, driverVars, workerVars, before, after,
                 disposition, rollback_owned, rollback_error, write_rejected,
                 inputVars>>

(* slips: only the refused domains, or every active one *)
CancelledRefused(c) == rollback_owned[c] /\ c \in write_rejected
CancelledActive(c) == c \in active

(* The leases the failing transaction gives back. *)
Cancelled(c) == rollback_owned[c] /\ (partial => c \in write_rejected)

(***************************************************************************)
(* One store of "0" by retry_write(): complete; taken by the driver        *)
(* although the call then reports an error; refused; or EAGAIN, after      *)
(* which it is tried again, three times at most.                           *)
(***************************************************************************)
StoreOutcomes == {"complete", "committed", "refused", "again"}

(* slip: one attempt too many *)
CancelStoreOnceMore(c, outcome) ==
  /\ outcome = "again" => attempts[c] < MaxAttempts
  /\ attempts' = IF outcome = "again"
                 THEN [attempts EXCEPT ![c] = @ + 1] ELSE attempts
  /\ drv' = IF outcome \in {"complete", "committed"}
            THEN [drv EXCEPT ![c] = Release(@)] ELSE drv

CancelStore(c, outcome) ==
  /\ outcome = "again" => attempts[c] + 1 < MaxAttempts
  /\ attempts' = IF outcome = "again"
                 THEN [attempts EXCEPT ![c] = @ + 1] ELSE attempts
  /\ drv' = IF outcome \in {"complete", "committed"}
            THEN [drv EXCEPT ![c] = Release(@)] ELSE drv

Rollback ==
  /\ pc = "rollback"
  /\ csi < NumCsi
  /\ Cancelled(csi)
  /\ \E outcome \in StoreOutcomes :
       /\ CancelStore(csi, outcome)
       /\ csi' = IF outcome = "again" THEN csi ELSE csi + 1
       /\ rollback_error' = IF outcome \in {"committed", "refused"}
                            THEN [rollback_error EXCEPT ![csi] = TRUE]
                            ELSE rollback_error
  /\ UNCHANGED <<pc, join_error, result, hw_epoch, workerVars, before, after,
                 disposition, error, rollback_owned, write_rejected,
                 global_failure, partial, inputVars>>

ReturnFailure ==
  /\ pc = "rollback"
  /\ csi = NumCsi
  /\ Return(IF partial THEN "PARTIAL" ELSE "FAIL")
  /\ UNCHANGED <<join_error, attempts, driverVars, workerVars, reportVars,
                 inputVars>>

Inactive(c) == c \notin active
NoThread(c) == ~NeedsStore(c)
(* slips: a worker still busy is passed over; every thread is joined *)
NotFinished(c) == wpc[c] # "done"
NeverSkipped(c) == FALSE
NotCreated(c) == wpc[c] = "idle"
NotCancelled(c) == ~Cancelled(c)

CoordinatorRuns ==
  \/ Skip("probe", Inactive(csi)) \/ ReadBefore
  \/ ReturnLegacy \/ ReturnProbeFailure \/ ClassifyAll
  \/ Skip("create", NoThread(csi)) \/ CreateWorker \/ CreateFails
  \/ EndOfLoop("create", "join")
  \/ Skip("join", NotCreated(csi)) \/ JoinWorker
  \/ EndOfLoop("join", "final")
  \/ Skip("final", Inactive(csi)) \/ ReadAfter \/ Decide
  \/ Skip("rollback", NotCancelled(csi)) \/ Rollback \/ ReturnFailure

Coordinator == CoordinatorRuns \/ JoinFails

-----------------------------------------------------------------------------
(* prepare_worker_entry() of one domain. *)

(* A complete store.  Closing the descriptor may still fail afterwards:    *)
(* the lease is published, and the store is not repeated.                  *)
WorkerCommits(c) ==
  /\ wpc[c] = "writing"
  /\ drv' = [drv EXCEPT ![c] = Publish(@, RequestGeneration(c), hw_epoch)]
  /\ \E r \in {"complete", "committed"} : store' = [store EXCEPT ![c] = r]
  /\ wpc' = [wpc EXCEPT ![c] = "stored"]
  /\ UNCHANGED <<hw_epoch, pc, csi, join_error, attempts, result, reportVars,
                 inputVars>>

WorkerRefused(c) ==
  /\ wpc[c] = "writing"
  /\ \E s \in Refusals(drv[c]) : drv' = [drv EXCEPT ![c] = s]
  /\ store' = [store EXCEPT ![c] = "refused"]
  /\ wpc' = [wpc EXCEPT ![c] = "stored"]
  /\ UNCHANGED <<hw_epoch, pc, csi, join_error, attempts, result, reportVars,
                 inputVars>>

(* slip: a store the driver took is retried when closing the node failed *)
WorkerRetriesCommitted(c) ==
  /\ wpc[c] = "stored" /\ store[c] = "committed"
  /\ attempts[c] + 1 < MaxAttempts
  /\ attempts' = [attempts EXCEPT ![c] = @ + 1]
  /\ wpc' = [wpc EXCEPT ![c] = "writing"]
  /\ UNCHANGED <<driverVars, store, pc, csi, join_error, result, reportVars,
                 inputVars>>

(* EAGAIN before anything was stored. *)
WorkerRetries(c) ==
  /\ wpc[c] = "writing"
  /\ attempts[c] + 1 < MaxAttempts
  /\ attempts' = [attempts EXCEPT ![c] = @ + 1]
  /\ UNCHANGED <<driverVars, pc, csi, join_error, result, workerVars,
                 reportVars, inputVars>>

(* The store's outcome reaches the report, which the coordinator reads     *)
(* once it has joined this thread.                                         *)
WorkerReports(c) ==
  /\ wpc[c] = "stored"
  /\ wpc' = [wpc EXCEPT ![c] = "done"]
  /\ attempts' = [attempts EXCEPT ![c] = 0]
  /\ rollback_owned' = [rollback_owned EXCEPT ![c] =
                          /\ disposition[c] # "REFRESH_READY"
                          /\ store[c] \in {"complete", "committed"}]
  /\ error' = [error EXCEPT ![c] =
                 IF store[c] = "complete" THEN @ ELSE "error"]
  /\ UNCHANGED <<driverVars, pc, csi, join_error, result, store, before,
                 after, disposition, rollback_error, write_rejected,
                 global_failure, partial, inputVars>>

Worker(c) ==
  WorkerCommits(c) \/ WorkerRefused(c) \/ WorkerRetries(c) \/ WorkerReports(c)

-----------------------------------------------------------------------------
(* The driver on its own. *)

LeaseExpires(c) ==
  /\ drv[c].lease = 1
  /\ drv' = [drv EXCEPT ![c] = Expire(@)]
  /\ UNCHANGED <<hw_epoch, pc, csi, join_error, attempts, result, workerVars,
                 reportVars, inputVars>>

(* A power cycle of the deserializer; MaxEpoch bounds how many. *)
EpochAdvances ==
  /\ hw_epoch < MaxEpoch
  /\ hw_epoch' = hw_epoch + 1
  /\ UNCHANGED <<drv, pc, csi, join_error, attempts, result, workerVars,
                 reportVars, inputVars>>

Driver == EpochAdvances \/ \E c \in Csi : LeaseExpires(c)

Next == Coordinator \/ (\E c \in Csi : Worker(c)) \/ Driver

(***************************************************************************)
(* The coordinator's thread runs; a worker's store blocks in the driver,   *)
(* which always answers in the end; and a join that keeps failing finds    *)
(* the finished worker sooner or later.                                    *)
(***************************************************************************)
Fairness ==
  /\ WF_prepareVars(CoordinatorRuns)
  /\ \A c \in Csi : WF_prepareVars(WorkerCommits(c) \/ WorkerRefused(c)
                                   \/ WorkerReports(c))

Spec == Init /\ [][Next]_prepareVars /\ Fairness

-----------------------------------------------------------------------------
(* Types *)

TypeOK ==
  /\ drv \in [Csi -> Status]
  /\ hw_epoch \in 1..MaxEpoch
  /\ pc \in {"probe", "create", "join", "final", "rollback", "returned"}
  /\ csi \in 0..NumCsi
  /\ generation \in Generations \ {0}
  /\ active \in SUBSET Csi
  /\ before \in [Csi -> Status]
  /\ after \in [Csi -> Status]
  /\ disposition \in [Csi -> Dispositions]
  /\ error \in [Csi -> Errors]
  /\ rollback_owned \in [Csi -> BOOLEAN]
  /\ rollback_error \in [Csi -> BOOLEAN]
  /\ join_error \in BOOLEAN
  /\ write_rejected \in SUBSET Csi
  /\ global_failure \in BOOLEAN
  /\ partial \in BOOLEAN
  /\ wpc \in [Csi -> {"idle", "writing", "stored", "done"}]
  /\ store \in [Csi -> {"none", "complete", "committed", "refused"}]
  /\ attempts \in [Csi -> 0..(MaxAttempts - 1)]
  /\ result \in {"none", "OK", "LEGACY", "PARTIAL", "FAIL"}

-----------------------------------------------------------------------------
(* Safety *)

(***************************************************************************)
(* "Worker create/join or any other failure cancels the new leases, then   *)
(* fails": when the call has failed, no lease it published is held, except *)
(* where the cancel itself failed and the report says so.  It relates the  *)
(* driver's lease, published by a worker thread, to what the coordinator   *)
(* knew when it rolled back.                                               *)
(***************************************************************************)
FailureHoldsNoLease ==
  result = "FAIL" => \A c \in Csi : OurLease(c) => rollback_error[c]

(***************************************************************************)
(* MAX9296_PREPARE_PARTIAL: some, not all, active domains failed, a failed *)
(* one holds no lease of this transaction unless its cancel failed, and    *)
(* every other one was prepared and not cancelled.                         *)
(***************************************************************************)
PartialIsolatesRejected ==
  result = "PARTIAL" =>
    /\ Failed # {} /\ Survivors # {}
    /\ \A c \in Failed : OurLease(c) => rollback_error[c]
    /\ \A c \in Survivors : /\ after[c].match
                             /\ drv[c].state # "IDLE"

(***************************************************************************)
(* The domains a start-up goes on with were prepared against one hardware  *)
(* epoch: a deserializer power cycle between two stores is noticed.        *)
(***************************************************************************)
SurvivorsShareEpoch ==
  result \in {"OK", "PARTIAL"} =>
    \A c, d \in Survivors :
      after[c].epoch # 0 /\ after[c].epoch = after[d].epoch

(***************************************************************************)
(* Quiescence: once the coordinator reads a final status, rolls back or    *)
(* has returned, no worker thread is left that could still store.          *)
(***************************************************************************)
QuiescentAfterJoin ==
  pc \in {"final", "rollback", "returned"} =>
    \A c \in Csi : wpc[c] \in {"idle", "done"}

(***************************************************************************)
(* Nothing is written before every active domain has been read and found   *)
(* eligible: one unreadable or unsafe domain keeps all of them untouched.  *)
(***************************************************************************)
NoStoreUnlessAllEligible ==
  (\E c \in Csi : wpc[c] # "idle") =>
    \A c \in active : disposition[c] # "FAIL" /\ error[c] # "ENOENT"

(* What the transaction leaves behind is what its result says: the three   *)
(* statements above, of a partial preparation, of the epoch and of a start *)
(* that is not safe (704-855).                                             *)
HonestOutcome ==
  PartialIsolatesRejected /\ SurvivorsShareEpoch /\ NoStoreUnlessAllEligible

(***************************************************************************)
(* A store the driver took is never repeated, even when closing the node   *)
(* failed with EAGAIN afterwards: while this transaction's lease is held,  *)
(* no worker is about to store to that domain.                             *)
(***************************************************************************)
NeverStoresTwice ==
  \A c \in Csi : OurLease(c) => wpc[c] # "writing"

-----------------------------------------------------------------------------
(* Action properties *)

(***************************************************************************)
(* A lease that predates the transaction (refreshed or warm) is never      *)
(* given back by it: only the driver's own timer may end it.               *)
(***************************************************************************)
CancelsOnlyOwnLease ==
  [][\A c \in Csi : /\ drv[c].lease = 1
                    /\ drv'[c].lease = 0
                    /\ drv'[c].state = "IDLE"
                    => OurLease(c)]_drv

-----------------------------------------------------------------------------
(* Refinement *)

Promise == INSTANCE LeaseTransaction WITH
  Domains <- Csi,
  outcome <- result,
  held    <- {c \in Csi : OurLease(c)},
  failed  <- Failed,
  stuck   <- {c \in Csi : rollback_error[c]}

(***************************************************************************)
(* The transaction, with its threads and its driver, does no more than the *)
(* lease transaction its caller relies on.                                 *)
(***************************************************************************)
KeepsPromise == Promise!Spec

-----------------------------------------------------------------------------
(* Liveness *)

(* The call returns, whatever the workers' stores and the joins come to.   *)
EventuallyReturns == <>(result # "none")

=============================================================================
