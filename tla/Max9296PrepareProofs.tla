----------------------- MODULE Max9296PrepareProofs -----------------------
(***************************************************************************)
(* Type correctness of the prepare transaction and its main promises, for  *)
(* every number of domains, every initial status and every bound on        *)
(* retries: a call that fails leaves none of its leases behind, the report *)
(* it returns is true, and the whole transaction implements the lease      *)
(* transaction its caller relies on.                                       *)
(***************************************************************************)
EXTENDS Max9296Prepare, WellFoundedInduction, TLAPS

-----------------------------------------------------------------------------
(* The status operators stay within Status. *)

LEMMA NoStatusType == NoStatus \in Status
BY DomainAssumption DEF NoStatus, Status, States, Epochs

LEMMA ClassifyType ==
  ASSUME NEW s \in Status
  PROVE  Classify(s) \in Dispositions
BY DEF Classify, Status, States, Dispositions

LEMMA PublishType ==
  ASSUME NEW s \in Status, NEW g \in Generations, NEW e \in 1..MaxEpoch
  PROVE  /\ Publish(s, g, e) \in Status
         /\ Publish(s, g, e).generation = g
         /\ Publish(s, g, e).lease = 1
BY DomainAssumption DEF Publish, Status, States, Epochs

LEMMA RefusalsType ==
  ASSUME NEW s \in Status, NEW t \in Refusals(s)
  PROVE  /\ t \in Status
         /\ t.generation = s.generation
         /\ t.lease = s.lease
BY DEF Refusals, Status, States

LEMMA ReleaseType ==
  ASSUME NEW s \in Status
  PROVE  /\ Release(s) \in Status
         /\ Release(s).generation = s.generation
         /\ Release(s).lease = 0
BY DEF Release, Status, States

LEMMA ExpireType ==
  ASSUME NEW s \in Status
  PROVE  /\ Expire(s) \in Status
         /\ Expire(s).generation = s.generation
         /\ Expire(s).lease = 0
BY DEF Expire, Status, States

-----------------------------------------------------------------------------
(* Type correctness. *)

LEMMA InitTypeOK == Init => TypeOK
<1> SUFFICES ASSUME Init PROVE TypeOK
    OBVIOUS
<1> USE PrepareAssumption, DomainAssumption DEF Init, Csi
<1>1. drv \in [Csi -> Status] /\ hw_epoch \in 1..MaxEpoch
      OBVIOUS
<1>2. before \in [Csi -> Status] /\ after \in [Csi -> Status]
      BY NoStatusType
<1>3. /\ disposition \in [Csi -> Dispositions]
      /\ error \in [Csi -> Errors]
      BY DEF Dispositions, Errors
<1>4. /\ rollback_owned \in [Csi -> BOOLEAN]
      /\ rollback_error \in [Csi -> BOOLEAN]
      OBVIOUS
<1>5. /\ csi \in 0..NumCsi
      /\ attempts \in [Csi -> 0..(MaxAttempts - 1)]
      OBVIOUS
<1>6. /\ wpc \in [Csi -> {"idle", "writing", "stored", "done"}]
      /\ store \in [Csi -> {"none", "complete", "committed", "refused"}]
      OBVIOUS
<1> QED BY <1>1, <1>2, <1>3, <1>4, <1>5, <1>6 DEF TypeOK

(* The coordinator's steps, the driver's left alone by most of them. *)
LEMMA CoordinatorTypeOK == TypeOK /\ Coordinator => TypeOK'
<1> SUFFICES ASSUME TypeOK, Coordinator PROVE TypeOK'
    OBVIOUS
<1> USE PrepareAssumption, DomainAssumption
        DEF TypeOK, Csi, driverVars, workerVars, reportVars, inputVars
<1>1. ASSUME NEW label, NEW skipped, Skip(label, skipped) PROVE TypeOK'
      BY <1>1 DEF Skip
<1>2. ASSUME NEW label,
             NEW next \in {"join", "final"},
             EndOfLoop(label, next)
      PROVE  TypeOK'
      BY <1>2 DEF EndOfLoop, Goto
<1>3. CASE ReadBefore
      BY <1>3 DEF ReadBefore, Errors
<1>4. CASE ReturnLegacy \/ ReturnProbeFailure
      BY <1>4 DEF ReturnLegacy, ReturnProbeFailure, Return, Errors
<1>5. CASE ClassifyAll
  <2>1. disposition' \in [Csi -> Dispositions]
        BY <1>5, ClassifyType DEF ClassifyAll, Dispositions
  <2>2. error' \in [Csi -> Errors]
        BY <1>5 DEF ClassifyAll, Errors
  <2>3. pc' \in {"create", "returned"} /\ csi' \in 0..NumCsi
        /\ result' \in {"none", "OK", "LEGACY", "PARTIAL", "FAIL"}
        BY <1>5 DEF ClassifyAll, Goto, Return
  <2> QED BY <1>5, <2>1, <2>2, <2>3 DEF ClassifyAll
<1>6. CASE CreateWorker \/ CreateFails
  <2>1. CASE CreateWorker
        BY <2>1 DEF CreateWorker
  <2>2. CASE CreateFails
        BY <2>2 DEF CreateFails, Goto, Errors
  <2> QED BY <1>6, <2>1, <2>2
<1>7. CASE JoinFails \/ JoinWorker
  <2>1. CASE JoinFails
        BY <2>1 DEF JoinFails
  <2>2. CASE JoinWorker
    <3>1. error' \in [Csi -> Errors]
          BY <2>2 DEF JoinWorker, Errors
    <3>2. global_failure' \in BOOLEAN /\ write_rejected' \in SUBSET Csi
          BY <2>2 DEF JoinWorker
    <3>3. csi < NumCsi /\ csi' = csi + 1 /\ join_error' = FALSE
          BY <2>2 DEF JoinWorker
    <3>4. UNCHANGED <<pc, attempts, result, drv, hw_epoch, wpc, store, before,
                      after, disposition, rollback_owned, rollback_error,
                      partial, generation, active>>
          BY <2>2 DEF JoinWorker
    <3>5. csi' \in 0..NumCsi
          BY <3>3
    <3>6. join_error' \in BOOLEAN
          BY <3>3
    <3> QED BY <3>1, <3>2, <3>4, <3>5, <3>6, SMTT(30)
  <2> QED BY <1>7, <2>1, <2>2
<1>8. CASE ReadAfter
      BY <1>8 DEF ReadAfter, Errors
<1>9. CASE Decide
  <2>1. error' \in [Csi -> Errors]
        BY <1>9 DEF Decide, Errors
  <2>2. global_failure' \in BOOLEAN /\ partial' \in BOOLEAN
        BY <1>9 DEF Decide
  <2>3. \/ Return("OK")
        \/ Goto("rollback") /\ UNCHANGED result
        BY <1>9 DEF Decide
  <2>4. pc' \in {"rollback", "returned"} /\ csi' \in 0..NumCsi
        /\ result' \in {"none", "OK", "LEGACY", "PARTIAL", "FAIL"}
        BY <2>3 DEF Goto, Return
  <2> QED BY <1>9, <2>1, <2>2, <2>4 DEF Decide
<1>10. CASE Rollback
  <2>1. drv' \in [Csi -> Status]
        BY <1>10, ReleaseType DEF Rollback, CancelStore
  <2>2. attempts' \in [Csi -> 0..(MaxAttempts - 1)]
        BY <1>10 DEF Rollback, CancelStore
  <2> QED BY <1>10, <2>1, <2>2, SMTT(30) DEF Rollback
<1>11. CASE ReturnFailure
       BY <1>11 DEF ReturnFailure, Return
<1> QED
  BY <1>1, <1>2, <1>3, <1>4, <1>5, <1>6, <1>7, <1>8, <1>9, <1>10, <1>11
     DEF Coordinator, CoordinatorRuns

LEMMA WorkerTypeOK ==
  ASSUME TypeOK, NEW c \in Csi, Worker(c)
  PROVE  TypeOK'
<1> USE PrepareAssumption, DomainAssumption
        DEF TypeOK, Csi, driverVars, workerVars, reportVars, inputVars
<1>1. CASE WorkerCommits(c)
  <2>1. RequestGeneration(c) \in Generations
        BY DEF RequestGeneration, Status
  <2>2. drv' \in [Csi -> Status]
        BY <1>1, <2>1, PublishType DEF WorkerCommits
  <2> QED BY <1>1, <2>2 DEF WorkerCommits
<1>2. CASE WorkerRefused(c)
  <2>1. drv' \in [Csi -> Status]
        BY <1>2, RefusalsType DEF WorkerRefused
  <2> QED BY <1>2, <2>1 DEF WorkerRefused
<1>3. CASE WorkerRetries(c)
      BY <1>3 DEF WorkerRetries
<1>4. CASE WorkerReports(c)
  <2>1. rollback_owned' \in [Csi -> BOOLEAN]
        BY <1>4 DEF WorkerReports
  <2>2. error' \in [Csi -> Errors]
        BY <1>4 DEF WorkerReports, Errors
  <2> QED BY <1>4, <2>1, <2>2 DEF WorkerReports
<1> QED BY <1>1, <1>2, <1>3, <1>4 DEF Worker

LEMMA DriverTypeOK == TypeOK /\ Driver => TypeOK'
<1> SUFFICES ASSUME TypeOK, Driver PROVE TypeOK'
    OBVIOUS
<1> USE PrepareAssumption, DomainAssumption
        DEF TypeOK, Csi, driverVars, workerVars, reportVars, inputVars
<1>1. ASSUME NEW c \in Csi, LeaseExpires(c) PROVE TypeOK'
  <2>1. drv' \in [Csi -> Status]
        BY <1>1, ExpireType DEF LeaseExpires
  <2> QED BY <1>1, <2>1 DEF LeaseExpires
<1>2. CASE EpochAdvances
      BY <1>2 DEF EpochAdvances
<1> QED BY <1>1, <1>2 DEF Driver

LEMMA NextTypeOK == TypeOK /\ [Next]_prepareVars => TypeOK'
<1> SUFFICES ASSUME TypeOK, [Next]_prepareVars PROVE TypeOK'
    OBVIOUS
<1>1. CASE Next
      BY <1>1, CoordinatorTypeOK, WorkerTypeOK, DriverTypeOK DEF Next
<1>2. CASE UNCHANGED prepareVars
      BY <1>2 DEF TypeOK, prepareVars, driverVars, workerVars, reportVars,
                  inputVars
<1> QED BY <1>1, <1>2

(***************************************************************************)
(* Every variable keeps its type: in particular the loop index stays       *)
(* within the domains and no store is tried more than MaxAttempts times.   *)
(***************************************************************************)
THEOREM TypeCorrect == Spec => []TypeOK
BY InitTypeOK, NextTypeOK, PTL DEF Spec

-----------------------------------------------------------------------------
(***************************************************************************)
(* The inductive invariant.  FailureHoldsNoLease is about the state the    *)
(* call returns in; what makes it true is who may hold a lease before:     *)
(* a lease carries this transaction's generation only once its worker's    *)
(* store was taken, the worker then marks it for rollback, every worker    *)
(* has reported before the coordinator rolls back, and the rollback has    *)
(* treated the domains below its index.                                    *)
(***************************************************************************)
NoWorkerYet ==
  /\ pc = "probe" => \A c \in Csi : wpc[c] = "idle"
  /\ pc = "create" => \A c \in Csi : csi <= c => wpc[c] = "idle"

GenerationIsFresh ==
  \A c \in Csi :
    /\ before[c].generation # generation
    /\ wpc[c] \in {"idle", "writing"} => drv[c].generation # generation

Stored(c) == /\ store[c] \in {"complete", "committed"}
             /\ disposition[c] # "REFRESH_READY"

OurLeaseIsMarked ==
  \A c \in Csi : OurLease(c) =>
    \/ wpc[c] = "stored" /\ Stored(c)
    \/ wpc[c] = "done" /\ rollback_owned[c]

MarkedIsOurs ==
  \A c \in Csi :
    /\ wpc[c] = "stored" /\ Stored(c) => drv[c].generation = generation
    /\ rollback_owned[c] => /\ wpc[c] = "done"
                            /\ drv[c].generation = generation

Joined ==
  /\ pc \in {"final", "rollback", "returned"} =>
       \A c \in Csi : wpc[c] \in {"idle", "done"}
  /\ pc = "join" =>
       \A c \in Csi : c < csi => wpc[c] \in {"idle", "done"}

RolledBack ==
  pc = "rollback" =>
    \A c \in Csi : c < csi /\ OurLease(c) /\ Cancelled(c)
                     => rollback_error[c]

ResultIsLast == result = "none" <=> pc # "returned"

LeaseInv ==
  /\ NoWorkerYet /\ GenerationIsFresh /\ OurLeaseIsMarked
  /\ MarkedIsOurs /\ Joined /\ RolledBack /\ ResultIsLast
  /\ FailureHoldsNoLease

(* Who holds a lease does not change in a step that leaves the driver, the *)
(* workers and their part of the report alone.                             *)
LEMMA MarksUnchanged ==
  ASSUME LeaseInv,
         UNCHANGED <<drv, generation, before, disposition, rollback_owned,
                     wpc, store>>
  PROVE  GenerationIsFresh' /\ OurLeaseIsMarked' /\ MarkedIsOurs'
<1> USE DEF LeaseInv, OurLease, Stored
<1>1. GenerationIsFresh' BY DEF GenerationIsFresh
<1>2. OurLeaseIsMarked' BY DEF OurLeaseIsMarked
<1>3. MarkedIsOurs' BY DEF MarkedIsOurs
<1> QED BY <1>1, <1>2, <1>3

(* Nothing was published before the workers exist. *)
LEMMA NoLeaseInProbe ==
  ASSUME TypeOK, LeaseInv, pc = "probe"
  PROVE  \A c \in Csi : ~OurLease(c)
BY DEF LeaseInv, NoWorkerYet, GenerationIsFresh, OurLease

LEMMA InitLeaseInv == Init => LeaseInv
<1> SUFFICES ASSUME Init PROVE LeaseInv
    OBVIOUS
<1> USE PrepareAssumption, DomainAssumption DEF Init
<1>1. NoWorkerYet /\ ResultIsLast /\ Joined /\ RolledBack
      BY DEF NoWorkerYet, ResultIsLast, Joined, RolledBack
<1>2. GenerationIsFresh
  <2>1. NoStatus.generation # generation
        BY DEF NoStatus
  <2> QED BY <2>1 DEF GenerationIsFresh
<1>3. OurLeaseIsMarked
      BY <1>2 DEF GenerationIsFresh, OurLeaseIsMarked, OurLease
<1>4. MarkedIsOurs
      BY DEF MarkedIsOurs
<1>5. FailureHoldsNoLease
      BY DEF FailureHoldsNoLease
<1> QED BY <1>1, <1>2, <1>3, <1>4, <1>5 DEF LeaseInv

(* The coordinator up to the workers' start. *)
LEMMA ProbeLeaseInv ==
  ASSUME TypeOK, LeaseInv,
         \/ Skip("probe", Inactive(csi)) \/ ReadBefore
         \/ ReturnLegacy \/ ReturnProbeFailure \/ ClassifyAll
  PROVE  LeaseInv'
<1> USE PrepareAssumption
        DEF TypeOK, driverVars, workerVars, reportVars, inputVars
<1>1. /\ pc = "probe" /\ pc' \in {"probe", "create", "returned"}
      /\ UNCHANGED <<drv, generation, rollback_owned, rollback_error, wpc,
                     store>>
      BY DEF Skip, ReadBefore, ReturnLegacy, ReturnProbeFailure, ClassifyAll,
             Return, Goto
<1>2. \A c \in Csi : wpc[c] = "idle" /\ ~rollback_owned[c] /\ ~OurLease(c)
      BY <1>1, NoLeaseInProbe DEF LeaseInv, NoWorkerYet, MarkedIsOurs
<1>3. \A c \in Csi : before'[c].generation # generation
  <2>1. CASE ReadBefore
        BY <1>1, <1>2, <2>1, PrepareAssumption
           DEF ReadBefore, LeaseInv, GenerationIsFresh, Csi
  <2>2. CASE UNCHANGED before
        BY <2>2 DEF LeaseInv, GenerationIsFresh
  <2> QED BY <2>1, <2>2
          DEF Skip, ReturnLegacy, ReturnProbeFailure, ClassifyAll
<1>4. NoWorkerYet' /\ GenerationIsFresh' /\ Joined'
      BY <1>1, <1>2, <1>3
         DEF LeaseInv, NoWorkerYet, GenerationIsFresh, Joined
<1>5. \A c \in Csi : ~OurLease(c)'
      BY <1>1, <1>2 DEF OurLease
<1>6. OurLeaseIsMarked' /\ FailureHoldsNoLease' /\ RolledBack'
      BY <1>5 DEF OurLeaseIsMarked, FailureHoldsNoLease, RolledBack
<1>7. MarkedIsOurs'
      BY <1>1, <1>2 DEF MarkedIsOurs
<1>8. ResultIsLast'
      BY DEF LeaseInv, ResultIsLast, Skip, ReadBefore, ReturnLegacy,
             ReturnProbeFailure, ClassifyAll, Return, Goto
<1> QED BY <1>4, <1>6, <1>7, <1>8 DEF LeaseInv

(* Starting the workers and joining them. *)
LEMMA CreateLeaseInv ==
  ASSUME TypeOK, LeaseInv,
         \/ Skip("create", NoThread(csi)) \/ CreateWorker \/ CreateFails
         \/ EndOfLoop("create", "join")
  PROVE  LeaseInv'
<1> USE PrepareAssumption
        DEF TypeOK, driverVars, workerVars, reportVars, inputVars
<1>1. /\ pc = "create" /\ pc' \in {"create", "join"}
      /\ pc' = "join" => csi' = 0
      /\ UNCHANGED <<drv, generation, before, disposition, rollback_owned,
                     rollback_error, store, result>>
      BY DEF Skip, CreateWorker, CreateFails, EndOfLoop, Goto
<1>2. NoWorkerYet' /\ RolledBack'
  <2>1. ASSUME NEW c \in Csi, pc' = "create", csi' <= c PROVE wpc'[c] = "idle"
        BY <1>1, <2>1
           DEF LeaseInv, NoWorkerYet, Csi, Skip, CreateWorker, CreateFails,
               EndOfLoop, Goto
  <2> QED BY <1>1, <2>1 DEF NoWorkerYet, RolledBack
<1>3. ResultIsLast' /\ result' = "none"
      BY <1>1 DEF LeaseInv, ResultIsLast
<1>4. Joined'
      BY <1>1 DEF Joined, Csi
<1>5. FailureHoldsNoLease'
      BY <1>3 DEF FailureHoldsNoLease
<1>6. GenerationIsFresh' /\ OurLeaseIsMarked' /\ MarkedIsOurs'
  <2>1. CASE UNCHANGED wpc
        BY <1>1, <2>1, MarksUnchanged
  <2>2. CASE CreateWorker
    <3>1. csi \in Csi /\ wpc[csi] = "idle"
          BY <2>2 DEF CreateWorker, LeaseInv, NoWorkerYet, Csi
    <3>2. wpc \in [Csi -> {"idle", "writing", "stored", "done"}]
          OBVIOUS
    <3>3. ASSUME NEW c \in Csi
          PROVE  \/ wpc'[c] = wpc[c]
                 \/ wpc[c] = "idle" /\ wpc'[c] = "writing"
      <4>1. wpc' = [wpc EXCEPT ![csi] = "writing"]
            BY <2>2 DEF CreateWorker
      <4>2. wpc'[c] = IF c = csi THEN "writing" ELSE wpc[c]
            BY <3>2, <4>1
      <4> QED BY <3>1, <4>2
    <3>4. GenerationIsFresh'
          BY <1>1, <3>3 DEF LeaseInv, GenerationIsFresh
    <3>5. OurLeaseIsMarked'
          BY <1>1, <3>3 DEF LeaseInv, OurLeaseIsMarked, OurLease, Stored
    <3>6. MarkedIsOurs'
          BY <1>1, <3>3 DEF LeaseInv, MarkedIsOurs, Stored
    <3> QED BY <3>4, <3>5, <3>6
  <2> QED BY <2>1, <2>2 DEF Skip, CreateFails, EndOfLoop
<1> QED BY <1>2, <1>3, <1>4, <1>5, <1>6 DEF LeaseInv

(* Joining the workers and reading the final statuses. *)
LEMMA JoinLeaseInv ==
  ASSUME TypeOK, LeaseInv,
         \/ Skip("join", NotCreated(csi)) \/ JoinFails \/ JoinWorker
         \/ EndOfLoop("join", "final")
         \/ Skip("final", Inactive(csi)) \/ ReadAfter \/ Decide
  PROVE  LeaseInv'
<1> USE PrepareAssumption
        DEF TypeOK, driverVars, workerVars, reportVars, inputVars
<1>1. /\ pc \in {"join", "final"}
      /\ pc' \in {"join", "final", "rollback", "returned"}
      /\ pc' = "rollback" => csi' = 0
      /\ UNCHANGED <<drv, generation, before, disposition, rollback_owned,
                     rollback_error, wpc, store>>
      BY DEF Skip, JoinFails, JoinWorker, EndOfLoop, ReadAfter, Decide, Goto,
             Return
<1>2. NoWorkerYet' /\ RolledBack'
      BY <1>1 DEF NoWorkerYet, RolledBack, Csi
<1>3. GenerationIsFresh' /\ OurLeaseIsMarked' /\ MarkedIsOurs'
      BY <1>1, MarksUnchanged
<1>4. /\ ResultIsLast'
      /\ result' \in {"none", "OK"}
      BY <1>1 DEF LeaseInv, ResultIsLast, Skip, JoinFails, JoinWorker,
                  EndOfLoop, ReadAfter, Decide, Goto, Return
<1>5. FailureHoldsNoLease'
      BY <1>4 DEF FailureHoldsNoLease
<1>6. Joined'
  <2>1. CASE Skip("join", NotCreated(csi)) \/ JoinFails \/ JoinWorker
    <3>1. ASSUME NEW c \in Csi, c < csi'
          PROVE  wpc'[c] \in {"idle", "done"}
          BY <2>1, <3>1 DEF LeaseInv, Joined, Skip, JoinFails, JoinWorker,
                            NotCreated, Csi
    <3>2. pc' = "join"
          BY <2>1 DEF Skip, JoinFails, JoinWorker
    <3> QED BY <3>1, <3>2 DEF Joined
  <2>2. CASE EndOfLoop("join", "final")
        BY <2>2 DEF LeaseInv, Joined, EndOfLoop, Goto, Csi
  <2>3. CASE pc = "final" /\ pc' # "join"
        BY <1>1, <2>3 DEF LeaseInv, Joined
  <2> QED BY <2>1, <2>2, <2>3 DEF Skip, ReadAfter, Decide, Goto, Return
<1> QED BY <1>2, <1>3, <1>4, <1>5, <1>6 DEF LeaseInv

(* Giving the leases back. *)
LEMMA RollbackLeaseInv ==
  ASSUME TypeOK, LeaseInv,
         Skip("rollback", NotCancelled(csi)) \/ Rollback \/ ReturnFailure
  PROVE  LeaseInv'
<1> USE PrepareAssumption
        DEF TypeOK, driverVars, workerVars, reportVars, inputVars
<1>1. /\ pc = "rollback" /\ pc' \in {"rollback", "returned"}
      /\ UNCHANGED <<generation, before, disposition, rollback_owned, wpc,
                     store, partial, write_rejected>>
      BY DEF Skip, Rollback, ReturnFailure, Return
<1>2. /\ \A c \in Csi : drv'[c].generation = drv[c].generation
      /\ \A c \in Csi : OurLease(c)' => OurLease(c)
  <2>1. CASE UNCHANGED drv
        BY <1>1, <2>1 DEF OurLease
  <2>2. CASE Rollback
    <3>1. \A c \in Csi : drv'[c] = drv[c] \/ drv'[c] = Release(drv[c])
          BY <2>2 DEF Rollback, CancelStore
    <3> QED BY <1>1, <3>1, ReleaseType DEF OurLease
  <2> QED BY <2>1, <2>2 DEF Skip, ReturnFailure
<1>3. NoWorkerYet' /\ Joined'
      BY <1>1 DEF LeaseInv, NoWorkerYet, Joined
<1>4. GenerationIsFresh'
      BY <1>1, <1>2 DEF LeaseInv, GenerationIsFresh
<1>5. OurLeaseIsMarked'
      BY <1>1, <1>2 DEF LeaseInv, OurLeaseIsMarked, Stored
<1>6. MarkedIsOurs'
      BY <1>1, <1>2 DEF LeaseInv, MarkedIsOurs, Stored
<1>7. ResultIsLast'
      BY DEF LeaseInv, ResultIsLast, Skip, Rollback, ReturnFailure, Return
<1>8. ASSUME NEW c \in Csi, rollback_error[c] PROVE rollback_error'[c]
      BY <1>8 DEF Skip, Rollback, ReturnFailure
<1>9. CASE Skip("rollback", NotCancelled(csi))
  <2>1. ASSUME NEW c \in Csi, c < csi', OurLease(c)', Cancelled(c)'
        PROVE  rollback_error'[c]
    <3>1. OurLease(c) /\ Cancelled(c)
          BY <1>1, <1>2, <2>1 DEF Cancelled
    <3>2. c < csi
          BY <1>9, <2>1, <3>1 DEF Skip, NotCancelled, Csi
    <3> QED BY <1>1, <1>8, <3>1, <3>2 DEF LeaseInv, RolledBack
  <2>2. RolledBack'
        BY <2>1 DEF RolledBack
  <2>3. FailureHoldsNoLease'
        BY <1>1, <1>9 DEF LeaseInv, ResultIsLast, FailureHoldsNoLease, Skip
  <2> QED BY <1>3, <1>4, <1>5, <1>6, <1>7, <2>2, <2>3 DEF LeaseInv
<1>10. CASE Rollback
  <2>1. ASSUME NEW c \in Csi, c < csi', OurLease(c)', Cancelled(c)'
        PROVE  rollback_error'[c]
    <3>1. OurLease(c) /\ Cancelled(c)
          BY <1>1, <1>2, <2>1 DEF Cancelled
    <3>2. CASE c < csi
          BY <1>1, <1>8, <3>1, <3>2 DEF LeaseInv, RolledBack
    <3>3. CASE c = csi
      <4>1. PICK outcome \in StoreOutcomes :
              /\ CancelStore(csi, outcome)
              /\ csi' = IF outcome = "again" THEN csi ELSE csi + 1
              /\ rollback_error' = IF outcome \in {"committed", "refused"}
                                   THEN [rollback_error EXCEPT ![csi] = TRUE]
                                   ELSE rollback_error
            BY <1>10 DEF Rollback
      <4>2. outcome # "again"
            BY <2>1, <3>3, <4>1 DEF Csi
      <4>3. outcome # "complete"
        <5>1. SUFFICES ASSUME outcome = "complete" PROVE ~OurLease(c)'
              BY <2>1
        <5>2. drv'[c] = Release(drv[c])
              BY <3>3, <4>1, <5>1 DEF CancelStore
        <5> QED BY <5>2, ReleaseType DEF OurLease
      <4> QED BY <3>3, <4>1, <4>2, <4>3 DEF StoreOutcomes
    <3> QED BY <1>10, <2>1, <3>2, <3>3 DEF Rollback, Csi
  <2>2. RolledBack'
        BY <2>1 DEF RolledBack
  <2>3. FailureHoldsNoLease'
        BY <1>1, <1>10 DEF LeaseInv, ResultIsLast, FailureHoldsNoLease,
                           Rollback
  <2> QED BY <1>3, <1>4, <1>5, <1>6, <1>7, <2>2, <2>3 DEF LeaseInv
<1>11. CASE ReturnFailure
  <2>1. RolledBack'
        BY <1>11 DEF ReturnFailure, Return, RolledBack
  <2>2. ASSUME result' = "FAIL", NEW c \in Csi, OurLease(c)'
        PROVE  rollback_error'[c]
    <3>1. OurLease(c) /\ ~partial /\ c < csi
          BY <1>2, <1>11, <2>2 DEF ReturnFailure, Return, Csi
    <3>2. rollback_owned[c]
          BY <1>1, <3>1 DEF LeaseInv, OurLeaseIsMarked, Joined
    <3> QED BY <1>1, <1>8, <3>1, <3>2 DEF LeaseInv, RolledBack, Cancelled
  <2>3. FailureHoldsNoLease'
        BY <2>2 DEF FailureHoldsNoLease
  <2> QED BY <1>3, <1>4, <1>5, <1>6, <1>7, <2>1, <2>3 DEF LeaseInv
<1> QED BY <1>9, <1>10, <1>11

(* A worker's steps. *)
LEMMA WorkerLeaseInv ==
  ASSUME TypeOK, LeaseInv, NEW c \in Csi, Worker(c)
  PROVE  LeaseInv'
<1> USE DEF TypeOK, driverVars, workerVars, reportVars, inputVars
<1>1. /\ wpc[c] \in {"writing", "stored"}
      /\ UNCHANGED <<pc, csi, generation, before, disposition,
                     rollback_error, partial, write_rejected, result>>
      BY DEF Worker, WorkerCommits, WorkerRefused, WorkerRetries,
             WorkerReports
<1>2. \A d \in Csi \ {c} :
        /\ wpc'[d] = wpc[d] /\ store'[d] = store[d] /\ drv'[d] = drv[d]
        /\ rollback_owned'[d] = rollback_owned[d]
      BY DEF Worker, WorkerCommits, WorkerRefused, WorkerRetries,
             WorkerReports
<1>3. pc \notin {"probe", "final", "rollback", "returned"}
      BY <1>1 DEF LeaseInv, NoWorkerYet, Joined
<1>4. result' # "FAIL"
      BY <1>1, <1>3 DEF LeaseInv, ResultIsLast
<1>5. RolledBack' /\ FailureHoldsNoLease' /\ ResultIsLast'
      BY <1>1, <1>3, <1>4
         DEF LeaseInv, RolledBack, FailureHoldsNoLease, ResultIsLast
<1>6. NoWorkerYet' /\ Joined'
      BY <1>1, <1>2, <1>3 DEF LeaseInv, NoWorkerYet, Joined
<1>7. /\ before'[c].generation # generation'
      /\ wpc'[c] \in {"idle", "writing"} => drv'[c].generation # generation'
      /\ OurLease(c)' => \/ wpc'[c] = "stored" /\ Stored(c)'
                         \/ wpc'[c] = "done" /\ rollback_owned'[c]
      /\ wpc'[c] = "stored" /\ Stored(c)' => drv'[c].generation = generation'
      /\ rollback_owned'[c] => /\ wpc'[c] = "done"
                               /\ drv'[c].generation = generation'
  <2>1. /\ before[c].generation # generation
        /\ ~rollback_owned[c]
        BY <1>1 DEF LeaseInv, GenerationIsFresh, MarkedIsOurs
  <2>2. CASE WorkerCommits(c)
    <3>1. RequestGeneration(c) \in Generations
          BY DEF RequestGeneration, Status
    <3>2. drv'[c].generation = RequestGeneration(c)
          BY <2>2, <3>1, PublishType DEF WorkerCommits
    <3>3. /\ wpc'[c] = "stored" /\ store'[c] \in {"complete", "committed"}
          /\ UNCHANGED rollback_owned
          BY <2>2 DEF WorkerCommits
    <3> QED BY <1>1, <2>1, <3>2, <3>3 DEF RequestGeneration, OurLease, Stored
  <2>3. CASE WorkerRefused(c)
    <3>1. wpc[c] = "writing" /\ drv[c].generation # generation
          BY <2>3 DEF WorkerRefused, LeaseInv, GenerationIsFresh
    <3>2. drv'[c].generation = drv[c].generation
          BY <2>3, RefusalsType DEF WorkerRefused
    <3>3. /\ wpc'[c] = "stored" /\ store'[c] = "refused"
          /\ UNCHANGED rollback_owned
          BY <2>3 DEF WorkerRefused
    <3> QED BY <1>1, <2>1, <3>1, <3>2, <3>3 DEF OurLease, Stored
  <2>4. CASE WorkerRetries(c)
    <3>1. UNCHANGED <<drv, wpc, store, rollback_owned>>
          BY <2>4 DEF WorkerRetries
    <3> QED BY <1>1, <3>1
            DEF LeaseInv, GenerationIsFresh, OurLeaseIsMarked, MarkedIsOurs,
                OurLease, Stored
  <2>5. CASE WorkerReports(c)
    <3>1. wpc[c] = "stored" /\ wpc'[c] = "done" /\ UNCHANGED <<drv, store>>
          BY <2>5 DEF WorkerReports
    <3>2. rollback_owned'[c] <=> Stored(c)
          BY <2>5 DEF WorkerReports, Stored
    <3>3. OurLease(c)' <=> OurLease(c)
          BY <1>1, <3>1 DEF OurLease
    <3> QED BY <1>1, <2>1, <3>1, <3>2, <3>3
            DEF LeaseInv, OurLeaseIsMarked, MarkedIsOurs
  <2> QED BY <2>2, <2>3, <2>4, <2>5 DEF Worker
<1>8. GenerationIsFresh'
      BY <1>1, <1>2, <1>7 DEF LeaseInv, GenerationIsFresh
<1>9. OurLeaseIsMarked'
      BY <1>1, <1>2, <1>7 DEF LeaseInv, OurLeaseIsMarked, OurLease, Stored
<1>10. MarkedIsOurs'
       BY <1>1, <1>2, <1>7 DEF LeaseInv, MarkedIsOurs, Stored
<1> QED BY <1>5, <1>6, <1>8, <1>9, <1>10 DEF LeaseInv

(* The driver's own steps only ever end a lease. *)
LEMMA DriverLeaseInv ==
  ASSUME TypeOK, LeaseInv, Driver
  PROVE  LeaseInv'
<1> USE DEF TypeOK, driverVars, workerVars, reportVars, inputVars
<1>1. UNCHANGED <<pc, csi, generation, before, disposition, rollback_owned,
                  rollback_error, partial, write_rejected, wpc, store,
                  result>>
      BY DEF Driver, LeaseExpires, EpochAdvances
<1>2. \A c \in Csi : drv'[c] = drv[c] \/ drv'[c] = Expire(drv[c])
      BY DEF Driver, LeaseExpires, EpochAdvances
<1>3. \A c \in Csi : /\ drv'[c].generation = drv[c].generation
                     /\ OurLease(c)' => OurLease(c)
      BY <1>1, <1>2, ExpireType DEF OurLease
<1>4. NoWorkerYet' /\ Joined' /\ ResultIsLast'
      BY <1>1 DEF LeaseInv, NoWorkerYet, Joined, ResultIsLast
<1>5. GenerationIsFresh' /\ OurLeaseIsMarked' /\ MarkedIsOurs'
      BY <1>1, <1>3
         DEF LeaseInv, GenerationIsFresh, OurLeaseIsMarked, MarkedIsOurs,
             Stored
<1>6. RolledBack' /\ FailureHoldsNoLease'
      BY <1>1, <1>3 DEF LeaseInv, RolledBack, Cancelled, FailureHoldsNoLease
<1> QED BY <1>4, <1>5, <1>6 DEF LeaseInv

LEMMA NextLeaseInv == TypeOK /\ LeaseInv /\ [Next]_prepareVars => LeaseInv'
<1> SUFFICES ASSUME TypeOK, LeaseInv, [Next]_prepareVars PROVE LeaseInv'
    OBVIOUS
<1>1. CASE Coordinator
      BY <1>1, ProbeLeaseInv, CreateLeaseInv, JoinLeaseInv, RollbackLeaseInv
         DEF Coordinator, CoordinatorRuns
<1>2. ASSUME NEW c \in Csi, Worker(c) PROVE LeaseInv'
      BY <1>2, WorkerLeaseInv
<1>3. CASE Driver
      BY <1>3, DriverLeaseInv
<1>4. CASE UNCHANGED prepareVars
  <2> USE <1>4 DEF prepareVars, driverVars, workerVars, reportVars, inputVars
  <2>1. GenerationIsFresh' /\ OurLeaseIsMarked' /\ MarkedIsOurs'
        BY MarksUnchanged
  <2>2. NoWorkerYet' /\ Joined' /\ ResultIsLast'
        BY DEF LeaseInv, NoWorkerYet, Joined, ResultIsLast
  <2>3. RolledBack' /\ FailureHoldsNoLease'
        BY DEF LeaseInv, RolledBack, Cancelled, FailureHoldsNoLease, OurLease
  <2> QED BY <2>1, <2>2, <2>3 DEF LeaseInv
<1> QED BY <1>1, <1>2, <1>3, <1>4 DEF Next

THEOREM LeaseInvariant == Spec => [](TypeOK /\ LeaseInv)
<1>1. Init => TypeOK /\ LeaseInv
      BY InitTypeOK, InitLeaseInv
<1>2. (TypeOK /\ LeaseInv) /\ [Next]_prepareVars => (TypeOK /\ LeaseInv)'
      BY NextTypeOK, NextLeaseInv
<1> QED BY <1>1, <1>2, PTL DEF Spec

(***************************************************************************)
(* A call that failed holds no lease it published, unless the report says  *)
(* that the cancel of that lease failed.                                   *)
(***************************************************************************)
THEOREM FailureReleases == Spec => []FailureHoldsNoLease
<1>1. LeaseInv => FailureHoldsNoLease
      BY DEF LeaseInv
<1> QED BY <1>1, LeaseInvariant, PTL

(***************************************************************************)
(* From the final status reads on no worker thread can store any more.     *)
(***************************************************************************)
THEOREM WorkersQuiescent == Spec => []QuiescentAfterJoin
<1>1. LeaseInv => QuiescentAfterJoin
      BY DEF LeaseInv, Joined, QuiescentAfterJoin
<1> QED BY <1>1, LeaseInvariant, PTL

(***************************************************************************)
(* No worker is about to store to a domain whose lease of this transaction *)
(* it already holds.                                                       *)
(***************************************************************************)
THEOREM StoresOnce == Spec => []NeverStoresTwice
<1>1. LeaseInv => NeverStoresTwice
      BY DEF LeaseInv, GenerationIsFresh, NeverStoresTwice, OurLease
<1> QED BY <1>1, LeaseInvariant, PTL

(***************************************************************************)
(* Only the transaction's own leases are ever given back by it.            *)
(***************************************************************************)
THEOREM CancelsOwn == Spec => CancelsOnlyOwnLease
<1> DEFINE OwnOnly == \A c \in Csi : /\ drv[c].lease = 1
                                     /\ drv'[c].lease = 0
                                     /\ drv'[c].state = "IDLE"
                                     => OurLease(c)
<1>1. TypeOK /\ LeaseInv /\ [Next]_prepareVars => [OwnOnly]_drv
  <2> SUFFICES ASSUME TypeOK, LeaseInv, Next, NEW c \in Csi,
                      drv[c].lease = 1, drv'[c].lease = 0,
                      drv'[c].state = "IDLE"
               PROVE  OurLease(c)
      BY DEF prepareVars, driverVars
  <2> USE DEF TypeOK
  <2>1. drv'[c] # drv[c]
        OBVIOUS
  <2>2. CASE Coordinator
    <3>1. Rollback /\ c = csi
          BY <2>1, <2>2
             DEF Coordinator, CoordinatorRuns, Skip, ReadBefore, ReturnLegacy,
                 ReturnProbeFailure, ClassifyAll, CreateWorker, CreateFails,
                 EndOfLoop, JoinFails, JoinWorker, ReadAfter, Decide,
                 Rollback, CancelStore, ReturnFailure, driverVars
    <3>2. rollback_owned[c]
          BY <3>1 DEF Rollback, Cancelled
    <3> QED BY <3>2 DEF LeaseInv, MarkedIsOurs, OurLease
  <2>3. ASSUME NEW d \in Csi, Worker(d) PROVE FALSE
    <3>1. CASE WorkerCommits(d)
      <4>1. RequestGeneration(d) \in Generations
            BY DEF RequestGeneration, Status
      <4>2. drv'[c] = drv[c] \/ drv'[c].lease = 1
            BY <3>1, <4>1, PublishType DEF WorkerCommits
      <4> QED BY <2>1, <4>2
    <3>2. CASE WorkerRefused(d)
      <4>1. drv'[c] = drv[c] \/ drv'[c].lease = drv[c].lease
            BY <3>2, RefusalsType DEF WorkerRefused
      <4> QED BY <4>1
    <3>3. CASE WorkerRetries(d) \/ WorkerReports(d)
          BY <2>1, <3>3 DEF WorkerRetries, WorkerReports, driverVars
    <3> QED BY <2>3, <3>1, <3>2, <3>3 DEF Worker
  <2>4. CASE Driver
    <3>1. drv'[c] = Expire(drv[c])
          BY <2>1, <2>4 DEF Driver, LeaseExpires, EpochAdvances
    <3> QED BY <3>1 DEF Expire
  <2> QED BY <2>2, <2>3, <2>4 DEF Next
<1> QED BY <1>1, LeaseInvariant, PTL DEF Spec, CancelsOnlyOwnLease

-----------------------------------------------------------------------------
(***************************************************************************)
(* What the report says when the call returns.  The order in which errors  *)
(* are noted makes it true: a worker's error is on the coordinator's side  *)
(* as a refused store or a global failure by the time the final statuses   *)
(* are read, and a domain without an error has then shown a valid one.     *)
(***************************************************************************)
AllEligible ==
  pc \in {"create", "join", "final", "rollback"} \/ (\E c \in Csi : wpc[c] # "idle") =>
    \A c \in active : disposition[c] # "FAIL" /\ error[c] # "ENOENT"

BeforeRollback ==
  pc \notin {"rollback", "returned"} => ~partial /\ \A c \in Csi : ~rollback_error[c]

RejectedFailed ==
  /\ pc \in {"probe", "create"} => write_rejected = {}
  /\ \A c \in write_rejected : error[c] # "none"

(* Without a global failure every error is that of a refused store, or of  *)
(* a worker that is still to be joined.                                    *)
ErrorsExplained ==
  pc \in {"create", "join", "final"} /\ ~global_failure =>
    \A c \in active : error[c] # "none" =>
      \/ c \in write_rejected
      \/ pc # "final" /\ wpc[c] = "done" /\ (pc = "join" => csi <= c)

(* The final status of a domain was valid when it was read. *)
Validated(c) == after[c].match /\ after[c].epoch # 0 /\ drv[c].state # "IDLE"
FinallyRead ==
  pc = "final" => \A c \in active : c < csi /\ error[c] = "none" => Validated(c)

OneEpoch == \A c, d \in Survivors : after[c].epoch # 0 /\ after[c].epoch = after[d].epoch

PartialSound ==
  partial => /\ Failed # {} /\ Survivors # {} /\ Failed \subseteq write_rejected
             /\ OneEpoch
             /\ \A c \in Survivors : Validated(c)

ResultSound ==
  /\ result = "OK" => OneEpoch
  /\ result = "PARTIAL" => partial /\ \A c \in Failed : OurLease(c) => rollback_error[c]

OutcomeInv ==
  /\ AllEligible /\ BeforeRollback /\ RejectedFailed /\ ErrorsExplained
  /\ FinallyRead /\ PartialSound /\ ResultSound

-----------------------------------------------------------------------------
(* Among the domains compared there is a first one: a non-empty set of     *)
(* naturals has a least element.                                           *)
LEMMA LeastElement ==
  ASSUME NEW T, T \subseteq Nat, T # {}
  PROVE  \E x \in T : \A y \in T : x <= y
<1> DEFINE R == {p \in Nat \X Nat : p[1] < p[2]}
<1>1. IsWellFoundedOn(R, Nat)
      BY NatLessThanWellFounded DEF OpToRel
<1>2. \E x \in T : \A y \in T : ~(<<y, x>> \in R)
  <2> HIDE DEF R
  <2> QED BY <1>1, WFMin
<1>3. \A x, y \in T : ~(<<y, x>> \in R) => x <= y
      OBVIOUS
<1> QED BY <1>2, <1>3

(* If no epoch differs from that of the first domain compared, all agree. *)
LEMMA EpochsAgree ==
  ASSUME TypeOK, OutOfEpoch = {}
  PROVE  \A c, d \in Compared : after[c].epoch = after[d].epoch
<1>1. CASE Compared = {}
      BY <1>1
<1>2. CASE Compared # {}
  <2>1. Compared \subseteq Nat
    <3>1. Csi \subseteq Nat
          BY PrepareAssumption DEF Csi
    <3>2. Compared \subseteq Csi
          BY DEF TypeOK, Compared
    <3> QED BY <3>1, <3>2
  <2>2. PICK f \in Compared : \A x \in Compared : f <= x
        BY <1>2, <2>1, LeastElement
  <2>3. \A c \in Compared : after[c].epoch = after[f].epoch
        BY <2>2 DEF OutOfEpoch
  <2> QED BY <2>3
<1> QED BY <1>1, <1>2

LEMMA InitOutcomeInv == Init => OutcomeInv
<1> SUFFICES ASSUME Init PROVE OutcomeInv
    OBVIOUS
<1> QED
  BY DEF Init, OutcomeInv, AllEligible, BeforeRollback, RejectedFailed, ErrorsExplained,
         FinallyRead, PartialSound, ResultSound, Failed

LEMMA ProbeOutcomeInv ==
  ASSUME TypeOK, LeaseInv, OutcomeInv,
         \/ Skip("probe", Inactive(csi)) \/ ReadBefore
         \/ ReturnLegacy \/ ReturnProbeFailure \/ ClassifyAll
  PROVE  OutcomeInv'
<1> USE DEF OutcomeInv, TypeOK, driverVars, workerVars, reportVars, inputVars
<1>1. /\ pc = "probe" /\ ~partial /\ write_rejected = {}
      /\ \A c \in Csi : wpc[c] = "idle" /\ ~rollback_error[c]
      BY DEF Skip, ReadBefore, ReturnLegacy, ReturnProbeFailure, ClassifyAll,
             BeforeRollback, RejectedFailed, LeaseInv, NoWorkerYet
<1>2. /\ UNCHANGED <<partial, write_rejected, wpc, rollback_error, active>>
      /\ pc' \in {"probe", "create", "returned"} /\ result' \in {"none", "LEGACY", "FAIL"}
      BY <1>1 DEF Skip, ReadBefore, ReturnLegacy, ReturnProbeFailure, ClassifyAll,
                  Return, Goto, LeaseInv, ResultIsLast
<1>3. pc' = "create" =>
        \A c \in active : disposition'[c] # "FAIL" /\ error'[c] = "none"
  <2> SUFFICES ASSUME pc' = "create", NEW c \in active
               PROVE  disposition'[c] # "FAIL" /\ error'[c] = "none"
      OBVIOUS
  <2>1. ClassifyAll
        BY <1>1 DEF Skip, ReadBefore, ReturnLegacy, ReturnProbeFailure, Return
  <2>2. \A d \in active : Classify(before[d]) # "FAIL"
        BY <2>1 DEF ClassifyAll, Return
  <2>3. c \in Csi /\ error[c] = "none"
        BY <2>1 DEF ClassifyAll, Failed
  <2>4. /\ disposition'[c] = Classify(before[c])
        /\ error'[c] = error[c]
        BY <2>1, <2>2, <2>3 DEF ClassifyAll
  <2> QED BY <2>2, <2>3, <2>4
<1>4. AllEligible'
      BY <1>1, <1>2, <1>3 DEF AllEligible
<1>5. BeforeRollback' /\ RejectedFailed' /\ FinallyRead' /\ PartialSound' /\ ResultSound'
      BY <1>1, <1>2
         DEF BeforeRollback, RejectedFailed, FinallyRead, PartialSound, ResultSound
<1>6. ErrorsExplained'
      BY <1>2, <1>3 DEF ErrorsExplained
<1> QED BY <1>4, <1>5, <1>6

LEMMA CreateOutcomeInv ==
  ASSUME TypeOK, LeaseInv, OutcomeInv,
         \/ Skip("create", NoThread(csi)) \/ CreateWorker \/ CreateFails
         \/ EndOfLoop("create", "join")
  PROVE  OutcomeInv'
<1> USE PrepareAssumption
        DEF OutcomeInv, TypeOK, driverVars, workerVars, reportVars, inputVars
<1>1. /\ pc = "create" /\ ~partial /\ write_rejected = {} /\ pc' \in {"create", "join"}
      /\ result = "none"
      /\ UNCHANGED <<partial, write_rejected, rollback_error, active, disposition, result>>
      BY DEF Skip, CreateWorker, CreateFails, EndOfLoop, Goto,
             BeforeRollback, RejectedFailed, LeaseInv, ResultIsLast
<1>2. \A c \in Csi : \/ UNCHANGED error[c]
                     \/ error'[c] = "error" /\ global_failure'
      BY DEF Skip, CreateWorker, CreateFails, EndOfLoop
<1>3. AllEligible'
      BY <1>1, <1>2 DEF AllEligible
<1>4. BeforeRollback' /\ RejectedFailed' /\ FinallyRead' /\ PartialSound' /\ ResultSound'
      BY <1>1 DEF BeforeRollback, RejectedFailed, FinallyRead, PartialSound, ResultSound
<1>5. ErrorsExplained'
  <2> SUFFICES ASSUME ~global_failure', NEW c \in active, error'[c] # "none"
               PROVE  wpc'[c] = "done" /\ (pc' = "join" => csi' <= c)
      BY <1>1 DEF ErrorsExplained
  <2>1. c \in Csi /\ error[c] # "none" /\ ~global_failure
        BY <1>2 DEF Skip, CreateWorker, CreateFails, EndOfLoop
  <2>2. wpc[c] = "done"
        BY <1>1, <2>1 DEF ErrorsExplained
  <2>3. wpc'[c] = "done"
        BY <2>2 DEF Skip, CreateWorker, CreateFails, EndOfLoop, LeaseInv, NoWorkerYet, Csi
  <2>4. pc' = "join" => csi' = 0
        BY <1>1 DEF Skip, CreateWorker, CreateFails, EndOfLoop, Goto
  <2> QED BY <2>1, <2>3, <2>4 DEF Csi
<1> QED BY <1>3, <1>4, <1>5

LEMMA JoinOutcomeInv ==
  ASSUME TypeOK, LeaseInv, OutcomeInv,
         \/ Skip("join", NotCreated(csi)) \/ JoinFails \/ JoinWorker
         \/ EndOfLoop("join", "final")
  PROVE  OutcomeInv'
<1> USE PrepareAssumption
        DEF OutcomeInv, TypeOK, driverVars, workerVars, reportVars, inputVars
<1>1. /\ pc = "join" /\ ~partial /\ pc' \in {"join", "final"} /\ result = "none"
      /\ pc' = "final" => csi' = 0
      /\ UNCHANGED <<partial, rollback_error, active, disposition, result, wpc>>
      BY DEF Skip, JoinFails, JoinWorker, EndOfLoop, Goto,
             BeforeRollback, LeaseInv, ResultIsLast
<1>2. \A c \in Csi : \/ UNCHANGED error[c]
                     \/ error'[c] = "error" /\ global_failure'
      BY DEF Skip, JoinFails, JoinWorker, EndOfLoop
<1>3. AllEligible'
      BY <1>1, <1>2 DEF AllEligible
<1>4. BeforeRollback' /\ PartialSound' /\ ResultSound'
      BY <1>1 DEF BeforeRollback, PartialSound, ResultSound
<1>5. RejectedFailed'
  <2>1. /\ write_rejected \subseteq write_rejected'
        /\ \A c \in write_rejected' \ write_rejected : error'[c] # "none"
        BY DEF Skip, JoinFails, JoinWorker, EndOfLoop
  <2> QED BY <1>1, <1>2, <2>1 DEF RejectedFailed
<1>6. FinallyRead'
      BY <1>1 DEF FinallyRead, Csi
<1>7. ErrorsExplained'
  <2> SUFFICES ASSUME ~global_failure', NEW c \in active, error'[c] # "none"
               PROVE  \/ c \in write_rejected'
                      \/ pc' # "final" /\ wpc[c] = "done" /\ (pc' = "join" => csi' <= c)
      BY <1>1 DEF ErrorsExplained
  <2>1. c \in Csi /\ error[c] # "none" /\ ~global_failure
        BY <1>2 DEF Skip, JoinFails, JoinWorker, EndOfLoop
  <2>2. c \in write_rejected \/ (wpc[c] = "done" /\ csi <= c)
        BY <1>1, <2>1 DEF ErrorsExplained
  <2>3. write_rejected \subseteq write_rejected'
        BY DEF Skip, JoinFails, JoinWorker, EndOfLoop
  <2>4. CASE Skip("join", NotCreated(csi)) \/ JoinFails
        BY <2>1, <2>2, <2>4 DEF Skip, JoinFails, NotCreated, Csi
  <2>5. CASE JoinWorker
    <3>1. ~join_error /\ (error[csi] # "none" => csi \in write_rejected')
          BY <2>5 DEF JoinWorker
    <3> QED BY <1>1, <2>1, <2>2, <2>3, <2>5, <3>1 DEF JoinWorker, Csi
  <2>6. CASE EndOfLoop("join", "final")
        BY <2>1, <2>2, <2>3, <2>6 DEF EndOfLoop, Csi
  <2> QED BY <2>4, <2>5, <2>6
<1> QED BY <1>3, <1>4, <1>5, <1>6, <1>7

LEMMA FinalOutcomeInv ==
  ASSUME TypeOK, LeaseInv, OutcomeInv, Skip("final", Inactive(csi)) \/ ReadAfter
  PROVE  OutcomeInv'
<1> USE PrepareAssumption
        DEF OutcomeInv, TypeOK, driverVars, workerVars, reportVars, inputVars
<1>1. /\ pc = "final" /\ ~partial /\ pc' = "final" /\ result = "none" /\ csi' = csi + 1
      /\ UNCHANGED <<drv, partial, rollback_error, active, disposition, result, wpc,
                     write_rejected>>
      BY DEF Skip, ReadAfter, BeforeRollback, LeaseInv, ResultIsLast
<1>2. \A c \in Csi : \/ UNCHANGED error[c]
                     \/ error'[c] = "error" /\ global_failure'
      BY DEF Skip, ReadAfter
<1>3. AllEligible' /\ RejectedFailed'
      BY <1>1, <1>2 DEF AllEligible, RejectedFailed
<1>4. BeforeRollback' /\ PartialSound' /\ ResultSound'
      BY <1>1 DEF BeforeRollback, PartialSound, ResultSound
<1>5. ErrorsExplained'
  <2>1. global_failure => global_failure'
        BY DEF Skip, ReadAfter
  <2> QED BY <1>1, <1>2, <2>1 DEF ErrorsExplained
<1>6. FinallyRead'
  <2> SUFFICES ASSUME NEW c \in active, c < csi', error'[c] = "none" PROVE Validated(c)'
      BY <1>1 DEF FinallyRead
  <2>1. c \in Csi /\ error[c] = "none" /\ c \notin write_rejected
        BY <1>2 DEF RejectedFailed
  <2>2. CASE c = csi
    <3>1. ReadAfter
          BY <2>2 DEF Skip, Inactive
    <3>2. PICK readable \in BOOLEAN :
            LET valid == /\ readable
                         /\ \/ csi \in write_rejected
                            \/ FinalStatusValid(before[csi], drv[csi],
                                                disposition[csi], generation)
            IN  /\ after' = IF readable THEN [after EXCEPT ![csi] = drv[csi]]
                            ELSE after
                /\ error' = IF valid \/ error[csi] # "none" THEN error
                            ELSE [error EXCEPT ![csi] = "error"]
          BY <3>1 DEF ReadAfter
    <3>3. readable /\ FinalStatusValid(before[csi], drv[csi], disposition[csi], generation)
          BY <2>1, <2>2, <3>2
    <3>4. after'[c] = drv[c]
          BY <2>1, <2>2, <3>2, <3>3
    <3> QED BY <1>1, <2>2, <3>3, <3>4 DEF FinalStatusValid, Validated
  <2>3. CASE c # csi
    <3>1. after'[c] = after[c]
          BY <2>1, <2>3 DEF Skip, ReadAfter
    <3>2. c < csi
          BY <1>1, <2>1, <2>3 DEF Csi
    <3> QED BY <1>1, <2>1, <3>1, <3>2 DEF FinallyRead, Validated
  <2> QED BY <2>2, <2>3
<1> QED BY <1>3, <1>4, <1>5, <1>6

LEMMA DecideOutcomeInv ==
  ASSUME TypeOK, LeaseInv, OutcomeInv, Decide
  PROVE  OutcomeInv'
<1> USE DEF OutcomeInv, TypeOK, driverVars, workerVars, reportVars, inputVars
<1>1. /\ pc = "final" /\ csi = NumCsi /\ ~partial /\ result = "none"
      /\ pc' \in {"rollback", "returned"} /\ result' \in {"none", "OK"}
      /\ UNCHANGED <<drv, after, rollback_error, active, disposition, wpc, write_rejected>>
      BY DEF Decide, Goto, Return, BeforeRollback, LeaseInv, ResultIsLast
<1>2. \A c \in Csi : error'[c] \in {error[c], "error"} /\ (error[c] # "none" => UNCHANGED error[c])
      BY DEF Decide
<1>3. AllEligible' /\ RejectedFailed' /\ BeforeRollback' /\ FinallyRead' /\ ErrorsExplained'
  <2>1. AllEligible'
        BY <1>1, <1>2 DEF AllEligible
  <2>2. RejectedFailed'
        BY <1>1, <1>2 DEF RejectedFailed
  <2> QED BY <1>1, <2>1, <2>2 DEF BeforeRollback, FinallyRead, ErrorsExplained
<1>4. ASSUME OutOfEpoch = {}
      PROVE  /\ error' = error /\ Failed' = Failed /\ Survivors' = Survivors /\ OneEpoch'
             /\ \A c \in Survivors : Validated(c)'
  <2>1. error' = error
        BY <1>4 DEF Decide
  <2>2. Failed' = Failed /\ Survivors' = Survivors
        BY <1>1, <2>1 DEF Failed, Survivors
  <2>3. \A c \in Survivors : c \in active /\ error[c] = "none" /\ Validated(c)
        BY <1>1, PrepareAssumption DEF Survivors, Failed, FinallyRead, Csi
  <2>4. Survivors \subseteq Compared
        BY <2>3 DEF Compared, RejectedFailed, Validated
  <2>5. OneEpoch
        BY <1>4, <2>3, <2>4, EpochsAgree DEF OneEpoch, Validated
  <2> QED BY <1>1, <2>1, <2>2, <2>3, <2>5 DEF OneEpoch, Validated
<1>5. PartialSound'
  <2> SUFFICES ASSUME partial' PROVE PartialSound'
      BY DEF PartialSound
  <2>1. ~global_failure /\ OutOfEpoch = {} /\ Survivors # {} /\ Failed # {}
        BY <1>1 DEF Decide
  <2>2. Failed \subseteq write_rejected
        BY <1>1, <2>1 DEF Failed, ErrorsExplained
  <2> QED BY <1>1, <1>4, <2>1, <2>2 DEF PartialSound
<1>6. ResultSound'
      BY <1>1, <1>4 DEF ResultSound, Decide
<1> QED BY <1>3, <1>5, <1>6

LEMMA RollbackOutcomeInv ==
  ASSUME TypeOK, LeaseInv, OutcomeInv,
         Skip("rollback", NotCancelled(csi)) \/ Rollback \/ ReturnFailure
  PROVE  OutcomeInv'
<1> USE PrepareAssumption
        DEF OutcomeInv, TypeOK, driverVars, workerVars, reportVars, inputVars
<1>1. /\ pc = "rollback" /\ pc' \in {"rollback", "returned"} /\ result = "none"
      /\ UNCHANGED <<after, error, active, disposition, wpc, write_rejected, partial>>
      BY DEF Skip, Rollback, ReturnFailure, Return, LeaseInv, ResultIsLast
<1>2. Failed' = Failed /\ Survivors' = Survivors /\ (OneEpoch => OneEpoch')
      BY <1>1 DEF Failed, Survivors, OneEpoch
<1>3. AllEligible' /\ RejectedFailed' /\ BeforeRollback' /\ FinallyRead' /\ ErrorsExplained'
      BY <1>1
         DEF AllEligible, RejectedFailed, BeforeRollback, FinallyRead, ErrorsExplained
<1>4. PartialSound'
  <2> SUFFICES ASSUME partial, NEW c \in Survivors, Validated(c) PROVE Validated(c)'
      BY <1>1, <1>2 DEF PartialSound
  <2>1. c \in Csi /\ c \notin write_rejected
        BY DEF Survivors, Failed, RejectedFailed
  <2>2. drv'[c] = drv[c]
        BY <2>1 DEF Skip, Rollback, CancelStore, Cancelled, ReturnFailure
  <2> QED BY <1>1, <2>2 DEF Validated
<1>5. ResultSound'
  <2>1. CASE ReturnFailure
    <3> SUFFICES ASSUME partial, NEW c \in Failed, OurLease(c) PROVE rollback_error[c]
        BY <1>1, <1>2, <2>1 DEF ResultSound, ReturnFailure, Return, OurLease
    <3>1. c \in Csi /\ c < csi
          BY <2>1 DEF Failed, ReturnFailure, Csi
    <3>2. c \in write_rejected
          BY DEF PartialSound
    <3>3. rollback_owned[c]
          BY <1>1, <3>1 DEF LeaseInv, OurLeaseIsMarked, Joined
    <3> QED BY <1>1, <3>1, <3>2, <3>3 DEF LeaseInv, RolledBack, Cancelled
  <2>2. CASE ~ReturnFailure
        BY <1>1, <2>2 DEF ResultSound, Skip, Rollback
  <2> QED BY <2>1, <2>2
<1> QED BY <1>3, <1>4, <1>5

LEMMA WorkerOutcomeInv ==
  ASSUME TypeOK, LeaseInv, OutcomeInv, NEW c \in Csi, Worker(c)
  PROVE  OutcomeInv'
<1> USE PrepareAssumption
        DEF OutcomeInv, TypeOK, driverVars, workerVars, reportVars, inputVars
<1>1. /\ wpc[c] \in {"writing", "stored"} /\ pc \in {"create", "join"} /\ result = "none"
      /\ pc = "join" => csi <= c
  <2>1. wpc[c] \in {"writing", "stored"}
        BY DEF Worker, WorkerCommits, WorkerRefused, WorkerRetries, WorkerReports
  <2> QED BY <2>1 DEF LeaseInv, NoWorkerYet, Joined, ResultIsLast, Csi
<1>2. /\ UNCHANGED <<pc, csi, active, disposition, rollback_error, partial, write_rejected,
                     result, after, global_failure>>
      /\ \A d \in Csi \ {c} : UNCHANGED <<wpc[d], error[d]>>
      /\ error'[c] \in {error[c], "error"} /\ (error'[c] # error[c] => wpc'[c] = "done")
      BY DEF Worker, WorkerCommits, WorkerRefused, WorkerRetries, WorkerReports
<1>3. AllEligible'
      BY <1>1, <1>2 DEF AllEligible
<1>4. BeforeRollback' /\ FinallyRead' /\ PartialSound' /\ ResultSound'
      BY <1>1, <1>2 DEF BeforeRollback, FinallyRead, PartialSound, ResultSound
<1>5. RejectedFailed'
      BY <1>1, <1>2 DEF RejectedFailed
<1>6. ErrorsExplained'
      BY <1>1, <1>2 DEF ErrorsExplained
<1> QED BY <1>3, <1>4, <1>5, <1>6

LEMMA DriverOutcomeInv ==
  ASSUME TypeOK, LeaseInv, OutcomeInv, Driver \/ UNCHANGED prepareVars
  PROVE  OutcomeInv'
<1> USE DEF OutcomeInv, TypeOK, prepareVars, driverVars, workerVars, reportVars, inputVars
<1>1. UNCHANGED <<pc, csi, generation, active, after, disposition, error, rollback_error,
                  write_rejected, global_failure, partial, wpc, result>>
      BY DEF Driver, LeaseExpires, EpochAdvances
<1>2. \A c \in Csi : drv'[c] = drv[c] \/ drv'[c] = Expire(drv[c])
      BY DEF Driver, LeaseExpires, EpochAdvances
<1>3. \A c \in Csi : /\ OurLease(c)' => OurLease(c)
                     /\ drv'[c].state = "IDLE" => drv[c].state = "IDLE"
  <2>1. \A c \in Csi : Expire(drv[c]).lease = 0 /\ Expire(drv[c]).state = "EXPIRED"
        BY DEF Expire, Status, States
  <2> QED BY <1>1, <1>2, <2>1 DEF OurLease
<1>4. /\ Failed' = Failed /\ Survivors' = Survivors /\ (OneEpoch => OneEpoch')
      /\ \A c \in active : Validated(c) => Validated(c)'
      BY <1>1, <1>3 DEF Failed, Survivors, OneEpoch, Validated
<1>5. AllEligible' /\ BeforeRollback' /\ RejectedFailed' /\ ErrorsExplained'
      BY <1>1 DEF AllEligible, BeforeRollback, RejectedFailed, ErrorsExplained
<1>6. FinallyRead'
      BY <1>1, <1>4 DEF FinallyRead
<1>7. PartialSound'
      BY <1>1, <1>4 DEF PartialSound, Survivors
<1>8. ResultSound'
      BY <1>1, <1>3, <1>4 DEF ResultSound, Failed
<1> QED BY <1>5, <1>6, <1>7, <1>8

LEMMA NextOutcomeInv ==
  TypeOK /\ LeaseInv /\ OutcomeInv /\ [Next]_prepareVars => OutcomeInv'
BY ProbeOutcomeInv, CreateOutcomeInv, JoinOutcomeInv, FinalOutcomeInv, DecideOutcomeInv,
   RollbackOutcomeInv, WorkerOutcomeInv, DriverOutcomeInv
   DEF Next, Coordinator, CoordinatorRuns

THEOREM OutcomeInvariant == Spec => []OutcomeInv
<1>1. Init => OutcomeInv
      BY InitOutcomeInv
<1>2. TypeOK /\ LeaseInv /\ OutcomeInv /\ [Next]_prepareVars => OutcomeInv'
      BY NextOutcomeInv
<1> QED BY <1>1, <1>2, LeaseInvariant, PTL DEF Spec

(***************************************************************************)
(* What the call leaves behind is what its result says.                    *)
(***************************************************************************)
THEOREM OutcomeHonest == Spec => []HonestOutcome
<1>1. OutcomeInv => HonestOutcome
  <2> SUFFICES ASSUME OutcomeInv PROVE HonestOutcome
      OBVIOUS
  <2> USE DEF OutcomeInv, ResultSound, PartialSound
  <2>1. PartialIsolatesRejected
        BY DEF PartialIsolatesRejected, Validated
  <2>2. SurvivorsShareEpoch
        BY DEF SurvivorsShareEpoch, OneEpoch
  <2>3. NoStoreUnlessAllEligible
        BY DEF NoStoreUnlessAllEligible, AllEligible
  <2> QED BY <2>1, <2>2, <2>3 DEF HonestOutcome
<1> QED BY <1>1, OutcomeInvariant, PTL

-----------------------------------------------------------------------------
(***************************************************************************)
(* The refinement.  What the abstract transaction calls held and stuck,    *)
(* and its steps as the concrete ones take them.                           *)
(***************************************************************************)
Held == {c \in Csi : OurLease(c)}
Stuck == {c \in Csi : rollback_error[c]}

LEMMA PromiseStutter ==
  ASSUME Held' = Held, UNCHANGED <<result, error, active, rollback_error>>
  PROVE  UNCHANGED Promise!vars
BY DEF Promise!vars, Held, Failed

LEMMA PromiseLease ==
  ASSUME NEW d \in Csi, UNCHANGED <<result, error, active, rollback_error>>,
         \/ result = "none" /\ Held' = Held \cup {d}
         \/ Held' = Held \ {d}
  PROVE  Promise!Next
<1>1. UNCHANGED Failed
      BY DEF Failed
<1> QED BY <1>1 DEF Promise!Next, Promise!Publish, Promise!Release, Held

LEMMA PromiseReport ==
  ASSUME TypeOK, result = "none", Held' = Held, UNCHANGED <<result, active, rollback_error>>
  PROVE  Promise!Next
<1>1. Failed' \in SUBSET Csi
      BY DEF Failed, TypeOK
<1> QED BY <1>1 DEF Promise!Next, Promise!Report, Held

LEMMA PromiseCancelFails ==
  ASSUME NEW d \in Csi, result = "none", UNCHANGED <<result, error, active>>,
         Stuck' = Stuck \cup {d}, Held' \in {Held, Held \ {d}}
  PROVE  Promise!Next
<1>1. UNCHANGED Failed
      BY DEF Failed
<1> QED BY <1>1 DEF Promise!Next, Promise!CancelFails, Held, Stuck

LEMMA PromiseReturn ==
  ASSUME NEW r \in {"OK", "LEGACY", "PARTIAL", "FAIL"}, NEW f \in SUBSET Csi,
         result = "none", result' = r, Failed' = f,
         r = "FAIL" => Held \subseteq Stuck,
         r = "PARTIAL" => f # {} /\ Held \cap f \subseteq Stuck,
         r = "LEGACY" => Held = {} /\ Stuck = {} /\ f = {},
         r = "OK" => Stuck = {} /\ f = {},
         Held' = Held, Stuck' = Stuck
  PROVE  Promise!Next
BY DEF Promise!Next, Promise!Return, Held, Stuck

(* A step that leaves the driver alone leaves who holds a lease alone. *)
LEMMA HeldUnchanged ==
  ASSUME UNCHANGED <<drv, generation>>
  PROVE  Held' = Held
BY DEF Held, OurLease

LEMMA InitPromise == Init => Promise!Init
<1> SUFFICES ASSUME Init PROVE Promise!Init
    OBVIOUS
<1>1. result = "none" /\ Failed = {} /\ Stuck = {}
      BY DEF Init, Failed, Stuck
<1>2. Held = {}
      BY DEF Init, Held, OurLease
<1> QED BY <1>1, <1>2 DEF Promise!Init, Held, Stuck

LEMMA ProbePromise ==
  ASSUME TypeOK, LeaseInv, OutcomeInv,
         \/ Skip("probe", Inactive(csi)) \/ ReadBefore
         \/ ReturnLegacy \/ ReturnProbeFailure \/ ClassifyAll
  PROVE  [Promise!Next]_(Promise!vars)
<1> USE DEF driverVars, reportVars, inputVars
<1>1. /\ pc = "probe" /\ UNCHANGED <<drv, generation, active, rollback_error>>
      /\ result' \in {"none", "LEGACY", "FAIL"}
      BY DEF Skip, ReadBefore, ReturnLegacy, ReturnProbeFailure, ClassifyAll, Return, Goto,
             LeaseInv, ResultIsLast
<1>2. result = "none" /\ Held = {} /\ Stuck = {} /\ Held' = Held /\ Stuck' = Stuck
      BY <1>1, NoLeaseInProbe, HeldUnchanged
         DEF Held, Stuck, OutcomeInv, BeforeRollback, LeaseInv, ResultIsLast
<1>3. CASE result' = "none"
      BY <1>1, <1>2, <1>3, PromiseReport
<1>4. CASE result' = "LEGACY"
  <2>1. Failed' = {}
        BY <1>1, <1>4 DEF Skip, ReadBefore, ReturnLegacy, ReturnProbeFailure, ClassifyAll,
                          Return, Goto, Failed, TypeOK, LeaseInv, ResultIsLast
  <2> QED BY <1>2, <1>4, <2>1, PromiseReturn
<1>5. CASE result' = "FAIL"
  <2>1. Failed' \in SUBSET Csi
        BY <1>1 DEF Failed, TypeOK
  <2> QED BY <1>2, <1>5, <2>1, PromiseReturn
<1> QED BY <1>1, <1>3, <1>4, <1>5

LEMMA LoopsPromise ==
  ASSUME TypeOK, LeaseInv, OutcomeInv,
         \/ Skip("create", NoThread(csi)) \/ CreateWorker \/ CreateFails
         \/ EndOfLoop("create", "join")
         \/ Skip("join", NotCreated(csi)) \/ JoinFails \/ JoinWorker
         \/ EndOfLoop("join", "final")
         \/ Skip("final", Inactive(csi)) \/ ReadAfter
         \/ Skip("rollback", NotCancelled(csi))
  PROVE  [Promise!Next]_(Promise!vars)
<1> USE DEF driverVars, reportVars, inputVars
<1>1. /\ pc # "returned"
      /\ UNCHANGED <<drv, generation, active, rollback_error, result>>
      BY DEF Skip, CreateWorker, CreateFails, EndOfLoop, JoinFails, JoinWorker, ReadAfter
<1> QED BY <1>1, HeldUnchanged, PromiseReport DEF LeaseInv, ResultIsLast

LEMMA DecidePromise ==
  ASSUME TypeOK, LeaseInv, OutcomeInv, Decide
  PROVE  [Promise!Next]_(Promise!vars)
<1> USE DEF driverVars, reportVars, inputVars
<1>1. /\ pc = "final" /\ UNCHANGED <<drv, generation, active, rollback_error>>
      /\ result = "none" /\ Held' = Held /\ Stuck' = Stuck
      BY HeldUnchanged DEF Decide, LeaseInv, ResultIsLast, Stuck
<1>2. CASE Failed = {} /\ OutOfEpoch = {}
  <2>1. result' = "OK" /\ error' = error
        BY <1>2 DEF Decide, Return, TypeOK
  <2>2. Failed' = {}
        BY <1>1, <1>2, <2>1 DEF Failed
  <2>3. Stuck = {}
        BY <1>1 DEF Stuck, OutcomeInv, BeforeRollback
  <2> QED BY <1>1, <2>1, <2>2, <2>3, PromiseReturn
<1>3. CASE ~(Failed = {} /\ OutOfEpoch = {})
  <2>1. UNCHANGED result
        BY <1>3 DEF Decide
  <2> QED BY <1>1, <2>1, PromiseReport
<1> QED BY <1>2, <1>3

LEMMA RollbackPromise ==
  ASSUME TypeOK, LeaseInv, OutcomeInv, Rollback
  PROVE  [Promise!Next]_(Promise!vars)
<1> USE PrepareAssumption DEF driverVars, reportVars, inputVars, TypeOK
<1>1. /\ csi \in Csi /\ result = "none"
      /\ UNCHANGED <<generation, active, error, result>>
      BY DEF Rollback, LeaseInv, ResultIsLast, Csi
<1>2. PICK outcome \in StoreOutcomes :
        /\ CancelStore(csi, outcome)
        /\ rollback_error' = IF outcome \in {"committed", "refused"}
                             THEN [rollback_error EXCEPT ![csi] = TRUE]
                             ELSE rollback_error
      BY DEF Rollback
<1>3. CASE outcome \in {"again", "refused"}
  <2>1. Held' = Held
        BY <1>1, <1>2, <1>3, HeldUnchanged DEF CancelStore
  <2>2. CASE outcome = "again"
        BY <1>1, <1>2, <2>1, <2>2, PromiseStutter
  <2>3. CASE outcome = "refused"
    <3>1. Stuck' = Stuck \cup {csi}
          BY <1>1, <1>2, <2>3 DEF Stuck
    <3> QED BY <1>1, <2>1, <3>1, PromiseCancelFails
  <2> QED BY <1>3, <2>2, <2>3
<1>4. CASE outcome \in {"complete", "committed"}
  <2>1. \A c \in Csi : drv'[c] = IF c = csi THEN Release(drv[c]) ELSE drv[c]
        BY <1>1, <1>2, <1>4 DEF CancelStore
  <2>2. Held' = Held \ {csi}
    <3>1. drv'[csi].lease = 0 /\ \A c \in Csi : c # csi => drv'[c] = drv[c]
          BY <1>1, <2>1, ReleaseType
    <3>2. \A c \in Csi : OurLease(c)' <=> OurLease(c) /\ c # csi
          BY <1>1, <3>1 DEF OurLease
    <3> QED BY <3>2 DEF Held
  <2>3. CASE outcome = "complete"
        BY <1>1, <1>2, <2>2, <2>3, PromiseLease
  <2>4. CASE outcome = "committed"
    <3>1. Stuck' = Stuck \cup {csi}
          BY <1>1, <1>2, <2>4 DEF Stuck
    <3> QED BY <1>1, <2>2, <3>1, PromiseCancelFails
  <2> QED BY <1>4, <2>3, <2>4
<1> QED BY <1>3, <1>4 DEF StoreOutcomes

(* What a failing call still holds: the invariants of the state it returns *)
(* in, FailureHoldsNoLease and the report of a partial preparation.        *)
LEMMA FailurePromise ==
  ASSUME TypeOK, LeaseInv, LeaseInv', OutcomeInv, OutcomeInv', ReturnFailure
  PROVE  [Promise!Next]_(Promise!vars)
<1> USE DEF driverVars, reportVars, inputVars
<1>1. /\ UNCHANGED <<drv, generation, active, rollback_error, error>>
      /\ result = "none" /\ result' \in {"PARTIAL", "FAIL"}
      /\ Held' = Held /\ Stuck' = Stuck
      BY HeldUnchanged DEF ReturnFailure, Return, LeaseInv, ResultIsLast, Stuck
<1>2. Failed' = Failed /\ Failed \in SUBSET Csi
      BY <1>1 DEF Failed, TypeOK
<1>3. result' = "FAIL" => Held \subseteq Stuck
      BY <1>1 DEF LeaseInv, FailureHoldsNoLease, Held, Stuck, OurLease
<1>4. result' = "PARTIAL" => Failed # {} /\ Held \cap Failed \subseteq Stuck
      BY <1>1, <1>2 DEF OutcomeInv, ResultSound, PartialSound, Held, Stuck, OurLease
<1> QED BY <1>1, <1>2, <1>3, <1>4, PromiseReturn

LEMMA WorkerPromise ==
  ASSUME TypeOK, LeaseInv, OutcomeInv, NEW c \in Csi, Worker(c)
  PROVE  [Promise!Next]_(Promise!vars)
<1> USE DEF driverVars, reportVars, inputVars, TypeOK
<1>1. /\ result = "none"
      /\ UNCHANGED <<generation, active, rollback_error, result>>
  <2>1. wpc[c] \in {"writing", "stored"}
        BY DEF Worker, WorkerCommits, WorkerRefused, WorkerRetries, WorkerReports
  <2>2. result = "none"
        BY <2>1 DEF LeaseInv, Joined, ResultIsLast
  <2> QED BY <2>2 DEF Worker, WorkerCommits, WorkerRefused, WorkerRetries, WorkerReports
<1>2. CASE WorkerCommits(c)
  <2>1. RequestGeneration(c) \in Generations
        BY DEF RequestGeneration, Status
  <2>2. /\ drv'[c].generation = RequestGeneration(c) /\ drv'[c].lease = 1
        /\ \A d \in Csi \ {c} : drv'[d] = drv[d]
        BY <1>2, <2>1, PublishType DEF WorkerCommits
  <2>3. ~OurLease(c)
        BY <1>2 DEF WorkerCommits, LeaseInv, GenerationIsFresh, OurLease
  <2>4. Held' = Held \cup {c} \/ Held' = Held \ {c}
        BY <1>1, <2>2, <2>3 DEF Held, OurLease
  <2>5. UNCHANGED error
        BY <1>2 DEF WorkerCommits
  <2> QED BY <1>1, <2>4, <2>5, PromiseLease
<1>3. CASE WorkerRefused(c)
  <2>1. /\ \A d \in Csi : drv'[d].generation = drv[d].generation /\ drv'[d].lease = drv[d].lease
        /\ UNCHANGED error
        BY <1>3, RefusalsType DEF WorkerRefused
  <2>2. Held' = Held
        BY <1>1, <2>1 DEF Held, OurLease
  <2> QED BY <1>1, <2>1, <2>2, PromiseStutter
<1>4. CASE WorkerRetries(c) \/ WorkerReports(c)
  <2>1. UNCHANGED drv
        BY <1>4 DEF WorkerRetries, WorkerReports
  <2> QED BY <1>1, <2>1, HeldUnchanged, PromiseReport
<1> QED BY <1>2, <1>3, <1>4 DEF Worker

LEMMA DriverPromise ==
  ASSUME TypeOK, Driver
  PROVE  [Promise!Next]_(Promise!vars)
<1> USE DEF driverVars, reportVars, inputVars, TypeOK
<1>1. UNCHANGED <<generation, active, rollback_error, error, result>>
      BY DEF Driver, LeaseExpires, EpochAdvances
<1>2. CASE EpochAdvances
      BY <1>1, <1>2, HeldUnchanged, PromiseStutter DEF EpochAdvances
<1>3. ASSUME NEW c \in Csi, LeaseExpires(c) PROVE Promise!Next
  <2>1. \A d \in Csi : drv'[d] = IF d = c THEN Expire(drv[d]) ELSE drv[d]
        BY <1>3 DEF LeaseExpires
  <2>2. Held' = Held \ {c}
        BY <1>1, <2>1, ExpireType DEF Held, OurLease
  <2> QED BY <1>1, <2>2, PromiseLease
<1> QED BY <1>2, <1>3 DEF Driver

LEMMA NextPromise ==
  TypeOK /\ (LeaseInv /\ LeaseInv') /\ (OutcomeInv /\ OutcomeInv') /\ [Next]_prepareVars
    => [Promise!Next]_(Promise!vars)
<1> SUFFICES ASSUME TypeOK, LeaseInv, LeaseInv', OutcomeInv, OutcomeInv', [Next]_prepareVars
             PROVE  [Promise!Next]_(Promise!vars)
    OBVIOUS
<1>1. CASE Coordinator
      BY <1>1, ProbePromise, LoopsPromise, DecidePromise, RollbackPromise, FailurePromise
         DEF Coordinator, CoordinatorRuns
<1>2. CASE UNCHANGED prepareVars
      BY <1>2, HeldUnchanged, PromiseStutter
         DEF prepareVars, driverVars, reportVars, inputVars
<1> QED BY <1>1, <1>2, WorkerPromise, DriverPromise DEF Next

(***************************************************************************)
(* The transaction, with its worker threads, its retries and a driver that *)
(* ends leases on its own, implements the lease transaction its caller     *)
(* relies on.                                                              *)
(***************************************************************************)
THEOREM ImplementsPromise == Spec => KeepsPromise
<1>1. Init => Promise!Init
      BY InitPromise
<1>2. (TypeOK /\ LeaseInv) /\ (TypeOK /\ LeaseInv)' /\ OutcomeInv /\ OutcomeInv'
        /\ [Next]_prepareVars => [Promise!Next]_(Promise!vars)
      BY NextPromise
<1> QED BY <1>1, <1>2, LeaseInvariant, OutcomeInvariant, PTL DEF Spec, KeepsPromise, Promise!Spec

=============================================================================
