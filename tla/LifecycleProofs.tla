-------------------------- MODULE LifecycleProofs --------------------------
(***************************************************************************)
(* What holds of the process from its start to its end, for any number of  *)
(* domains and of signals and any configuration of its services: what      *)
(* streams was prepared, no lease is forgotten, and what its threads share *)
(* lasts as long as they use it.                                           *)
(***************************************************************************)
EXTENDS Lifecycle, TLAPS

States == {"none", "idle", "parsing", "polled", "ended"}

LifeTypeOK ==
  /\ thread \in [services -> States]
  /\ app_exit_code \in {"success", "failure"} /\ args \in {"live", "freed"}
  /\ outcome \in {"none", "OK", "LEGACY", "PARTIAL", "FAIL"}

(* main() is where its process is. *)
EndsOnce == status = "none" <=> pc # "exited"

BeforePlay == {"lock", "sysfs", "rtsp-start", "init", "prepare", "build", "play"}

(* Nothing runs beside main() before the pipeline plays. *)
Alone ==
  pc \in BeforePlay => /\ pipeline = "null" /\ args = "live"
                       /\ \A s \in services : thread[s] = "none"

NothingLeased ==
  pc \in {"lock", "sysfs", "rtsp-start", "init"} =>
    outcome = "none" /\ held = {} /\ failed = {} /\ stuck = {}

(* What the transaction promises, for the domains it was asked for. *)
Promised ==
  pc = "prepare" =>
    /\ held \cup failed \cup stuck \subseteq enabled
    /\ outcome \in {"OK", "LEGACY"} => failed = {}
    /\ outcome = "PARTIAL" => held \cap failed \subseteq stuck

(* While the survivors are built, what is leased is theirs, or a cancel of *)
(* it has failed.                                                          *)
Accounted ==
  pc \in {"build", "play"} =>
    /\ outcome \notin {"none", "FAIL"} /\ enabled \cap failed = {}
    /\ held \subseteq enabled \cup stuck \cup kept

Playing ==
  pipeline = "playing" =>
    pc \in {"loop", "terminal", "rtsp", "eos", "drain", "worker", "args", "null", "exited"}

Locked == lock \/ pc \in {"lock", "exit", "exited"}

AfterTerminal ==
  {"rtsp", "eos", "drain", "worker", "args", "null", "tcp", "ipc", "handlers",
   "unlock", "exit"}
Quiet == "terminal" \in services => thread["terminal"] \in {"none", "ended"}

(* The terminal thread has ended before the arguments are freed. *)
JoinedFirst == pc \in AfterTerminal \/ args = "freed" => Quiet

LifeInv ==
  /\ LifeTypeOK /\ EndsOnce /\ Alone /\ NothingLeased /\ Promised /\ Accounted
  /\ Playing /\ Locked /\ JoinedFirst /\ StreamsOnlyPrepared /\ NoLeaseForgotten

LEMMA LifeInitially == Init => LifeInv
BY DEF Init, Transaction!Init, LifeInv, LifeTypeOK, States, EndsOnce, Alone, BeforePlay,
       NothingLeased, Promised, Accounted, Playing, Locked, JoinedFirst, AfterTerminal, Quiet,
       StreamsOnlyPrepared, NoLeaseForgotten

-----------------------------------------------------------------------------
(* The start. *)

LEMMA StartUpKeeps == LifeInv /\ StartUp => LifeInv'
<1> SUFFICES ASSUME LifeInv, StartUp PROVE LifeInv'
    OBVIOUS
<1> USE DEF LifeInv, LifeTypeOK, States, EndsOnce, Alone, BeforePlay,
       NothingLeased, Promised, Accounted, Playing, Locked, JoinedFirst, AfterTerminal, Quiet,
       StreamsOnlyPrepared, NoLeaseForgotten, Goto, Exit,
       leaseVars, signalVars, startVars, streamVars, serviceVars
<1>1. CASE AcquireLock
      BY <1>1 DEF AcquireLock
<1>2. CASE ApplySysfs
      BY <1>2 DEF ApplySysfs
<1>3. CASE StartRtsp
      BY <1>3 DEF StartRtsp
<1>4. CASE InitBins
      BY <1>4 DEF InitBins
<1>5. CASE Prepare
      BY <1>5 DEF Prepare, Transaction!Next, Transaction!Publish, Transaction!Release,
         Transaction!CancelFails, Transaction!Report, Transaction!Return
<1>6. CASE PrepareReturns
      BY <1>6 DEF PrepareReturns, PrepareFailed, Survivors
<1>7. CASE StartAborts
      BY <1>7 DEF StartAborts
<1>8. CASE Built
      BY <1>8 DEF Built
<1>9. CASE Play
      BY <1>9 DEF Play
<1>10. ASSUME NEW c \in Csi, Build(c) PROVE LifeInv'
      BY <1>10 DEF Build
<1>11. ASSUME NEW c \in Csi, BuildFails(c) PROVE LifeInv'
      BY <1>11 DEF BuildFails, Cancelled
<1> QED  BY <1>1, <1>2, <1>3, <1>4, <1>5, <1>6, <1>7, <1>8, <1>9, <1>10, <1>11 DEF StartUp

-----------------------------------------------------------------------------
(* The main loop leaves leases, lock, pipeline, arguments and threads alone. *)

LEMMA StreamingKeeps == LifeInv /\ Streaming => LifeInv'
<1> SUFFICES ASSUME LifeInv, Streaming PROVE LifeInv'
    OBVIOUS
<1>1. /\ UNCHANGED <<leaseVars, startVars, pipeline, serviceVars>>
      /\ \/ UNCHANGED <<pc, status>>
         \/ pc' = "exited" /\ status' \in {"killed", "forced"}
         \/ pc = "loop" /\ pc' = "terminal" /\ UNCHANGED status
      BY DEF Streaming, Send, Poll, HandleTerm, HandleInt, HandleHup, BusError, BusEos,
             SinkEos, PipelineEos, LoopEnds, Dispatch, Exit, Goto, Running, leaseVars,
             startVars, streamVars, serviceVars
<1> QED
  BY <1>1 DEF LifeInv, LifeTypeOK, EndsOnce, Alone, BeforePlay, NothingLeased, Promised,
     Accounted, Playing, Locked, JoinedFirst, AfterTerminal, Quiet, StreamsOnlyPrepared,
     NoLeaseForgotten, leaseVars, startVars, serviceVars

-----------------------------------------------------------------------------
(* The end of main(). *)

(* Each step of the shutdown is followed by the next in the list. *)
LEMMA Order ==
  ASSUME NEW n \in 2..12, Done(Shutdown[n - 1])
  PROVE  pc' = Shutdown[n]
<1>1. Len(Shutdown) = 12
      BY DEF Shutdown
<1>2. \A i \in 2..12 : Shutdown[i - 1] = Shutdown[n - 1] => i = n
      BY DEF Shutdown
<1>3. (CHOOSE i \in 2 .. Len(Shutdown) : Shutdown[i - 1] = Shutdown[n - 1]) = n
      BY <1>1, <1>2
<1> QED  BY <1>3 DEF Done, Goto

LEMMA Follows ==
  /\ Done("terminal") => pc' = "rtsp"
  /\ Done("rtsp") => pc' = "eos"
  /\ Done("eos") => pc' = "drain"
  /\ Done("drain") => pc' = "worker"
  /\ Done("worker") => pc' = "args"
  /\ Done("args") => pc' = "null"
  /\ Done("null") => pc' = "tcp"
  /\ Done("tcp") => pc' = "ipc"
  /\ Done("ipc") => pc' = "handlers"
  /\ Done("handlers") => pc' = "unlock"
  /\ Done("unlock") => pc' = "exit"
<1>1. \A n \in 2..12 : Done(Shutdown[n - 1]) => pc' = Shutdown[n]
      BY Order
<1>2. /\ Shutdown[1] = "terminal" /\ Shutdown[2] = "rtsp" /\ Shutdown[3] = "eos"
      /\ Shutdown[4] = "drain" /\ Shutdown[5] = "worker" /\ Shutdown[6] = "args"
      /\ Shutdown[7] = "null" /\ Shutdown[8] = "tcp" /\ Shutdown[9] = "ipc"
      /\ Shutdown[10] = "handlers" /\ Shutdown[11] = "unlock" /\ Shutdown[12] = "exit"
      BY DEF Shutdown
<1> QED  BY <1>1, <1>2

LEMMA MainEndKeeps == LifeInv /\ MainEnd => LifeInv'
<1> SUFFICES ASSUME LifeInv, MainEnd PROVE LifeInv'
    OBVIOUS
<1> USE Follows DEF LifeInv, LifeTypeOK, EndsOnce, Alone, BeforePlay,
       NothingLeased, Promised, Accounted, Playing, Locked, JoinedFirst, AfterTerminal, Quiet,
       StreamsOnlyPrepared, NoLeaseForgotten
<1>1. ASSUME NEW step, Done(step)
      PROVE  /\ pc = step /\ UNCHANGED status
             /\ UNCHANGED <<leaseVars, next_csi, enabled, kept, app_exit_code, services, thread>>
      BY <1>1 DEF Done, Goto, leaseVars
<1>2. CASE JoinTerminal
      BY <1>1, <1>2 DEF JoinTerminal, TerminalJoined, leaseVars
<1>3. CASE StopServer
      BY <1>1, <1>3 DEF StopServer, leaseVars
<1>4. CASE EndStream
      BY <1>1, <1>4 DEF EndStream, leaseVars
<1>5. CASE Drain
      BY <1>1, <1>5 DEF Drain, leaseVars
<1>6. CASE FreeArgs
      BY <1>1, <1>6 DEF FreeArgs, leaseVars
<1>7. CASE SetNull
      BY <1>1, <1>7 DEF SetNull, leaseVars
<1>8. CASE DestroyTcp
      BY <1>1, <1>8 DEF DestroyTcp, leaseVars
<1>9. CASE DestroyIpc
      BY <1>1, <1>9 DEF DestroyIpc, leaseVars, Exit
<1>10. CASE RemoveSignalHandler
      BY <1>1, <1>10 DEF RemoveSignalHandler, leaseVars
<1>11. CASE Unlock
      BY <1>1, <1>11 DEF Unlock, leaseVars
<1>12. CASE Return
      BY <1>12 DEF Return, leaseVars, startVars, streamVars, serviceVars, Exit
<1> QED  BY <1>2, <1>3, <1>4, <1>5, <1>6, <1>7, <1>8, <1>9, <1>10, <1>11, <1>12 DEF MainEnd

-----------------------------------------------------------------------------
(* The other threads, and the driver. *)

LEMMA ServeKeeps ==
  ASSUME LifeInv, NEW s \in services, Serve(s)
  PROVE  LifeInv'
<1>1. /\ UNCHANGED <<leaseVars, pc, status, startVars, pipeline, services, args>>
      /\ status = "none" /\ thread[s] \in {"idle", "parsing", "polled"}
      /\ \E state \in States : thread' = [thread EXCEPT ![s] = state]
      BY DEF Serve, Receive, Parsed, Look, States, streamVars
<1>2. LifeTypeOK'
      BY <1>1 DEF LifeInv, LifeTypeOK, leaseVars, startVars
<1>3. Quiet => UNCHANGED thread["terminal"]
      BY <1>1 DEF Quiet, LifeInv, LifeTypeOK
<1>4. pc \notin BeforePlay
      BY <1>1 DEF LifeInv, Alone
<1> QED
  BY <1>1, <1>2, <1>3, <1>4 DEF LifeInv, EndsOnce, Alone, BeforePlay, NothingLeased, Promised,
     Accounted, Playing, Locked, JoinedFirst, AfterTerminal, Quiet, StreamsOnlyPrepared,
     NoLeaseForgotten, leaseVars, startVars

LEMMA ExpiryKeeps == LifeInv /\ LeaseExpires => LifeInv'
BY DEF LeaseExpires, Transaction!Release, LifeInv, LifeTypeOK, EndsOnce, Alone, BeforePlay,
       NothingLeased, Promised, Accounted, Playing, Locked, JoinedFirst, AfterTerminal, Quiet,
       StreamsOnlyPrepared, NoLeaseForgotten, startVars, streamVars, serviceVars

LEMMA LifeNext == LifeInv /\ [Next]_lifecycleVars => LifeInv'
<1> SUFFICES ASSUME LifeInv, [Next]_lifecycleVars PROVE LifeInv'
    OBVIOUS
<1>1. CASE UNCHANGED lifecycleVars
      BY <1>1 DEF lifecycleVars, LifeInv, LifeTypeOK, EndsOnce, Alone, BeforePlay,
       NothingLeased, Promised, Accounted, Playing, Locked, JoinedFirst, AfterTerminal, Quiet,
       StreamsOnlyPrepared, NoLeaseForgotten, leaseVars, startVars, streamVars, serviceVars
<1> QED  BY <1>1, StartUpKeeps, StreamingKeeps, MainEndKeeps, ServeKeeps, ExpiryKeeps DEF Next

(* Leases, lock, threads and main()'s place are as the invariant says, for *)
(* any number of domains and signals.                                      *)
THEOREM LifeInvariant == Spec => []LifeInv
BY LifeInitially, LifeNext, PTL DEF Spec

(* The pipeline plays only after a preparation that did not fail, without  *)
(* the domains it refused (main.cpp 1122-1151).                            *)
THEOREM OnlyPrepared == Spec => []StreamsOnlyPrepared
<1>1. LifeInv => StreamsOnlyPrepared
      BY DEF LifeInv
<1> QED  BY <1>1, LifeInvariant, PTL

(* Every lease of a process that streams is consumed, or a cancel of it    *)
(* has failed (main.cpp 1171-1183).                                        *)
THEOREM LeasesAccounted == Spec => []NoLeaseForgotten
<1>1. LifeInv => NoLeaseForgotten
      BY DEF LifeInv
<1> QED  BY <1>1, LifeInvariant, PTL

(* The owner lock outlasts the pipeline, and the arguments of the commands *)
(* the terminal thread (main.cpp 990-995, 1550-1554, 1621, 1661).          *)
THEOREM ValidWhileUsed == Spec => []UsedWhileValid
<1>1. LifeInv => UsedWhileValid
  <2> SUFFICES ASSUME LifeInv PROVE UsedWhileValid
      OBVIOUS
  <2>1. pc = "prepare" \/ pipeline = "playing" => lock \/ status # "none"
        BY DEF LifeInv, Playing, Locked, EndsOnce
  <2>2. thread \in [services -> States] /\ args \in {"live", "freed"}
        BY DEF LifeInv, LifeTypeOK
  <2>3. ASSUME "terminal" \in services, thread["terminal"] = "parsing" PROVE args = "live"
        BY <2>2, <2>3 DEF LifeInv, JoinedFirst, Quiet
  <2> QED  BY <2>1, <2>3 DEF UsedWhileValid
<1> QED  BY <1>1, LifeInvariant, PTL

=============================================================================
