----------------------------- MODULE Lifecycle -----------------------------
(***************************************************************************)
(* main() of the application from the owner lock to the end of the         *)
(* process: the start-up passes over the CSI domains, with the prepare     *)
(* transaction among them, the main loop with its signal handlers, the     *)
(* shutdown sequence at main_end, and the terminal, TCP and IPC threads    *)
(* that use the thread arguments meanwhile.                                *)
(*                                                                         *)
(* The prepare transaction is the abstract one, LeaseTransaction, which    *)
(* Max9296Prepare implements; a lease may also run out at any moment.      *)
(***************************************************************************)
EXTENDS Naturals, FiniteSets, Sequences, Functions

CONSTANTS
  Csi,             \* the CSI domains
  Configurations,  \* the sets of services that cmdArg may enable
  MaxSignals       \* bound on the number of signals the process is sent

ASSUME LifecycleAssumption ==
  /\ IsFiniteSet(Csi)
  /\ Configurations \subseteq SUBSET {"terminal", "tcp", "ipc"}
  /\ MaxSignals \in Nat

VARIABLES
  outcome, held, failed, stuck,   \* of the prepare transaction
  pc,               \* where main() is
  next_csi,         \* the domains whose bins are still to be built
  enabled,          \* the domains with an enabled channel
  kept,             \* the disabled domains whose lease cancel failed
  lock,             \* the owner lock is held
  app_exit_code,
  status,           \* how the process ended, "none" while it runs
  pipeline,         \* "null" or "playing"
  eos,              \* where the end of stream is: see Eos
  is_interrupted,
  quit,             \* the main loop has been told to quit
  handlers,         \* the signals that have a handler
  pending,          \* the signals delivered and not yet dispatched
  ready,            \* what this iteration of the main loop dispatches
  sent,             \* history: signals sent to the process
  services,         \* the services enabled
  thread,           \* what each service's thread does
  destroyed,        \* m_flagDestroy of the TCP and IPC servers
  args              \* threadArgs: "live" or "freed"

leaseVars == <<outcome, held, failed, stuck>>
signalVars == <<handlers, pending, ready, sent>>
startVars == <<next_csi, enabled, kept, lock, app_exit_code>>
streamVars == <<pipeline, eos, is_interrupted, quit>>
serviceVars == <<services, thread, destroyed, args>>
lifecycleVars == <<leaseVars, pc, startVars, status, streamVars, signalVars,
                   serviceVars>>

Transaction == INSTANCE LeaseTransaction WITH Domains <- Csi

Signals == {"TERM", "INT", "HUP"}

(* The EOS event enters the pipeline, reaches a mux sink, is posted on the *)
(* bus by the pipeline, and is taken from the bus (g_eos_msg_seen).        *)
Eos == {"none", "sent", "sunk", "posted", "seen"}

(* slip: the owner lock is given back before the pipeline stops *)
ShutdownUnlockFirst ==
  <<"terminal", "rtsp", "eos", "drain", "worker", "args", "unlock", "null",
    "tcp", "ipc", "handlers", "exit">>

(* The steps of main() from main_end on, in their order. *)
Shutdown ==
  <<"terminal", "rtsp", "eos", "drain", "worker", "args", "null", "tcp",
    "ipc", "handlers", "unlock", "exit">>

Init ==
  /\ Transaction!Init
  /\ pc = "lock"
  /\ enabled \in SUBSET Csi
  /\ next_csi = {} /\ kept = {}
  /\ lock = FALSE
  /\ app_exit_code = "success" /\ status = "none"
  /\ pipeline = "null" /\ eos = "none"
  /\ is_interrupted = FALSE /\ quit = FALSE
  /\ handlers = {} /\ pending = {} /\ ready = {} /\ sent = 0
  /\ services \in Configurations
  /\ thread = [s \in services |-> "none"]
  /\ destroyed = {}
  /\ args = "live"

Goto(label) == pc' = label /\ UNCHANGED status

(* The process ends: the kernel releases the lock. *)
Exit(code) == status' = code /\ pc' = "exited"

-----------------------------------------------------------------------------
(* Start-up *)

AcquireLock ==
  /\ pc = "lock"
  /\ \/ lock' = TRUE /\ Goto("sysfs")
     \/ Exit("failure") /\ UNCHANGED lock
  /\ UNCHANGED <<leaseVars, next_csi, enabled, kept, app_exit_code,
                 streamVars, signalVars, serviceVars>>

(* On failure the lock is given back and main() returns. *)
ApplySysfs ==
  /\ pc = "sysfs"
  /\ \/ handlers' = Signals /\ Goto("rtsp-start") /\ UNCHANGED lock
     \/ lock' = FALSE /\ Exit("failure") /\ UNCHANGED handlers
  /\ UNCHANGED <<leaseVars, next_csi, enabled, kept, app_exit_code,
                 streamVars, pending, ready, sent,
                 serviceVars>>

StartRtsp ==
  /\ pc = "rtsp-start"
  /\ Goto("init") \/ Goto("terminal")
  /\ UNCHANGED <<leaseVars, startVars, streamVars, signalVars, serviceVars>>

(* A domain whose driver controls cannot be applied is disabled. *)
InitBins ==
  /\ pc = "init"
  /\ enabled' \in SUBSET enabled
  /\ Goto("prepare")
  /\ UNCHANGED <<leaseVars, next_csi, kept, lock, app_exit_code, streamVars,
                 signalVars, serviceVars>>

(* Only an enabled domain takes part, and a partial outcome has survivors. *)
Prepare ==
  /\ pc = "prepare"
  /\ outcome = "none"
  /\ Transaction!Next
  /\ held' \cup failed' \cup stuck' \subseteq enabled
  /\ outcome' = "PARTIAL" => failed' # enabled
  /\ UNCHANGED <<pc, status, startVars, streamVars, signalVars, serviceVars>>

PrepareFailed == app_exit_code' = "failure" /\ Goto("terminal")

(* slip: a domain that was refused is built all the same *)
AllEnabled == enabled
Survivors == IF outcome = "PARTIAL" THEN enabled \ failed ELSE enabled

PrepareReturns ==
  /\ pc = "prepare"
  /\ outcome # "none"
  /\ IF outcome = "FAIL"
     THEN PrepareFailed /\ UNCHANGED <<enabled, next_csi>>
     ELSE /\ enabled' = Survivors
          /\ next_csi' = enabled'
          /\ Goto("build")
          /\ UNCHANGED app_exit_code
  /\ UNCHANGED <<leaseVars, kept, lock, streamVars, signalVars, serviceVars>>

Build(c) ==
  /\ pc = "build"
  /\ c \in next_csi
  /\ next_csi' = next_csi \ {c}
  /\ UNCHANGED <<leaseVars, pc, status, enabled, kept, lock, app_exit_code,
                 streamVars, signalVars, serviceVars>>

(* slip: the lease is left to the driver's timer *)
Abandoned(c) == held' = held /\ kept' = kept
Cancelled(c) ==
  \/ held' = held \ {c} /\ kept' = kept
  \/ held' \in {held, held \ {c}} /\ kept' = kept \cup {c}

(* VideoBin::build() fails: the domain is disabled and its lease, if this  *)
(* process owns one, cancelled.                                            *)
BuildFails(c) ==
  /\ pc = "build"
  /\ c \in next_csi
  /\ next_csi' = next_csi \ {c}
  /\ enabled' = enabled \ {c}
  /\ Cancelled(c)
  /\ UNCHANGED <<outcome, failed, stuck, pc, status, lock, app_exit_code,
                 streamVars, signalVars, serviceVars>>

(* Any other bin that cannot be built or linked ends the start-up, and so  *)
(* does a pipeline that will not go to PLAYING.                            *)
StartAborts ==
  /\ pc \in {"build", "play"}
  /\ Goto("terminal")
  /\ UNCHANGED <<leaseVars, startVars, streamVars, signalVars, serviceVars>>

Built ==
  /\ pc = "build"
  /\ next_csi = {}
  /\ Goto("play")
  /\ UNCHANGED <<leaseVars, startVars, streamVars, signalVars, serviceVars>>

(* PLAYING: V4L2 takes the leases of the streaming domains over. *)
Play ==
  /\ pc = "play"
  /\ pipeline' = "playing"
  /\ held' = held \ enabled
  /\ thread' = [s \in services |-> "idle"]
  /\ Goto("loop")
  /\ UNCHANGED <<outcome, failed, stuck, startVars, eos, is_interrupted,
                 quit, signalVars, services, destroyed, args>>

StartUp ==
  \/ AcquireLock \/ ApplySysfs \/ StartRtsp \/ InitBins \/ Prepare
  \/ PrepareReturns \/ StartAborts \/ Built \/ Play
  \/ \E c \in Csi : Build(c) \/ BuildFails(c)

-----------------------------------------------------------------------------
(* The main loop *)

(* The kernel ends a process that has no handler for the signal. *)
Send(s) ==
  /\ status = "none"
  /\ sent < MaxSignals
  /\ sent' = sent + 1
  /\ IF s \in handlers
     THEN pending' = pending \cup {s} /\ UNCHANGED <<pc, status>>
     ELSE Exit("killed") /\ UNCHANGED pending
  /\ UNCHANGED <<leaseVars, startVars, streamVars, handlers, ready,
                 serviceVars>>

(* An iteration of the loop: the sources found ready are all dispatched,   *)
(* also those that come after one that quits the loop. An element may have *)
(* posted an error.                                                        *)
Poll ==
  /\ pc = "loop" /\ ready = {} /\ ~quit
  /\ \E bus \in {{}, {"ERROR"}} :
       ready' = pending \cup bus
                \cup (IF eos = "posted" THEN {"EOS"} ELSE {})
  /\ UNCHANGED <<leaseVars, pc, status, startVars, streamVars, handlers,
                 pending, sent, serviceVars>>

Dispatch(source) ==
  /\ pc = "loop"
  /\ source \in ready
  /\ ready' = ready \ {source}
  /\ pending' = pending \ {source}
  /\ UNCHANGED <<leaseVars, startVars, pipeline, sent, serviceVars>>

SendEos == eos' = IF eos = "none" THEN "sent" ELSE eos

Running == UNCHANGED <<pc, status>>

HandleTerm ==
  /\ Dispatch("TERM")
  /\ UNCHANGED handlers
  /\ IF is_interrupted
     THEN Exit("forced") /\ UNCHANGED <<eos, is_interrupted, quit>>
     ELSE is_interrupted' = TRUE /\ SendEos /\ quit' = TRUE /\ Running

(* slip: the handler leaves the flag to the end of stream *)
Unmarked == UNCHANGED is_interrupted
Marked == is_interrupted' = TRUE

(* The handler removes itself: a second SIGINT ends the process. *)
HandleInt ==
  /\ Dispatch("INT")
  /\ handlers' = handlers \ {"INT"}
  /\ Marked /\ SendEos /\ quit' = TRUE /\ Running

HandleHup ==
  /\ Dispatch("HUP")
  /\ SendEos /\ Running
  /\ UNCHANGED <<handlers, is_interrupted, quit>>

BusError ==
  /\ Dispatch("ERROR")
  /\ SendEos /\ Running
  /\ UNCHANGED <<handlers, is_interrupted, quit>>

BusEos ==
  /\ Dispatch("EOS")
  /\ eos' = "seen" /\ is_interrupted' = TRUE /\ quit' = TRUE /\ Running
  /\ UNCHANGED handlers

(* The EOS event passes the probe of a mux sink. *)
SinkEos ==
  /\ status = "none"
  /\ pipeline = "playing" /\ eos = "sent"
  /\ eos' = "sunk" /\ is_interrupted' = TRUE
  /\ UNCHANGED <<leaseVars, pc, status, startVars, pipeline, quit, signalVars,
                 serviceVars>>

PipelineEos ==
  /\ status = "none"
  /\ pipeline = "playing" /\ eos \in {"sent", "sunk"}
  /\ eos' = "posted"
  /\ UNCHANGED <<leaseVars, pc, status, startVars, pipeline, is_interrupted,
                 quit, signalVars, serviceVars>>

LoopEnds ==
  /\ pc = "loop" /\ quit /\ ready = {}
  /\ Goto("terminal")
  /\ UNCHANGED <<leaseVars, startVars, streamVars, signalVars, serviceVars>>

Streaming ==
  \/ \E s \in Signals : Send(s)
  \/ Poll \/ HandleTerm \/ HandleInt \/ HandleHup \/ BusError \/ BusEos
  \/ SinkEos \/ PipelineEos \/ LoopEnds

-----------------------------------------------------------------------------
(* The end of main() *)

(* Step "step" of the shutdown is over. *)
Done(step) ==
  /\ pc = step
  /\ Goto(Shutdown[CHOOSE i \in 2 .. Len(Shutdown) : Shutdown[i - 1] = step])
  /\ UNCHANGED <<outcome, held, failed, stuck, next_csi, enabled, kept,
                 app_exit_code, is_interrupted, quit, pending, ready,
                 sent, services, thread>>

TerminalJoined == "terminal" \in services => thread["terminal"] \in {"none", "ended"}

JoinTerminal ==
  /\ TerminalJoined
  /\ Done("terminal")
  /\ UNCHANGED <<lock, pipeline, eos, handlers, destroyed, args>>

StopServer ==
  /\ \E step \in {"rtsp", "worker"} : Done(step)
  /\ UNCHANGED <<lock, pipeline, eos, handlers, destroyed, args>>

EndStream ==
  /\ Done("eos")
  /\ eos' = IF eos = "none" /\ pipeline = "playing" THEN "sent" ELSE eos
  /\ UNCHANGED <<lock, pipeline, handlers, destroyed, args>>

(* The wait ends with the EOS message or with its time budget. *)
Drain ==
  /\ Done("drain")
  /\ \/ eos = "posted" /\ eos' = "seen"
     \/ UNCHANGED eos
  /\ UNCHANGED <<lock, pipeline, handlers, destroyed, args>>

FreeArgs ==
  /\ Done("args")
  /\ args' = "freed"
  /\ UNCHANGED <<lock, pipeline, eos, handlers, destroyed>>

SetNull ==
  /\ Done("null")
  /\ pipeline' = "null"
  /\ UNCHANGED <<lock, eos, handlers, destroyed, args>>

(* The TCP threads are told, and not waited for. *)
DestroyTcp ==
  /\ Done("tcp")
  /\ destroyed' = destroyed \cup ({"tcp"} \cap services)
  /\ UNCHANGED <<lock, pipeline, eos, handlers, args>>

IpcJoined == thread["ipc"] \in {"none", "ended"}

(* The IPC thread is told and waited for, and then destroy() itself ends   *)
(* the process.                                                            *)
DestroyIpc ==
  /\ pc = "ipc"
  /\ \/ /\ "ipc" \notin services
        /\ Done("ipc")
        /\ UNCHANGED destroyed
     \/ /\ "ipc" \in services \ destroyed
        /\ destroyed' = destroyed \cup {"ipc"}
        /\ UNCHANGED <<leaseVars, pc, status, next_csi, enabled, kept,
                       app_exit_code, is_interrupted, quit, pending, ready,
                       sent, services, thread>>
     \/ /\ "ipc" \in services \cap destroyed
        /\ IpcJoined
        /\ Exit("success")
        /\ UNCHANGED <<leaseVars, next_csi, enabled, kept, app_exit_code,
                       is_interrupted, quit, pending, ready, sent,
                       services, thread, destroyed>>
  /\ UNCHANGED <<lock, pipeline, eos, handlers, args>>

RemoveSignalHandler ==
  /\ Done("handlers")
  /\ handlers' = {}
  /\ UNCHANGED <<lock, pipeline, eos, destroyed, args>>

Unlock ==
  /\ Done("unlock")
  /\ lock' = FALSE
  /\ UNCHANGED <<pipeline, eos, handlers, destroyed, args>>

Return ==
  /\ pc = "exit"
  /\ Exit(app_exit_code)
  /\ UNCHANGED <<leaseVars, startVars, streamVars, signalVars, serviceVars>>

MainEnd ==
  \/ JoinTerminal \/ StopServer \/ EndStream \/ Drain \/ FreeArgs \/ SetNull
  \/ DestroyTcp \/ DestroyIpc \/ RemoveSignalHandler \/ Unlock \/ Return

-----------------------------------------------------------------------------
(* The terminal, TCP and IPC threads *)

Told(s) == IF s = "terminal" THEN is_interrupted ELSE s \in destroyed

(* A command arrives and is parsed with the thread arguments. *)
Receive(s) ==
  /\ status = "none"
  /\ thread[s] = "idle"
  /\ thread' = [thread EXCEPT ![s] = "parsing"]
  /\ UNCHANGED <<leaseVars, pc, status, startVars, streamVars, signalVars,
                 services, destroyed, args>>

Parsed(s) ==
  /\ status = "none"
  /\ thread[s] = "parsing"
  /\ thread' = [thread EXCEPT ![s] = "polled"]
  /\ UNCHANGED <<leaseVars, pc, status, startVars, streamVars, signalVars,
                 services, destroyed, args>>

(* The top of the loop: the flag is looked at before the next command. *)
Look(s) ==
  /\ status = "none"
  /\ thread[s] \in {"polled", "idle"}
  /\ thread' = [thread EXCEPT ![s] = IF Told(s) THEN "ended" ELSE "idle"]
  /\ UNCHANGED <<leaseVars, pc, status, startVars, streamVars, signalVars,
                 services, destroyed, args>>

Serve(s) == Receive(s) \/ Parsed(s) \/ Look(s)

(* The driver's timer ends a lease nobody has taken over. *)
LeaseExpires ==
  /\ status = "none"
  /\ outcome # "none"
  /\ \E c \in held : Transaction!Release(c)
  /\ UNCHANGED <<pc, status, startVars, streamVars, signalVars, serviceVars>>

Next ==
  \/ StartUp \/ Streaming \/ MainEnd \/ LeaseExpires
  \/ \E s \in services : Serve(s)

(* The main thread runs, and so do the terminal and IPC threads, which     *)
(* poll; the TCP thread may wait in select() for ever. Nothing is assumed  *)
(* of the elements of the pipeline.                                        *)
Fairness ==
  /\ WF_lifecycleVars(MainEnd \/ LoopEnds)
  /\ WF_lifecycleVars(HandleTerm \/ HandleInt \/ HandleHup \/ BusError \/ BusEos)
  /\ \A s \in {"terminal", "ipc"} :
       /\ WF_lifecycleVars(s \in services /\ Parsed(s))
       /\ WF_lifecycleVars(s \in services /\ Look(s))

Spec == Init /\ [][Next]_lifecycleVars /\ Fairness

-----------------------------------------------------------------------------
(* Properties *)

(* The pipeline plays only after a preparation that did not fail, and      *)
(* without the domains it refused (main.cpp 1122-1151).                    *)
StreamsOnlyPrepared ==
  pipeline = "playing" => /\ outcome \notin {"none", "FAIL"}
                          /\ enabled \cap failed = {}

(* Once the pipeline plays, no lease of this process is left that nobody   *)
(* will consume, unless a cancel was tried and failed: the domains that    *)
(* were refused and those that could not be built gave theirs back         *)
(* (main.cpp 1171-1183).                                                   *)
NoLeaseForgotten == pipeline = "playing" => held \subseteq stuck \cup kept

(* What the threads of this process use outlives its use: the owner lock   *)
(* is held while the preparation runs and while the pipeline plays, so     *)
(* that a second instance does neither beside this one (990-995, 1661),    *)
(* and the terminal thread, which is joined first, parses no command with  *)
(* arguments that have been freed (1550-1554, 1621).                       *)
UsedWhileValid ==
  /\ pc = "prepare" \/ pipeline = "playing" => lock \/ status # "none"
  /\ "terminal" \in services /\ thread["terminal"] = "parsing" => args = "live"

(* Whatever told the main loop to quit, the process ends: no join of the   *)
(* shutdown waits for ever.                                                *)
QuitEnds == quit ~> status # "none"

(* "Prepare failure must set a non-zero process exit status": a process    *)
(* that failed does not report success to its supervisor.                  *)
ExitTellsFailure == status = "success" => outcome # "FAIL"

=============================================================================
