-------------------------- MODULE CaptureRequests --------------------------
(***************************************************************************)
(* The capture requests of one channel, captureBin.cpp: clients queue      *)
(* requests for a number of frames, frames flow through the valve, appsrc  *)
(* and the encoder to on_new_sample_to_file(), which attributes each to a  *)
(* request, a worker thread writes the files, and a request is answered    *)
(* once: by the worker with its last file, or by checkTimeout().  With the *)
(* PNG encoder the frames of a request are first collected, then fed to    *)
(* the encoder by a feeder thread.                                         *)
(*                                                                         *)
(* queue_mutex is held for one step, except by stopCapture(), which joins  *)
(* the feeder under it.  Time is left out: a request whose timeout is      *)
(* finite may expire at any moment.  A frame is the request it was taken   *)
(* for, or Live when it is whatever the camera delivered.                  *)
(***************************************************************************)
EXTENDS Naturals, Sequences, FiniteSets

CONSTANTS
  Clients,        \* the threads that may call: IPC and TCP
  MaxRequests,    \* bound on the requests ever made
  Counts,         \* the frame counts asked for
  Modes,          \* the configurations to be looked at: see mode
  QueueLimit,     \* cmdArg.cap.queue_size
  CopyMayFail     \* gst_buffer_copy_deep() and its fallback may fail

ASSUME CaptureAssumption ==
  /\ MaxRequests \in Nat /\ QueueLimit \in Nat \ {0}
  /\ Counts \subseteq Nat \ {0}
  /\ Modes \subseteq [png : BOOLEAN, instant : BOOLEAN, fails : BOOLEAN,
                       callers : SUBSET Clients, chain : Nat]
  /\ CopyMayFail \in BOOLEAN

Requests == 1..MaxRequests
None == 0
Live == 0
Feeders == 1..2      \* bound on the feeder threads alive at once

VARIABLES
  mode,             \* png: enc_type = CAP_ENC_PNG; instant: cap_instant_enabled();
                    \* fails: a file may fail to be encoded or written;
                    \* callers: the clients there are; chain: a bound on the
                    \* frames collected or in the encoder chain
  asked,            \* maxCnt of each request made so far
  continuous,       \* the requests of mode 2, whose timeout is G_MAXINT
  files,            \* the files written, by request and index
  captureCnt,       \* files written of each request
  timed_out,
  answers,          \* history: the counts sent as a request's answer
  stopped,          \* history: the requests stopCapture() threw away
  request_queue,
  current_request,
  pushed,           \* captureCnt_ and push_index of the current request
  task_queue,
  worker,           \* "idle", "writing", "next" (about to start buffering)
  task,             \* the task the worker holds
  valve,            \* TRUE: open
  chain,            \* the frames in appsrc, the encoder and appsink
  collecting,       \* the source thread saw a buffering target, unlocked
  buffering_active, buffering_req,
  buffers,          \* buffering_buffers
  feeder,           \* where each feeder thread is
  carried,          \* the frame it has popped
  handle,           \* buffering_feeder_thread
  feeder_running,   \* buffering_feeder_running
  at,               \* where each client is in stopCapture()
  crashed           \* a null buffering_req was dereferenced

requestVars == <<asked, continuous, answers, timed_out, stopped>>
fileVars == <<files, captureCnt, worker, task>>
queueVars == <<request_queue, current_request, pushed>>
bufferVars == <<buffering_active, buffering_req, buffers>>
feederVars == <<feeder, carried, handle, feeder_running>>
captureVars == <<requestVars, fileVars, queueVars, task_queue, valve, chain,
                 collecting, bufferVars, feederVars, at, crashed>>

Png == mode.png
Made == DOMAIN asked
NoTask == [req |-> None, index |-> 0, frame |-> Live]

Init ==
  /\ mode \in Modes
  /\ asked = <<>> /\ continuous = {}
  /\ files = {} /\ captureCnt = [r \in Requests |-> 0]
  /\ timed_out = {} /\ stopped = {}
  /\ answers = [r \in Requests |-> <<>>]
  /\ request_queue = <<>> /\ current_request = None /\ pushed = 0
  /\ task_queue = <<>> /\ worker = "idle" /\ task = NoTask
  /\ valve = FALSE /\ chain = <<>> /\ collecting = FALSE
  /\ buffering_active = FALSE /\ buffering_req = None /\ buffers = <<>>
  /\ feeder = [f \in Feeders |-> "none"]
  /\ carried = [f \in Feeders |-> Live]
  /\ handle = None /\ feeder_running = FALSE
  /\ at = [c \in Clients |-> "idle"]
  /\ crashed = FALSE

MutexFree == \A c \in Clients : at[c] # "joining"

(* responseSent: the first of the worker and the timeout answers. *)
Answer(counts) ==
  answers' = [r \in Requests |->
                IF r \in DOMAIN counts /\ answers[r] = <<>>
                THEN <<counts[r]>> ELSE answers[r]]

StartBuffering(r) ==
  /\ buffering_active' = TRUE
  /\ buffering_req' = r
  /\ buffers' = <<>>

-----------------------------------------------------------------------------
(* The clients: cfi_parser() on the IPC thread, commands on the TCP one. *)

(* An injected frame may be missing, or refused by appsrc. *)
Injected(r) ==
  IF /\ mode.instant /\ ~Png
     /\ asked'[r] = 1 /\ r \notin continuous'
     /\ current_request = None /\ request_queue = <<>>
  THEN {chain, Append(chain, r)} ELSE {chain}

AddCaptureRequest(c, count, unbounded) ==
  LET r == Len(asked) + 1 IN
  /\ at[c] = "idle" /\ MutexFree
  /\ r \in Requests
  /\ asked' = Append(asked, count)
  /\ continuous' = IF unbounded THEN continuous \cup {r} ELSE continuous
  /\ chain' \in Injected(r)
  /\ request_queue' = Append(request_queue, r)
  /\ valve' = TRUE
  /\ IF Png /\ count > 1 /\ ~buffering_active /\ current_request = None
     THEN StartBuffering(r)
     ELSE UNCHANGED bufferVars
  /\ UNCHANGED <<answers, timed_out, stopped, fileVars, current_request,
                 pushed, task_queue, collecting, feederVars, at, crashed>>

(* The valve is closed before the mutex is taken. *)
StopCloses(c) ==
  /\ at[c] = "idle"
  /\ at' = [at EXCEPT ![c] = "stopping"]
  /\ valve' = FALSE
  /\ UNCHANGED <<requestVars, fileVars, queueVars, task_queue, chain,
                 collecting, bufferVars, feederVars, crashed>>

StopClears(c) ==
  /\ at[c] = "stopping" /\ MutexFree
  /\ at' = [at EXCEPT ![c] = "joining"]
  /\ stopped' = stopped \cup {r \in Made :
       r = current_request \/ \E i \in DOMAIN request_queue : r = request_queue[i]}
  /\ current_request' = None
  /\ request_queue' = <<>>
  /\ buffering_active' = FALSE
  /\ buffering_req' = None
  /\ feeder_running' = FALSE
  /\ UNCHANGED <<asked, continuous, answers, timed_out, fileVars, pushed,
                 task_queue, valve, chain, collecting, buffers, feeder,
                 carried, handle, crashed>>

(* slip: a thread that was never started is joined *)
JoinableOnlyStarted == handle # None /\ feeder[handle] = "none"
Joinable == handle # None => feeder[handle] = "none"

(* The feeder is joined with the mutex still held. *)
StopJoins(c) ==
  /\ at[c] = "joining"
  /\ Joinable
  /\ at' = [at EXCEPT ![c] = "idle"]
  /\ handle' = None
  /\ buffers' = <<>>
  /\ UNCHANGED <<requestVars, fileVars, queueVars, task_queue, valve, chain,
                 collecting, buffering_active, buffering_req, feeder, carried,
                 feeder_running, crashed>>

StopCapture(c) == StopCloses(c) \/ StopClears(c) \/ StopJoins(c)

-----------------------------------------------------------------------------
(* on_new_sample_from_sink(): the source's streaming thread. *)

(* A frame passes the valve; with no buffering target it goes to appsrc. *)
SourceFrame ==
  /\ valve /\ ~collecting
  /\ Len(chain) + Len(buffers) < mode.chain
  /\ IF buffering_active /\ buffering_req # None
     THEN /\ collecting' = TRUE
          /\ UNCHANGED chain
     ELSE /\ chain' = Append(chain, Live)
          /\ UNCHANGED collecting
  /\ UNCHANGED <<requestVars, fileVars, queueVars, task_queue, valve,
                 bufferVars, feederVars, at, crashed>>

(* Not due yet at the collection's fixed cadence. *)
SkipFrame ==
  /\ collecting /\ MutexFree
  /\ collecting' = FALSE
  /\ UNCHANGED <<requestVars, fileVars, queueVars, task_queue, valve, chain,
                 bufferVars, feederVars, at, crashed>>

StartFeeder ==
  IF feeder_running
  THEN UNCHANGED feederVars
  ELSE \E f \in Feeders :
         /\ feeder[f] = "none"
         /\ \A g \in Feeders : g < f => feeder[g] # "none"
         /\ feeder' = [feeder EXCEPT ![f] = "loop"]
         /\ handle' = f
         /\ feeder_running' = TRUE
         /\ UNCHANGED carried

(* The frame is copied; the last one of the request starts the feeder.     *)
CollectFrame ==
  /\ collecting /\ MutexFree
  /\ buffering_req # None
  /\ collecting' = FALSE
  /\ buffers' = Append(buffers, buffering_req)
  /\ IF Len(buffers') >= asked[buffering_req]
     THEN /\ buffering_active' = FALSE
          /\ valve' = FALSE
          /\ StartFeeder
     ELSE UNCHANGED <<buffering_active, valve, feederVars>>
  /\ UNCHANGED <<requestVars, fileVars, queueVars, task_queue, chain,
                 buffering_req, at, crashed>>

(* buffering_req->maxCnt with buffering_req null: cleared by another       *)
(* thread since the unlocked test, or just now because the copy failed.    *)
CollectCrashes ==
  /\ collecting /\ MutexFree
  /\ buffering_req = None \/ CopyMayFail
  /\ crashed' = TRUE
  /\ UNCHANGED <<requestVars, fileVars, queueVars, task_queue, valve, chain,
                 collecting, bufferVars, feederVars, at>>

Source == SourceFrame \/ SkipFrame \/ CollectFrame \/ CollectCrashes

-----------------------------------------------------------------------------
(* buffering_feeder_thread() *)

FeederPops(f) ==
  /\ feeder[f] = "loop" /\ MutexFree
  /\ IF feeder_running /\ buffers # <<>>
     THEN /\ feeder' = [feeder EXCEPT ![f] = "push"]
          /\ carried' = [carried EXCEPT ![f] = Head(buffers)]
          /\ buffers' = Tail(buffers)
     ELSE /\ feeder' = [feeder EXCEPT ![f] = "exit"]
          /\ UNCHANGED <<carried, buffers>>
  /\ UNCHANGED <<requestVars, fileVars, queueVars, task_queue, valve, chain,
                 collecting, buffering_active, buffering_req, handle,
                 feeder_running, at, crashed>>

(* appsrc does not block.  It refuses the frame when it is flushing. *)
FeederPushes(f) ==
  /\ feeder[f] = "push"
  /\ carried' = [carried EXCEPT ![f] = Live]
  /\ \/ /\ chain' = Append(chain, carried[f])
        /\ feeder' = [feeder EXCEPT ![f] = "loop"]
     \/ /\ feeder' = [feeder EXCEPT ![f] = "exit"]
        /\ UNCHANGED chain
  /\ UNCHANGED <<requestVars, fileVars, queueVars, task_queue, valve,
                 collecting, bufferVars, handle, feeder_running, at, crashed>>

(* What is left in the buffers goes, whichever request it is for by now. *)
FeederClears(f) ==
  /\ feeder[f] = "exit" /\ MutexFree
  /\ feeder' = [feeder EXCEPT ![f] = "last"]
  /\ buffers' = <<>>
  /\ buffering_req' = None
  /\ UNCHANGED <<requestVars, fileVars, queueVars, task_queue, valve, chain,
                 collecting, buffering_active, carried, handle,
                 feeder_running, at, crashed>>

FeederEnds(f) ==
  /\ feeder[f] = "last"
  /\ feeder' = [feeder EXCEPT ![f] = "none"]
  /\ feeder_running' = FALSE
  /\ UNCHANGED <<requestVars, fileVars, queueVars, task_queue, valve, chain,
                 collecting, bufferVars, carried, handle, at, crashed>>

Feeder(f) == FeederPops(f) \/ FeederPushes(f) \/ FeederClears(f) \/ FeederEnds(f)

-----------------------------------------------------------------------------
(* on_new_sample_to_file(): the encoder's streaming thread. *)

(* The leaky queue before appsink drops a frame. *)
ChainDrops ==
  /\ chain # <<>>
  /\ chain' = Tail(chain)
  /\ UNCHANGED <<requestVars, fileVars, queueVars, task_queue, valve,
                 collecting, bufferVars, feederVars, at, crashed>>

(* The request the frame goes to, taken off the queue if there is none,    *)
(* and how many frames that request has had.                               *)
(* slip: a newer request takes over *)
ServedNewest == IF request_queue # <<>> THEN Head(request_queue)
                ELSE current_request
Served == IF current_request # None THEN current_request
          ELSE IF request_queue # <<>> THEN Head(request_queue)
          ELSE None
Pending == IF current_request # None \/ request_queue = <<>>
           THEN request_queue ELSE Tail(request_queue)
(* slip: the count is not reset *)
PushedUnreset == pushed
PushedOf == IF current_request # None THEN pushed ELSE 0

(* slip: the valve is always closed *)
NothingMore == FALSE

QueueFull == Len(task_queue) > QueueLimit
MorePending == Pending # <<>>

DropUnrequested ==
  /\ chain # <<>> /\ MutexFree
  /\ Served = None
  /\ chain' = Tail(chain)
  /\ valve' = FALSE
  /\ UNCHANGED <<requestVars, fileVars, queueVars, task_queue, collecting,
                 bufferVars, feederVars, at, crashed>>

DropQueueFull ==
  /\ chain # <<>> /\ MutexFree
  /\ Served # None
  /\ QueueFull
  /\ chain' = Tail(chain)
  /\ current_request' = Served
  /\ request_queue' = Pending
  /\ pushed' = PushedOf
  /\ UNCHANGED <<requestVars, fileVars, task_queue, valve, collecting,
                 bufferVars, feederVars, at, crashed>>

PushTask ==
  /\ chain # <<>> /\ MutexFree
  /\ Served # None
  /\ ~QueueFull
  /\ chain' = Tail(chain)
  /\ task_queue' = Append(task_queue, [req |-> Served, index |-> PushedOf,
                                       frame |-> Head(chain)])
  /\ request_queue' = Pending
  /\ pushed' = PushedOf + 1
  /\ IF PushedOf + 1 >= asked[Served]
     THEN /\ current_request' = None
          /\ valve' = (valve /\ MorePending)
     ELSE /\ current_request' = Served
          /\ UNCHANGED valve
  /\ UNCHANGED <<requestVars, fileVars, collecting, bufferVars, feederVars,
                 at, crashed>>

ToFile == DropUnrequested \/ DropQueueFull \/ PushTask

-----------------------------------------------------------------------------
(* capture_worker_thread() *)

(* slips: a timeout does not stop the writing; one file too many is awaited *)
NeverSkipped(t) == FALSE
MoreThanAsked(r, count) == count > asked[r]

Skipped(t) == t.req \in timed_out
Complete(r, count) == count >= asked[r]

(* The tasks of a request that has timed out are dropped. *)
WorkerPops ==
  /\ worker = "idle"
  /\ task_queue # <<>>
  /\ task_queue' = Tail(task_queue)
  /\ IF Skipped(Head(task_queue))
     THEN UNCHANGED <<worker, task>>
     ELSE worker' = "writing" /\ task' = Head(task_queue)
  /\ UNCHANGED <<requestVars, files, captureCnt, queueVars, valve, chain,
                 collecting, bufferVars, feederVars, at, crashed>>

WorkerWrites ==
  LET r == task.req
      count == captureCnt[r] + 1
  IN
  /\ worker = "writing"
  /\ files' = files \cup {<<r, task.index>>}
  /\ captureCnt' = [captureCnt EXCEPT ![r] = count]
  /\ IF Complete(r, count)
     THEN /\ Answer([x \in {r} |-> count])
          /\ worker' = "next"
     ELSE /\ worker' = "idle"
          /\ UNCHANGED answers
  /\ task' = NoTask
  /\ UNCHANGED <<asked, continuous, timed_out, stopped, queueVars, task_queue,
                 valve, chain, collecting, bufferVars, feederVars, at, crashed>>

WorkerFails ==
  /\ worker = "writing"
  /\ mode.fails
  /\ worker' = "idle"
  /\ task' = NoTask
  /\ UNCHANGED <<requestVars, files, captureCnt, queueVars, task_queue, valve,
                 chain, collecting, bufferVars, feederVars, at, crashed>>

(* A completed request lets the next one be collected. *)
WorkerStartsNext ==
  /\ worker = "next" /\ MutexFree
  /\ worker' = "idle"
  /\ IF /\ Png /\ ~buffering_active
        /\ current_request = None /\ request_queue # <<>>
     THEN StartBuffering(Head(request_queue)) /\ valve' = TRUE
     ELSE UNCHANGED <<bufferVars, valve>>
  /\ UNCHANGED <<requestVars, files, captureCnt, task, queueVars, task_queue,
                 chain, collecting, feederVars, at, crashed>>

Worker == WorkerPops \/ WorkerWrites \/ WorkerFails \/ WorkerStartsNext

-----------------------------------------------------------------------------
(* checkTimeout(), on the main loop: the requests in expired are found     *)
(* past their timeout.                                                     *)

Waiting == {request_queue[i] : i \in DOMAIN request_queue}

(* A queue without the members of a set, the others in their order.  (The  *)
(* provers know nothing of SelectSeq.)                                     *)
Without(queue, removed) ==
  LET kept == {i \in DOMAIN queue : queue[i] \notin removed}
      place(n) == CHOOSE i \in kept : Cardinality({k \in kept : k <= i}) = n
  IN [n \in 1..Cardinality(kept) |-> queue[place(n)]]

CheckTimeout(expired) ==
  /\ MutexFree
  /\ expired \subseteq (Waiting \cup {current_request}) \ (continuous \cup {None})
  /\ expired # {}
  /\ timed_out' = timed_out \cup expired
  /\ Answer([r \in expired |-> IF r = current_request THEN captureCnt[r] ELSE 0])
  /\ current_request' = IF current_request \in expired THEN None
                        ELSE current_request
  /\ valve' = (valve /\ ~(current_request \in expired /\ request_queue = <<>>))
  /\ request_queue' = Without(request_queue, expired)
  /\ IF buffering_req \in expired \cap Waiting
     THEN /\ buffering_active' = FALSE
          /\ buffering_req' = None
          /\ buffers' = <<>>
          /\ feeder_running' = FALSE
     ELSE UNCHANGED <<bufferVars, feeder_running>>
  /\ UNCHANGED <<asked, continuous, stopped, fileVars, pushed, task_queue,
                 chain, collecting, feeder, carried, handle, at, crashed>>

Next ==
  /\ ~crashed /\ UNCHANGED mode
  /\ \/ \E c \in mode.callers :
          \/ \E count \in Counts, unbounded \in BOOLEAN :
               AddCaptureRequest(c, count, unbounded)
          \/ StopCapture(c)
     \/ Source \/ ChainDrops \/ ToFile \/ Worker
     \/ \E f \in Feeders : Feeder(f)
     \/ \E expired \in SUBSET Requests : CheckTimeout(expired)

(***************************************************************************)
(* The threads run, and a request past its timeout is found so: the main   *)
(* loop checks every 100 ms.  A thread that finds the mutex free again and *)
(* again gets it in the end.  Nothing is assumed of the camera.            *)
(***************************************************************************)
Fairness ==
  /\ SF_captureVars(~crashed /\ Worker)
  /\ \A f \in Feeders : SF_captureVars(~crashed /\ Feeder(f))
  /\ \A c \in Clients :
       SF_captureVars(~crashed /\ (StopClears(c) \/ StopJoins(c)))
  /\ \A r \in Requests :
       SF_captureVars(~crashed /\ \E expired \in SUBSET Requests :
                        r \in expired /\ CheckTimeout(expired))

Spec == Init /\ [][Next]_<<mode, captureVars>> /\ Fairness

-----------------------------------------------------------------------------
(* Safety *)

(***************************************************************************)
(* The answer a client gets is true: there is one, it counts the files     *)
(* written, of which a timeout racing the worker may leave one out ("skip  *)
(* pending I/O after timeout"), and it is short only after a timeout.      *)
(***************************************************************************)
AnswerIsTrue ==
  \A r \in Made : answers[r] # <<>> =>
    /\ answers[r][1] <= captureCnt[r]
    /\ captureCnt[r] <= answers[r][1] + 1
    /\ answers[r][1] < asked[r] => r \in timed_out

(***************************************************************************)
(* "File indices are sequential with no gaps": the files of a request      *)
(* answered in full carry the indexes 0 to maxCnt - 1, each once, though   *)
(* its frames were dropped, queued and written by different threads.       *)
(***************************************************************************)
IndexesSequential ==
  \A r \in Made : (answers[r] # <<>> /\ answers[r][1] = asked[r]) =>
    {f \in files : f[1] = r} = {r} \X (0..(asked[r] - 1))

(***************************************************************************)
(* While a request is queued or being served, and no client is stopping,   *)
(* the valve lets frames through: the closing of the valve with the queue  *)
(* empty never overtakes a request just added.  (PNG collects with the     *)
(* valve closed while it feeds.)                                           *)
(***************************************************************************)
ValveOpenForWork ==
  (/\ ~Png
   /\ request_queue # <<>> \/ current_request # None
   /\ \A c \in Clients : at[c] = "idle")
    => valve

(***************************************************************************)
(* At most one request is out of the queue and not yet fully pushed, the   *)
(* requests wait in the order they were made, and their frames wait for    *)
(* the worker in that order, never more than the queue may hold.           *)
(***************************************************************************)
ServedInOrder ==
  /\ Len(task_queue) <= QueueLimit + 1
  /\ \A i, j \in DOMAIN request_queue : i < j => request_queue[i] < request_queue[j]
  /\ \A i \in DOMAIN request_queue : current_request < request_queue[i]
  /\ \A i, j \in DOMAIN task_queue : i < j =>
       \/ task_queue[i].req < task_queue[j].req
       \/ /\ task_queue[i].req = task_queue[j].req
          /\ task_queue[i].index < task_queue[j].index

-----------------------------------------------------------------------------
(* Liveness *)

Done(r) == answers[r] # <<>> \/ r \in stopped \cup continuous \/ crashed

(***************************************************************************)
(* Every bounded request is answered, by its last file or by its timeout,  *)
(* unless it is stopped.                                                   *)
(***************************************************************************)
EveryRequestAnswered == \A r \in Requests : (r \in Made) ~> Done(r)

(* stopCapture() returns: "stop capture mid-way". *)
StopReturns ==
  \A c \in Clients : (at[c] = "stopping") ~> (at[c] = "idle" \/ crashed)

=============================================================================
