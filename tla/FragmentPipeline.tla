-------------------------- MODULE FragmentPipeline --------------------------
(***************************************************************************)
(* From a closed recording fragment to the session's marker files: the     *)
(* splitmuxsinks post "fragment-closed" on the bus, the main loop hands    *)
(* each one to the fragment worker through a fixed pool of event slots,    *)
(* or handles it itself when the pool is exhausted, and                    *)
(* MuxSinkBin::handleFragmentClosed counts the channels of each minute's   *)
(* session and writes its markers.  The module runs to the end of          *)
(* main()'s shutdown, where the bus is drained and the worker joined.      *)
(*                                                                         *)
(* A fragment's location is reduced to what the code extracts from it: the *)
(* minute it is named after.  The markers are files; vcm (the metadata     *)
(* engine, which writes srt_done) and chk_cam_operate (which takes         *)
(* all_done away) are other processes.                                     *)
(***************************************************************************)
EXTENDS Naturals, Sequences, FiniteSets

CONSTANTS
  Channels,       \* the channels that have a sink, all of them enabled
  Minutes,        \* 1..k: the minutes fragments are named after
  Loads,          \* the sizes to be looked at: see load
  SrtEnabled      \* cmdArg.srt_en

ASSUME FragmentAssumption ==
  /\ IsFiniteSet(Channels) /\ Channels # {}
  /\ \E k \in Minutes : Minutes = 1..k
  /\ \A l \in Loads : {l.pool, l.last, l.parts} \subseteq Nat \ {0} /\ l.last \in Minutes
  /\ SrtEnabled \in BOOLEAN

Threads == {"main", "worker"}

NoFragment == [ch |-> 0, minute |-> 0, part |-> 0]

(* the pipeline's EOS among the messages of the bus *)
EosMessage == [ch |-> 0, minute |-> 0, part |-> 1]

VARIABLES
  load,         \* pool: MAX_EVENT_POOL_SIZE, 16 in the code; bounds: last,
                \* the last minute, and parts, a channel's fragments of one
  recording,    \* the fragment each sink is writing
  closed,       \* history: the fragments closed so far
  bus,          \* messages the pipeline posted, for the main loop
  eos,          \* "none", "sent" into the pipeline, "posted" by it
  phase,        \* how far main() is with the shutdown
  timed_out,    \* EOS_WAIT_SEC ran out before the pipeline's EOS
  slot,         \* event_pool: the fragment of a slot in use
  queue,        \* fragment_closed_queue: slots, and the stop event
  held,         \* the slot whose event the worker has popped, 0: none
  at,           \* where each thread is in handleFragmentClosed
  frag,         \* the fragment it handles
  session,      \* the session object it looked up
  table,        \* recording_sessions: the object of each minute, 0: none
  done,         \* the channels done, of each session object ever made
  video_done, srt_done, all_done,   \* the marker files, by minute
  vcm,          \* what the metadata engine did, by minute
  completed,    \* history: the minutes all_done was ever written for
  noted,        \* the fragments healthProducerNoteFragmentClosed() was told
  handled       \* history: the fragments whose handling is over

sinkVars == <<recording, closed, eos>>
shutdownVars == <<phase, timed_out>>
poolVars == <<slot, queue, held>>
sessionVars == <<table, done>>
threadVars == <<at, frag, session>>
markerVars == <<video_done, srt_done, all_done, completed>>
fragmentVars == <<sinkVars, bus, shutdownVars, poolVars, sessionVars,
                  threadVars, markerVars, vcm, noted, handled>>

Slots == 1..load.pool

Stop == 0                          \* the event with ch = -1

Init ==
  /\ load \in Loads
  /\ recording = [c \in Channels |-> [ch |-> c, minute |-> 1, part |-> 1]]
  /\ closed = {}
  /\ bus = <<>>
  /\ eos = "none"
  /\ phase = "running"
  /\ timed_out = FALSE
  /\ slot = [k \in Slots |-> NoFragment]
  /\ queue = <<>>
  /\ held = 0
  /\ at = [t \in Threads |-> "idle"]
  /\ frag = [t \in Threads |-> NoFragment]
  /\ session = [t \in Threads |-> 0]
  /\ table = [m \in Minutes |-> 0]
  /\ done = <<>>
  /\ video_done = {} /\ srt_done = {} /\ all_done = {} /\ completed = {}
  /\ vcm = [m \in Minutes |-> IF SrtEnabled THEN "writing" ELSE "off"]
  /\ noted = {} /\ handled = {}

-----------------------------------------------------------------------------
(* The splitmuxsinks, vcm and chk_cam_operate: outside this code. *)

Close(c) ==
  /\ recording[c] # NoFragment
  /\ closed' = closed \cup {recording[c]}
  /\ bus' = Append(bus, recording[c])

(* A split: the fragment is closed and the next one opened, as a rule in   *)
(* the next minute; two splits around one boundary name both alike.        *)
Split(c) ==
  /\ eos # "posted"
  /\ Close(c)
  /\ \/ /\ recording[c].minute < load.last
        /\ recording' = [recording EXCEPT
             ![c] = [ch |-> c, minute |-> @.minute + 1, part |-> 1]]
     \/ /\ recording[c].part < load.parts
        /\ recording' = [recording EXCEPT ![c].part = @ + 1]
  /\ UNCHANGED <<eos, shutdownVars, poolVars, sessionVars, threadVars,
                 markerVars, vcm, noted, handled>>

(* EOS reaches a sink: its last fragment is closed. *)
SinkEos(c) ==
  /\ eos = "sent"
  /\ Close(c)
  /\ recording' = [recording EXCEPT ![c] = NoFragment]
  /\ UNCHANGED <<eos, shutdownVars, poolVars, sessionVars, threadVars,
                 markerVars, vcm, noted, handled>>

(* The pipeline posts EOS once all of its sinks are through. *)
PipelineEos ==
  /\ eos = "sent"
  /\ \A c \in Channels : recording[c] = NoFragment
  /\ bus' = Append(bus, EosMessage)
  /\ eos' = "posted"
  /\ UNCHANGED <<recording, closed, shutdownVars, poolVars, sessionVars,
                 threadVars, markerVars, vcm, noted, handled>>

Sinks == PipelineEos \/ \E c \in Channels : Split(c) \/ SinkEos(c)

(* mark_session_complete(): all_done is written, or left if it is there,   *)
(* and the partial markers go.                                             *)
MarkComplete(m) ==
  /\ all_done' = all_done \cup {m}
  /\ completed' = completed \cup {m}
  /\ video_done' = video_done \ {m}
  /\ srt_done' = srt_done \ {m}

(* check_and_mark_all_done() *)
CheckMarkers(m) ==
  IF m \in video_done /\ (SrtEnabled => m \in srt_done)
  THEN MarkComplete(m)
  ELSE UNCHANGED markerVars

(* vcm has written the minute's subtitles, then looks for the video's      *)
(* marker as check_and_mark_all_done() does for its own.                   *)
VcmMarks(m) ==
  /\ m <= load.last
  /\ vcm[m] = "writing"
  /\ vcm' = [vcm EXCEPT ![m] = "marked"]
  /\ srt_done' = srt_done \cup {m}
  /\ UNCHANGED <<video_done, all_done, completed, sinkVars, bus,
                 shutdownVars, poolVars, sessionVars, threadVars, noted,
                 handled>>

VcmChecks(m) ==
  /\ vcm[m] = "marked"
  /\ vcm' = [vcm EXCEPT ![m] = "checked"]
  /\ CheckMarkers(m)
  /\ UNCHANGED <<sinkVars, bus, shutdownVars, poolVars, sessionVars,
                 threadVars, noted, handled>>

(* chk_cam_operate moves the minute's files. *)
TakeAway(m) ==
  /\ m \in all_done
  /\ all_done' = all_done \ {m}
  /\ UNCHANGED <<video_done, srt_done, completed, vcm, sinkVars, bus,
                 shutdownVars, poolVars, sessionVars, threadVars, noted,
                 handled>>

Vcm(m) == VcmMarks(m) \/ VcmChecks(m)

-----------------------------------------------------------------------------
(* handleFragmentClosed(), by the worker or, directly, by the main loop. *)

Minute(t) == frag[t].minute

(* get_or_create_session() *)
HasSession(m) == table[m] # 0

Lookup(t) ==
  /\ at[t] = "lookup"
  /\ IF ~HasSession(Minute(t))
     THEN /\ done' = Append(done, {})
          /\ table' = [table EXCEPT ![Minute(t)] = Len(done) + 1]
     ELSE UNCHANGED <<done, table>>
  /\ session' = [session EXCEPT ![t] = table'[Minute(t)]]
  /\ at' = [at EXCEPT ![t] = "mark"]
  /\ UNCHANGED <<frag, sinkVars, bus, shutdownVars, poolVars,
                 markerVars, vcm, noted, handled>>

Dangling(t) == at[t] = "mark" /\ table[Minute(t)] # session[t]

(* The channel is marked under the session's mutex, which Check still      *)
(* holds, and the video marker written when every enabled channel is.  A   *)
(* session freed meanwhile would be used here: what follows is undefined,  *)
(* and the model goes no further.                                          *)
(* slips: a channel too few, or one too many, is waited for               *)
AllButOneMarked(channels) == Cardinality(channels) + 1 >= Cardinality(Channels)
MoreThanAllMarked(channels) == Cardinality(channels) > Cardinality(Channels)

Marked(t) == done[session[t]] \cup {frag[t].ch}
AllMarked(channels) == Cardinality(channels) >= Cardinality(Channels)

Mark(t) ==
  /\ at[t] = "mark"
  /\ ~Dangling(t)
  /\ \A u \in Threads : at[u] = "check" => session[u] # session[t]
  /\ done' = [done EXCEPT ![session[t]] = Marked(t)]
  /\ \/ /\ AllMarked(Marked(t))
        /\ Minute(t) \notin video_done
        /\ video_done' = video_done \cup {Minute(t)}
        /\ at' = [at EXCEPT ![t] = "check"]
     \/ /\ AllMarked(Marked(t))
        /\ Minute(t) \in video_done
        /\ at' = [at EXCEPT ![t] = "remove"]
        /\ UNCHANGED video_done
     \/ /\ ~AllMarked(Marked(t))
        /\ at' = [at EXCEPT ![t] = "finish"]
        /\ UNCHANGED video_done
  /\ UNCHANGED <<table, frag, session, srt_done, all_done, completed, vcm,
                 sinkVars, bus, shutdownVars, poolVars, noted, handled>>

Check(t) ==
  /\ at[t] = "check"
  /\ CheckMarkers(Minute(t))
  /\ at' = [at EXCEPT ![t] = "remove"]
  /\ UNCHANGED <<table, done, frag, session, vcm, sinkVars, bus,
                 shutdownVars, poolVars, noted, handled>>

(* slip: the session stays in the table *)
NotErased(m) == table
Erased(m) == [table EXCEPT ![m] = 0]

(* The table's session of that minute is freed, whichever it is by now. *)
Remove(t) ==
  /\ at[t] = "remove"
  /\ table' = Erased(Minute(t))
  /\ at' = [at EXCEPT ![t] = "finish"]
  /\ UNCHANGED <<done, frag, session, markerVars, vcm, sinkVars, bus,
                 shutdownVars, poolVars, noted, handled>>

Handle(t) == Lookup(t) \/ Mark(t) \/ Check(t) \/ Remove(t)

Finished(t) ==
  /\ at[t] = "finish"
  /\ handled' = handled \cup {frag[t]}
  /\ frag' = [frag EXCEPT ![t] = NoFragment]
  /\ session' = [session EXCEPT ![t] = 0]
  /\ at' = [at EXCEPT ![t] = "idle"]

-----------------------------------------------------------------------------
(* fragment_closed_worker() *)

WorkerPops ==
  /\ at["worker"] = "idle"
  /\ queue # <<>>
  /\ queue' = Tail(queue)
  /\ IF Head(queue) = Stop
     THEN /\ at' = [at EXCEPT !["worker"] = "exited"]
          /\ UNCHANGED <<frag, held>>
     ELSE /\ at' = [at EXCEPT !["worker"] = "lookup"]
          /\ frag' = [frag EXCEPT !["worker"] = slot[Head(queue)]]
          /\ held' = Head(queue)
  /\ UNCHANGED <<slot, session, sessionVars, markerVars, vcm, sinkVars, bus,
                 shutdownVars, noted, handled>>

(* The health producer is told, and the event goes back to the pool. *)
WorkerFinishes ==
  /\ Finished("worker")
  /\ noted' = noted \cup {frag["worker"]}
  /\ slot' = [slot EXCEPT ![held] = NoFragment]
  /\ held' = 0
  /\ UNCHANGED <<queue, sessionVars, markerVars, vcm, sinkVars, bus,
                 shutdownVars>>

Worker == WorkerPops \/ Handle("worker") \/ WorkerFinishes

-----------------------------------------------------------------------------
(* The main thread: bus_message_parse(), from the bus watch or, during the *)
(* shutdown, from the loop that waits for EOS.                             *)

MainListens == phase \in {"running", "draining"} /\ at["main"] = "idle"

(* slip: in_use is not looked at *)
AnySlot == Slots
Free == {k \in Slots : slot[k] = NoFragment}

QueueFragment ==
  /\ MainListens
  /\ bus # <<>> /\ Head(bus) # EosMessage
  /\ bus' = Tail(bus)
  /\ \E k \in Free :
       /\ \A j \in Free : k <= j
       /\ slot' = [slot EXCEPT ![k] = Head(bus)]
       /\ queue' = Append(queue, k)
  /\ UNCHANGED <<held, sinkVars, shutdownVars, sessionVars, threadVars,
                 markerVars, vcm, noted, handled>>

(* "Event pool exhausted! direct handle" *)
HandleDirectly ==
  /\ MainListens
  /\ bus # <<>> /\ Head(bus) # EosMessage
  /\ bus' = Tail(bus)
  /\ Free = {}
  /\ at' = [at EXCEPT !["main"] = "lookup"]
  /\ frag' = [frag EXCEPT !["main"] = Head(bus)]
  /\ UNCHANGED <<session, poolVars, sinkVars, shutdownVars, sessionVars,
                 markerVars, vcm, noted, handled>>

MainFinishes ==
  /\ Finished("main")
  /\ UNCHANGED <<poolVars, sessionVars, markerVars, vcm, sinkVars, bus,
                 shutdownVars, noted>>

(* The pipeline's EOS ends the main loop, or the wait for it. *)
ReceiveEos ==
  /\ MainListens
  /\ bus # <<>> /\ Head(bus) = EosMessage
  /\ bus' = Tail(bus)
  /\ phase' = "stopping"
  /\ UNCHANGED <<timed_out, poolVars, sinkVars, sessionVars, threadVars,
                 markerVars, vcm, noted, handled>>

(* An error message on the bus: EOS is sent, the main loop goes on. *)
ReceiveError ==
  /\ phase = "running" /\ at["main"] = "idle"
  /\ eos = "none"
  /\ eos' = "sent"
  /\ UNCHANGED <<recording, closed, bus, shutdownVars, poolVars, sessionVars,
                 threadVars, markerVars, vcm, noted, handled>>

(* SIGTERM or SIGINT: EOS is sent and the main loop quits. *)
Terminate ==
  /\ phase = "running" /\ at["main"] = "idle"
  /\ phase' = "draining"
  /\ eos' = IF eos = "none" THEN "sent" ELSE eos
  /\ UNCHANGED <<recording, closed, bus, timed_out, poolVars, sessionVars,
                 threadVars, markerVars, vcm, noted, handled>>

DrainTimesOut ==
  /\ phase = "draining" /\ at["main"] = "idle"
  /\ phase' = "stopping"
  /\ timed_out' = TRUE
  /\ UNCHANGED <<sinkVars, bus, poolVars, sessionVars, threadVars, markerVars,
                 vcm, noted, handled>>

(* slips: no stop event; the worker is not waited for *)
NoStopEvent == queue
NotAwaited == TRUE

StopEventQueued == Append(queue, Stop)
WorkerExited == at["worker"] = "exited"

(* stop_fragment_closed_worker() *)
StopWorker ==
  /\ phase = "stopping"
  /\ phase' = "joining"
  /\ queue' = StopEventQueued
  /\ UNCHANGED <<timed_out, slot, held, sinkVars, bus, sessionVars,
                 threadVars, markerVars, vcm, noted, handled>>

(* The worker is joined and the pipeline set to NULL. *)
JoinWorker ==
  /\ phase = "joining"
  /\ WorkerExited
  /\ phase' = "null"
  /\ UNCHANGED <<timed_out, sinkVars, bus, poolVars, sessionVars, threadVars,
                 markerVars, vcm, noted, handled>>

MainRuns == \/ QueueFragment \/ HandleDirectly \/ Handle("main")
            \/ MainFinishes \/ ReceiveEos \/ StopWorker \/ JoinWorker

Next ==
  /\ \/ MainRuns \/ ReceiveError \/ Terminate \/ DrainTimesOut
     \/ Worker
     \/ Sinks
     \/ \E m \in Minutes : Vcm(m) \/ TakeAway(m)
  /\ UNCHANGED load

(***************************************************************************)
(* The main loop and the worker run; the wait for EOS is bounded by a      *)
(* clock; vcm finishes each minute.  Nothing is assumed of the sinks: a    *)
(* dead channel closes no fragment, and its EOS may never come.            *)
(***************************************************************************)
Fairness ==
  /\ WF_fragmentVars(MainRuns) /\ WF_fragmentVars(DrainTimesOut)
  /\ WF_fragmentVars(Worker)
  /\ \A m \in Minutes : WF_fragmentVars(Vcm(m))

Spec == Init /\ [][Next]_<<load, fragmentVars>> /\ Fairness

-----------------------------------------------------------------------------
(* Safety *)

OnBus == {bus[i] : i \in 1..Len(bus)} \ {EosMessage}
Queued == {slot[queue[i]] : i \in {j \in 1..Len(queue) : queue[j] # Stop}}
InHands == {frag[t] : t \in {u \in Threads : frag[u] # NoFragment}}

(***************************************************************************)
(* Every closed fragment is on the bus, in the queue, in a thread's hands  *)
(* or handled, and in one of these places only; a pool slot is in use      *)
(* exactly while its event is queued, once, or held by the worker.  So a   *)
(* reused slot never overwrites an event that is still to be handled.      *)
(***************************************************************************)
NothingLost ==
  /\ closed = OnBus \cup Queued \cup InHands \cup handled
  /\ handled \cap (OnBus \cup Queued \cup InHands) = {}
  /\ \A k \in Slots :
       (slot[k] # NoFragment) <=> (k = held \/ \E i \in 1..Len(queue) : queue[i] = k)
  /\ \A i, j \in 1..Len(queue) : queue[i] = queue[j] => i = j

(***************************************************************************)
(* all_done of a minute is never written before every enabled channel has  *)
(* closed a fragment of it ("... all channels complete").                  *)
(***************************************************************************)
CompleteMeansAllClosed ==
  \A m \in completed, c \in Channels :
    \E f \in handled \cup InHands : f.ch = c /\ f.minute = m

Twins == load.parts > 1
PoolSuffices == load.pool >= Cardinality(Channels) * load.last * load.parts

(***************************************************************************)
(* A thread between the look-up of a session and its mutex holds one that  *)
(* the other thread has not removed and freed, and a minute all of whose   *)
(* channels have been handled leaves no session behind in the table: as    *)
(* long as no channel has two fragments named alike, or, of the first, the *)
(* pool never exhausts (muxSinkBin.cpp 269-271, 354-361).                  *)
(***************************************************************************)
SessionsSound ==
  /\ ~Twins \/ PoolSuffices => \A t \in Threads : ~Dangling(t)
  /\ ~Twins => \A m \in Minutes :
       (\A c \in Channels : \E f \in handled : f.ch = c /\ f.minute = m) => table[m] = 0

(***************************************************************************)
(* When the pipeline goes to NULL the worker is through with all it was    *)
(* given, and unless the wait for EOS ran out every closed fragment has    *)
(* been handled, the last one of each channel included.                    *)
(***************************************************************************)
AllHandledAtNull ==
  phase = "null" =>
    /\ \A k \in Slots : slot[k] = NoFragment
    /\ ~timed_out => closed \subseteq handled

-----------------------------------------------------------------------------
(* Liveness *)

(***************************************************************************)
(* Once every channel has closed a fragment of a minute, its all_done is   *)
(* written, with subtitles too whichever of vcm and the worker comes last, *)
(* unless the shutdown gave up waiting.                                    *)
(***************************************************************************)
SessionCompletes ==
  \A m \in Minutes :
    (\A c \in Channels : \E f \in closed : f.ch = c /\ f.minute = m)
      ~> (m \in completed \/ timed_out)

(* Once the main loop has quit, the worker is joined and the pipeline ends. *)
ShutdownEnds == (phase = "draining") ~> (phase = "null")

=============================================================================
