-------------------------- MODULE HealthProducer --------------------------
(***************************************************************************)
(* What gstApp tells the outside of its channels: healthProducer.cpp,      *)
(* which writes a document every second, and the watch of encoderBin.cpp   *)
(* that logs the channels that deliver no data.  Both run in the main      *)
(* loop.  The frames are counted by streaming threads, the fragments are   *)
(* noted by the fragment worker, both without regard to them.              *)
(*                                                                         *)
(* A frame counter is modelled by what its readers can tell: whether it    *)
(* has moved since they last looked.  Times are ages in ticks, capped      *)
(* where nothing depends on them any more.                                 *)
(***************************************************************************)
EXTENDS Integers, Sequences, FiniteSets

CONSTANTS
  Channels,    \* the channels 0 .. MAX_CHANNEL - 1, in order, as a sequence
  Enabled,     \* cmdArg.cam[ch].enable, after main() has cleared that of failed channels
  Stall,       \* g_stall_sec, in ticks of HEALTH_PERIOD_SEC
  NoGrowth,    \* g_no_growth_sec, in the same
  Duration,    \* cmdArg.duration, in the same
  WatchPeriod, \* ENC_NODATA_WARN_SEC
  Strikes, ColdStrikes, \* ENC_NODATA_STRIKES, ENC_NODATA_COLD_STRIKES
  Repeat,      \* 30 / ENC_NODATA_WARN_SEC
  Lag,         \* bound on the delay of the main loop and of the worker
  Storages     \* what statvfs() tells of the recording directory

ASSUME HealthAssumption ==
  /\ Channels \in Seq(Nat)
  /\ \A i, j \in DOMAIN Channels : Channels[i] = Channels[j] => i = j
  /\ Enabled \subseteq {Channels[i] : i \in DOMAIN Channels}
  /\ Stall \in Nat /\ NoGrowth \in Nat /\ Duration \in Nat \ {0}
  /\ WatchPeriod \in Nat \ {0} /\ Strikes \in Nat \ {0} /\ Lag \in Nat
  /\ ColdStrikes \in Nat /\ Strikes <= ColdStrikes /\ Repeat \in Nat \ {0}
  /\ Storages \subseteq {"OK", "STORAGE_READ_ONLY", "STORAGE_FULL"}

VARIABLES
  linked,   \* the channels outside g_link_disconnect_mask
  source,   \* of each channel: has its counter moved since publish(), since the
            \* watch and ever looked at it; the age of its last frame
  file,     \* of each channel: the age of its last closed fragment, and of one
            \* the worker has not noted yet
  noted,    \* g_ch: fragment_seen, the ages of fragment_us and q_in_moved_us
  error,    \* g_pipeline_error_us is set
  doc,      \* publish() in progress
  watch,    \* the static variables of enc_nodata_watch(); as history, whom it has
            \* logged and how often in a row it has found a link
  due       \* ticks until the timers fire

vars == <<linked, source, file, noted, error, doc, watch, due>>

Chan == {Channels[i] : i \in DOMAIN Channels}

(* Ages above these make no difference. *)
IdleCap == Stall + 2 * Lag + WatchPeriod * Strikes
MovedCap == Stall + Lag + 1
FileCap == Duration + 2 * Lag + 1
NotedCap == NoGrowth + Lag + 1
Aged(age, cap) == IF age < cap THEN age + 1 ELSE age

NONE == 0 - 1
Idle == [pc |-> "idle", late |-> 0, ch |-> 0, snap |-> <<>>, error |-> FALSE,
         storage |-> "OK"]

(* healthProducerStart(), and enc_nodata_watch() before its first call. *)
Init ==
  /\ linked = Enabled
  /\ source = [c \in Chan |-> [fresh |-> FALSE, unwatched |-> FALSE, any |-> FALSE, idle |-> 0]]
  /\ file = [c \in Chan |-> [age |-> 0, closed |-> NONE]]
  /\ noted = [c \in Chan |-> [seen |-> FALSE, fragment |-> 0, moved |-> 0]]
  /\ error = FALSE /\ doc = Idle
  /\ watch = [strike |-> [c \in Chan |-> 0], warned |-> {}, logged |-> {},
            up |-> [c \in Chan |-> 0]]
  /\ due = [health |-> 1, watch |-> WatchPeriod]

-----------------------------------------------------------------------------
(* Other threads *)

(* enc_q_in_probe() and recordQueueInput(), on a streaming thread *)
Frame(c) ==
  /\ c \in Enabled
  /\ source' = [source EXCEPT ![c] = [fresh |-> TRUE, unwatched |-> TRUE, any |-> TRUE, idle |-> 0]]
  /\ UNCHANGED <<linked, file, noted, error, doc, watch, due>>

(* External: a fragment is closed and handed to the worker. *)
CloseFragment(c) ==
  /\ c \in Enabled /\ file[c].age >= Duration /\ file[c].closed = NONE
  /\ file' = [file EXCEPT ![c] = [age |-> 0, closed |-> 0]]
  /\ UNCHANGED <<linked, source, noted, error, doc, watch, due>>

(* slip: the time of the first fragment is kept *)
NotedOnce(c) ==
  IF noted[c].seen THEN noted ELSE [noted EXCEPT ![c].seen = TRUE, ![c].fragment = 0]

Noted(c) == [noted EXCEPT ![c].seen = TRUE, ![c].fragment = 0]

(* healthProducerNoteFragmentClosed(), by the worker *)
NoteFragmentClosed(c) ==
  /\ file[c].closed # NONE /\ file' = [file EXCEPT ![c].closed = NONE]
  /\ noted' = Noted(c)
  /\ UNCHANGED <<linked, source, error, doc, watch, due>>

-----------------------------------------------------------------------------
(* The main loop *)

(* healthProducerNotePipelineError(), from the bus: it is never cleared. *)
NotePipelineError ==
  /\ doc = Idle /\ ~error /\ error' = TRUE
  /\ UNCHANGED <<linked, source, file, noted, doc, watch, due>>

(* The links are read again. *)
Relink ==
  /\ doc = Idle /\ linked' \in SUBSET Enabled /\ linked' # linked
  /\ UNCHANGED <<source, file, noted, error, doc, watch, due>>

(* publish(): the time is taken before the lock is. *)
PublishTime ==
  /\ doc = Idle /\ due.health <= 0
  /\ doc' = [Idle EXCEPT !.pc = "lock"]
  /\ due' = [due EXCEPT !.health = 1]
  /\ UNCHANGED <<linked, source, file, noted, error, watch>>

PublishSnapshot ==
  /\ doc.pc = "lock"
  /\ \E s \in Storages :
       doc' = [doc EXCEPT !.pc = "observe", !.ch = 1, !.error = error, !.storage = s,
                          !.snap = [c \in Chan |->
                            [noted[c] EXCEPT !.fragment = @ - doc.late, !.moved = @ - doc.late]]]
  /\ UNCHANGED <<linked, source, file, noted, error, watch, due>>

Gstreamer(c) ==
  IF doc.error THEN "PIPELINE_ERROR"
  ELSE IF ~source[c].fresh /\ doc.snap[c].moved > Stall THEN "SOURCE_STALL" ELSE "OK"

Recording(c) ==
  IF doc.storage # "OK" THEN doc.storage
  ELSE IF ~doc.snap[c].seen THEN "STARTING"
  ELSE IF doc.snap[c].fragment > NoGrowth THEN "NO_GROWTH" ELSE "OK"

(* slip: the counter that has moved is remembered without the time *)
CounterOnly(c) == noted

(* The counter moved at the time taken, as far as publish() knows. *)
WrittenBack(c) ==
  IF source[c].fresh THEN [noted EXCEPT ![c].moved = doc.late] ELSE noted

Observing(c) == doc.pc = "observe" /\ doc.ch <= Len(Channels) /\ c = Channels[doc.ch]

PublishObserve(c) ==
  /\ Observing(c) /\ c \in Enabled
  /\ noted' = WrittenBack(c)
  /\ source' = [source EXCEPT ![c].fresh = FALSE]
  /\ doc' = [doc EXCEPT !.ch = @ + 1]
  /\ UNCHANGED <<linked, file, error, watch, due>>

PublishDisabled(c) ==
  /\ Observing(c) /\ c \notin Enabled
  /\ doc' = [doc EXCEPT !.ch = @ + 1]
  /\ UNCHANGED <<linked, source, file, noted, error, watch, due>>

(* The file is written beside the published one and takes its place, or    *)
(* one of the steps of that fails and the published one stays.             *)
PublishWritten ==
  /\ doc.pc = "observe" /\ doc.ch > Len(Channels) /\ doc' = Idle
  /\ UNCHANGED <<linked, source, file, noted, error, watch, due>>

-----------------------------------------------------------------------------
(* enc_nodata_watch() *)

(* slip: the link is not looked at *)
CountsAll(c) == TRUE

Counts(c) == c \in linked

StrikeLimit == IF \E c \in Chan : source[c].any THEN Strikes ELSE ColdStrikes

Strike(c) ==
  IF c \notin Enabled THEN watch.strike[c]
  ELSE IF ~Counts(c) \/ source[c].unwatched THEN 0
  ELSE IF watch.strike[c] < ColdStrikes + Repeat THEN watch.strike[c] + 1
  ELSE watch.strike[c] + 1 - Repeat

Logged ==
  {c \in Enabled : /\ Strike(c) > 0 /\ Strike(c) >= StrikeLimit
                   /\ c \in watch.warned => Strike(c) % Repeat = 0}

Watch ==
  /\ doc = Idle /\ due.watch <= 0 /\ due' = [due EXCEPT !.watch = WatchPeriod]
  /\ watch' = [strike |-> [c \in Chan |-> Strike(c)],
               warned |-> (watch.warned \ {c \in linked \cap Enabled : source[c].unwatched})
                            \cup Logged,
               logged |-> Logged,
               up |-> [c \in Chan |-> IF c \notin linked THEN 0
                         ELSE IF watch.up[c] < Strikes THEN watch.up[c] + 1 ELSE Strikes]]
  /\ source' = [c \in Chan |-> IF c \in Enabled THEN [source[c] EXCEPT !.unwatched = FALSE]
                               ELSE source[c]]
  /\ UNCHANGED <<linked, file, noted, error, doc>>

-----------------------------------------------------------------------------
(* The timers fire at most Lag ticks late, and the worker is as quick. *)
Tick ==
  /\ due.health > 0 - Lag /\ due.watch > 0 - Lag /\ doc.late < Lag
  /\ \A c \in Chan : file[c].closed < Lag
  /\ due' = [health |-> due.health - 1, watch |-> due.watch - 1]
  /\ doc' = IF doc = Idle THEN doc ELSE [doc EXCEPT !.late = @ + 1]
  /\ source' = [c \in Chan |-> [source[c] EXCEPT !.idle = Aged(@, IdleCap)]]
  /\ file' = [c \in Chan |-> [age |-> Aged(file[c].age, FileCap),
                              closed |-> IF file[c].closed = NONE THEN NONE
                                         ELSE file[c].closed + 1]]
  /\ noted' = [c \in Chan |-> [noted[c] EXCEPT !.fragment = Aged(@, NotedCap),
                                               !.moved = Aged(@, MovedCap)]]
  /\ UNCHANGED <<linked, error, watch>>

Next ==
  \/ \E c \in Chan : Frame(c) \/ CloseFragment(c) \/ NoteFragmentClosed(c)
  \/ NotePipelineError \/ Relink
  \/ PublishTime \/ PublishSnapshot
  \/ \E c \in Chan : PublishObserve(c) \/ PublishDisabled(c)
  \/ PublishWritten \/ Watch \/ Tick

Spec == Init /\ [][Next]_vars

-----------------------------------------------------------------------------
(* Properties *)

(* A source is published as stalled only if it has delivered nothing for   *)
(* longer than the limit, and not as OK for longer than the limit, a       *)
(* period and the delays, although frames come while publish() looks.      *)
StallIsTrue ==
  [][\A c \in Enabled : PublishObserve(c) /\ ~error =>
       /\ Gstreamer(c) = "SOURCE_STALL" => source[c].idle - doc.late > Stall - Lag
       /\ Gstreamer(c) = "OK" => source[c].idle - doc.late <= Stall + 1 + Lag]_vars

(* A recording is published as not growing only if the next fragment is    *)
(* overdue, or has just been closed and was not noted in time.             *)
NoGrowthIsOverdue ==
  [][\A c \in Enabled : PublishObserve(c) /\ Recording(c) = "NO_GROWTH" =>
       file[c].age > Duration \/ file[c].age <= 2 * Lag]_vars

(* A channel is logged as without data only when its link has been up, and *)
(* no frame has come, for all the strikes that takes.                      *)
AccusedIsIdle ==
  [][Watch => \A c \in watch'.logged :
       watch'.up[c] >= Strikes /\ source[c].idle >= WatchPeriod * Strikes]_vars
=============================================================================
