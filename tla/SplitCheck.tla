---------------------------- MODULE SplitCheck ----------------------------
(***************************************************************************)
(* When recordings are split: splitCheck() of main.cpp, run by a timer of  *)
(* the main loop; the natural roll-over of each channel's splitmuxsink;    *)
(* the opening of a fragment by format_location(), on a streaming thread,  *)
(* which stamps and names it; and the fragment-opened message, which the   *)
(* main loop takes later.                                                  *)
(*                                                                         *)
(* Time goes by ticks.  The wall clock runs through an hour of HourMinutes *)
(* minutes of Minute ticks, and may be set; running times are kept as      *)
(* ages, so that the state is finite.                                      *)
(***************************************************************************)
EXTENDS Integers, Sequences, FiniteSets

CONSTANTS
  Channels,     \* the enabled channels
  HourMinutes, Minute, \* 60, and 60 s in ticks
  Second,       \* a second in ticks: the timer fires every tick
  StartSec,     \* cmdArg.split_sec
  Duration,     \* cmdArg.duration, in minutes
  SplitMax, SplitDiff, \* the tolerated error and skew, in ticks
  Grace, MaxDrift,     \* SNAP_BACK_GRACE_PERIOD_MS, MAX_SNAPBACK_DRIFT_MS
  MinInterval,  \* MIN_SPLIT_INTERVAL_SEC
  Margin,       \* SPLIT_COMMON_RT_MARGIN_MS
  MaxLag,       \* bound on the delay of a streaming thread
  Slips,        \* how much longer a fragment may be, to its next key frame
  Steps, MaxSteps, \* how far the clock may be set, and how often
  RecheckAt     \* LINK_STATUS_RECHECK_SEC

(* An hour, a minute and the target second in ticks; a period has a minute *)
(* at least; a fragment has a longest slip; NONE is no lag.                *)
ASSUME SplitCheckAssumption ==
  /\ IsFiniteSet(Channels)
  /\ {HourMinutes, Minute, Second, Duration} \subseteq Nat \ {0}
  /\ {StartSec, SplitMax, SplitDiff, Grace, MaxDrift, MinInterval, Margin,
      MaxSteps, RecheckAt} \subseteq Nat
  /\ Minute % Second = 0 /\ StartSec * Second < Minute
  /\ MaxLag \in 0..999 /\ Steps \subseteq Int
  /\ Slips \subseteq Nat /\ \E longest \in Slips : \A slip \in Slips : slip <= longest

VARIABLES
  wall,      \* the wall clock, in ticks of the hour
  chan,      \* a record for each channel: see Fresh
  linked,    \* the channels g_link_disconnect_mask leaves in
  sched,     \* the static variables of splitCheck(): see Init
  round,     \* splitCheck() in progress: see Idle
  epoch,     \* split_target_epoch, as a minute
  checked,   \* the timer has fired since the last tick
  recheck,   \* ticks until the links are read again, then NONE
  steps,     \* clock settings left
  ahead      \* history: ticks until the target, as if the hours were counted

vars == <<wall, chan, linked, sched, round, epoch, checked, recheck, steps, ahead>>

Hour == HourMinutes * Minute
Full == Duration * Minute
UNSET == 0 - 1
NONE == 0 - 1000

(* Of a channel: its stream has started; the age of its fragment's first   *)
(* content; split_msec; split_running_time, as an age; split_rt_stale; the *)
(* ticks until a requested split; fragment-opened messages on their way;   *)
(* the minute in its file's name.  As history, whether this name was that  *)
(* of the file before, and what may excuse it.                             *)
Fresh == [started |-> FALSE, age |-> NONE, sm |-> UNSET,
          rt |-> NONE, stale |-> FALSE, cut |-> NONE, msgs |-> <<>>, name |-> NONE,
          first |-> FALSE, early |-> FALSE, twin |-> "no", cause |-> "none"]

Idle == [pc |-> "idle", cause |-> "none"]

Init ==
  /\ wall \in 0..(Minute - 1)
  /\ chan = [c \in Channels |-> Fresh]
  /\ linked = Channels
  /\ sched = [start |-> FALSE, need_first |-> FALSE, target |-> 0,
              since |-> MinInterval, last_min |-> NONE]
  /\ round = Idle /\ epoch = NONE /\ checked = FALSE /\ recheck = RecheckAt
  /\ steps = MaxSteps
  /\ ahead = 0

-----------------------------------------------------------------------------
(* Clock arithmetic *)

Min(t) == t \div Minute
Msec(t) == t % Minute
Sec(t) == Msec(t) \div Second

(* A difference of two times of the hour, taken to be within half an hour. *)
NotWrapped(d) == d

Wrapped(d) ==
  IF d < 0 - Hour \div 2 THEN d + Hour ELSE IF d > Hour \div 2 THEN d - Hour ELSE d

(* The clock, in whole seconds, after the target second of a minute. *)
TargetTime(minute) == minute * Minute + StartSec * Second
Diff(minute) == Wrapped(wall - (wall % Second) - TargetTime(minute))

(* split_rel_msec(), and the signed error it stands for. *)
Rel(sm) == (sm - StartSec * Second + Minute) % Minute
Signed(sm) == IF Rel(sm) > MaxDrift THEN Rel(sm) - Minute ELSE Rel(sm)
Drift(sm) == IF Signed(sm) < 0 THEN 0 - Signed(sm) ELSE Signed(sm)

MaxOf(S) == CHOOSE x \in S : \A y \in S : y <= x
MinOf(S) == CHOOSE x \in S : \A y \in S : x <= y
Spread(S) == IF S = {} THEN 0 ELSE MaxOf(S) - MinOf(S)

-----------------------------------------------------------------------------
(* Channels: their streaming threads *)

StreamStart(c) ==
  /\ ~chan[c].started
  /\ chan' = [chan EXCEPT ![c].started = TRUE]
  /\ UNCHANGED <<wall, linked, sched, round, epoch, checked, recheck, steps, ahead>>

(* slip: the name is that of the next target, however far away *)
NamedAhead == IF epoch = NONE THEN Min((wall + Second) % Hour) ELSE epoch

(* The minute format_location() puts in the name: the target's, or the one *)
(* a period before it when the target is more than half a period away.     *)
Named ==
  IF epoch = NONE THEN Min((wall + Second) % Hour)
  ELSE IF 0 - Diff(epoch) > Full \div 2 THEN (epoch - Duration) % HourMinutes
  ELSE epoch

(* A fragment whose first content is lag ticks old is opened. *)
Opened(r, lag, cut, why) ==
  [r EXCEPT !.age = lag, !.sm = Msec(wall), !.stale = TRUE, !.cut = cut,
            !.msgs = Append(@, lag), !.name = Named,
            !.early = IF epoch = NONE THEN Named # Min(wall)
                      ELSE Diff(epoch) < 0 /\ 0 - Diff(epoch) <= Full \div 2,
            !.first = r.age = NONE,
            !.twin = IF \/ r.name # Named \/ epoch = NONE \/ r.first \/ r.early
                        \/ r.age - lag <= SplitMax \/ steps < MaxSteps
                     THEN "no" ELSE why]

FirstFragment(c) ==
  /\ chan[c].started /\ chan[c].age = NONE
  /\ chan' = [chan EXCEPT ![c] = Opened(@, 0, @.cut, "none")]
  /\ UNCHANGED <<wall, linked, sched, round, epoch, checked, recheck, steps, ahead>>

(* The content has lasted a full period, to its next key frame. *)
RollOver(c) ==
  /\ Len(chan[c].msgs) < 2
  /\ \E slip \in Slips :
       /\ chan[c].age - Full - slip \in 0..MaxLag
       /\ chan[c].cut = NONE \/ slip + Full - chan[c].age < chan[c].cut
       /\ chan' = [chan EXCEPT ![c] = Opened(@, @.age - Full - slip, @.cut, "roll")]
  /\ UNCHANGED <<wall, linked, sched, round, epoch, checked, recheck, steps, ahead>>

(* The running time of a requested split has come first. *)
CutHere(c) ==
  /\ Len(chan[c].msgs) < 2 /\ chan[c].age # NONE
  /\ chan[c].cut # NONE /\ chan[c].cut <= 0 /\ chan[c].cut <= Full - chan[c].age
  /\ chan' = [chan EXCEPT ![c] = Opened(@, 0 - @.cut, NONE, @.cause)]
  /\ UNCHANGED <<wall, linked, sched, round, epoch, checked, recheck, steps, ahead>>

-----------------------------------------------------------------------------
(* The main loop *)

(* handleFragmentOpened() *)
FragmentOpened(c) ==
  /\ round = Idle /\ chan[c].msgs # <<>>
  /\ chan' = [chan EXCEPT ![c].rt = Head(chan[c].msgs), ![c].stale = FALSE,
                          ![c].msgs = Tail(@)]
  /\ UNCHANGED <<wall, linked, sched, round, epoch, checked, recheck, steps, ahead>>

(* update_link_disconnect_mask(): a link that cannot be read stays as it was. *)
RecheckLinks ==
  /\ round = Idle /\ recheck = 0 /\ recheck' = NONE
  /\ \E connected, disconnected \in SUBSET Channels :
       /\ connected \cap disconnected = {}
       /\ linked' = (linked \ disconnected) \cup connected
  /\ UNCHANGED <<wall, chan, sched, round, epoch, checked, steps, ahead>>

(* splitCheck() waits for every linked channel's stream. *)
Waiting == ~sched.start /\ \E c \in linked : ~chan[c].started

Started ==
  IF sched.start THEN sched
  ELSE [start |-> TRUE, need_first |-> Sec(wall) # StartSec,
        target |-> IF Sec(wall) # StartSec THEN (Min(wall) + 1) % HourMinutes ELSE Min(wall),
        since |-> 0, last_min |-> Min(wall)]

(* The channels whose next fragment has been opened take part. *)
Measured == {c \in linked : chan[c].sm # UNSET}

Usable == \A c \in Measured : ~chan[c].stale /\ chan[c].rt # NONE

Skew ==
  IF Usable THEN Spread({chan[c].rt : c \in Measured})
  ELSE Spread({Signed(chan[c].sm) : c \in Measured})

InTime == \A c \in Measured : Drift(chan[c].sm) < SplitMax
Skewed == Cardinality(Measured) > 1 /\ Skew >= SplitDiff

(* A fragment that opened just before the target second is given time. *)
Graced(diff) ==
  \E c \in Measured : Rel(chan[c].sm) >= Grace /\ diff < SplitMax

Protected(s) == Min(wall) = s.last_min /\ s.since < MinInterval

Passed(s) ==
  [s EXCEPT !.target = (@ + Duration) % HourMinutes, !.since = 0, !.last_min = Min(wall)]

CheckWaits ==
  /\ ~checked /\ round = Idle /\ checked' = TRUE
  /\ Waiting
  /\ UNCHANGED <<wall, chan, linked, sched, round, epoch, recheck, steps, ahead>>

(* What follows is common to the ways through the rest of splitCheck(). *)
Checking ==
  /\ ~checked /\ round = Idle /\ checked' = TRUE
  /\ ~Waiting /\ epoch' = Started.target

Ahead(s) ==
  IF sched.start THEN ahead
  ELSE TargetTime(Min(wall)) + (IF s.need_first THEN Minute ELSE 0) - wall

TooEarly ==
  LET s == Started IN
  /\ Checking /\ Diff(s.target) < 0
  /\ sched' = s /\ ahead' = Ahead(s)
  /\ UNCHANGED <<wall, chan, linked, round, recheck, steps>>

Aligned ==
  LET s == Started IN
  /\ Checking /\ Diff(s.target) >= 0
  /\ InTime /\ ~Skewed
  /\ round' = IF s.need_first THEN [pc |-> "split", cause |-> "first"] ELSE Idle
  /\ sched' = [Passed(s) EXCEPT !.need_first = FALSE]
  /\ ahead' = Ahead(s) + Full
  /\ UNCHANGED <<wall, chan, linked, recheck, steps>>

Withheld ==
  LET s == Started IN
  /\ Checking /\ Diff(s.target) >= 0
  /\ ~InTime \/ Skewed
  /\ Graced(Diff(s.target)) \/ Protected(s)
  /\ sched' = s /\ ahead' = Ahead(s)
  /\ UNCHANGED <<wall, chan, linked, round, recheck, steps>>

Consumed(s) == [Passed(s) EXCEPT !.need_first = FALSE]

Forced ==
  LET s == Started IN
  /\ Checking /\ Diff(s.target) >= 0
  /\ ~InTime \/ Skewed
  /\ ~Graced(Diff(s.target)) /\ ~Protected(s)
  /\ round' = [pc |-> "split", cause |-> IF Skewed THEN "skew" ELSE "drift"]
  /\ sched' = Consumed(s) /\ ahead' = Ahead(s) + Full
  /\ UNCHANGED <<wall, chan, linked, recheck, steps>>

(* Every linked channel is asked to split at the same running time, and    *)
(* its measurements are forgotten: those of a fragment that has opened     *)
(* since they were judged, too.                                            *)
Prerolled == \A c \in linked : chan[c].age # NONE

Forget(r) == [r EXCEPT !.sm = UNSET, !.rt = NONE, !.stale = TRUE]

RequestSplits ==
  /\ round.pc = "split" /\ round' = Idle
  /\ \E when \in {Margin} \cup (IF Prerolled THEN {} ELSE {0}) :
       chan' = [c \in Channels |->
         IF c \in linked
         THEN Forget([chan[c] EXCEPT !.cut = IF @ = NONE THEN when ELSE @,
                                     !.cause = round.cause])
         ELSE chan[c]]
  /\ UNCHANGED <<wall, linked, sched, epoch, checked, recheck, steps, ahead>>

Check == CheckWaits \/ TooEarly \/ Aligned \/ Withheld \/ Forced

-----------------------------------------------------------------------------
(* Time *)

Older(age) == IF age = NONE THEN NONE ELSE age + 1

OlderChannel(r) ==
  [r EXCEPT !.age = Older(@), !.rt = Older(@),
            !.cut = IF @ = NONE \/ (r.age = NONE /\ @ = 0) THEN @ ELSE @ - 1,
            !.msgs = [i \in DOMAIN @ |-> Older(@[i])]]

(* In a tick the timer fires, and the main loop takes the messages; a      *)
(* streaming thread lags at most MaxLag behind.                            *)
Tick ==
  /\ checked /\ round = Idle /\ \A c \in Channels : chan[c].msgs = <<>>
  /\ \A c \in Channels :
       /\ chan[c].age < Full + MaxOf(Slips) + MaxLag
       /\ chan[c].cut = NONE \/ chan[c].age = NONE \/ chan[c].cut > 0 - MaxLag
  /\ wall' = (wall + 1) % Hour /\ ahead' = IF sched.start THEN ahead - 1 ELSE 0
  /\ chan' = [c \in Channels |-> OlderChannel(chan[c])]
  /\ sched' = [sched EXCEPT !.since = IF @ < MinInterval THEN @ + 1 ELSE @]
  /\ checked' = FALSE
  /\ recheck # 0 /\ recheck' = IF recheck = NONE THEN NONE ELSE recheck - 1
  /\ UNCHANGED <<linked, round, epoch, steps>>

SetClock(d) ==
  /\ steps > 0 /\ steps' = steps - 1
  /\ wall' = (wall + d) % Hour /\ ahead' = IF sched.start THEN ahead - d ELSE 0
  /\ UNCHANGED <<chan, linked, sched, round, epoch, checked, recheck>>

-----------------------------------------------------------------------------
Next ==
  \/ \E c \in Channels : \/ StreamStart(c) \/ FirstFragment(c)
                         \/ RollOver(c) \/ CutHere(c) \/ FragmentOpened(c)
  \/ Check \/ RequestSplits \/ RecheckLinks \/ Tick
  \/ \E d \in Steps : SetClock(d)

Spec == Init /\ [][Next]_vars

-----------------------------------------------------------------------------
(* Properties *)

(* A target is passed only when the clock has reached it, whatever the     *)
(* hour's wrap, the delays and the settings of the clock.                  *)
PassedInTime ==
  [][sched.start /\ sched'.target # sched.target => ahead <= 0]_vars

(* Once there is a target, two fragments of a channel in a row have the    *)
(* same file name, so that the second destroys the first, only if the      *)
(* first is the channel's first ever, or was opened before the minute it   *)
(* is named after, or did not outlast the tolerated error, or the clock    *)
(* was set, or the skew made splitCheck() cut.                             *)
NamesDiffer == \A c \in Channels : chan[c].twin \in {"no", "skew"}
-----------------------------------------------------------------------------
(* What the settings must satisfy for the theorems of SplitCheckProofs *)

Offset == StartSec * Second
Longest == MaxOf(Slips)

(* A target passed late is passed before this long. *)
Lateness ==
  Second - 1 + (IF SplitMax < MinInterval THEN MinInterval ELSE SplitMax)

(* The first target is no farther than this, nor is the next. *)
Furthest == IF Full < Minute + Offset THEN Minute + Offset ELSE Full

(* The clock may be set so far back, and the target is still within half   *)
(* an hour.                                                                *)
ReachIs(back) ==
  /\ \A d \in Steps : 0 - d <= back
  /\ Furthest + MaxSteps * back + Second <= Hour \div 2

HourSuffices == \E back \in Nat : ReachIs(back)

(* A fragment in time may be told from its neighbours and from those that  *)
(* are not; a target passed late is passed long before the next; the hour  *)
(* is longer than what is measured; and the links are read again before a  *)
(* fragment can have ended.                                                *)
Punctual ==
  /\ Offset + MaxLag + Margin + SplitDiff <= SplitMax /\ SplitDiff >= 1
  /\ Lateness + Margin + SplitDiff + MaxLag <= 2 * SplitMax + 1
  /\ Lateness <= MaxDrift /\ MaxDrift + SplitMax <= Minute
  /\ Offset + MaxLag + Second <= Full \div 2 + 1
  /\ Lateness + Offset + Margin + MaxLag + 1 < Full
  /\ Furthest + Second <= Hour \div 2
  /\ 2 * Full + Full \div 2 + Longest + MaxLag < Hour
  /\ RecheckAt < Full
=============================================================================
