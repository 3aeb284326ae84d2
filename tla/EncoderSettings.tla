-------------------------- MODULE EncoderSettings --------------------------
(***************************************************************************)
(* Frame rate, key frame interval and bit rate of the encoders: what       *)
(* check_arg() makes of the configuration, what the encoders are given     *)
(* when they are built, and the commands of cmd_parser() that change it,   *)
(* from the terminal's thread and from the TCP server's, without a lock.   *)
(*                                                                         *)
(* A command goes through its channels one by one.  In each it first sets  *)
(* the encoders, from what cmdArg says then, and later notes the values in *)
(* cmdArg.                                                                 *)
(***************************************************************************)
EXTENDS Integers, FiniteSets

CONSTANTS
  Channels,        \* the enabled channels
  Configurations,  \* dual_enc, stream_en, and fps, gop and bps as parsed
  Rates,           \* frame rates that commands ask for; 0 only of "set fps"
  Gops, Bitrates,  \* key frame intervals, 0 for one second, and bit rates
  MaxGop,          \* MAX_GOP_SIZE
  DefaultFps,      \* DEFAULT_RECORD_FPS
  MaxMixed         \* bound: no command begins after more channels saw two at once

Threads == {"terminal", "tcp"}
Streams == {"rec", "rtsp"}

(* enc_knob_sanity() and "set gop" admit the intervals up to MAX_GOP_SIZE; *)
(* what is given for "rtsp" is used, and looked at, only with dual_enc.    *)
ASSUME EncoderSettingsAssumption ==
  /\ Channels \subseteq Nat /\ Rates \subseteq Nat /\ Bitrates \subseteq Nat
  /\ MaxGop \in Nat \ {0} /\ DefaultFps \in 1..MaxGop /\ MaxMixed \in Nat
  /\ Gops \subseteq 0..MaxGop
  /\ Configurations \subseteq
       [dual : BOOLEAN, streams : SUBSET Streams,
        given : [Streams -> [fps : Int, gop : Int, bps : Int]]]
  /\ \A c \in Configurations, s \in Streams :
       c.dual \/ s = "rec" => c.given[s].gop \in 0..MaxGop

VARIABLES
  config,  \* dual_enc and stream_en
  arg,     \* cmdArg.fps, .cam[].gop and .cam[].bps, of a channel and a stream
  elem,    \* of a channel and an encoder: frame rate, gop-size and bitrate
  task,    \* of a thread: the command it executes, what it has still to do
  mixed,   \* history: the channels in which two commands have overlapped
  stale    \* history: the channels whose "rec" rate in cmdArg is not the encoder's

settingVars == <<config, arg, elem, task, mixed, stale>>

Dual == config.dual
RecControl == "rec" \in config.streams \/ (~Dual /\ "rtsp" \in config.streams)

(* The encoders there are: one for each stream, or one for both. *)
Encoders ==
  IF Dual THEN config.streams ELSE IF config.streams = {} THEN {} ELSE {"single"}

(* The stream whose slot in cmdArg holds an encoder's values. *)
Slot(e) == IF e = "single" THEN "rec" ELSE e

NoTask == [kind |-> "none", stream |-> "rec", value |-> 0, todo |-> {},
           at |-> 0 - 1, gop |-> [s \in Streams |-> 0]]

-----------------------------------------------------------------------------
(* The arithmetic of key frame intervals *)

AtMost(a, b) == IF a < b THEN a ELSE b

(* enc_gop_resolve(): 0 stands for one second of the stream's own frames. *)
Resolve(gop, fps) ==
  IF gop # 0 THEN gop ELSE AtMost(IF fps > 0 THEN fps ELSE DefaultFps, MaxGop)

(* enc_gop_rescale(): the interval keeps its duration, to the nearest frame. *)
Rescale(gop, prev, new) ==
  LET scaled == (gop * new + prev \div 2) \div prev IN
  IF gop <= 0 \/ prev <= 0 \/ new <= 0 THEN gop
  ELSE AtMost(IF scaled < 1 THEN 1 ELSE scaled, MaxGop)

-----------------------------------------------------------------------------
(* Start: check_arg(), then the init() of the encoders' bins *)

(* slip: the interval of the other slot is kept in single-encoder mode *)
CheckedUnmirrored(c, s) ==
  [c.given[s] EXCEPT !.gop = Resolve(@, c.given[s].fps)]

Checked(c, s) ==
  LET from == IF c.dual THEN s ELSE "rec" IN
  [fps |-> c.given[s].fps, bps |-> c.given[from].bps,
   gop |-> Resolve(c.given[from].gop, c.given[from].fps)]

FpsFrom(c, e) ==
  IF e = "single" /\ "rec" \notin c.streams THEN "rtsp" ELSE Slot(e)

Built(c, values, e) ==
  [fps |-> values[FpsFrom(c, e)].fps, gop |-> values[Slot(e)].gop, bps |-> values[Slot(e)].bps]

SettingsInit ==
  /\ config \in Configurations
  /\ arg = [c \in Channels |-> [s \in Streams |-> Checked(config, s)]]
  /\ elem = [c \in Channels |-> [e \in Encoders |-> Built(config, arg[c], e)]]
  /\ task = [t \in Threads |-> NoTask]
  /\ mixed = {}
  /\ stale = {c \in Channels : \E e \in Encoders \ {"rtsp"} :
              elem[c][e].fps # arg[c]["rec"].fps}

-----------------------------------------------------------------------------
(* Commands.  In each of its channels a command sets the encoders first,   *)
(* and notes in cmdArg what it has set in a step of its own.               *)

Idle(t) == task[t] = NoTask

Begin(t, kind, stream, value, channels) ==
  /\ Idle(t) /\ Cardinality(mixed) <= MaxMixed
  /\ task' = [task EXCEPT ![t] =
       [NoTask EXCEPT !.kind = kind, !.stream = stream, !.value = value,
                      !.todo = channels]]
  /\ UNCHANGED <<config, arg, elem, mixed, stale>>

(* What is common to "rec" and "rtsp": the latter is refused when one      *)
(* encoder serves both.                                                    *)
Controls(stream) ==
  IF stream = "rec" THEN RecControl ELSE Dual /\ "rtsp" \in config.streams

SetBps(t) ==
  \E b \in Bitrates :
    \/ \E c \in Channels : Controls("rec") /\ Begin(t, "bps", "rec", b, {c})
    \/ Controls("rtsp") /\ Begin(t, "bps", "rtsp", b, Channels)

SetFps(t) ==
  \E s \in Streams, c \in Channels, r \in Rates :
    Controls(s) /\ Begin(t, "fps", s, r, {c})

SetRate(t) ==
  \E c \in Channels, r \in Rates \ {0} : Begin(t, "rate", "rec", r, {c})

SetMain(t) ==
  \E r \in Rates \ {0} : Begin(t, "main", "rec", r, Channels)

SetGop(t) ==
  \E s \in Streams, g \in Gops :
    Controls(s) /\ Begin(t, "gop", s, g, Channels)

Next1(S) == CHOOSE c \in S : \A d \in S : c <= d

(* A command takes up its next channel. *)
Applies(t, kind, c) ==
  /\ task[t].kind = kind /\ task[t].at < 0 /\ task[t].todo # {}
  /\ c = Next1(task[t].todo)
  /\ mixed' = mixed \cup {d \in {c} : \E u \in Threads : task[u].at = d}
  /\ UNCHANGED <<config, arg>>

(* The encoders of a channel are set, each in its own way. *)
Takes(t, c, gop, values) ==
  /\ elem' = [elem EXCEPT ![c] = values]
  /\ task' = [task EXCEPT ![t].todo = @ \ {c}, ![t].at = c, ![t].gop = gop]

Unchanged == [s \in Streams |-> 0]

ApplyBps(t, c) ==
  /\ Applies(t, "bps", c) /\ UNCHANGED stale
  /\ Takes(t, c, Unchanged, [e \in Encoders |->
       IF Slot(e) = task[t].stream THEN [elem[c][e] EXCEPT !.bps = task[t].value]
       ELSE elem[c][e]])

(* setFps() sets the caps behind the videorate, which fix the rate, but in *)
(* RtspServerBin only the limit of the videorate, which is left out here.  *)
Paced(r, e, value) == IF e = "rtsp" THEN r ELSE [r EXCEPT !.fps = value]

ApplyFps(t, c) ==
  /\ Applies(t, "fps", c)
  /\ Takes(t, c, Unchanged, [e \in Encoders |->
       IF Slot(e) = task[t].stream THEN Paced(elem[c][e], e, task[t].value)
       ELSE elem[c][e]])
  /\ stale' = IF ~Dual THEN stale \ {c}
              ELSE IF task[t].stream = "rec" THEN stale \cup {c} ELSE stale

ApplyRate(t, c) ==
  /\ Applies(t, "rate", c)
  /\ Takes(t, c, Unchanged, [e \in Encoders |->
       IF Dual THEN Paced(elem[c][e], e, task[t].value) ELSE elem[c][e]])
  /\ stale' = IF Dual THEN stale \cup {c} ELSE stale

(* slip: cmdArg's frame rate is taken after it was updated *)
RescaledLate(t, c, s) == Rescale(arg[c][s].gop, task[t].value, task[t].value)

Rescaled(t, c, s) == Rescale(arg[c][s].gop, arg[c][s].fps, task[t].value)

(* The bit rate is given again, for the rate control to follow the frames. *)
ApplyMain(t, c) ==
  LET gop == [s \in Streams |-> Rescaled(t, c, s)] IN
  /\ Applies(t, "main", c) /\ UNCHANGED stale
  /\ Takes(t, c, gop, [e \in Encoders |->
       [Paced(elem[c][e], e, task[t].value) EXCEPT
          !.gop = gop[Slot(e)], !.bps = arg[c][Slot(e)].bps]])

ResolvedGop(t, c) == Resolve(task[t].value, arg[c][task[t].stream].fps)

ApplyGop(t, c) ==
  LET gop == [s \in Streams |-> ResolvedGop(t, c)] IN
  /\ Applies(t, "gop", c) /\ UNCHANGED stale
  /\ Takes(t, c, gop, [e \in Encoders |->
       IF Slot(e) = task[t].stream THEN [elem[c][e] EXCEPT !.gop = gop[Slot(e)]]
       ELSE elem[c][e]])

(* One encoder serves both streams: their slots are kept alike. *)
Slots(t) == IF Dual THEN {task[t].stream} ELSE Streams

Noted(t, c) ==
  CASE task[t].kind = "bps" ->
         [s \in Streams |-> IF s \in Slots(t) THEN [arg[c][s] EXCEPT !.bps = task[t].value]
                            ELSE arg[c][s]]
    [] task[t].kind = "gop" ->
         [s \in Streams |-> IF s \in Slots(t) THEN [arg[c][s] EXCEPT !.gop = task[t].gop[s]]
                            ELSE arg[c][s]]
    [] task[t].kind = "fps" /\ ~Dual ->
         [s \in Streams |-> [arg[c][s] EXCEPT !.fps = task[t].value]]
    [] task[t].kind = "main" ->
         [s \in Streams |-> [arg[c][s] EXCEPT
            !.gop = task[t].gop[IF Dual THEN s ELSE "rec"], !.fps = task[t].value]]
    [] OTHER -> arg[c]

(* The command has noted what it set, and goes on or ends. *)
Note(t) ==
  LET c == task[t].at IN
  /\ c >= 0
  /\ arg' = [arg EXCEPT ![c] = Noted(t, c)]
  /\ task' = [task EXCEPT ![t] =
       IF @.todo = {} THEN NoTask ELSE [@ EXCEPT !.at = 0 - 1]]
  /\ stale' = IF task[t].kind = "main" THEN stale \ {c} ELSE stale
  /\ UNCHANGED <<config, elem, mixed>>

Apply(t) ==
  \E c \in Channels : ApplyBps(t, c) \/ ApplyFps(t, c) \/ ApplyRate(t, c)
                       \/ ApplyMain(t, c) \/ ApplyGop(t, c)

(* One step of a thread that executes tuning commands. *)
Tune(t) ==
  SetBps(t) \/ SetFps(t) \/ SetRate(t) \/ SetMain(t) \/ SetGop(t) \/ Apply(t) \/ Note(t)

SettingsSpec == SettingsInit /\ [][\E t \in Threads : Tune(t)]_settingVars

-----------------------------------------------------------------------------
(* Properties *)

(* What cmdArg tells of an encoder (for "get", for restarts of its bin and *)
(* for the next command's arithmetic) is what the encoder has been set to, *)
(* whatever commands have been given, except where two have overlapped;    *)
(* the encoder is never given the 0 that stands for one second; and with   *)
(* one encoder the slots of both streams say the same.                     *)
Agree ==
  \A c \in Channels, e \in Encoders :
    /\ elem[c][e].gop \in 1..MaxGop
    /\ c \notin mixed /\ (\A t \in Threads : task[t].at # c) =>
         /\ elem[c][e].gop = arg[c][Slot(e)].gop
         /\ elem[c][e].bps = arg[c][Slot(e)].bps
         /\ e # "rtsp" /\ c \notin stale => elem[c][e].fps = arg[c][Slot(e)].fps
         /\ e = "single" => arg[c]["rtsp"].gop = arg[c]["rec"].gop
                            /\ arg[c]["rtsp"].bps = arg[c]["rec"].bps

Abs(n) == IF n < 0 THEN 0 - n ELSE n

(* A key frame interval lasts as long as before, to half a frame. *)
SameInterval(old, new) ==
  \/ old.fps <= 0 \/ new.fps <= 0 \/ new.gop \in {1, MaxGop}
  \/ 2 * Abs(new.gop * old.fps - old.gop * new.fps) <= old.fps

OneSecond(new) == new.fps > 0 => new.gop = AtMost(new.fps, MaxGop)

(* "set fps main" keeps the time between key frames, and "set gop 0" makes *)
(* it a second, in terms of the encoder's own frame rate, for every        *)
(* channel of which cmdArg knows that rate (parser.cpp 254-271).           *)
KeepsInterval ==
  [][\A t \in Threads, c \in Channels, e \in Encoders \ {"rtsp"} :
       c \notin mixed' \cup stale =>
         /\ ApplyMain(t, c) => SameInterval(elem[c][e], elem'[c][e])
         /\ ApplyGop(t, c) /\ task[t].value = 0 /\ Slot(e) = task[t].stream =>
              OneSecond(elem'[c][e])]_settingVars
=============================================================================
