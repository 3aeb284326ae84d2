---------------------------- MODULE ChannelWiring ----------------------------
(***************************************************************************)
(* How the bins of a channel are built and joined when the program starts, *)
(* and how the commands of cmd_parser() take them apart again.             *)
(*                                                                         *)
(* A VideoBin serves the two channels of a CSI.  Each gets source pads of  *)
(* its own, but the VideoBin remembers only one pad per stream: the last   *)
(* one added.  With a single encoder the channel's EncoderBin is between   *)
(* the VideoBin's record pad and the two streams that are encoded.         *)
(***************************************************************************)
EXTENDS Integers

CONSTANT
  Plans  \* dual_enc, stream_en and channels of a configuration, the threads
         \* that take commands, what commands they are given and how many

Threads == {"terminal", "tcp"}
Streams == {"cap", "rec", "rtsp"}
CsiOf(c) == c \div 2

Operations ==
  [kind : {"link", "unlink", "suspend", "add", "rm", "once"}, stream : Streams,
   channels : SUBSET (0..3)]

ASSUME ChannelWiringAssumption ==
  Plans \subseteq [dual : BOOLEAN, streams : SUBSET Streams, channels : SUBSET (0..3),
                  threads : SUBSET Threads, operations : SUBSET Operations,
                  commands : Nat]

VARIABLES
  plan,     \* the configuration
  enable,   \* cmdArg.cam[].enable
  pass,     \* where main() is
  next,     \* the CSI or the channel that pass comes to next
  faulty,   \* the CSIs that failed
  video,    \* of a CSI: is its VideoBin there, half built or complete
  pad,      \* of a CSI and a stream: the channel whose pad the VideoBin remembers
  bin,      \* of a stream and a channel: its bin
  links,    \* the pads that are linked
  work,     \* of a thread: the command it executes
  given     \* the number of commands so far

wiringVars == <<plan, enable, pass, next, faulty, video, pad, bin, links, work, given>>

Idle == [kind |-> "none", stream |-> "cap", todo |-> {}, all |-> FALSE, half |-> FALSE]
Nobody == 0 - 1

WiringInit ==
  /\ plan \in Plans
  /\ enable = plan.channels
  /\ pass = "controls" /\ next = 0 /\ faulty = {}
  /\ video = [i \in {0, 1} |-> "none"]
  /\ pad = [i \in {0, 1} |-> [s \in Streams |-> Nobody]]
  /\ bin = [s \in Streams \cup {"enc"} |-> [c \in 0..3 |-> "none"]]
  /\ links = {}
  /\ work = [t \in Threads |-> Idle] /\ given = 0

-----------------------------------------------------------------------------
(* Pads.  A source pad belongs to the camera or the encoder of a channel;  *)
(* a sink pad to a channel's bin.                                          *)

Single == ~plan.dual

Camera(s, c) == [of |-> "video", stream |-> s, channel |-> c]
Encoder(s, c) == [of |-> "encoder", stream |-> s, channel |-> c]
Sink(s, c) == [stream |-> s, channel |-> c]

(* The source pad that a command finds for a stream of a channel. *)
Source(s, c) ==
  IF Single /\ s # "cap" THEN Encoder(s, c) ELSE Camera(s, pad[CsiOf(c)][s])

Linked(p) == \E k \in links : p \in {k.from, k.to}

(* gst_pad_link(): refused when either pad is linked, when there is no pad *)
(* and when the bin is not in the pipeline.                                *)
TryLink(s, c) ==
  IF Source(s, c).channel = Nobody \/ bin[s][c] # "in"
     \/ Linked(Source(s, c)) \/ Linked(Sink(s, c))
  THEN {} ELSE {[from |-> Source(s, c), to |-> Sink(s, c)]}

(* slip: whatever feeds the bin is unlinked from it *)
UnlinksPeer(s, c) == {k \in links : k.to = Sink(s, c)}

(* gst_pad_unlink(): only two pads that are linked to each other. *)
Unlinks(s, c) == links \cap {[from |-> Source(s, c), to |-> Sink(s, c)]}

-----------------------------------------------------------------------------
(* Start-up *)

Goes(p, n) == pass' = p /\ next' = n

(* slip: only the channel at hand is disabled *)
DisableOne(i) == enable' = enable \ {next}

(* Both channels of a CSI are disabled. *)
Disable(i) == enable' = enable \ {2 * i, 2 * i + 1}

Keeps == UNCHANGED <<plan, work, given>>

(* VideoBin::init() applies the controls of a CSI that is in use. *)
Controls(i) ==
  /\ pass = "controls" /\ next = i
  /\ IF i = 1 THEN Goes("prepare", 0) ELSE Goes(pass, i + 1)
  /\ \/ UNCHANGED <<enable, faulty>>
     \/ /\ \E c \in enable : CsiOf(c) = i
        /\ Disable(i) /\ faulty' = faulty \cup {i}
  /\ Keeps /\ UNCHANGED <<video, pad, bin, links>>

(* max9296_prepare_all(): when it refuses every CSI the program ends. *)
PrepareAll ==
  /\ pass = "prepare"
  /\ LET active == {CsiOf(c) : c \in enable} IN
     \E refused \in SUBSET active :
       /\ faulty' = faulty \cup refused
       /\ IF refused = active /\ refused # {}
          THEN Goes("ended", 0) /\ UNCHANGED enable
          ELSE Goes("build", 0) /\ enable' = {c \in enable : CsiOf(c) \notin refused}
  /\ Keeps /\ UNCHANGED <<video, pad, bin, links>>

Following(c) == IF c = 3 THEN Goes("assembled", 0) ELSE Goes("build", c + 1)

PassesOver(c) ==
  /\ pass = "build" /\ next = c /\ c \notin enable
  /\ Following(c)
  /\ Keeps /\ UNCHANGED <<enable, faulty, video, pad, bin, links>>

(* VideoBin::build() fails: it leaves what it had made of the bin. *)
VideoFails(c) ==
  LET i == CsiOf(c) IN
  /\ pass = "build" /\ next = c /\ c \in enable /\ video[i] = "none"
  /\ video' = [video EXCEPT ![i] = "half"]
  /\ Disable(i) /\ faulty' = faulty \cup {i}
  /\ Following(c)
  /\ Keeps /\ UNCHANGED <<pad, bin, links>>

(* Anything else that cannot be made or joined ends the program. *)
Abort ==
  /\ pass \in {"build", "assembled"} /\ Goes("ended", 0)
  /\ Keeps /\ UNCHANGED <<enable, faulty, video, pad, bin, links>>

Encoded == plan.streams \ {"cap"}

(* The streams for which a channel gets a pad of the VideoBin. *)
Tapped ==
  IF Single THEN (plan.streams \cap {"cap"}) \cup {s \in {"rec"} : Encoded # {}}
  ELSE plan.streams

(* What the channel's bins are joined to, once its pads have been added. *)
Joined(c) ==
  {[from |-> IF Single /\ s # "cap" THEN Encoder(s, c) ELSE Camera(s, pad'[CsiOf(c)][s]),
    to |-> Sink(s, c)] : s \in plan.streams}
  \cup (IF Single /\ Encoded # {}
        THEN {[from |-> Camera("rec", pad'[CsiOf(c)]["rec"]), to |-> Sink("enc", c)]}
        ELSE {})

BuildChannel(c) ==
  LET i == CsiOf(c) IN
  /\ pass = "build" /\ next = c /\ c \in enable
  /\ video' = [video EXCEPT ![i] = IF @ = "none" THEN "complete" ELSE @]
  /\ pad' = [pad EXCEPT ![i] = [s \in Streams |-> IF s \in Tapped THEN c ELSE @[s]]]
  /\ bin' = [s \in DOMAIN bin |->
       IF s \in plan.streams \/ (s = "enc" /\ Single /\ Encoded # {})
       THEN [bin[s] EXCEPT ![c] = "in"] ELSE bin[s]]
  /\ links' = links \cup Joined(c)
  /\ Following(c)
  /\ Keeps /\ UNCHANGED <<enable, faulty>>

(* Audio and the rest of the start, up to the threads that take commands. *)
Runs ==
  /\ pass = "assembled" /\ Goes("running", 0)
  /\ Keeps /\ UNCHANGED <<enable, faulty, video, pad, bin, links>>

StartUp ==
  \/ PrepareAll \/ Abort \/ Runs
  \/ \E i \in {0, 1} : Controls(i)
  \/ \E c \in 0..3 : PassesOver(c) \/ VideoFails(c) \/ BuildChannel(c)

-----------------------------------------------------------------------------
(* Commands.  A thread goes through the channels of its command one by     *)
(* one, and skips those that are disabled or do without the stream.        *)
(*                                                                         *)
(* A bin that is taken out of the pipeline is freed with its pads, but     *)
(* its object keeps the pointers: what a command does with them is         *)
(* undefined, and the model takes no such step.                            *)

Busy(t) == work[t].todo # {}
First(t) == CHOOSE c \in work[t].todo : \A d \in work[t].todo : c <= d

Begin(t, op) ==
  /\ pass = "running" /\ t \in plan.threads /\ ~Busy(t) /\ given < plan.commands
  /\ ~(Single /\ op.kind \in {"add", "rm"} /\ op.stream = "rec")
  /\ given' = given + 1
  /\ work' = [work EXCEPT ![t] =
       [kind |-> op.kind, stream |-> op.stream, todo |-> op.channels,
        all |-> op.channels = 0..3, half |-> FALSE]]
  /\ UNCHANGED <<plan, enable, pass, next, faulty, video, pad, bin, links>>

Does(t, kind, c) ==
  /\ Busy(t) /\ work[t].kind = kind /\ c = First(t)
  /\ c \in enable /\ work[t].stream \in plan.streams
  /\ UNCHANGED <<plan, enable, pass, next, faulty, video, pad, given>>

Rest(w, c) == [w EXCEPT !.todo = @ \ {c}, !.half = FALSE]

Done(t, c) == work' = [work EXCEPT ![t] = Rest(work[t], c)]

Half(t) == work' = [work EXCEPT ![t].half = TRUE]

Skip(t) ==
  /\ Busy(t) /\ work[t].kind # "suspend"
  /\ ~(First(t) \in enable /\ work[t].stream \in plan.streams)
  /\ Done(t, First(t))
  /\ UNCHANGED <<plan, enable, pass, next, faulty, video, pad, bin, links, given>>

Alive(s, c) == bin[s][c] # "freed"

(* "link cap" without a channel looks at the pad of the RTSP stream. *)
Tested(t, c) ==
  IF work[t].stream = "cap" /\ work[t].all THEN Camera("rtsp", pad[CsiOf(c)]["rtsp"])
  ELSE Source(work[t].stream, c)

Link(t, c) ==
  LET s == work[t].stream IN
  /\ Does(t, "link", c) /\ Alive(s, c)
  /\ links' = IF Linked(Tested(t, c)) THEN links ELSE links \cup TryLink(s, c)
  /\ Done(t, c) /\ UNCHANGED bin

Unlink(t, c) ==
  LET s == work[t].stream IN
  /\ Does(t, "unlink", c) /\ Alive(s, c)
  /\ links' = links \ Unlinks(s, c)
  /\ Done(t, c) /\ UNCHANGED bin

(* "start cap" in mode 0 unlinks what is encoded of every channel. *)
Suspend(t) ==
  /\ Busy(t) /\ work[t].kind = "suspend" /\ Done(t, First(t))
  /\ \A s \in Encoded, c \in enable : Alive(s, c)
  /\ links' = links \ UNION {Unlinks(s, c) : s \in Encoded, c \in enable}
  /\ UNCHANGED <<plan, enable, pass, next, faulty, video, pad, bin, given>>

(* The bin is there already: "add" changes nothing.  For "rec" and "rtsp"  *)
(* it is the name of the capture bin that is looked for.                   *)
Add(t, c) ==
  LET s == work[t].stream IN
  /\ Does(t, "add", c) /\ Alive(s, c)
  /\ Done(t, c) /\ UNCHANGED <<bin, links>>

(* gst_bin_remove() unlinks the pads of the bin. *)
Remove(s, c) ==
  IF bin[s][c] = "in"
  THEN /\ bin' = [bin EXCEPT ![s][c] = "freed"]
       /\ links' = {k \in links : k.to # Sink(s, c)}
  ELSE UNCHANGED <<bin, links>>

(* "rm cap" without a channel removes the bin whether it was unlinked or not. *)
Unhook(t, c) ==
  LET s == work[t].stream
      u == Unlinks(s, c) IN
  /\ Does(t, "rm", c) /\ ~work[t].half /\ Alive(s, c)
  /\ links' = links \ u /\ UNCHANGED bin
  /\ IF u # {} \/ (s = "cap" /\ work[t].all) THEN Half(t) ELSE Done(t, c)

TakeOut(t, c) ==
  /\ Does(t, "rm", c) /\ work[t].half /\ Alive(work[t].stream, c)
  /\ Remove(work[t].stream, c) /\ Done(t, c)

(* "start cap" in mode 2 makes a new bin, which has a place in the         *)
(* pipeline only when the one before has been removed.                     *)
Renew(t, c) ==
  LET old == {k \in links : k.to = Sink("cap", c)} IN
  /\ Does(t, "once", c) /\ ~work[t].half
  /\ IF Alive("cap", c)
     THEN /\ bin' = [bin EXCEPT !["cap"][c] = "outside"]
          /\ links' = (links \ old) \cup {[k EXCEPT !.to = Sink("lost", c)] : k \in old}
          /\ IF Linked(Source("cap", c)) THEN Half(t) ELSE Done(t, c)
     ELSE /\ bin' = [bin EXCEPT !["cap"][c] = "in"]
          /\ links' = links \cup {[from |-> p, to |-> Sink("cap", c)] :
                                    p \in {q \in {Source("cap", c)} : ~Linked(q)}}
          /\ Half(t)

(* When it has captured, it takes its bin out again. *)
Discard(t, c) ==
  /\ Does(t, "once", c) /\ work[t].half /\ Alive("cap", c)
  /\ IF Unlinks("cap", c) # {} THEN Remove("cap", c) ELSE UNCHANGED <<bin, links>>
  /\ Done(t, c)

Execute(t) ==
  \/ Skip(t) \/ Suspend(t)
  \/ \E c \in 0..3 : \/ Link(t, c) \/ Unlink(t, c) \/ Add(t, c) \/ Unhook(t, c)
                     \/ TakeOut(t, c) \/ Renew(t, c) \/ Discard(t, c)

-----------------------------------------------------------------------------
(* Properties *)

(* When the start is done, every configured channel is either complete,    *)
(* its bins in the pipeline and fed with the pictures of its own camera    *)
(* by way of a complete VideoBin, or it is disabled, because something of  *)
(* its own CSI failed.                                                     *)
BuiltOrDisabled ==
  pass = "assembled" => \A c \in plan.channels :
    IF CsiOf(c) \in faulty THEN c \notin enable
    ELSE /\ c \in enable /\ video[CsiOf(c)] = "complete"
         /\ \A s \in plan.streams : \E k \in links :
              /\ k.to = Sink(s, c) /\ k.from.channel = c /\ bin[s][c] = "in"
              /\ k.from.of = "encoder" => \E e \in links :
                   e.to = Sink("enc", c) /\ e.from = Camera("rec", c)

(* However the commands are mixed, a channel's recording and its RTSP      *)
(* stream never show another channel: the one pad a VideoBin remembers for *)
(* both of its channels makes commands fail, not pictures change places.   *)
(* (Captures do change places: see the hazards.)                           *)
OwnChannel == \A k \in links : k.to.stream \in Encoded => k.from.channel = k.to.channel
=============================================================================
