------------------------ MODULE CommandServerProofs ------------------------
(***************************************************************************)
(* Three promises of the program, for any number of commands, of clients   *)
(* and of descriptors: every configured channel is built or disabled,      *)
(* recordings and RTSP streams keep to their own channel, and the TCP      *)
(* server hears exactly the clients it accepted.                           *)
(***************************************************************************)
EXTENDS CommandServer, FiniteSetTheorems, TLAPS

-----------------------------------------------------------------------------
(* The wiring. *)

Pads == [of : {"video", "encoder"}, stream : Streams, channel : (0..3) \cup {Nobody}]
Sinks == [stream : Streams \cup {"enc", "lost"}, channel : 0..3]
Works ==
  [kind : {"none", "link", "unlink", "suspend", "add", "rm", "once"}, stream : Streams,
   todo : SUBSET (0..3), all : BOOLEAN, half : BOOLEAN]

WiringTypeOK ==
  /\ plan \in Plans
  /\ bin \in [Streams \cup {"enc"} -> [0..3 -> {"none", "in", "freed", "outside"}]]
  /\ pad \in [{0, 1} -> [Streams -> (0..3) \cup {Nobody}]]
  /\ links \subseteq [from : Pads, to : Sinks]
  /\ work \in [Threads -> Works]

(* No command runs before the start is done. *)
Resting == pass # "running" => \A t \in Threads : ~Busy(t)

(* A bin that nobody took out is still fed by its own camera, unless it is *)
(* that of the pad remembered: no command can find the other pads.         *)
Own(s, c) == [from |-> Camera(s, c), to |-> Sink(s, c)]
Fed ==
  \A s \in Encoded, c \in 0..3 :
    /\ ~Single /\ bin[s][c] = "in"
    /\ pass # "running" \/ pad[CsiOf(c)][s] # c
    => Own(s, c) \in links

WiringInv == WiringTypeOK /\ Resting /\ Fed /\ OwnChannel

LEMMA CsiType ==
  ASSUME NEW c \in 0..3
  PROVE  CsiOf(c) \in {0, 1}
BY DEF CsiOf

LEMMA PlanType ==
  ASSUME plan \in Plans
  PROVE  /\ plan.dual \in BOOLEAN /\ plan.streams \subseteq Streams
         /\ plan.channels \subseteq 0..3 /\ plan.operations \subseteq Operations
         /\ Encoded \subseteq Streams \ {"cap"}
BY ChannelWiringAssumption DEF Encoded

LEMMA WiringInitially == WiringInit => WiringInv
<1> SUFFICES ASSUME WiringInit PROVE WiringInv
    OBVIOUS
<1> USE DEF WiringInit
<1>1. WiringTypeOK
      BY DEF WiringTypeOK, Idle, Works, Streams, Threads
<1>2. Resting
      BY DEF Resting, Busy, Idle
<1>3. Fed
  <2> SUFFICES ASSUME NEW s \in Encoded, NEW c \in 0..3 PROVE bin[s][c] # "in"
      BY DEF Fed
  <2> QED  BY PlanType DEF Streams
<1>4. OwnChannel
      BY DEF OwnChannel
<1> QED  BY <1>1, <1>2, <1>3, <1>4 DEF WiringInv

(* A step that leaves pads, bins and links alone. *)
LEMMA StartKeeps ==
  ASSUME WiringInv, UNCHANGED <<plan, pad, bin, links, work>>, pass # "running"
  PROVE  WiringInv'
<1> USE DEF WiringInv
<1>1. WiringTypeOK'
      BY DEF WiringTypeOK
<1>2. Resting'
      BY DEF Resting, Busy
<1>3. Fed'
      BY DEF Fed, Encoded, Single, Own, Camera, Sink
<1>4. OwnChannel'
      BY DEF OwnChannel, Encoded
<1> QED  BY <1>1, <1>2, <1>3, <1>4

(* What BuildChannel() joins is of the channel itself. *)
LEMMA BuildKeeps ==
  ASSUME WiringInv, NEW c \in 0..3, BuildChannel(c)
  PROVE  WiringInv'
<1> USE DEF WiringInv
<1> DEFINE i == CsiOf(c)
<1>1. i \in {0, 1}
      BY CsiType
<1>2. /\ pass = "build" /\ UNCHANGED <<plan, work>>
      /\ links' = links \cup Joined(c)
      /\ pass' # "running"
      BY DEF BuildChannel, Following, Goes, Keeps
<1>3. plan \in Plans
      BY DEF WiringTypeOK
<1>4. \A s \in Streams : pad'[i][s] \in {c, pad[i][s]}
      BY <1>1 DEF BuildChannel, WiringTypeOK
<1>5. pad' \in [{0, 1} -> [Streams -> (0..3) \cup {Nobody}]]
      BY <1>1 DEF BuildChannel, WiringTypeOK
<1>6. bin' \in [Streams \cup {"enc"} -> [0..3 -> {"none", "in", "freed", "outside"}]]
      BY DEF BuildChannel, WiringTypeOK
<1>7. \A s \in Encoded, d \in 0..3 : bin'[s][d] = "in" => d = c \/ bin[s][d] = "in"
      BY <1>3, PlanType DEF BuildChannel, WiringTypeOK
<1>8. Joined(c) \subseteq [from : Pads, to : Sinks]
  <2>1. \A s \in Streams : Sink(s, c) \in Sinks /\ Encoder(s, c) \in Pads
        BY DEF Sink, Sinks, Encoder, Pads
  <2>2. \A s \in Streams : Camera(s, pad'[i][s]) \in Pads
        BY <1>1, <1>5 DEF Camera, Pads
  <2>3. Sink("enc", c) \in Sinks
        BY DEF Sink, Sinks
  <2> QED  BY <2>1, <2>2, <2>3, <1>3, PlanType DEF Joined, Streams
<1>9. \A s \in Encoded : ~Single => pad'[i][s] = c
      BY <1>1, <1>3, PlanType DEF BuildChannel, Tapped, Encoded, WiringTypeOK
<1>10. \A s \in Encoded : ~Single => Own(s, c) \in Joined(c)
      BY <1>9 DEF Joined, Own, Encoded
<1>11. \A k \in Joined(c) : k.to.stream \in Encoded => k.from.channel = k.to.channel
  <2> SUFFICES ASSUME NEW k \in Joined(c), k.to.stream \in Encoded
               PROVE  k.from.channel = k.to.channel
      OBVIOUS
  <2>1. CASE Single
        BY <2>1, <1>3, PlanType DEF Joined, Encoder, Camera, Sink, Encoded, Streams
  <2>2. CASE ~Single
        BY <2>2, <1>9 DEF Joined, Camera, Sink
  <2> QED  BY <2>1, <2>2
<1>12. WiringTypeOK'
      BY <1>2, <1>5, <1>6, <1>8 DEF WiringTypeOK
<1>13. Resting'
      BY <1>2 DEF Resting, Busy
<1>14. Fed'
  <2> SUFFICES ASSUME NEW s \in Encoded, NEW d \in 0..3, ~Single, bin'[s][d] = "in"
               PROVE  Own(s, d) \in links'
      BY <1>2 DEF Fed, Encoded, Single, Own, Camera, Sink
  <2>1. CASE d = c
        BY <2>1, <1>10, <1>2
  <2>2. CASE d # c
        BY <2>2, <1>7, <1>2 DEF Fed
  <2> QED  BY <2>1, <2>2
<1>15. OwnChannel'
      BY <1>2, <1>11 DEF OwnChannel, Encoded
<1> QED  BY <1>12, <1>13, <1>14, <1>15

LEMMA StartUpKeeps == WiringInv /\ StartUp => WiringInv'
<1> SUFFICES ASSUME WiringInv, StartUp PROVE WiringInv'
    OBVIOUS
<1> USE DEF Goes, Keeps, Following
<1>1. CASE PrepareAll
      BY <1>1, StartKeeps DEF PrepareAll
<1>2. CASE Abort
      BY <1>2, StartKeeps DEF Abort
<1>3. CASE Runs
      BY <1>3, StartKeeps DEF Runs
<1>4. ASSUME NEW n \in {0, 1}, Controls(n) PROVE WiringInv'
      BY <1>4, StartKeeps DEF Controls
<1>5. ASSUME NEW c \in 0..3, PassesOver(c) PROVE WiringInv'
      BY <1>5, StartKeeps DEF PassesOver
<1>6. ASSUME NEW c \in 0..3, VideoFails(c) PROVE WiringInv'
      BY <1>6, StartKeeps DEF VideoFails
<1>7. ASSUME NEW c \in 0..3, BuildChannel(c) PROVE WiringInv'
      BY <1>7, BuildKeeps
<1> QED  BY <1>1, <1>2, <1>3, <1>4, <1>5, <1>6, <1>7 DEF StartUp

(* What a command may do to the wiring. *)
LEMMA CommandKeeps ==
  ASSUME WiringInv, pass = "running", UNCHANGED <<plan, pad, pass>>,
         work' \in [Threads -> Works],
         bin' \in [Streams \cup {"enc"} -> [0..3 -> {"none", "in", "freed", "outside"}]],
         links' \subseteq [from : Pads, to : Sinks],
         \A s \in Encoded, c \in 0..3 : bin'[s][c] = "in" =>
           /\ bin[s][c] = "in"
           /\ pad[CsiOf(c)][s] # c /\ Own(s, c) \in links => Own(s, c) \in links',
         \A k \in links' : k.to.stream \in Encoded =>
           k \in links \/ k.from.channel = k.to.channel
  PROVE  WiringInv'
<1> USE DEF WiringInv
<1>1. WiringTypeOK'
      BY DEF WiringTypeOK
<1>2. Resting'
      BY DEF Resting
<1>3. Fed'
      BY DEF Fed, Encoded, Single, Own, Camera, Sink
<1>4. OwnChannel'
      BY DEF OwnChannel, Encoded
<1> QED  BY <1>1, <1>2, <1>3, <1>4

LEMMA BusyType ==
  ASSUME WiringInv, NEW t \in Threads
  PROVE  /\ work[t] \in Works
         /\ Busy(t) => pass = "running" /\ First(t) \in 0..3
<1>1. work[t] \in Works
      BY DEF WiringInv, WiringTypeOK
<1>2. Busy(t) => pass = "running"
      BY DEF WiringInv, Resting
<1>3. ASSUME Busy(t) PROVE First(t) \in work[t].todo
  <2>1. work[t].todo \subseteq 0..3 /\ work[t].todo # {}
        BY <1>1, <1>3 DEF Works, Busy
  <2>2. \E c \in work[t].todo : \A d \in work[t].todo : c <= d
        BY <2>1
  <2> QED  BY <2>2 DEF First
<1> QED  BY <1>1, <1>2, <1>3 DEF Works

LEMMA DoneType ==
  ASSUME WiringInv, NEW t \in Threads, NEW c
  PROVE  /\ Done(t, c) => work' \in [Threads -> Works]
         /\ Half(t) => work' \in [Threads -> Works]
<1>1. work[t] \in Works
      BY DEF WiringInv, WiringTypeOK
<1>2. Rest(work[t], c) \in Works
      BY <1>1 DEF Rest, Works
<1>3. [work[t] EXCEPT !.half = TRUE] \in Works
      BY <1>1 DEF Works
<1> QED  BY <1>2, <1>3 DEF WiringInv, WiringTypeOK, Done, Half

(* gst_pad_unlink() never takes away what Fed needs. *)
LEMMA UnlinkSpares ==
  ASSUME WiringInv, NEW s, NEW c,
         NEW r \in Encoded, NEW d \in 0..3, ~Single, pad[CsiOf(d)][r] # d
  PROVE  Own(r, d) \notin Unlinks(s, c)
<1> SUFFICES ASSUME Own(r, d) = [from |-> Source(s, c), to |-> Sink(s, c)]
             PROVE  FALSE
    BY DEF Unlinks
<1>1. r = s /\ d = c
      BY DEF Own, Sink
<1>2. Source(s, c) = Camera(s, pad[CsiOf(c)][s])
      BY DEF Source
<1> QED  BY <1>1, <1>2 DEF Own, Camera

LEMMA PadType ==
  ASSUME WiringInv, NEW s \in Streams, NEW c \in 0..3
  PROVE  Source(s, c) \in Pads /\ Sink(s, c) \in Sinks
<1>1. pad[CsiOf(c)][s] \in (0..3) \cup {Nobody}
      BY CsiType DEF WiringInv, WiringTypeOK
<1> QED  BY <1>1 DEF Source, Camera, Encoder, Sink, Pads, Sinks

(* gst_pad_link() joins an encoded stream only to its own channel: a bin   *)
(* that is in the pipeline and not of the pad remembered is still fed.     *)
LEMMA LinkOwn ==
  ASSUME WiringInv, pass = "running", NEW s \in Encoded, NEW c \in 0..3,
         NEW k \in TryLink(s, c)
  PROVE  k.from.channel = k.to.channel
<1>1. /\ k = [from |-> Source(s, c), to |-> Sink(s, c)]
      /\ bin[s][c] = "in" /\ ~Linked(Sink(s, c))
      BY DEF TryLink
<1>2. CASE Single
  <2>1. s # "cap"
        BY DEF Encoded
  <2> QED  BY <1>1, <1>2, <2>1 DEF Source, Encoder, Sink
<1>3. CASE ~Single
  <2>1. pad[CsiOf(c)][s] = c
    <3>1. Own(s, c) \in links => Linked(Sink(s, c))
          BY DEF Own, Linked
    <3> QED  BY <1>1, <1>3, <3>1 DEF WiringInv, Fed
  <2> QED  BY <1>1, <1>3, <2>1 DEF Source, Camera, Sink
<1> QED  BY <1>2, <1>3

(* A command that leaves the wiring as it is. *)
LEMMA IdleKeeps ==
  ASSUME WiringInv, pass = "running", UNCHANGED <<plan, pad, pass, bin, links>>,
         work' \in [Threads -> Works]
  PROVE  WiringInv'
BY CommandKeeps DEF WiringInv, WiringTypeOK

LEMMA BeginKeeps ==
  ASSUME WiringInv, NEW t \in Threads, NEW op \in plan.operations, Begin(t, op)
  PROVE  WiringInv'
<1>1. op \in Operations
      BY PlanType DEF WiringInv, WiringTypeOK
<1>2. [kind |-> op.kind, stream |-> op.stream, todo |-> op.channels,
       all |-> op.channels = 0..3, half |-> FALSE] \in Works
      BY <1>1 DEF Operations, Works
<1>3. work' \in [Threads -> Works]
      BY <1>2 DEF Begin, WiringInv, WiringTypeOK
<1> QED  BY <1>3, IdleKeeps DEF Begin

(* Links are taken away only as gst_pad_unlink() does. *)
LEMMA UnlinkKeeps ==
  ASSUME WiringInv, pass = "running", UNCHANGED <<plan, pad, pass, bin>>,
         work' \in [Threads -> Works],
         NEW gone, links' = links \ gone,
         \A k \in gone : \E s, c : k \in Unlinks(s, c)
  PROVE  WiringInv'
<1> USE DEF WiringInv
<1>1. ASSUME NEW s \in Encoded, NEW c \in 0..3, bin'[s][c] = "in",
             pad[CsiOf(c)][s] # c, Own(s, c) \in links
      PROVE  Single \/ Own(s, c) \in links'
      BY <1>1, UnlinkSpares
<1>2. WiringTypeOK'
      BY DEF WiringTypeOK
<1>3. Resting'
      BY DEF Resting
<1>4. Fed'
      BY <1>1 DEF Fed, Encoded, Single, Own, Camera, Sink
<1>5. OwnChannel'
      BY DEF OwnChannel, Encoded
<1> QED  BY <1>2, <1>3, <1>4, <1>5

(* What "start cap" and "rm" of captures do is of no concern to the rest. *)
LEMMA CaptureKeeps ==
  ASSUME WiringInv, pass = "running", UNCHANGED <<plan, pad, pass>>,
         work' \in [Threads -> Works], WiringTypeOK',
         \A s \in Encoded, c \in 0..3 : bin'[s][c] = bin[s][c],
         \A k : k.to.stream \in Encoded => (k \in links' <=> k \in links)
  PROVE  WiringInv'
<1> USE DEF WiringInv
<1>1. \A s \in Encoded, c \in 0..3 : Own(s, c) \in links => Own(s, c) \in links'
      BY DEF Own, Sink
<1> QED  BY <1>1, CommandKeeps DEF WiringTypeOK

LEMMA LinkKeeps ==
  ASSUME WiringInv, NEW t \in Threads, NEW c \in 0..3, Link(t, c)
  PROVE  WiringInv'
<1> DEFINE s == work[t].stream
<1>1. /\ pass = "running" /\ UNCHANGED <<plan, pad, pass, bin>> /\ s \in Streams
      /\ work' \in [Threads -> Works]
      BY BusyType, DoneType DEF Link, Does, Works
<1>2. TryLink(s, c) \subseteq [from : Pads, to : Sinks]
      BY <1>1, PadType DEF TryLink
<1>3. links' \in {links, links \cup TryLink(s, c)}
      BY DEF Link
<1>4. ASSUME NEW k \in links', k.to.stream \in Encoded
      PROVE  k \in links \/ k.from.channel = k.to.channel
  <2> SUFFICES ASSUME k \in TryLink(s, c) PROVE k.from.channel = k.to.channel
      BY <1>3
  <2>1. k.to.stream = s
        BY DEF TryLink, Sink
  <2> QED  BY <1>1, <1>4, <2>1, LinkOwn
<1> QED  BY <1>1, <1>2, <1>3, <1>4, CommandKeeps DEF WiringInv, WiringTypeOK

LEMMA SuspendKeeps ==
  ASSUME WiringInv, NEW t \in Threads, Suspend(t)
  PROVE  WiringInv'
<1> DEFINE gone == UNION {Unlinks(s, c) : s \in Encoded, c \in enable}
<1>1. /\ pass = "running" /\ UNCHANGED <<plan, pad, pass, bin>> /\ links' = links \ gone
      /\ work' \in [Threads -> Works]
      BY BusyType, DoneType DEF Suspend
<1>2. \A k \in gone : \E s, c : k \in Unlinks(s, c)
      OBVIOUS
<1> HIDE DEF gone
<1> QED  BY <1>1, <1>2, UnlinkKeeps

LEMMA UnlinkCommandKeeps ==
  ASSUME WiringInv, NEW t \in Threads, NEW c \in 0..3, Unlink(t, c)
  PROVE  WiringInv'
<1> DEFINE gone == Unlinks(work[t].stream, c)
<1>1. /\ pass = "running" /\ UNCHANGED <<plan, pad, pass, bin>> /\ links' = links \ gone
      /\ work' \in [Threads -> Works]
      BY BusyType, DoneType DEF Unlink, Does
<1> QED  BY <1>1, UnlinkKeeps

LEMMA UnhookKeeps ==
  ASSUME WiringInv, NEW t \in Threads, NEW c \in 0..3, Unhook(t, c)
  PROVE  WiringInv'
<1> DEFINE gone == Unlinks(work[t].stream, c)
<1>1. /\ pass = "running" /\ UNCHANGED <<plan, pad, pass, bin>> /\ links' = links \ gone
      /\ work' \in [Threads -> Works]
      BY BusyType, DoneType DEF Unhook, Does
<1> QED  BY <1>1, UnlinkKeeps

(* gst_bin_remove() unlinks the sink pad of the bin it removes. *)
LEMMA RemoveKeeps ==
  ASSUME WiringInv, pass = "running", UNCHANGED <<plan, pad, pass>>,
         work' \in [Threads -> Works], NEW r \in Streams, NEW d \in 0..3, Remove(r, d)
  PROVE  WiringInv'
<1> USE DEF WiringInv
<1>1. CASE bin[r][d] # "in"
      BY <1>1, IdleKeeps DEF Remove
<1>2. CASE bin[r][d] = "in"
  <2>1. /\ bin' = [bin EXCEPT ![r][d] = "freed"]
        /\ links' = {k \in links : k.to # Sink(r, d)}
        BY <1>2 DEF Remove
  <2>2. bin' \in [Streams \cup {"enc"} -> [0..3 -> {"none", "in", "freed", "outside"}]]
        BY <2>1 DEF WiringTypeOK
  <2>3. ASSUME NEW s \in Encoded, NEW c \in 0..3, bin'[s][c] = "in"
        PROVE  /\ bin[s][c] = "in"
               /\ Own(s, c) \in links => Own(s, c) \in links'
    <3>1. s \in Streams \cup {"enc"}
          BY PlanType DEF WiringTypeOK
    <3>2. bin[s][c] = "in" /\ ~(s = r /\ c = d)
          BY <2>1, <2>3, <3>1 DEF WiringTypeOK
    <3> QED  BY <2>1, <3>2 DEF Own, Sink
  <2> QED  BY <2>1, <2>2, <2>3, CommandKeeps DEF WiringTypeOK
<1> QED  BY <1>1, <1>2

LEMMA TakeOutKeeps ==
  ASSUME WiringInv, NEW t \in Threads, NEW c \in 0..3, TakeOut(t, c)
  PROVE  WiringInv'
<1>1. /\ pass = "running" /\ UNCHANGED <<plan, pad, pass>> /\ work[t].stream \in Streams
      /\ work' \in [Threads -> Works] /\ Remove(work[t].stream, c)
      BY BusyType, DoneType DEF TakeOut, Does, Works
<1> QED  BY <1>1, RemoveKeeps

LEMMA DiscardKeeps ==
  ASSUME WiringInv, NEW t \in Threads, NEW c \in 0..3, Discard(t, c)
  PROVE  WiringInv'
<1>1. /\ pass = "running" /\ UNCHANGED <<plan, pad, pass>> /\ "cap" \in Streams
      /\ work' \in [Threads -> Works]
      /\ Remove("cap", c) \/ UNCHANGED <<bin, links>>
      BY BusyType, DoneType DEF Discard, Does, Streams
<1> QED  BY <1>1, RemoveKeeps, IdleKeeps

LEMMA RenewKeeps ==
  ASSUME WiringInv, NEW t \in Threads, NEW c \in 0..3, Renew(t, c)
  PROVE  WiringInv'
<1> DEFINE old == {k \in links : k.to = Sink("cap", c)}
           lost == {[k EXCEPT !.to = Sink("lost", c)] : k \in old}
           new == {[from |-> p, to |-> Sink("cap", c)] :
                     p \in {q \in {Source("cap", c)} : ~Linked(q)}}
<1>1. /\ pass = "running" /\ UNCHANGED <<plan, pad, pass>>
      /\ work' \in [Threads -> Works]
      BY BusyType, DoneType DEF Renew, Does
<1>2. /\ \/ bin' = [bin EXCEPT !["cap"][c] = "outside"]
         \/ bin' = [bin EXCEPT !["cap"][c] = "in"]
      /\ links' = (links \ old) \cup lost \/ links' = links \cup new
      BY DEF Renew
<1>3. /\ \A s \in Encoded, d \in 0..3 : bin'[s][d] = bin[s][d]
      /\ bin' \in [Streams \cup {"enc"} -> [0..3 -> {"none", "in", "freed", "outside"}]]
      BY <1>2, PlanType DEF WiringInv, WiringTypeOK, Streams
<1>4. lost \subseteq [from : Pads, to : Sinks] /\ \A k \in lost : k.to = Sink("lost", c)
  <2>1. Sink("lost", c) \in Sinks
        BY DEF Sink, Sinks
  <2> QED  BY <2>1 DEF WiringInv, WiringTypeOK
<1>5. new \subseteq [from : Pads, to : Sinks] /\ \A k \in new : k.to = Sink("cap", c)
      BY PadType DEF Streams
<1>6. "cap" \notin Encoded /\ "lost" \notin Encoded
      BY PlanType DEF WiringInv, WiringTypeOK, Encoded, Streams
<1>7. links' \subseteq [from : Pads, to : Sinks]
      BY <1>2, <1>4, <1>5 DEF WiringInv, WiringTypeOK
<1>8. \A k : k.to.stream \in Encoded => (k \in links' <=> k \in links)
  <2>1. Sink("cap", c).stream = "cap" /\ Sink("lost", c).stream = "lost"
        BY DEF Sink
  <2>2. \A k \in old \cup lost \cup new : k.to.stream \notin Encoded
        BY <1>4, <1>5, <1>6, <2>1
  <2> QED  BY <1>2, <2>2
<1>9. WiringTypeOK'
      BY <1>1, <1>3, <1>7 DEF WiringInv, WiringTypeOK
<1> QED  BY <1>1, <1>3, <1>8, <1>9, CaptureKeeps

LEMMA ExecuteKeeps ==
  ASSUME WiringInv, NEW t \in Threads, Execute(t)
  PROVE  WiringInv'
<1>1. CASE Skip(t)
  <2>1. pass = "running" /\ work' \in [Threads -> Works]
        BY <1>1, BusyType, DoneType DEF Skip
  <2> QED  BY <1>1, <2>1, IdleKeeps DEF Skip
<1>2. CASE Suspend(t)
      BY <1>2, SuspendKeeps
<1>3. ASSUME NEW c \in 0..3, Add(t, c) PROVE WiringInv'
  <2>1. pass = "running" /\ work' \in [Threads -> Works]
        BY <1>3, BusyType, DoneType DEF Add, Does
  <2> QED  BY <1>3, <2>1, IdleKeeps DEF Add, Does
<1>4. ASSUME NEW c \in 0..3,
             \/ Link(t, c) \/ Unlink(t, c) \/ Unhook(t, c)
             \/ TakeOut(t, c) \/ Renew(t, c) \/ Discard(t, c)
      PROVE  WiringInv'
      BY <1>4, LinkKeeps, UnlinkCommandKeeps, UnhookKeeps, TakeOutKeeps, RenewKeeps,
         DiscardKeeps
<1> QED  BY <1>1, <1>2, <1>3, <1>4 DEF Execute

LEMMA WiringNext == WiringInv /\ [Next]_vars => WiringInv'
<1> SUFFICES ASSUME WiringInv, [Next]_vars PROVE WiringInv'
    OBVIOUS
<1>1. CASE UNCHANGED wiringVars
  <2> USE DEF wiringVars
  <2>1. WiringTypeOK' /\ Resting'
        BY <1>1 DEF WiringInv, WiringTypeOK, Resting, Busy
  <2>2. Fed' /\ OwnChannel'
        BY <1>1 DEF WiringInv, Fed, OwnChannel, Encoded, Single, Own, Camera, Sink
  <2> QED  BY <2>1, <2>2 DEF WiringInv
<1>2. CASE StartUp
      BY <1>2, StartUpKeeps
<1>3. ASSUME NEW t \in Threads, NEW op \in plan.operations, Begin(t, op)
      PROVE  WiringInv'
      BY <1>3, BeginKeeps
<1>4. ASSUME NEW t \in Threads, Execute(t) PROVE WiringInv'
      BY <1>4, ExecuteKeeps
<1>5. CASE Environment
      BY <1>5, <1>1 DEF Environment, Dials, Writes, HangsUp, OpensFile, ClosesFile
<1>6. CASE Serve
  <2>1. CASE Select
        BY <2>1, <1>1 DEF Select
  <2>2. ASSUME NEW f \in Descriptors, Accept(f) \/ ReceiveOther(f) \/ CloseClient(f)
        PROVE  WiringInv'
        BY <2>2, <1>1 DEF Accept, ReceiveOther, CloseClient
  <2>3. ASSUME NEW f \in Descriptors, Receive(f) PROVE WiringInv'
        BY <2>3, <1>3 DEF Receive, Threads
  <2> QED  BY <1>6, <2>1, <2>2, <2>3 DEF Serve
<1>7. CASE Commands
      BY <1>7, <1>2, <1>3, <1>4 DEF Commands, Threads
<1>8. CASE UNCHANGED vars
      BY <1>8, <1>1 DEF vars
<1> QED  BY <1>5, <1>6, <1>7, <1>8 DEF Next

(* The links, the bins and the pads that a VideoBin remembers are what     *)
(* their invariant says, for any configuration and any number of commands. *)
THEOREM WiringInvariant == Spec => []WiringInv
<1>1. Init => WiringInv
      BY WiringInitially DEF Init
<1> QED  BY <1>1, WiringNext, PTL DEF Spec

(* No sequence of link, unlink, add, rm and start commands, from the       *)
(* terminal and over TCP, makes the recording or the RTSP stream of a      *)
(* channel show another one.                                               *)
THEOREM KeepsToItsChannel == Spec => []OwnChannel
<1>1. WiringInv => OwnChannel
      BY DEF WiringInv
<1> QED  BY <1>1, WiringInvariant, PTL

-----------------------------------------------------------------------------
(* The start.  What is enabled are the configured channels of the CSIs     *)
(* that have not failed, and behind main()'s place in its loop they are    *)
(* complete.                                                               *)

Starting == pass \in {"controls", "prepare", "build", "assembled"}

StartTypeOK ==
  /\ pass \in {"controls", "prepare", "build", "assembled", "running", "ended"}
  /\ next \in 0..3
  /\ video \in [{0, 1} -> {"none", "half", "complete"}]

Admitted == Starting => enable = {c \in plan.channels : CsiOf(c) \notin faulty}

Halves ==
  Starting => \A i \in {0, 1} :
    /\ video[i] = "half" => i \in faulty
    /\ pass \in {"controls", "prepare"} => video[i] = "none"

Complete(c) ==
  /\ video[CsiOf(c)] = "complete"
  /\ \A s \in plan.streams : \E k \in links :
       /\ k.to = Sink(s, c) /\ k.from.channel = c /\ bin[s][c] = "in"
       /\ k.from.of = "encoder" => \E e \in links :
            e.to = Sink("enc", c) /\ e.from = Camera("rec", c)

Behind(c) == pass = "assembled" \/ (pass = "build" /\ c < next)

Finished == \A c \in enable : Behind(c) => Complete(c)

StartInv == StartTypeOK /\ Admitted /\ Halves /\ Finished

LEMMA StartInitially == WiringInit => StartInv
<1> SUFFICES ASSUME WiringInit PROVE StartInv
    OBVIOUS
<1> USE DEF WiringInit
<1>1. StartTypeOK
      BY DEF StartTypeOK
<1>2. Admitted
  <2>1. plan.channels = {c \in plan.channels : CsiOf(c) \notin {}}
        OBVIOUS
  <2> QED  BY <2>1 DEF Admitted
<1>3. Halves /\ Finished
      BY DEF Halves, Finished, Behind
<1> QED  BY <1>1, <1>2, <1>3 DEF StartInv

(* The channels of a CSI are the two that are disabled together. *)
LEMMA DisabledTogether ==
  ASSUME WiringInv, NEW i \in {0, 1}, Admitted, Starting, Disable(i),
         plan' = plan, faulty' = faulty \cup {i}
  PROVE  /\ enable' = {c \in plan.channels : CsiOf(c) \notin faulty'}
         /\ enable' = {c \in enable : CsiOf(c) # i}
<1>1. plan.channels \subseteq 0..3
      BY PlanType DEF WiringInv, WiringTypeOK
<1>2. \A c \in 0..3 : CsiOf(c) = i <=> c \in {2 * i, 2 * i + 1}
      BY DEF CsiOf
<1>3. enable = {c \in plan.channels : CsiOf(c) \notin faulty}
      BY DEF Admitted
<1>4. enable' = enable \ {2 * i, 2 * i + 1}
      BY DEF Disable
<1>5. enable' = {c \in enable : CsiOf(c) # i}
      BY <1>1, <1>2, <1>3, <1>4
<1> QED  BY <1>3, <1>5

(* A channel behind main()'s next place is the one at hand or was behind. *)
LEMMA BehindNext ==
  ASSUME NEW c \in 0..3, Following(c), pass = "build", next = c,
         NEW d \in 0..3, Behind(d)'
  PROVE  d = c \/ Behind(d)
BY DEF Following, Goes, Behind

LEMMA CompleteStays ==
  ASSUME NEW d, Complete(d), UNCHANGED <<plan, bin, links>>,
         video'[CsiOf(d)] = video[CsiOf(d)]
  PROVE  Complete(d)'
BY DEF Complete

LEMMA ControlsStart ==
  ASSUME WiringInv, StartInv, NEW i \in {0, 1}, Controls(i)
  PROVE  StartInv'
<1> USE DEF StartInv
<1>1. /\ pass = "controls" /\ UNCHANGED <<plan, video>>
      /\ pass' \in {"controls", "prepare"} /\ next' \in 0..3
      BY DEF Controls, Goes, Keeps
<1>2. StartTypeOK'
      BY <1>1 DEF StartTypeOK
<1>3. Starting
      BY <1>1 DEF Starting
<1>4. Admitted'
  <2>1. CASE UNCHANGED <<enable, faulty>>
        BY <2>1, <1>1, <1>3 DEF Admitted
  <2>2. CASE Disable(i) /\ faulty' = faulty \cup {i}
        BY <2>2, <1>1, <1>3, DisabledTogether DEF Admitted
  <2> QED  BY <2>1, <2>2 DEF Controls
<1>5. Halves'
      BY <1>1, <1>3 DEF Halves
<1>6. Finished'
      BY <1>1 DEF Finished, Behind
<1> QED  BY <1>2, <1>4, <1>5, <1>6

LEMMA PrepareStart ==
  ASSUME WiringInv, StartInv, PrepareAll
  PROVE  StartInv'
<1> USE DEF StartInv
<1>1. /\ pass = "prepare" /\ UNCHANGED <<plan, video>>
      /\ pass' \in {"ended", "build"} /\ next' = 0
      BY DEF PrepareAll, Goes, Keeps
<1>2. StartTypeOK'
      BY <1>1 DEF StartTypeOK
<1>3. Starting /\ enable = {c \in plan.channels : CsiOf(c) \notin faulty}
      BY <1>1 DEF Starting, Admitted
<1>4. ASSUME pass' = "build"
      PROVE  enable' = {c \in plan.channels : CsiOf(c) \notin faulty'}
  <2>1. PICK refused \in SUBSET {CsiOf(c) : c \in enable} :
          /\ faulty' = faulty \cup refused
          /\ enable' = {c \in enable : CsiOf(c) \notin refused}
        BY <1>4 DEF PrepareAll, Goes
  <2> QED  BY <2>1, <1>3
<1>5. Admitted'
      BY <1>1, <1>4 DEF Admitted, Starting
<1>6. Halves'
      BY <1>1, <1>3 DEF Halves, StartTypeOK
<1>7. Finished'
  <2>1. enable' \subseteq 0..3 \/ pass' = "ended"
        BY <1>1, <1>4, PlanType DEF WiringInv, WiringTypeOK
  <2> QED  BY <2>1, <1>1 DEF Finished, Behind
<1> QED  BY <1>2, <1>5, <1>6, <1>7

LEMMA LeaveStart ==
  ASSUME StartInv, Abort \/ Runs
  PROVE  StartInv'
<1>1. pass' \in {"ended", "running"} /\ next' = 0 /\ UNCHANGED video
      BY DEF Abort, Runs, Goes
<1> QED  BY <1>1 DEF StartInv, StartTypeOK, Admitted, Halves, Finished, Behind, Starting

LEMMA PassesStart ==
  ASSUME WiringInv, StartInv, NEW c \in 0..3, PassesOver(c)
  PROVE  StartInv'
<1> USE DEF StartInv
<1>1. /\ pass = "build" /\ next = c /\ c \notin enable /\ Following(c)
      /\ UNCHANGED <<plan, enable, faulty, video, bin, links>>
      BY DEF PassesOver, Keeps
<1>2. pass' \in {"build", "assembled"} /\ next' \in 0..3
      BY <1>1 DEF Following, Goes
<1>3. Starting /\ enable \subseteq 0..3
      BY <1>1, PlanType DEF Starting, Admitted, WiringInv, WiringTypeOK
<1>4. StartTypeOK' /\ Admitted' /\ Halves'
      BY <1>1, <1>2, <1>3 DEF StartTypeOK, Admitted, Halves
<1>5. ASSUME NEW d \in enable', Behind(d)' PROVE Complete(d)'
  <2>1. d \in enable /\ d \in 0..3 /\ d # c
        BY <1>1, <1>3
  <2>2. Behind(d)
        BY <2>1, <1>1, <1>5, BehindNext
  <2> QED  BY <2>1, <2>2, <1>1, CompleteStays DEF Finished
<1> QED  BY <1>4, <1>5 DEF Finished

LEMMA FailsStart ==
  ASSUME WiringInv, StartInv, NEW c \in 0..3, VideoFails(c)
  PROVE  StartInv'
<1> USE DEF StartInv
<1> DEFINE i == CsiOf(c)
<1>1. /\ pass = "build" /\ next = c /\ Following(c) /\ Disable(i)
      /\ faulty' = faulty \cup {i} /\ video[i] = "none"
      /\ video' = [video EXCEPT ![i] = "half"]
      /\ UNCHANGED <<plan, bin, links>>
      BY DEF VideoFails, Keeps
<1>2. pass' \in {"build", "assembled"} /\ next' \in 0..3
      BY <1>1 DEF Following, Goes
<1>3. i \in {0, 1} /\ Starting /\ enable \subseteq 0..3
      BY <1>1, CsiType, PlanType DEF Starting, Admitted, WiringInv, WiringTypeOK
<1>4. /\ enable' = {d \in plan.channels : CsiOf(d) \notin faulty'}
      /\ enable' = {d \in enable : CsiOf(d) # i}
      BY <1>1, <1>3, DisabledTogether
<1> HIDE DEF i
<1>5. StartTypeOK'
      BY <1>1, <1>2, <1>3 DEF StartTypeOK
<1>6. Admitted'
      BY <1>1, <1>4 DEF Admitted
<1>7. Halves'
      BY <1>1, <1>2, <1>3 DEF Halves, StartTypeOK
<1>8. ASSUME NEW d \in enable', Behind(d)' PROVE Complete(d)'
  <2>1. d \in enable /\ d \in 0..3 /\ CsiOf(d) # i /\ d # c
        BY <1>3, <1>4 DEF i
  <2>2. Complete(d)
        BY <2>1, <1>1, <1>8, BehindNext DEF Finished
  <2>3. video'[CsiOf(d)] = video[CsiOf(d)]
        BY <2>1, <1>1, CsiType DEF StartTypeOK
  <2> QED  BY <2>2, <2>3, <1>1, CompleteStays
<1> QED  BY <1>5, <1>6, <1>7, <1>8 DEF Finished

LEMMA BuildStart ==
  ASSUME WiringInv, StartInv, NEW c \in 0..3, BuildChannel(c)
  PROVE  StartInv'
<1> USE DEF StartInv
<1> DEFINE i == CsiOf(c)
<1>1. /\ pass = "build" /\ next = c /\ Following(c) /\ c \in enable
      /\ video' = [video EXCEPT ![i] = IF video[i] = "none" THEN "complete" ELSE video[i]]
      /\ links' = links \cup Joined(c)
      /\ UNCHANGED <<plan, enable, faulty>>
      BY DEF BuildChannel, Keeps
<1>2. pass' \in {"build", "assembled"} /\ next' \in 0..3
      BY <1>1 DEF Following, Goes
<1>3. /\ i \in {0, 1} /\ Starting /\ enable \subseteq 0..3
      /\ i \notin faulty /\ plan.streams \subseteq Streams
      BY <1>1, CsiType, PlanType DEF Starting, Admitted, WiringInv, WiringTypeOK
<1>4. video[i] \in {"none", "complete"} /\ video'[i] = "complete"
      BY <1>1, <1>3 DEF StartTypeOK, Halves
<1>5. \A s \in plan.streams : bin'[s][c] = "in"
      BY <1>3 DEF BuildChannel, WiringInv, WiringTypeOK
<1>6. \A s \in plan.streams, d \in 0..3 : bin[s][d] = "in" => bin'[s][d] = "in"
      BY <1>3 DEF BuildChannel, WiringInv, WiringTypeOK
<1>7. \A s \in Tapped : pad'[i][s] = c
  <2>1. Tapped \subseteq Streams
        BY <1>3 DEF Tapped, Streams
  <2> QED  BY <2>1, <1>3 DEF BuildChannel, WiringInv, WiringTypeOK
<1>8. StartTypeOK'
      BY <1>1, <1>2, <1>3, <1>4 DEF StartTypeOK
<1>9. Admitted' /\ Halves'
      BY <1>1, <1>2, <1>3, <1>4 DEF Admitted, Halves, StartTypeOK
<1>10. Complete(c)'
  <2> SUFFICES ASSUME NEW s \in plan.streams
               PROVE  \E k \in links' :
                        /\ k.to = Sink(s, c) /\ k.from.channel = c /\ bin'[s][c] = "in"
                        /\ k.from.of = "encoder" => \E e \in links' :
                             e.to = Sink("enc", c) /\ e.from = Camera("rec", c)
      BY <1>1, <1>4 DEF Complete
  <2>1. CASE Single /\ s # "cap"
    <3> DEFINE k == [from |-> Encoder(s, c), to |-> Sink(s, c)]
               e == [from |-> Camera("rec", pad'[i]["rec"]), to |-> Sink("enc", c)]
    <3>1. Encoded # {} /\ "rec" \in Tapped
      BY <2>1 DEF Encoded, Tapped
    <3>2. k \in links' /\ e \in links'
      BY <3>1, <2>1, <1>1 DEF Joined
    <3>3. pad'[i]["rec"] = c
      BY <3>1, <1>7
    <3> QED  BY <3>2, <3>3, <1>5 DEF Encoder
  <2>2. CASE ~(Single /\ s # "cap")
    <3> DEFINE k == [from |-> Camera(s, pad'[i][s]), to |-> Sink(s, c)]
    <3>1. s \in Tapped
      BY <2>2 DEF Tapped
    <3>2. k \in links'
      BY <2>2, <1>1 DEF Joined
    <3>3. pad'[i][s] = c
      BY <3>1, <1>7
    <3> QED  BY <3>2, <3>3, <1>5 DEF Camera
  <2> QED  BY <2>1, <2>2
<1>11. ASSUME NEW d \in enable, d # c, Complete(d) PROVE Complete(d)'
  <2>1. d \in 0..3 /\ video'[CsiOf(d)] = "complete"
        BY <1>1, <1>3, <1>4, <1>11, CsiType DEF Complete, StartTypeOK
  <2>2. links \subseteq links'
        BY <1>1
  <2>3. ASSUME NEW s \in plan.streams
        PROVE  \E k \in links' :
                 /\ k.to = Sink(s, d) /\ k.from.channel = d /\ bin'[s][d] = "in"
                 /\ k.from.of = "encoder" => \E e \in links' :
                      e.to = Sink("enc", d) /\ e.from = Camera("rec", d)
        BY <2>1, <2>2, <1>6, <1>11 DEF Complete
  <2> QED  BY <2>1, <2>3, <1>1 DEF Complete
<1>12. ASSUME NEW d \in enable', Behind(d)' PROVE Complete(d)'
  <2>1. d \in enable /\ d \in 0..3
        BY <1>1, <1>3
  <2>2. CASE d = c
        BY <2>2, <1>10
  <2>3. CASE d # c
        BY <2>1, <2>3, <1>1, <1>11, <1>12, BehindNext DEF Finished
  <2> QED  BY <2>2, <2>3
<1> QED  BY <1>8, <1>9, <1>12 DEF Finished

(* Once it runs, commands change neither the place nor the VideoBins. *)
LEMMA RunningStays ==
  ASSUME StartInv, pass = "running", UNCHANGED <<pass, next, video>>
  PROVE  StartInv'
BY DEF StartInv, StartTypeOK, Admitted, Halves, Finished, Behind, Starting

LEMMA StartNext == WiringInv /\ StartInv /\ [Next]_vars => StartInv'
<1> SUFFICES ASSUME WiringInv, StartInv, [Next]_vars PROVE StartInv'
    OBVIOUS
<1>1. CASE UNCHANGED wiringVars
  <2> USE DEF wiringVars
  <2>1. StartTypeOK' /\ Admitted' /\ Halves'
        BY <1>1 DEF StartInv, StartTypeOK, Admitted, Halves, Starting
  <2>2. Finished'
        BY <1>1, CompleteStays DEF StartInv, Finished, Behind
  <2> QED  BY <2>1, <2>2 DEF StartInv
<1>2. CASE StartUp
      BY <1>2, PrepareStart, LeaveStart, ControlsStart, PassesStart, FailsStart, BuildStart
      DEF StartUp
<1>3. ASSUME NEW t \in Threads, NEW op \in plan.operations, Begin(t, op)
      PROVE  StartInv'
      BY <1>3, RunningStays DEF Begin
<1>4. ASSUME NEW t \in Threads, Execute(t) PROVE StartInv'
  <2>1. Busy(t) /\ UNCHANGED <<pass, next, video>>
        BY <1>4 DEF Execute, Skip, Suspend, Link, Unlink, Add, Unhook, TakeOut, Renew,
                    Discard, Does
  <2> QED  BY <2>1, RunningStays DEF WiringInv, Resting
<1>5. CASE Environment
      BY <1>5, <1>1 DEF Environment, Dials, Writes, HangsUp, OpensFile, ClosesFile
<1>6. CASE Serve
  <2>1. CASE Select
        BY <2>1, <1>1 DEF Select
  <2>2. ASSUME NEW f \in Descriptors, Accept(f) \/ ReceiveOther(f) \/ CloseClient(f)
        PROVE  StartInv'
        BY <2>2, <1>1 DEF Accept, ReceiveOther, CloseClient
  <2>3. ASSUME NEW f \in Descriptors, Receive(f) PROVE StartInv'
        BY <2>3, <1>3 DEF Receive, Threads
  <2> QED  BY <1>6, <2>1, <2>2, <2>3 DEF Serve
<1>7. CASE Commands
      BY <1>7, <1>2, <1>3, <1>4 DEF Commands, Threads
<1>8. CASE UNCHANGED vars
      BY <1>8, <1>1 DEF vars
<1> QED  BY <1>5, <1>6, <1>7, <1>8 DEF Next

(***************************************************************************)
(* When main() has assembled the pipeline, every configured channel is     *)
(* complete, its bins fed by its own camera, or is disabled because its    *)
(* own CSI failed: for any streams and channels, one encoder or two, and   *)
(* whatever failed on the way.                                             *)
(***************************************************************************)
THEOREM BuildsOrDisables == Spec => []BuiltOrDisabled
<1>1. Init => WiringInv /\ StartInv
      BY WiringInitially, StartInitially DEF Init
<1>2. WiringInv /\ StartInv /\ [Next]_vars => (WiringInv /\ StartInv)'
      BY WiringNext, StartNext
<1>3. StartInv => BuiltOrDisabled
      BY DEF StartInv, BuiltOrDisabled, Admitted, Starting, Finished, Behind, Complete
<1> QED  BY <1>1, <1>2, <1>3, PTL DEF Spec

-----------------------------------------------------------------------------
(* The TCP server. *)

Uses == {"server", "file", "free"}
Connected == {f \in Descriptors : fds[f] \in Clients}

ServerTypeOK ==
  /\ fds \in [Descriptors -> Clients \cup Uses]
  /\ m_fds \subseteq Descriptors /\ m_fdMax \in Int /\ client_cnt \in Nat
  /\ peer \in [Clients -> {"away", "waiting", "accepted"}]
  /\ unread \subseteq Clients /\ hung \subseteq Clients /\ ready \subseteq Descriptors

(* A client has one descriptor. *)
OneEach ==
  \A f, g \in Descriptors : fds[f] \in Clients /\ fds[f] = fds[g] => f = g

ServerInv == ServerTypeOK /\ OneEach /\ AllHeard

LEMMA FewConnected == IsFiniteSet(Connected)
BY CommandServerAssumption, FS_Subset DEF Connected

LEMMA ServerInitially == Init => ServerInv
<1> SUFFICES ASSUME Init PROVE ServerInv
    OBVIOUS
<1>1. PICK s \in Descriptors :
        /\ fds = [g \in Descriptors |->
                    IF g < s THEN "file" ELSE IF g = s THEN "server" ELSE "free"]
        /\ m_fds = {s} /\ m_fdMax = s
      BY DEF Init
<1>2. \A g \in Descriptors : fds[g] \notin Clients
      BY <1>1, CommandServerAssumption
<1>3. Connected = {}
      BY <1>2 DEF Connected
<1>4. Cardinality(Connected) = 0
      BY <1>3, FS_EmptySet
<1>5. \A g \in Descriptors : fds[g] = "server" <=> g = s
      BY <1>1, CommandServerAssumption
<1>6. ServerTypeOK
      BY <1>1, CommandServerAssumption DEF Init, ServerTypeOK, Uses
<1>7. OneEach
      BY <1>2 DEF OneEach
<1>8. AllHeard
  <2>1. m_fds = {f \in Descriptors : Listening(f) \/ fds[f] \in Clients}
        BY <1>1, <1>2, <1>5 DEF Listening
  <2>2. \A f \in m_fds : f <= m_fdMax
        BY <1>1, CommandServerAssumption
  <2>3. client_cnt = Cardinality(Connected) /\ client_cnt <= Client_Max
        BY <1>4, CommandServerAssumption DEF Init
  <2>4. \A c \in Clients : peer[c] = "accepted" <=> \E f \in m_fds : fds[f] = c
        BY <1>1, <1>2 DEF Init
  <2> QED  BY <2>1, <2>2, <2>3, <2>4 DEF AllHeard, Connected
<1> QED  BY <1>6, <1>7, <1>8 DEF ServerInv

(* A step after which the same descriptors belong to the same clients. *)
LEMMA SameClients ==
  ASSUME ServerInv, ServerTypeOK', UNCHANGED <<m_fds, m_fdMax, client_cnt>>,
         \A f \in Descriptors : fds'[f] # fds[f] => {fds[f], fds'[f]} = {"free", "file"},
         \A c \in Clients : peer'[c] = "accepted" <=> peer[c] = "accepted"
  PROVE  ServerInv'
<1> USE CommandServerAssumption DEF ServerInv
<1>1. \A f \in Descriptors :
        /\ fds'[f] \in Clients <=> fds[f] \in Clients
        /\ fds'[f] \in Clients => fds'[f] = fds[f]
        /\ fds'[f] = "server" <=> fds[f] = "server"
      OBVIOUS
<1>2. OneEach'
      BY <1>1 DEF OneEach
<1>3. Connected' = Connected
      BY <1>1 DEF Connected
<1>4. AllHeard'
  <2>1. m_fds' = {f \in Descriptors : fds'[f] = "server" \/ fds'[f] \in Clients}
        BY <1>1 DEF AllHeard, Listening
  <2>2. (\A f \in m_fds : f <= m_fdMax)'
        BY DEF AllHeard
  <2>3. client_cnt' = Cardinality(Connected') /\ client_cnt' <= Client_Max
        BY <1>3 DEF AllHeard, Connected
  <2>4. \A c \in Clients : peer'[c] = "accepted" <=> \E f \in m_fds' : fds'[f] = c
        BY <1>1 DEF AllHeard, ServerTypeOK
  <2> QED  BY <2>1, <2>2, <2>3, <2>4 DEF AllHeard, Connected, Listening
<1> QED  BY <1>2, <1>4

LEMMA EnvironmentKeeps == ServerInv /\ Environment => ServerInv'
<1> SUFFICES ASSUME ServerInv, Environment PROVE ServerInv'
    OBVIOUS
<1>1. ASSUME NEW c \in Clients, Dials(c) \/ Writes(c) \/ HangsUp(c) PROVE ServerInv'
  <2>1. /\ ServerTypeOK'
        /\ \A d \in Clients : peer'[d] = "accepted" <=> peer[d] = "accepted"
        BY <1>1 DEF ServerInv, ServerTypeOK, Dials, Writes, HangsUp
  <2> QED  BY <1>1, <2>1, SameClients DEF Dials, Writes, HangsUp
<1>2. ASSUME NEW f \in Descriptors, OpensFile(f) \/ ClosesFile(f) PROVE ServerInv'
  <2>1. \/ fds' = [fds EXCEPT ![f] = "file"] /\ fds[f] = "free"
        \/ fds' = [fds EXCEPT ![f] = "free"] /\ fds[f] = "file"
        BY <1>2 DEF OpensFile, ClosesFile, LowestFree
  <2>2. ServerTypeOK'
        BY <1>2, <2>1 DEF ServerInv, ServerTypeOK, Uses, OpensFile, ClosesFile
  <2>3. \A g \in Descriptors : fds'[g] # fds[g] => {fds[g], fds'[g]} = {"free", "file"}
        BY <2>1 DEF ServerInv, ServerTypeOK
  <2> QED  BY <1>2, <2>2, <2>3, SameClients DEF OpensFile, ClosesFile
<1> QED  BY <1>1, <1>2 DEF Environment

(* A new client gets a descriptor of its own, within reach of select(). *)
LEMMA AcceptKeeps ==
  ASSUME ServerInv, NEW f \in Descriptors, Accept(f)
  PROVE  ServerInv'
<1> USE CommandServerAssumption
<1>1. PICK c \in Clients, g \in Descriptors :
        /\ peer[c] = "waiting" /\ fds[g] = "free" /\ ready' = ready \ {f}
        /\ IF client_cnt >= Client_Max
           THEN /\ peer' = [peer EXCEPT ![c] = "away"]
                /\ unread' = unread \ {c} /\ hung' = hung \ {c}
                /\ UNCHANGED <<fds, m_fds, m_fdMax, client_cnt>>
           ELSE /\ peer' = [peer EXCEPT ![c] = "accepted"]
                /\ fds' = [fds EXCEPT ![g] = c]
                /\ m_fds' = m_fds \cup {g}
                /\ m_fdMax' = IF g > m_fdMax THEN g ELSE m_fdMax
                /\ client_cnt' = client_cnt + 1
                /\ UNCHANGED <<unread, hung>>
      BY DEF Accept, LooksAt, LowestFree
<1>2. ServerTypeOK'
  <2>1. fds' \in [Descriptors -> Clients \cup Uses]
        BY <1>1 DEF ServerInv, ServerTypeOK
  <2>2. m_fds' \subseteq Descriptors /\ m_fdMax' \in Int /\ client_cnt' \in Nat
    <3>1. /\ m_fds \subseteq Descriptors /\ m_fdMax \in Int /\ client_cnt \in Nat
          /\ g \in Int
          BY DEF ServerInv, ServerTypeOK
    <3>2. CASE client_cnt >= Client_Max
      <4>1. m_fds' = m_fds /\ m_fdMax' = m_fdMax /\ client_cnt' = client_cnt
            BY <1>1, <3>2
      <4> QED  BY <3>1, <4>1
    <3>3. CASE ~(client_cnt >= Client_Max)
      <4>1. /\ m_fds' = m_fds \cup {g} /\ client_cnt' = client_cnt + 1
            /\ m_fdMax' = IF g > m_fdMax THEN g ELSE m_fdMax
            BY <1>1, <3>3
      <4> QED  BY <3>1, <4>1
    <3> QED  BY <3>2, <3>3
  <2>3. peer' \in [Clients -> {"away", "waiting", "accepted"}]
        BY <1>1 DEF ServerInv, ServerTypeOK
  <2>4. unread' \subseteq Clients /\ hung' \subseteq Clients /\ ready' \subseteq Descriptors
        BY <1>1 DEF ServerInv, ServerTypeOK
  <2> QED  BY <2>1, <2>2, <2>3, <2>4 DEF ServerTypeOK
<1>3. CASE client_cnt >= Client_Max
  <2>1. \A d \in Clients : peer'[d] = "accepted" <=> peer[d] = "accepted"
        BY <1>1, <1>3 DEF ServerInv, ServerTypeOK
  <2> QED  BY <1>1, <1>2, <1>3, <2>1, SameClients DEF ServerInv
<1>4. CASE ~(client_cnt >= Client_Max)
  <2>1. /\ peer' = [peer EXCEPT ![c] = "accepted"] /\ fds' = [fds EXCEPT ![g] = c]
        /\ m_fds' = m_fds \cup {g} /\ m_fdMax' = IF g > m_fdMax THEN g ELSE m_fdMax
        /\ client_cnt' = client_cnt + 1
        BY <1>1, <1>4
  <2>2. \A h \in Descriptors : fds[h] # c
        BY <1>1 DEF ServerInv, ServerTypeOK, AllHeard
  <2>3. \A h \in Descriptors : fds'[h] = IF h = g THEN c ELSE fds[h]
        BY <2>1 DEF ServerInv, ServerTypeOK
  <2>4. OneEach'
        BY <2>2, <2>3 DEF ServerInv, OneEach
  <2>5. Connected' = Connected \cup {g} /\ g \notin Connected
        BY <1>1, <2>3 DEF Connected
  <2>6. Cardinality(Connected') = Cardinality(Connected) + 1
        BY <2>5, FewConnected, FS_AddElement
  <2>7. m_fds' = {h \in Descriptors : fds'[h] = "server" \/ fds'[h] \in Clients}
        BY <1>1, <2>1, <2>3 DEF ServerInv, AllHeard, Listening
  <2>8. \A h \in m_fds' : h <= m_fdMax'
        BY <2>1 DEF ServerInv, ServerTypeOK, AllHeard
  <2>9. client_cnt' = Cardinality(Connected') /\ client_cnt' <= Client_Max
        BY <1>4, <2>1, <2>6 DEF ServerInv, ServerTypeOK, AllHeard, Connected
  <2>10. ASSUME NEW d \in Clients
         PROVE  peer'[d] = "accepted" <=> \E h \in m_fds' : fds'[h] = d
    <3>1. CASE d = c
          BY <3>1, <2>1, <2>3 DEF ServerInv, ServerTypeOK
    <3>2. CASE d # c
      <4>1. peer'[d] = peer[d]
            BY <3>2, <2>1 DEF ServerInv, ServerTypeOK
      <4>2. m_fds' \subseteq Descriptors /\ fds'[g] = c /\ fds[g] \notin Clients
            BY <1>1, <1>2, <2>3 DEF ServerTypeOK
      <4>3. \A h \in m_fds : h \in Descriptors /\ (fds'[h] = d <=> fds[h] = d)
            BY <3>2, <4>2, <2>3 DEF ServerInv, ServerTypeOK
      <4>4. peer[d] = "accepted" <=> \E h \in m_fds : fds[h] = d
            BY DEF ServerInv, AllHeard
      <4> QED  BY <3>2, <2>1, <4>1, <4>2, <4>3, <4>4
    <3> QED  BY <3>1, <3>2
  <2>11. AllHeard'
         BY <2>7, <2>8, <2>9, <2>10 DEF AllHeard, Connected, Listening
  <2> QED  BY <1>2, <2>4, <2>11 DEF ServerInv
<1> QED  BY <1>3, <1>4

(* Only the highest descriptor, when it is closed itself, lowers m_fdMax. *)
LEMMA CloseKeeps ==
  ASSUME ServerInv, NEW f \in Descriptors, CloseClient(f)
  PROVE  ServerInv'
<1> USE CommandServerAssumption
<1> DEFINE c == fds[f]
<1>1. /\ c \in Clients /\ m_fds' = m_fds \ {f}
      /\ m_fdMax' = IF f = m_fdMax THEN m_fdMax - 1 ELSE m_fdMax
      /\ client_cnt' = IF client_cnt > 0 THEN client_cnt - 1 ELSE 0
      /\ fds' = [fds EXCEPT ![f] = "free"] /\ peer' = [peer EXCEPT ![c] = "away"]
      /\ hung' = hung \ {c} /\ ready' = ready \ {f} /\ UNCHANGED unread
      BY DEF CloseClient, LooksAt, Unwatched, Lowered, ServerInv, ServerTypeOK
<1>2. ServerTypeOK'
  <2>1. fds' \in [Descriptors -> Clients \cup Uses]
        BY <1>1 DEF ServerInv, ServerTypeOK, Uses
  <2>2. m_fds' \subseteq Descriptors /\ m_fdMax' \in Int /\ client_cnt' \in Nat
        BY <1>1 DEF ServerInv, ServerTypeOK
  <2>3. peer' \in [Clients -> {"away", "waiting", "accepted"}]
        BY <1>1 DEF ServerInv, ServerTypeOK
  <2>4. unread' \subseteq Clients /\ hung' \subseteq Clients /\ ready' \subseteq Descriptors
        BY <1>1 DEF ServerInv, ServerTypeOK
  <2> QED  BY <2>1, <2>2, <2>3, <2>4 DEF ServerTypeOK
<1>3. \A h \in Descriptors : fds'[h] = IF h = f THEN "free" ELSE fds[h]
      BY <1>1 DEF ServerInv, ServerTypeOK
<1>4. OneEach'
      BY <1>3 DEF ServerInv, OneEach
<1>5. Connected' = Connected \ {f} /\ f \in Connected
      BY <1>1, <1>3 DEF Connected
<1>6. /\ Cardinality(Connected') = Cardinality(Connected) - 1
      /\ Cardinality(Connected) \in Nat
      BY <1>5, FewConnected, FS_RemoveElement, FS_CardinalityType
<1>7. Cardinality(Connected) # 0
      BY <1>5, FewConnected, FS_EmptySet
<1>8. client_cnt' = Cardinality(Connected') /\ client_cnt' <= Client_Max
      BY <1>1, <1>6, <1>7 DEF ServerInv, ServerTypeOK, AllHeard, Connected
<1>9. m_fds' = {h \in Descriptors : fds'[h] = "server" \/ fds'[h] \in Clients}
      BY <1>1, <1>3 DEF ServerInv, AllHeard, Listening
<1>10. \A h \in m_fds' : h <= m_fdMax'
  <2> SUFFICES ASSUME NEW h \in m_fds, h # f PROVE h <= m_fdMax'
      BY <1>1
  <2>1. h \in Int /\ f \in Int /\ m_fdMax \in Int /\ h <= m_fdMax
        BY DEF ServerInv, ServerTypeOK, AllHeard
  <2> QED  BY <1>1, <2>1
<1>11. ASSUME NEW d \in Clients
       PROVE  peer'[d] = "accepted" <=> \E h \in m_fds' : fds'[h] = d
  <2>1. CASE d = c
    <3>1. peer'[d] = "away"
          BY <2>1, <1>1 DEF ServerInv, ServerTypeOK
    <3>2. \A h \in m_fds' : h \in Descriptors /\ h # f
          BY <1>1 DEF ServerInv, ServerTypeOK
    <3>3. \A h \in Descriptors : h # f => fds[h] # c
          BY <1>1 DEF ServerInv, OneEach
    <3> QED  BY <2>1, <1>3, <3>1, <3>2, <3>3
  <2>2. CASE d # c
        BY <2>2, <1>1, <1>3 DEF ServerInv, ServerTypeOK, AllHeard
  <2> QED  BY <2>1, <2>2
<1>12. AllHeard'
       BY <1>8, <1>9, <1>10, <1>11 DEF AllHeard, Connected, Listening
<1> QED  BY <1>2, <1>4, <1>12 DEF ServerInv

LEMMA ServerNext == ServerInv /\ [Next]_vars => ServerInv'
<1> SUFFICES ASSUME ServerInv, [Next]_vars PROVE ServerInv'
    OBVIOUS
<1>1. CASE UNCHANGED <<fds, m_fds, m_fdMax, client_cnt, peer>> /\ ServerTypeOK'
      BY <1>1, SameClients
<1>2. CASE Environment
      BY <1>2, EnvironmentKeeps
<1>3. CASE Serve
  <2> USE DEF ServerInv, ServerTypeOK
  <2>1. CASE Select
        BY <2>1, <1>1 DEF Select
  <2>2. ASSUME NEW f \in Descriptors, Accept(f) PROVE ServerInv'
        BY <2>2, AcceptKeeps
  <2>3. ASSUME NEW f \in Descriptors, CloseClient(f) PROVE ServerInv'
        BY <2>3, CloseKeeps
  <2>4. ASSUME NEW f \in Descriptors, Receive(f) \/ ReceiveOther(f) PROVE ServerInv'
        BY <2>4, <1>1 DEF Receive, ReceiveOther, LooksAt
  <2> QED  BY <1>3, <2>1, <2>2, <2>3, <2>4 DEF Serve
<1>4. CASE UNCHANGED serverVars
      BY <1>4, <1>1 DEF serverVars, ServerInv, ServerTypeOK
<1> QED  BY <1>2, <1>3, <1>4 DEF Next, vars

(* The server listens to its socket and to every client it has accepted,   *)
(* and counts them rightly, for any number of clients, places and          *)
(* descriptors, however the recordings open and close files.               *)
THEOREM HearsAll == Spec => []AllHeard
<1>1. ServerInv => AllHeard
      BY DEF ServerInv
<1> QED  BY <1>1, ServerInitially, ServerNext, PTL DEF Spec
=============================================================================
