----------------------- MODULE FragmentPipelineProofs -----------------------
(***************************************************************************)
(* From a closed fragment to the markers of its minute, for any number of  *)
(* channels, of minutes and of event slots.  No closed fragment is lost    *)
(* between the bus and its handling; a minute is never called complete     *)
(* before every channel has closed a fragment of it, fragments named alike *)
(* included; and its session is neither used after it was freed nor left   *)
(* behind, where channels have one fragment of a minute each or the worker *)
(* handles all of them.                                                    *)
(***************************************************************************)
EXTENDS FragmentPipeline, SequenceTheorems, FiniteSetTheorems, TLAPS

-----------------------------------------------------------------------------
(* Sequences whose elements are distinct. *)

Elements(s) == {s[i] : i \in 1..Len(s)}
Distinct(s) == \A i, j \in 1..Len(s) : s[i] = s[j] => i = j
OnlyLast(s, e) == \A i \in 1..Len(s) : s[i] = e => i = Len(s)

LEMMA EmptyIsDistinct ==
  ASSUME NEW S
  PROVE  <<>> \in Seq(S) /\ Elements(<<>>) = {} /\ Distinct(<<>>)
BY EmptySeq DEF Elements, Distinct

LEMMA TailOf ==
  ASSUME NEW S, NEW s \in Seq(S), s # <<>>, Distinct(s)
  PROVE  /\ Tail(s) \in Seq(S) /\ Distinct(Tail(s))
         /\ Head(s) \in Elements(s) /\ Head(s) \in S
         /\ Elements(Tail(s)) = Elements(s) \ {Head(s)}
         /\ \A e : OnlyLast(s, e) => OnlyLast(Tail(s), e)
         /\ OnlyLast(s, Head(s)) => Tail(s) = <<>>
<1>1. /\ Tail(s) \in Seq(S) /\ Len(s) \in Nat \ {0} /\ Len(Tail(s)) = Len(s) - 1
      /\ \A i \in 1..Len(Tail(s)) : Tail(s)[i] = s[i + 1]
      BY HeadTailProperties, EmptySeq
<1>2. Head(s) = s[1] /\ Head(s) \in S
      BY <1>1, ElementOfSeq
<1>3. Head(s) \in Elements(s)
      BY <1>1, <1>2 DEF Elements
<1>4. Distinct(Tail(s))
      BY <1>1 DEF Distinct
<1>5. Elements(Tail(s)) = Elements(s) \ {Head(s)}
  <2>1. ASSUME NEW e \in Elements(Tail(s)) PROVE e \in Elements(s) \ {Head(s)}
    <3>1. PICK i \in 1..Len(Tail(s)) : e = s[i + 1]
          BY <1>1, <2>1 DEF Elements
    <3> QED  BY <1>1, <1>2, <3>1 DEF Elements, Distinct
  <2>2. ASSUME NEW e \in Elements(s) \ {Head(s)} PROVE e \in Elements(Tail(s))
    <3>1. PICK i \in 1..Len(s) : e = s[i] /\ i # 1
          BY <1>2, <2>2 DEF Elements
    <3>2. i - 1 \in 1..Len(Tail(s)) /\ Tail(s)[i - 1] = e
          BY <1>1, <3>1
    <3> QED  BY <3>2 DEF Elements
  <2> QED  BY <2>1, <2>2
<1>6. \A e : OnlyLast(s, e) => OnlyLast(Tail(s), e)
  <2> SUFFICES ASSUME NEW e, OnlyLast(s, e), NEW i \in 1..Len(Tail(s)), Tail(s)[i] = e
               PROVE  i = Len(Tail(s))
      BY DEF OnlyLast
  <2>1. i + 1 \in 1..Len(s) /\ s[i + 1] = e
        BY <1>1
  <2>2. i + 1 = Len(s)
        BY <2>1 DEF OnlyLast
  <2>3. i \in Int /\ Len(s) \in Int /\ Len(Tail(s)) = Len(s) - 1
        BY <1>1
  <2> QED  BY <2>2, <2>3
<1>7. OnlyLast(s, Head(s)) => Tail(s) = <<>>
  <2> SUFFICES ASSUME OnlyLast(s, Head(s)) PROVE Tail(s) = <<>>
      OBVIOUS
  <2>1. 1 \in 1..Len(s) /\ s[1] = Head(s)
        BY <1>1, <1>2
  <2>2. Len(s) = 1
        BY <2>1 DEF OnlyLast
  <2>3. Tail(s) \in Seq(S) /\ Len(Tail(s)) = 0
        BY <1>1, <2>2
  <2> QED  BY <2>3, EmptySeq
<1> QED  BY <1>1, <1>2, <1>3, <1>4, <1>5, <1>6, <1>7

LEMMA AppendTo ==
  ASSUME NEW S, NEW s \in Seq(S), NEW e \in S, Distinct(s), e \notin Elements(s)
  PROVE  /\ Append(s, e) \in Seq(S) /\ Distinct(Append(s, e))
         /\ Elements(Append(s, e)) = Elements(s) \cup {e}
         /\ \A x : x \notin Elements(s) => OnlyLast(Append(s, e), x)
<1>1. /\ Append(s, e) \in Seq(S) /\ Len(s) \in Nat /\ Len(Append(s, e)) = Len(s) + 1
      /\ \A i \in 1..Len(s) : Append(s, e)[i] = s[i]
      /\ Append(s, e)[Len(s) + 1] = e
      BY AppendProperties, LenProperties
<1>2. \A i \in 1..Len(s) + 1 : i \in 1..Len(s) \/ i = Len(s) + 1
      BY <1>1
<1>3. Distinct(Append(s, e))
      BY <1>1, <1>2 DEF Distinct, Elements
<1>4. Elements(Append(s, e)) = Elements(s) \cup {e}
      BY <1>1, <1>2 DEF Elements
<1>5. \A x : x \notin Elements(s) => OnlyLast(Append(s, e), x)
      BY <1>1, <1>2 DEF Elements, OnlyLast
<1> QED  BY <1>1, <1>3, <1>4, <1>5

-----------------------------------------------------------------------------
(* The invariant. *)

Fragments == [ch : Channels, minute : Minutes, part : Nat \ {0}]
MaybeFragments == Fragments \cup {NoFragment}
Handling == {"lookup", "mark", "check", "remove", "finish"}

PipelineTypeOK ==
  /\ load \in Loads
  /\ recording \in [Channels -> MaybeFragments]
  /\ closed \subseteq Fragments
  /\ bus \in Seq(Fragments \cup {EosMessage})
  /\ slot \in [Slots -> MaybeFragments]
  /\ queue \in Seq(0..load.pool)
  /\ held \in 0..load.pool
  /\ at \in [Threads -> Handling \cup {"idle", "exited"}]
  /\ frag \in [Threads -> MaybeFragments]

(* A sink writes its own fragments, in their order: never one it closed. *)
Later(f, g) == f.minute < g.minute \/ (f.minute = g.minute /\ f.part < g.part)
InOrder ==
  \A c \in Channels : recording[c] # NoFragment =>
    /\ recording[c].ch = c
    /\ \A f \in closed : f.ch = c => Later(f, recording[c])

(* A thread in handleFragmentClosed() has a fragment; the worker's is that *)
(* of the slot it holds.                                                   *)
InHand ==
  /\ \A t \in Threads : frag[t] # NoFragment <=> at[t] \in Handling
  /\ frag["worker"] = IF held = 0 THEN NoFragment ELSE slot[held]
  /\ held # 0 => slot[held] # NoFragment

(* What is closed is in one place. *)
InSlots == {slot[k] : k \in Slots} \ {NoFragment}
ByMain == {frag["main"]} \ {NoFragment}
OnePlace ==
  /\ closed = OnBus \cup InSlots \cup ByMain \cup handled
  /\ OnBus \cap (InSlots \cup ByMain \cup handled) = {}
  /\ InSlots \cap (ByMain \cup handled) = {}
  /\ ByMain \cap handled = {}
  /\ \A j, k \in Slots : slot[j] = slot[k] /\ slot[j] # NoFragment => j = k

(* A slot in use is in the queue, or the worker holds it. *)
SlotsQueued ==
  /\ Distinct(queue)
  /\ \A k \in Slots : slot[k] # NoFragment <=> k = held \/ k \in Elements(queue)
  /\ held # 0 => held \notin Elements(queue)

(* The stop event is the last of the queue, and ends the worker. *)
Stopped ==
  /\ OnlyLast(queue, Stop)
  /\ Stop \in Elements(queue) \/ at["worker"] = "exited" => phase \in {"joining", "null"}
  /\ at["worker"] = "exited" => queue = <<>>
  /\ phase = "null" => at["worker"] = "exited"

(* The pipeline's EOS is the last of its messages. *)
EosIsLast ==
  /\ Distinct(bus)
  /\ OnlyLast(bus, EosMessage)
  /\ EosMessage \in Elements(bus) => eos = "posted"
  /\ eos = "posted" => \A c \in Channels : recording[c] = NoFragment

(* Once it has come, everything is with the worker. *)
Ended ==
  phase \notin {"running", "draining"} =>
    /\ at["main"] = "idle"
    /\ ~timed_out => bus = <<>> /\ eos = "posted"

PipelineInv ==
  /\ PipelineTypeOK /\ InOrder /\ InHand /\ OnePlace
  /\ SlotsQueued /\ Stopped /\ EosIsLast /\ Ended

LEMMA Constants ==
  ASSUME load \in Loads
  PROVE  /\ load.pool \in Nat \ {0} /\ load.last \in Minutes
         /\ \A m \in Minutes : m \in Nat \ {0} /\ (m < load.last => m + 1 \in Minutes)
         /\ 1 \in Minutes
         /\ NoFragment \notin Fragments /\ EosMessage \notin Fragments
         /\ NoFragment # EosMessage
<1>1. PICK k \in Minutes : Minutes = 1..k
      BY FragmentAssumption
<1>2. load.pool \in Nat \ {0} /\ load.last \in Minutes
      BY FragmentAssumption
<1>3. k \in Nat \ {0}
      BY <1>1
<1>4. \A m \in Minutes : m \in Nat \ {0} /\ (m < load.last => m + 1 \in Minutes)
      BY <1>1, <1>2, <1>3
<1>5. NoFragment \notin Fragments /\ EosMessage \notin Fragments
      BY <1>4 DEF NoFragment, EosMessage, Fragments
<1>6. NoFragment # EosMessage
      BY DEF NoFragment, EosMessage
<1>7. 1 \in Minutes
      BY <1>1, <1>3
<1> QED  BY <1>2, <1>4, <1>5, <1>6, <1>7

LEMMA PipelineInitially == Init => PipelineInv
<1> SUFFICES ASSUME Init PROVE PipelineInv
    OBVIOUS
<1> USE DEF Init
<1>1. /\ load.pool \in Nat \ {0} /\ 1 \in Minutes
      BY Constants
<1>2. <<>> \in Seq(Fragments \cup {EosMessage}) /\ <<>> \in Seq(0..load.pool)
      BY EmptySeq
<1>3. Elements(<<>>) = {} /\ Distinct(<<>>) /\ \A e : OnlyLast(<<>>, e)
      BY EmptyIsDistinct, EmptySeq DEF OnlyLast
<1>4. PipelineTypeOK
      BY <1>1, <1>2 DEF PipelineTypeOK, MaybeFragments, Fragments, Handling
<1>5. InOrder
      BY DEF InOrder
<1>6. InHand
      BY DEF InHand, Handling, Threads
<1>7. OnePlace
  <2>1. OnBus = {}
        BY <1>3 DEF OnBus, Elements
  <2>2. InSlots = {} /\ ByMain = {}
        BY DEF InSlots, ByMain, Threads
  <2> QED  BY <2>1, <2>2 DEF OnePlace
<1>8. SlotsQueued
      BY <1>1, <1>3 DEF SlotsQueued, Slots
<1>9. Stopped /\ EosIsLast /\ Ended
      BY <1>3 DEF Stopped, EosIsLast, Ended, Threads
<1> QED  BY <1>4, <1>5, <1>6, <1>7, <1>8, <1>9 DEF PipelineInv

-----------------------------------------------------------------------------
(* Steps within handleFragmentClosed() and of the other processes. *)

LEMMA ElsewhereKeeps ==
  ASSUME PipelineInv,
         UNCHANGED <<load, sinkVars, bus, shutdownVars, poolVars, frag, handled>>,
         at' \in [Threads -> Handling \cup {"idle", "exited"}],
         \A t \in Threads : at'[t] = at[t] \/ {at[t], at'[t]} \subseteq Handling
  PROVE  PipelineInv'
<1> USE DEF PipelineInv, sinkVars, shutdownVars, poolVars
<1>1. PipelineTypeOK'
      BY DEF PipelineTypeOK, Slots
<1>2. InOrder' /\ EosIsLast'
      BY DEF InOrder, EosIsLast
<1>3. InHand'
      BY DEF InHand
<1>4. OnePlace'
      BY DEF OnePlace, OnBus, InSlots, ByMain, Slots
<1>5. SlotsQueued'
      BY DEF SlotsQueued, Slots
<1>6. Stopped' /\ Ended'
      BY DEF Stopped, Ended, Handling, Threads
<1> QED  BY <1>1, <1>2, <1>3, <1>4, <1>5, <1>6

LEMMA HandleKeeps ==
  ASSUME PipelineInv, UNCHANGED load, NEW t \in Threads, Handle(t)
  PROVE  PipelineInv'
<1>1. /\ UNCHANGED <<sinkVars, bus, shutdownVars, poolVars, frag, handled>>
      /\ at[t] \in Handling
      /\ \E place \in Handling : at' = [at EXCEPT ![t] = place]
      BY DEF Handle, Lookup, Mark, Check, Remove, Handling
<1> QED  BY <1>1, ElsewhereKeeps DEF PipelineInv, PipelineTypeOK

LEMMA MarkersKeep ==
  ASSUME PipelineInv, UNCHANGED load, NEW m \in Minutes, Vcm(m) \/ TakeAway(m)
  PROVE  PipelineInv'
<1>1. UNCHANGED <<sinkVars, bus, shutdownVars, poolVars, frag, handled, at>>
      BY DEF Vcm, VcmMarks, VcmChecks, TakeAway, threadVars
<1> QED  BY <1>1, ElsewhereKeeps DEF PipelineInv, PipelineTypeOK

-----------------------------------------------------------------------------
(* The sinks. *)

(* A fragment is closed: it is new on the bus, and what is written next is *)
(* later.                                                                  *)
LEMMA CloseKeeps ==
  ASSUME PipelineInv, eos # "posted", NEW c \in Channels, Close(c),
         UNCHANGED <<load, eos, shutdownVars, poolVars, threadVars, handled>>,
         NEW g \in MaybeFragments, recording' = [recording EXCEPT ![c] = g],
         g # NoFragment => g.ch = c /\ Later(recording[c], g)
  PROVE  PipelineInv'
<1> DEFINE f == recording[c]
<1> USE DEF PipelineInv, shutdownVars, poolVars, threadVars
<1>1. /\ f \in Fragments /\ f # EosMessage /\ f # NoFragment
      /\ closed' = closed \cup {f} /\ bus' = Append(bus, f)
      BY Constants DEF Close, PipelineTypeOK, MaybeFragments
<1>2. f \notin closed
  <2> SUFFICES ASSUME f \in closed PROVE FALSE
      OBVIOUS
  <2>1. Later(f, f)
        BY <1>1 DEF InOrder
  <2>2. f.minute \in Nat /\ f.part \in Nat
        BY <1>1, Constants DEF PipelineTypeOK, Fragments
  <2> QED  BY <2>1, <2>2 DEF Later
<1>3. f \notin Elements(bus)
      BY <1>1, <1>2 DEF OnePlace, OnBus, Elements
<1>4. /\ bus' \in Seq(Fragments \cup {EosMessage}) /\ Distinct(bus')
      /\ Elements(bus') = Elements(bus) \cup {f}
      /\ EosMessage \notin Elements(bus) => OnlyLast(bus', EosMessage)
      BY <1>1, <1>3, AppendTo DEF PipelineTypeOK, EosIsLast
<1>5. PipelineTypeOK'
      BY <1>1, <1>4 DEF PipelineTypeOK, Slots
<1>6. InOrder'
  <2> SUFFICES ASSUME NEW d \in Channels, recording'[d] # NoFragment
               PROVE  /\ recording'[d].ch = d
                      /\ \A e \in closed' : e.ch = d => Later(e, recording'[d])
      BY DEF InOrder
  <2>1. CASE d # c
        BY <1>1, <2>1 DEF InOrder, PipelineTypeOK
  <2>2. CASE d = c
    <3>1. recording'[d] = g /\ g \in Fragments
          BY <2>2 DEF PipelineTypeOK, MaybeFragments
    <3>2. ASSUME NEW e \in closed, e.ch = d PROVE Later(e, g)
      <4>1. Later(e, f) /\ Later(f, g)
            BY <1>1, <2>2, <3>1, <3>2 DEF InOrder
      <4>2. /\ e \in Fragments /\ e.minute \in Nat /\ f.minute \in Nat /\ g.minute \in Nat
            /\ e.part \in Nat /\ f.part \in Nat /\ g.part \in Nat
            BY <1>1, <3>1, Constants DEF PipelineTypeOK, Fragments
      <4> QED  BY <4>1, <4>2 DEF Later
    <3> QED  BY <1>1, <2>2, <3>1, <3>2
  <2> QED  BY <2>1, <2>2
<1>7. InHand'
      BY DEF InHand
<1>8. OnePlace'
  <2>1. OnBus' = OnBus \cup {f}
        BY <1>1, <1>4 DEF OnBus, Elements
  <2>2. InSlots' = InSlots /\ ByMain' = ByMain
        BY DEF InSlots, ByMain, Slots
  <2> QED  BY <1>1, <1>2, <2>1, <2>2 DEF OnePlace, Slots
<1>9. SlotsQueued' /\ Stopped'
      BY DEF SlotsQueued, Stopped, Slots
<1>10. EosIsLast' /\ Ended'
       BY <1>1, <1>4 DEF EosIsLast, Ended
<1> QED  BY <1>5, <1>6, <1>7, <1>8, <1>9, <1>10

LEMMA SinksKeep ==
  ASSUME PipelineInv, UNCHANGED load, Sinks
  PROVE  PipelineInv'
<1> USE DEF PipelineInv
<1>1. ASSUME NEW c \in Channels, Split(c) PROVE PipelineInv'
  <2>1. recording[c] \in Fragments /\ recording[c].ch = c /\ recording[c] # NoFragment
        BY <1>1 DEF Split, Close, PipelineTypeOK, MaybeFragments, InOrder
  <2>2. recording[c].minute \in Nat /\ recording[c].part \in Nat \ {0}
        BY <2>1, Constants DEF PipelineTypeOK, Fragments
  <2>3. \E g \in Fragments : /\ recording' = [recording EXCEPT ![c] = g]
                             /\ g.ch = c /\ Later(recording[c], g)
    <3>1. CASE /\ recording[c].minute < load.last
               /\ recording' = [recording EXCEPT
                    ![c] = [ch |-> c, minute |-> @.minute + 1, part |-> 1]]
      <4> DEFINE g == [ch |-> c, minute |-> recording[c].minute + 1, part |-> 1]
      <4>1. g \in Fragments
            BY <2>1, <3>1, Constants DEF PipelineTypeOK, Fragments
      <4>2. Later(recording[c], g)
            BY <2>2 DEF Later
      <4> QED  BY <3>1, <4>1, <4>2
    <3>2. CASE recording' = [recording EXCEPT ![c].part = @ + 1]
      <4> DEFINE g == [recording[c] EXCEPT !.part = @ + 1]
      <4>1. g \in Fragments /\ g.ch = c
            BY <2>1, <2>2 DEF Fragments
      <4>2. Later(recording[c], g)
            BY <2>1, <2>2 DEF Later, Fragments
      <4>3. recording' = [recording EXCEPT ![c] = g]
            BY <3>2
      <4> QED  BY <4>1, <4>2, <4>3
    <3> QED  BY <1>1, <3>1, <3>2 DEF Split
  <2> QED  BY <1>1, <2>3, CloseKeeps DEF Split, MaybeFragments
<1>2. ASSUME NEW c \in Channels, SinkEos(c) PROVE PipelineInv'
      BY <1>2, CloseKeeps DEF SinkEos, MaybeFragments
<1>3. CASE PipelineEos
  <2> USE <1>3 DEF PipelineEos, poolVars, shutdownVars, threadVars
  <2>1. EosMessage \notin Elements(bus)
        BY DEF EosIsLast
  <2>2. /\ bus' \in Seq(Fragments \cup {EosMessage}) /\ Distinct(bus')
        /\ Elements(bus') = Elements(bus) \cup {EosMessage}
        /\ OnlyLast(bus', EosMessage)
        BY <2>1, AppendTo DEF PipelineTypeOK, EosIsLast
  <2>3. PipelineTypeOK'
        BY <2>2 DEF PipelineTypeOK, Slots
  <2>4. InOrder' /\ InHand' /\ SlotsQueued' /\ Stopped'
        BY DEF InOrder, InHand, SlotsQueued, Stopped, Slots
  <2>5. OnePlace'
    <3>1. OnBus' = OnBus
          BY <2>2 DEF OnBus, Elements
    <3> QED  BY <3>1 DEF OnePlace, InSlots, ByMain, Slots
  <2>6. EosIsLast'
        BY <2>2 DEF EosIsLast
  <2>7. Ended'
        BY DEF Ended
  <2> QED  BY <2>3, <2>4, <2>5, <2>6, <2>7
<1> QED  BY <1>1, <1>2, <1>3 DEF Sinks

-----------------------------------------------------------------------------
(* The worker. *)

LEMMA WorkerPopsKeeps ==
  ASSUME PipelineInv, UNCHANGED load, WorkerPops
  PROVE  PipelineInv'
<1> DEFINE k == Head(queue)
<1> USE DEF PipelineInv, sinkVars, shutdownVars, WorkerPops
<1>1. /\ load.pool \in Nat \ {0} /\ Slots \subseteq 0..load.pool
      /\ \A j \in 0..load.pool : j # Stop => j \in Slots
      /\ Stop \notin Slots
      BY Constants DEF PipelineTypeOK, Slots, Stop
<1>2. /\ queue' \in Seq(0..load.pool) /\ Distinct(queue')
      /\ k \in Elements(queue) /\ k \in 0..load.pool
      /\ Elements(queue') = Elements(queue) \ {k}
      /\ OnlyLast(queue', Stop)
      /\ k = Stop => queue' = <<>>
      BY TailOf DEF PipelineTypeOK, SlotsQueued, Stopped
<1>3. held = 0 /\ frag["worker"] = NoFragment
      BY DEF InHand, Handling, Threads
<1>4. /\ UNCHANGED <<load, recording, closed, bus, eos, phase, timed_out, slot, handled>>
      /\ at'["main"] = at["main"] /\ frag'["main"] = frag["main"]
      BY DEF PipelineTypeOK, Threads
<1>5. InOrder' /\ EosIsLast' /\ Ended'
      BY <1>4 DEF InOrder, EosIsLast, Ended
<1>6. OnePlace'
  <2>1. OnBus' = OnBus /\ InSlots' = InSlots /\ ByMain' = ByMain /\ Slots' = Slots
        BY <1>4 DEF OnBus, InSlots, ByMain, Slots
  <2>2. OnePlace
        OBVIOUS
  <2> HIDE DEF PipelineInv
  <2> QED  BY <1>4, <2>1, <2>2 DEF OnePlace
<1>7. CASE k = Stop
  <2>1. at' = [at EXCEPT !["worker"] = "exited"] /\ UNCHANGED <<frag, held>>
        BY <1>7
  <2>2. PipelineTypeOK'
        BY <1>2, <1>4, <2>1 DEF PipelineTypeOK, Slots
  <2>3. InHand'
        BY <1>3, <1>4, <2>1 DEF InHand, PipelineTypeOK, Handling, Threads
  <2>4. SlotsQueued'
        BY <1>1, <1>2, <1>3, <1>4, <1>7, <2>1 DEF SlotsQueued, Slots
  <2>5. Stopped'
        BY <1>2, <1>4, <1>7, <2>1 DEF Stopped, PipelineTypeOK, Threads
  <2> QED  BY <1>5, <1>6, <2>2, <2>3, <2>4, <2>5
<1>8. CASE k # Stop
  <2>1. /\ at' = [at EXCEPT !["worker"] = "lookup"] /\ held' = k
        /\ frag' = [frag EXCEPT !["worker"] = slot[k]]
        BY <1>8
  <2>2. k \in Slots /\ slot[k] \in Fragments /\ slot[k] # NoFragment
        BY <1>1, <1>2, <1>8 DEF SlotsQueued, PipelineTypeOK, MaybeFragments
  <2>3. PipelineTypeOK'
        BY <1>2, <1>4, <2>1, <2>2 DEF PipelineTypeOK, Slots, MaybeFragments, Handling
  <2>4. InHand'
    <3>1. /\ at'["worker"] = "lookup" /\ frag'["worker"] = slot[k]
          /\ held' # 0 /\ slot'[held'] = slot[k]
      <4>1. /\ at'["worker"] = "lookup" /\ frag'["worker"] = slot[k]
            BY <2>1 DEF PipelineTypeOK, Threads
      <4>2. k # 0
            BY <1>8 DEF Stop
      <4>3. held' = k /\ slot' = slot
            BY <1>4, <2>1
      <4> QED  BY <4>1, <4>2, <4>3
    <3>2. \A t \in Threads : frag'[t] # NoFragment <=> at'[t] \in Handling
          BY <1>4, <2>2, <3>1 DEF InHand, Handling, Threads
    <3> QED  BY <2>1, <2>2, <3>1, <3>2 DEF InHand
  <2>5. SlotsQueued'
        BY <1>1, <1>2, <1>3, <1>4, <2>1, <2>2 DEF SlotsQueued, Slots
  <2>6. Stopped'
        BY <1>2, <1>4, <2>1 DEF Stopped, PipelineTypeOK, Threads
  <2> QED  BY <1>5, <1>6, <2>3, <2>4, <2>5, <2>6
<1> QED  BY <1>7, <1>8

LEMMA WorkerFinishesKeeps ==
  ASSUME PipelineInv, UNCHANGED load, WorkerFinishes
  PROVE  PipelineInv'
<1> DEFINE f == frag["worker"]
<1> USE DEF PipelineInv, sinkVars, shutdownVars, WorkerFinishes, Finished
<1>1. /\ load.pool \in Nat \ {0} /\ Slots = 1..load.pool
      BY Constants DEF PipelineTypeOK, Slots
<1>2. f # NoFragment /\ held # 0 /\ held \in Slots /\ f = slot[held]
      BY <1>1 DEF InHand, Handling, Threads, PipelineTypeOK
<1>3. /\ UNCHANGED <<load, recording, closed, bus, eos, phase, timed_out, queue>>
      /\ handled' = handled \cup {f} /\ held' = 0
      /\ slot' = [slot EXCEPT ![held] = NoFragment]
      /\ at' = [at EXCEPT !["worker"] = "idle"]
      /\ frag' = [frag EXCEPT !["worker"] = NoFragment]
      OBVIOUS
<1>4. PipelineTypeOK'
  <2>1. slot' \in [Slots' -> MaybeFragments]
        BY <1>3 DEF PipelineTypeOK, Slots, MaybeFragments
  <2>2. /\ at' \in [Threads -> Handling \cup {"idle", "exited"}]
        /\ frag' \in [Threads -> MaybeFragments]
        BY <1>3 DEF PipelineTypeOK, MaybeFragments
  <2>3. held' \in 0..load'.pool
        BY <1>1, <1>3
  <2> QED  BY <1>3, <2>1, <2>2, <2>3 DEF PipelineTypeOK
<1>5. InOrder' /\ EosIsLast'
      BY <1>3 DEF InOrder, EosIsLast
<1>6. InHand'
      BY <1>3 DEF InHand, PipelineTypeOK, Handling, Threads
<1>7. OnePlace'
  <2>1. OnBus' = OnBus /\ ByMain' = ByMain
        BY <1>3 DEF OnBus, ByMain, PipelineTypeOK, Threads
  <2>2. \A k \in Slots : slot'[k] = IF k = held THEN NoFragment ELSE slot[k]
        BY <1>3 DEF PipelineTypeOK
  <2>3. InSlots' = InSlots \ {f}
        BY <1>1, <1>2, <1>3, <2>2 DEF InSlots, OnePlace, Slots
  <2>4. f \in InSlots
        BY <1>2 DEF InSlots
  <2>5. \A j, k \in Slots' : slot'[j] = slot'[k] /\ slot'[j] # NoFragment => j = k
        BY <1>3, <2>2 DEF OnePlace, Slots
  <2> QED  BY <1>3, <2>1, <2>3, <2>4, <2>5 DEF OnePlace
<1>8. SlotsQueued'
      BY <1>1, <1>2, <1>3 DEF SlotsQueued, Slots, PipelineTypeOK
<1>9. Stopped' /\ Ended'
      BY <1>3 DEF Stopped, Ended, PipelineTypeOK, Threads
<1> QED  BY <1>4, <1>5, <1>6, <1>7, <1>8, <1>9

-----------------------------------------------------------------------------
(* The main thread and the bus. *)

LEMMA QueueKeeps ==
  ASSUME PipelineInv, UNCHANGED load, QueueFragment
  PROVE  PipelineInv'
<1> DEFINE f == Head(bus)
<1> USE DEF PipelineInv, sinkVars, shutdownVars, threadVars, QueueFragment
<1>1. /\ load.pool \in Nat \ {0} /\ Slots = 1..load.pool
      BY Constants DEF PipelineTypeOK, Slots
<1>2. PICK k \in Free : slot' = [slot EXCEPT ![k] = f] /\ queue' = Append(queue, k)
      OBVIOUS
<1>3. k \in Slots /\ slot[k] = NoFragment /\ k # Stop /\ k \in 0..load.pool
      BY <1>1 DEF Free, Stop
<1>4. /\ bus' \in Seq(Fragments \cup {EosMessage}) /\ Distinct(bus')
      /\ f \in Elements(bus) /\ f \in Fragments /\ f # NoFragment
      /\ Elements(bus') = Elements(bus) \ {f} /\ OnlyLast(bus', EosMessage)
      BY TailOf, Constants DEF PipelineTypeOK, EosIsLast
<1>5. k \notin Elements(queue) /\ k # held
      BY <1>3 DEF SlotsQueued
<1>6. /\ queue' \in Seq(0..load.pool) /\ Distinct(queue')
      /\ Elements(queue') = Elements(queue) \cup {k}
      /\ \A x : x \notin Elements(queue) => OnlyLast(queue', x)
  <2>1. queue \in Seq(0..load.pool) /\ Distinct(queue)
        BY DEF PipelineTypeOK, SlotsQueued
  <2> HIDE DEF QueueFragment, PipelineInv
  <2> QED  BY <1>2, <1>3, <1>5, <2>1, AppendTo
<1>7. phase \in {"running", "draining"} /\ Stop \notin Elements(queue)
      BY DEF MainListens, Stopped
<1>8. \A j \in Slots : slot'[j] = IF j = k THEN f ELSE slot[j]
      BY <1>2 DEF PipelineTypeOK
<1>9. PipelineTypeOK'
      BY <1>2, <1>4, <1>6 DEF PipelineTypeOK, Slots, MaybeFragments
<1>10. InOrder'
       BY DEF InOrder
<1>11. InHand'
       BY <1>1, <1>3, <1>5, <1>8 DEF InHand, PipelineTypeOK
<1>12. OnePlace'
  <2>1. OnBus' = OnBus \ {f} /\ f \in OnBus
        BY <1>4, Constants DEF OnBus, Elements
  <2>2. InSlots' = InSlots \cup {f}
        BY <1>3, <1>4, <1>8 DEF InSlots, Slots
  <2>3. ByMain' = ByMain
        BY DEF ByMain
  <2>4. f \notin InSlots \cup ByMain \cup handled
        BY <2>1 DEF OnePlace
  <2>5. \A i, j \in Slots' : slot'[i] = slot'[j] /\ slot'[i] # NoFragment => i = j
    <3>1. \A j \in Slots : slot[j] # f
          BY <1>4, <2>4 DEF InSlots
    <3> QED  BY <1>8, <3>1 DEF OnePlace, Slots
  <2> QED  BY <2>1, <2>2, <2>3, <2>4, <2>5 DEF OnePlace
<1>13. SlotsQueued'
       BY <1>3, <1>4, <1>5, <1>6, <1>8 DEF SlotsQueued, Slots
<1>14. Stopped'
  <2>1. OnlyLast(queue', Stop)
        BY <1>6, <1>7
  <2>2. at["worker"] # "exited"
        BY <1>7 DEF Stopped
  <2> QED  BY <1>3, <1>6, <1>7, <2>1, <2>2 DEF Stopped
<1>15. EosIsLast'
       BY <1>4 DEF EosIsLast
<1>16. Ended'
       BY <1>7 DEF Ended
<1> QED  BY <1>9, <1>10, <1>11, <1>12, <1>13, <1>14, <1>15, <1>16

LEMMA DirectKeeps ==
  ASSUME PipelineInv, UNCHANGED load, HandleDirectly
  PROVE  PipelineInv'
<1> DEFINE f == Head(bus)
<1> USE DEF PipelineInv, sinkVars, shutdownVars, poolVars, HandleDirectly
<1>1. /\ bus' \in Seq(Fragments \cup {EosMessage}) /\ Distinct(bus')
      /\ f \in Elements(bus) /\ f \in Fragments /\ f # NoFragment
      /\ Elements(bus') = Elements(bus) \ {f} /\ OnlyLast(bus', EosMessage)
      BY TailOf, Constants DEF PipelineTypeOK, EosIsLast
<1>2. /\ phase \in {"running", "draining"} /\ at["main"] = "idle"
      /\ at' = [at EXCEPT !["main"] = "lookup"] /\ frag' = [frag EXCEPT !["main"] = f]
      /\ frag["main"] = NoFragment
      BY DEF MainListens, InHand, Handling, Threads
<1>3. PipelineTypeOK'
      BY <1>1, <1>2 DEF PipelineTypeOK, Slots, MaybeFragments, Handling
<1>4. InOrder' /\ SlotsQueued'
      BY DEF InOrder, SlotsQueued, Slots
<1>5. InHand'
      BY <1>1, <1>2 DEF InHand, PipelineTypeOK, Handling, Threads
<1>6. OnePlace'
  <2>1. OnBus' = OnBus \ {f} /\ f \in OnBus
        BY <1>1, Constants DEF OnBus, Elements
  <2>2. InSlots' = InSlots /\ ByMain' = {f} /\ ByMain = {}
        BY <1>1, <1>2 DEF InSlots, ByMain, Slots, PipelineTypeOK, Threads
  <2> QED  BY <2>1, <2>2 DEF OnePlace, Slots
<1>7. Stopped'
      BY <1>2 DEF Stopped, PipelineTypeOK, Threads
<1>8. EosIsLast' /\ Ended'
      BY <1>1, <1>2 DEF EosIsLast, Ended
<1> QED  BY <1>3, <1>4, <1>5, <1>6, <1>7, <1>8

LEMMA MainFinishesKeeps ==
  ASSUME PipelineInv, UNCHANGED load, MainFinishes
  PROVE  PipelineInv'
<1> USE DEF PipelineInv, sinkVars, shutdownVars, poolVars, MainFinishes, Finished
<1>1. /\ at' = [at EXCEPT !["main"] = "idle"]
      /\ frag' = [frag EXCEPT !["main"] = NoFragment]
      /\ handled' = handled \cup {frag["main"]} /\ frag["main"] # NoFragment
      BY DEF InHand, Handling, Threads
<1>2. PipelineTypeOK'
      BY <1>1 DEF PipelineTypeOK, Slots, MaybeFragments
<1>3. InOrder' /\ SlotsQueued' /\ EosIsLast'
      BY DEF InOrder, SlotsQueued, Slots, EosIsLast
<1>4. InHand'
      BY <1>1 DEF InHand, PipelineTypeOK, Handling, Threads
<1>5. OnePlace'
  <2>1. OnBus' = OnBus /\ InSlots' = InSlots
        BY DEF OnBus, InSlots, Slots
  <2>2. ByMain' = {} /\ ByMain = {frag["main"]}
        BY <1>1 DEF ByMain, PipelineTypeOK, Threads
  <2> QED  BY <1>1, <2>1, <2>2 DEF OnePlace, Slots
<1>6. Stopped' /\ Ended'
      BY <1>1 DEF Stopped, Ended, PipelineTypeOK, Threads
<1> QED  BY <1>2, <1>3, <1>4, <1>5, <1>6

LEMMA ReceiveEosKeeps ==
  ASSUME PipelineInv, UNCHANGED load, ReceiveEos
  PROVE  PipelineInv'
<1> USE DEF PipelineInv, sinkVars, threadVars, poolVars, ReceiveEos
<1>1. /\ bus' = <<>> /\ bus' \in Seq(Fragments \cup {EosMessage})
      /\ EosMessage \in Elements(bus) /\ Elements(bus') = Elements(bus) \ {EosMessage}
      /\ Distinct(bus') /\ OnlyLast(bus', EosMessage)
      BY TailOf DEF PipelineTypeOK, EosIsLast
<1>2. PipelineTypeOK'
      BY <1>1 DEF PipelineTypeOK, Slots
<1>3. InOrder' /\ InHand' /\ SlotsQueued'
      BY DEF InOrder, InHand, SlotsQueued, Slots
<1>4. OnePlace'
  <2>1. OnBus' = OnBus
        BY <1>1 DEF OnBus, Elements
  <2> QED  BY <2>1 DEF OnePlace, InSlots, ByMain, Slots
<1>5. Stopped' /\ EosIsLast' /\ Ended'
      BY <1>1 DEF Stopped, EosIsLast, Ended, MainListens
<1> QED  BY <1>2, <1>3, <1>4, <1>5

(* The stages of the shutdown, and an error. *)
LEMMA PhasesKeep ==
  ASSUME PipelineInv, UNCHANGED load,
         ReceiveError \/ Terminate \/ DrainTimesOut \/ StopWorker \/ JoinWorker
  PROVE  PipelineInv'
<1> USE DEF PipelineInv
<1>1. /\ UNCHANGED <<load, recording, closed, bus, slot, held, at, frag, handled>>
      /\ eos = "posted" => eos' = "posted"
      BY DEF ReceiveError, Terminate, DrainTimesOut, StopWorker, JoinWorker, sinkVars,
             shutdownVars, poolVars, threadVars
<1>2. InOrder' /\ InHand' /\ OnePlace'
      BY <1>1 DEF InOrder, InHand, OnePlace, OnBus, InSlots, ByMain, Slots
<1>3. EosIsLast'
  <2>1. eos' = "posted" => eos = "posted"
        BY DEF ReceiveError, Terminate, DrainTimesOut, StopWorker, JoinWorker, sinkVars
  <2> QED  BY <1>1, <2>1 DEF EosIsLast
<1>4. PipelineTypeOK' /\ SlotsQueued' /\ Stopped'
  <2>1. CASE StopWorker
    <3>1. /\ queue' = Append(queue, Stop) /\ phase = "stopping" /\ phase' = "joining"
          /\ Stop \notin Elements(queue) /\ Stop \in 0..load.pool /\ Stop \notin Slots
          BY <2>1, Constants DEF StopWorker, StopEventQueued, Stopped, Stop, PipelineTypeOK,
             Slots
    <3>2. /\ queue' \in Seq(0..load.pool) /\ Distinct(queue')
          /\ Elements(queue') = Elements(queue) \cup {Stop} /\ OnlyLast(queue', Stop)
          BY <3>1, AppendTo DEF PipelineTypeOK, SlotsQueued
    <3>3. held # 0 => held # Stop
          BY DEF Stop
    <3> QED  BY <1>1, <3>1, <3>2, <3>3 DEF PipelineTypeOK, SlotsQueued, Stopped, Slots
  <2>2. CASE ~StopWorker
    <3>1. /\ UNCHANGED queue
          /\ phase \in {"joining", "null"} => phase' \in {"joining", "null"}
          /\ phase' = "null" => at["worker"] = "exited" \/ phase = "null"
          BY <2>2 DEF ReceiveError, Terminate, DrainTimesOut, JoinWorker, WorkerExited,
             poolVars, shutdownVars
    <3> QED  BY <1>1, <3>1 DEF PipelineTypeOK, SlotsQueued, Stopped, Slots
  <2> QED  BY <2>1, <2>2
<1>5. Ended'
      BY <1>1 DEF Ended, ReceiveError, Terminate, DrainTimesOut, StopWorker, JoinWorker,
         shutdownVars
<1> QED  BY <1>2, <1>3, <1>4, <1>5

LEMMA PipelineNext == PipelineInv /\ [Next]_<<load, fragmentVars>> => PipelineInv'
<1> SUFFICES ASSUME PipelineInv, [Next]_<<load, fragmentVars>> PROVE PipelineInv'
    OBVIOUS
<1>1. CASE UNCHANGED <<load, fragmentVars>>
      BY <1>1, ElsewhereKeeps DEF fragmentVars, threadVars, PipelineInv, PipelineTypeOK
<1>2. CASE Next
  <2>1. UNCHANGED load
        BY <1>2 DEF Next
  <2>2. CASE MainRuns
        BY <2>1, <2>2, QueueKeeps, DirectKeeps, HandleKeeps, MainFinishesKeeps,
           ReceiveEosKeeps, PhasesKeep DEF MainRuns, Threads
  <2>3. CASE Worker
        BY <2>1, <2>3, WorkerPopsKeeps, HandleKeeps, WorkerFinishesKeeps DEF Worker, Threads
  <2> QED  BY <1>2, <2>1, <2>2, <2>3, PhasesKeep, SinksKeep, MarkersKeep DEF Next
<1> QED  BY <1>1, <1>2

(* Each fragment is in one place, each slot in use is queued or held, and  *)
(* the stop event and the pipeline's EOS come last, for any sizes.         *)
THEOREM PipelineInvariant == Spec => []PipelineInv
BY PipelineInitially, PipelineNext, PTL DEF Spec

(* No fragment is lost or handled twice, and no slot reused while its      *)
(* event waits (main.cpp 280-400), for any number of channels and slots.   *)
THEOREM LosesNothing == Spec => []NothingLost
<1>1. PipelineInv => NothingLost
  <2> SUFFICES ASSUME PipelineInv PROVE NothingLost
      OBVIOUS
  <2> USE DEF PipelineInv
  <2>1. Elements(queue) \subseteq 0..load.pool /\ load.pool \in Nat \ {0}
        BY Constants, ElementOfSeq DEF PipelineTypeOK, Elements
  <2>2. \A k : k \in Elements(queue) <=> \E i \in 1..Len(queue) : queue[i] = k
        BY DEF Elements
  <2>3. Queued = {slot[k] : k \in Elements(queue) \ {Stop}}
        BY DEF Queued, Elements
  <2>4. Elements(queue) \ {Stop} \subseteq Slots
        BY <2>1 DEF Slots, Stop
  <2>5. InHands = ByMain \cup ({frag["worker"]} \ {NoFragment})
        BY DEF InHands, ByMain, Threads
  <2>6. InSlots = Queued \cup ({frag["worker"]} \ {NoFragment})
    <3>1. \A k \in Slots : slot[k] # NoFragment <=> k = held \/ k \in Elements(queue) \ {Stop}
          BY DEF SlotsQueued, Slots, Stop, PipelineTypeOK
    <3>2. held \in Slots \cup {0} /\ 0 \notin Slots
          BY <2>1 DEF PipelineTypeOK, Slots
    <3> QED  BY <2>3, <2>4, <3>1, <3>2 DEF InSlots, InHand
  <2>7. /\ closed = OnBus \cup Queued \cup InHands \cup handled
        /\ handled \cap (OnBus \cup Queued \cup InHands) = {}
        BY <2>5, <2>6 DEF OnePlace
  <2> QED  BY <2>2, <2>7 DEF NothingLost, SlotsQueued, Distinct
<1> QED  BY <1>1, PipelineInvariant, PTL

(* At the end of the shutdown every slot is free, and every fragment that  *)
(* was closed before the pipeline's EOS came has been handled (1575-1610). *)
THEOREM HandledAtNull == Spec => []AllHandledAtNull
<1>1. PipelineInv => AllHandledAtNull
  <2> SUFFICES ASSUME PipelineInv, phase = "null"
               PROVE  /\ \A k \in Slots : slot[k] = NoFragment
                      /\ ~timed_out => closed \subseteq handled
      BY DEF AllHandledAtNull
  <2> USE DEF PipelineInv
  <2>1. at["worker"] = "exited" /\ queue = <<>> /\ at["main"] = "idle"
        BY DEF Stopped, Ended
  <2>2. frag["worker"] = NoFragment /\ frag["main"] = NoFragment /\ held = 0
        BY <2>1 DEF InHand, Handling, Threads
  <2>3. Elements(queue) = {} /\ (bus = <<>> => Elements(bus) = {})
        BY <2>1, EmptyIsDistinct
  <2>4. \A k \in Slots : slot[k] = NoFragment
    <3>1. 0 \notin Slots
          BY DEF Slots
    <3> QED  BY <2>2, <2>3, <3>1 DEF SlotsQueued
  <2>5. ASSUME ~timed_out PROVE closed \subseteq handled
    <3>1. OnBus = {}
          BY <2>3, <2>5 DEF Ended, OnBus, Elements
    <3>2. InSlots = {} /\ ByMain = {}
          BY <2>2, <2>4 DEF InSlots, ByMain
    <3> QED  BY <3>1, <3>2 DEF OnePlace
  <2> QED  BY <2>4, <2>5
<1> QED  BY <1>1, PipelineInvariant, PTL

-----------------------------------------------------------------------------
(* The fragments somebody handles or has handled, and the channels a       *)
(* minute has fragments of among them.                                     *)
Touched == handled \cup InHands
Seen(m) == {c \in Channels : \E f \in Touched : f.ch = c /\ f.minute = m}

SessionTypeOK ==
  /\ done \in Seq(SUBSET Channels)
  /\ table \in [Minutes -> 0..Len(done)]
  /\ session \in [Threads -> 0..Len(done)]
  /\ video_done \cup completed \subseteq Minutes

(* A session object is one minute's. *)
OneMinute ==
  \A m, n \in Minutes : table[m] = table[n] /\ table[m] # 0 => m = n

(* A session in the table counts channels that have closed a fragment of   *)
(* its minute only, and so do the markers.                                 *)
CountsSeen == \A m \in Minutes : table[m] # 0 => done[table[m]] \subseteq Seen(m)
MarksSeen == \A m \in video_done \cup completed : Channels \subseteq Seen(m)

(* A thread about to mark its channel has looked its session up. *)
LookedUp == \A t \in Threads : at[t] = "mark" => session[t] # 0

SessionInv == SessionTypeOK /\ OneMinute /\ CountsSeen /\ MarksSeen /\ LookedUp

(* What is touched stays so. *)
LEMMA TouchedGrows ==
  ASSUME PipelineInv, [Next]_<<load, fragmentVars>>
  PROVE  \A m \in Minutes : Seen(m) \subseteq Seen(m)'
<1>1. Touched \subseteq Touched'
  <2>1. CASE UNCHANGED <<frag, handled>>
        BY <2>1 DEF Touched, InHands
  <2>2. ASSUME NEW t \in Threads, Finished(t) PROVE Touched \subseteq Touched'
    <3>1. \A u \in Threads \ {t} : frag'[u] = frag[u]
          BY <2>2 DEF Finished, PipelineInv, PipelineTypeOK
    <3>2. handled' = handled \cup {frag[t]}
          BY <2>2 DEF Finished
    <3> QED  BY <3>1, <3>2 DEF Touched, InHands
  <2>3. ASSUME NEW t \in Threads, at[t] = "idle", UNCHANGED handled,
               \A u \in Threads \ {t} : frag'[u] = frag[u]
        PROVE  Touched \subseteq Touched'
    <3>1. frag[t] = NoFragment
          BY <2>3 DEF PipelineInv, InHand, Handling
    <3> QED  BY <2>3, <3>1 DEF Touched, InHands
  <2>4. CASE WorkerPops
    <3>1. /\ at["worker"] = "idle" /\ UNCHANGED handled
          /\ \A u \in Threads \ {"worker"} : frag'[u] = frag[u]
          BY <2>4 DEF WorkerPops, PipelineInv, PipelineTypeOK
    <3> QED  BY <2>3, <3>1 DEF Threads
  <2>5. CASE HandleDirectly
    <3>1. /\ at["main"] = "idle" /\ UNCHANGED handled
          /\ \A u \in Threads \ {"main"} : frag'[u] = frag[u]
          BY <2>5 DEF HandleDirectly, MainListens, PipelineInv, PipelineTypeOK
    <3> QED  BY <2>3, <3>1 DEF Threads
  <2>6. CASE WorkerFinishes \/ MainFinishes
        BY <2>2, <2>6 DEF WorkerFinishes, MainFinishes, Threads
  <2>7. CASE Next /\ ~(WorkerPops \/ HandleDirectly \/ WorkerFinishes \/ MainFinishes)
        BY <2>1, <2>7 DEF Next, MainRuns, Worker, Sinks, Handle, Lookup, Mark, Check, Remove,
           QueueFragment, ReceiveEos, ReceiveError, Terminate, DrainTimesOut, StopWorker,
           JoinWorker, PipelineEos, Split, SinkEos, Vcm, VcmMarks, VcmChecks, TakeAway,
           threadVars
  <2> QED  BY <2>1, <2>4, <2>5, <2>6, <2>7 DEF fragmentVars, threadVars
<1> QED  BY <1>1 DEF Seen

LEMMA SessionInitially == Init => SessionInv
<1> SUFFICES ASSUME Init PROVE SessionInv
    OBVIOUS
<1> USE DEF Init
<1>1. done \in Seq(SUBSET Channels) /\ Len(done) = 0
      BY EmptySeq
<1> QED  BY <1>1 DEF SessionInv, SessionTypeOK, OneMinute, CountsSeen, MarksSeen, LookedUp,
         Threads

(* Most steps leave the sessions and the markers alone. *)
LEMMA SessionsAlone ==
  ASSUME PipelineInv, [Next]_<<load, fragmentVars>>, SessionInv,
         UNCHANGED <<sessionVars, video_done, completed>>,
         session' \in [Threads -> 0..Len(done)],
         \A t \in Threads : at'[t] = "mark" => at[t] = "mark" /\ session'[t] = session[t]
  PROVE  SessionInv'
<1>1. SessionTypeOK' /\ OneMinute' /\ LookedUp'
      BY DEF SessionInv, SessionTypeOK, OneMinute, LookedUp, sessionVars
<1>2. \A m \in Minutes : Seen(m) \subseteq Seen(m)'
      BY TouchedGrows
<1>3. CountsSeen' /\ MarksSeen'
      BY <1>2 DEF SessionInv, SessionTypeOK, CountsSeen, MarksSeen, sessionVars
<1> QED  BY <1>1, <1>3 DEF SessionInv

LEMMA LookupSession ==
  ASSUME PipelineInv, [Next]_<<load, fragmentVars>>, SessionInv,
         NEW t \in Threads, Lookup(t)
  PROVE  SessionInv'
<1> DEFINE m == Minute(t)
           n == Len(done)
<1> USE DEF Lookup, sessionVars, markerVars
<1>1. m \in Minutes /\ n \in Nat /\ done \in Seq(SUBSET Channels)
      BY DEF PipelineInv, InHand, PipelineTypeOK, MaybeFragments, Fragments, Handling, Minute,
         SessionInv, SessionTypeOK
<1>2. \A l \in Minutes : Seen(l) \subseteq Seen(l)'
      BY TouchedGrows
<1>3. /\ session' = [session EXCEPT ![t] = table'[m]] /\ at' = [at EXCEPT ![t] = "mark"]
      /\ UNCHANGED <<video_done, completed>>
      OBVIOUS
<1> HIDE DEF m, n
<1>4. CASE table[m] # 0
  <2>1. UNCHANGED <<done, table>>
        BY <1>4 DEF HasSession, m
  <2>2. SessionTypeOK' /\ OneMinute' /\ CountsSeen' /\ MarksSeen'
        BY <1>1, <1>2, <1>3, <2>1
        DEF SessionInv, SessionTypeOK, OneMinute, CountsSeen, MarksSeen
  <2>3. LookedUp'
        BY <1>3, <1>4, <2>1
        DEF SessionInv, SessionTypeOK, LookedUp, PipelineInv, PipelineTypeOK
  <2> QED  BY <2>2, <2>3 DEF SessionInv
<1>5. CASE table[m] = 0
  <2>1. done' = Append(done, {}) /\ table' = [table EXCEPT ![m] = n + 1]
        BY <1>5 DEF HasSession, m, n
  <2>2. /\ done' \in Seq(SUBSET Channels) /\ Len(done') = n + 1
        /\ \A i \in 1..n : done'[i] = done[i]
        /\ done'[n + 1] = {}
        BY <1>1, <2>1, AppendProperties DEF n
  <2>3. /\ table \in [Minutes -> 0..n] /\ session \in [Threads -> 0..n]
        /\ \A l \in Minutes : table'[l] = IF l = m THEN n + 1 ELSE table[l]
        BY <2>1 DEF SessionInv, SessionTypeOK, n
  <2>4. table' \in [Minutes -> 0..n + 1] /\ session' \in [Threads -> 0..n + 1]
        BY <1>1, <1>3, <2>1, <2>3
  <2>5. SessionTypeOK'
        BY <1>3, <2>2, <2>4 DEF SessionInv, SessionTypeOK
  <2>6. OneMinute'
        BY <1>1, <2>3 DEF SessionInv, OneMinute
  <2>7. CountsSeen'
    <3> SUFFICES ASSUME NEW l \in Minutes, table'[l] # 0
                 PROVE  done'[table'[l]] \subseteq Seen(l)'
        BY DEF CountsSeen
    <3>1. CASE l = m
          BY <2>2, <2>3, <3>1
    <3>2. CASE l # m
          BY <1>1, <1>2, <2>2, <2>3, <3>2 DEF SessionInv, CountsSeen
    <3> QED  BY <3>1, <3>2
  <2>8. MarksSeen'
        BY <1>2, <1>3 DEF SessionInv, SessionTypeOK, MarksSeen
  <2>9. LookedUp'
        BY <1>1, <1>3, <2>3 DEF SessionInv, LookedUp, PipelineInv, PipelineTypeOK
  <2> QED  BY <2>5, <2>6, <2>7, <2>8, <2>9 DEF SessionInv
<1> QED  BY <1>4, <1>5

LEMMA MarkSession ==
  ASSUME PipelineInv, [Next]_<<load, fragmentVars>>, SessionInv,
         NEW t \in Threads, Mark(t)
  PROVE  SessionInv'
<1> DEFINE m == Minute(t)
           s == session[t]
<1> USE DEF Mark, sinkVars, shutdownVars, poolVars
<1>1. /\ frag[t] \in Fragments /\ frag[t] # NoFragment /\ m \in Minutes
      /\ frag[t].ch \in Channels /\ frag[t].minute = m
      BY DEF PipelineInv, InHand, PipelineTypeOK, MaybeFragments, Fragments, Handling, Minute
<1>2. s # 0 /\ table[m] = s /\ s \in 1..Len(done)
      BY DEF Dangling, SessionInv, LookedUp, SessionTypeOK
<1>3. /\ done' = [done EXCEPT ![s] = Marked(t)]
      /\ UNCHANGED <<table, frag, session, completed, handled>>
      /\ at'[t] # "mark" /\ \A u \in Threads \ {t} : at'[u] = at[u]
      BY DEF PipelineInv, PipelineTypeOK
<1>4. video_done' = video_done \/ (AllMarked(Marked(t)) /\ video_done' = video_done \cup {m})
      OBVIOUS
<1>5. \A l \in Minutes : Seen(l)' = Seen(l)
      BY <1>3 DEF Seen, Touched, InHands
<1>6. frag[t].ch \in Seen(m)
      BY <1>1 DEF Seen, Touched, InHands
<1>7. Marked(t) \subseteq Seen(m) /\ Marked(t) \subseteq Channels
      BY <1>1, <1>2, <1>6 DEF Marked, SessionInv, CountsSeen, Seen
<1>8. /\ done' \in Seq(SUBSET Channels) /\ Len(done') = Len(done)
      /\ \A i \in 1..Len(done) : done'[i] = IF i = s THEN Marked(t) ELSE done[i]
      BY <1>2, <1>3, <1>7, ExceptSeq DEF SessionInv, SessionTypeOK
<1> HIDE DEF Mark, m, s
<1>9. AllMarked(Marked(t)) => Channels \subseteq Seen(m)
      BY <1>7, FS_Subset, FS_CardinalityType, FragmentAssumption DEF AllMarked
<1>10. SessionTypeOK'
       BY <1>1, <1>3, <1>4, <1>8 DEF SessionInv, SessionTypeOK
<1>11. OneMinute' /\ LookedUp'
       BY <1>3 DEF SessionInv, OneMinute, LookedUp
<1>12. CountsSeen'
  <2> SUFFICES ASSUME NEW l \in Minutes, table[l] # 0
               PROVE  done'[table[l]] \subseteq Seen(l)
      BY <1>3, <1>5 DEF CountsSeen
  <2>1. table[l] \in 1..Len(done)
        BY DEF SessionInv, SessionTypeOK
  <2>2. CASE l = m
        BY <1>2, <1>7, <1>8, <2>1, <2>2
  <2>3. CASE l # m
        BY <1>1, <1>2, <1>8, <2>1, <2>3 DEF SessionInv, OneMinute, CountsSeen
  <2> QED  BY <2>2, <2>3
<1>13. MarksSeen'
       BY <1>3, <1>4, <1>5, <1>9, <1>1 DEF SessionInv, SessionTypeOK, MarksSeen
<1> QED  BY <1>10, <1>11, <1>12, <1>13 DEF SessionInv

(* The worker's look at the markers, and vcm's. *)
LEMMA CheckSession ==
  ASSUME PipelineInv, [Next]_<<load, fragmentVars>>, SessionInv,
         UNCHANGED <<sessionVars, session>>, NEW m, CheckMarkers(m),
         \A t \in Threads : at'[t] = "mark" => at[t] = "mark"
  PROVE  SessionInv'
<1>1. /\ video_done' \subseteq video_done
      /\ completed' \subseteq completed \cup video_done
      BY DEF CheckMarkers, MarkComplete, markerVars
<1>2. SessionTypeOK' /\ OneMinute' /\ LookedUp'
      BY <1>1 DEF SessionInv, SessionTypeOK, OneMinute, LookedUp, sessionVars
<1>3. \A l \in Minutes : Seen(l) \subseteq Seen(l)'
      BY TouchedGrows
<1>4. CountsSeen' /\ MarksSeen'
      BY <1>1, <1>3 DEF SessionInv, SessionTypeOK, CountsSeen, MarksSeen, sessionVars
<1> QED  BY <1>2, <1>4 DEF SessionInv

LEMMA RemoveSession ==
  ASSUME PipelineInv, [Next]_<<load, fragmentVars>>, SessionInv,
         NEW t \in Threads, Remove(t)
  PROVE  SessionInv'
<1> USE DEF Remove, markerVars, Erased
<1>1. /\ UNCHANGED <<done, session, video_done, completed>>
      /\ table' = [table EXCEPT ![Minute(t)] = 0]
      /\ \A u \in Threads : at'[u] = "mark" => at[u] = "mark"
      BY DEF PipelineInv, PipelineTypeOK
<1>2. \A l \in Minutes : Seen(l) \subseteq Seen(l)'
      BY TouchedGrows
<1>3. \A l \in Minutes : table'[l] \in {0, table[l]}
      BY <1>1 DEF SessionInv, SessionTypeOK
<1>4. SessionTypeOK'
  <2>1. table' \in [Minutes -> 0..Len(done)]
    <3>1. table \in [Minutes -> 0..Len(done)] /\ 0 \in 0..Len(done)
          BY LenProperties DEF SessionInv, SessionTypeOK
    <3> QED  BY <1>1, <3>1
  <2> QED  BY <1>1, <2>1 DEF SessionInv, SessionTypeOK
<1>5. OneMinute' /\ LookedUp'
      BY <1>1, <1>3 DEF SessionInv, OneMinute, LookedUp
<1>6. CountsSeen' /\ MarksSeen'
      BY <1>1, <1>2, <1>3 DEF SessionInv, SessionTypeOK, CountsSeen, MarksSeen
<1> QED  BY <1>4, <1>5, <1>6 DEF SessionInv

LEMMA SessionNext ==
  PipelineInv /\ SessionInv /\ [Next]_<<load, fragmentVars>> => SessionInv'
<1> SUFFICES ASSUME PipelineInv, SessionInv, [Next]_<<load, fragmentVars>>
             PROVE  SessionInv'
    OBVIOUS
<1>1. CASE UNCHANGED <<load, fragmentVars>>
      BY <1>1, SessionsAlone
      DEF fragmentVars, threadVars, markerVars, SessionInv, SessionTypeOK
<1>2. ASSUME NEW t \in Threads, Handle(t) PROVE SessionInv'
  <2>1. CASE Check(t)
    <3>1. /\ UNCHANGED <<sessionVars, session>> /\ CheckMarkers(Minute(t))
          /\ \A u \in Threads : at'[u] = "mark" => at[u] = "mark"
          BY <2>1 DEF Check, sessionVars, PipelineInv, PipelineTypeOK
    <3> QED  BY <3>1, CheckSession
  <2> QED  BY <1>2, <2>1, LookupSession, MarkSession, RemoveSession DEF Handle
<1>3. ASSUME NEW m, VcmChecks(m) PROVE SessionInv'
  <2>1. UNCHANGED <<sessionVars, session, at>> /\ CheckMarkers(m)
        BY <1>3 DEF VcmChecks, threadVars
  <2> QED  BY <2>1, CheckSession
<1>4. CASE WorkerPops \/ HandleDirectly \/ WorkerFinishes \/ MainFinishes
  <2>1. UNCHANGED <<sessionVars, video_done, completed>>
        BY <1>4 DEF WorkerPops, HandleDirectly, WorkerFinishes, MainFinishes, markerVars
  <2>2. \A t \in Threads : at'[t] = "mark" => at[t] = "mark" /\ session'[t] = session[t]
        BY <1>4 DEF WorkerPops, HandleDirectly, WorkerFinishes, MainFinishes, Finished,
           PipelineInv, PipelineTypeOK, SessionInv, SessionTypeOK
  <2>3. session' \in [Threads -> 0..Len(done)]
    <3>1. session \in [Threads -> 0..Len(done)] /\ 0 \in 0..Len(done)
          BY LenProperties DEF SessionInv, SessionTypeOK
    <3>2. \/ session' = session
          \/ \E t \in Threads : session' = [session EXCEPT ![t] = 0]
          BY <1>4 DEF WorkerPops, HandleDirectly, WorkerFinishes, MainFinishes, Finished,
             Threads
    <3> QED  BY <3>1, <3>2
  <2> QED  BY <2>1, <2>2, <2>3, SessionsAlone
<1>5. CASE QueueFragment \/ ReceiveEos \/ StopWorker \/ JoinWorker \/ ReceiveError
           \/ Terminate \/ DrainTimesOut \/ Sinks
           \/ \E m \in Minutes : VcmMarks(m) \/ TakeAway(m)
  <2>1. UNCHANGED <<sessionVars, threadVars, video_done, completed>>
        BY <1>5 DEF QueueFragment, ReceiveEos, StopWorker, JoinWorker, ReceiveError, Terminate,
           DrainTimesOut, Sinks, PipelineEos, Split, SinkEos, VcmMarks, TakeAway, markerVars
  <2> QED  BY <2>1, SessionsAlone DEF threadVars, SessionInv, SessionTypeOK
<1> QED  BY <1>1, <1>2, <1>3, <1>4, <1>5 DEF Next, MainRuns, Worker, Vcm, Threads

(* Sessions and markers count channels that have closed a fragment only.   *)
THEOREM SessionInvariant == Spec => []SessionInv
BY SessionInitially, SessionNext, PipelineInvariant, PTL DEF Spec

(* all_done of a minute is not written before every channel has closed a   *)
(* fragment of it (muxSinkBin.cpp 318-361), for any number of channels.    *)
THEOREM NeverCompleteEarly == Spec => []CompleteMeansAllClosed
<1>1. SessionInv => CompleteMeansAllClosed
      BY DEF SessionInv, MarksSeen, Seen, Touched, CompleteMeansAllClosed
<1> QED  BY <1>1, SessionInvariant, PTL

-----------------------------------------------------------------------------
(* Sessions are neither used after they were freed nor left behind, as     *)
(* long as no channel has two fragments named alike, or, of the first, the *)
(* pool never exhausts.                                                    *)

(* The load bounds what is recorded. *)
Sized(f) == f.minute \in 1..load.last /\ f.part \in 1..load.parts
Sizes ==
  /\ \A f \in closed : Sized(f)
  /\ \A c \in Channels : recording[c] # NoFragment => Sized(recording[c])

(* The fragments that are marked, and the channels a minute has marked. *)
Beyond(t) == at[t] \in {"check", "remove", "finish"}
Removes(t) == at[t] \in {"check", "remove"}
Through == handled \cup {frag[t] : t \in {u \in Threads : Beyond(u)}}
Counted(m) == {c \in Channels : \E f \in Through : f.ch = c /\ f.minute = m}

(* Where each channel has one fragment of a minute: a session counts       *)
(* exactly the minute's marked channels; it is about to be removed when it *)
(* counts them all, and only then; and a minute without a session has none *)
(* of them marked or all.                                                  *)
CountsExactly == \A m \in Minutes : table[m] # 0 => done[table[m]] = Counted(m)
RemovesFull == \A t \in Threads : Removes(t) => Counted(Minute(t)) = Channels
FullIsRemoved ==
  \A m \in Minutes : table[m] # 0 /\ Counted(m) = Channels =>
    \E t \in Threads : Removes(t) /\ Minute(t) = m
NoneOrAll == \A m \in Minutes : table[m] = 0 => Counted(m) \in {{}, Channels}
OneEach == CountsExactly /\ RemovesFull /\ FullIsRemoved /\ NoneOrAll

(* Where each fragment has a slot of its own the main loop handles none. *)
WorkerAlone == at["main"] \notin Handling

NoneDangling == \A t \in Threads : ~Dangling(t)

SoundInv ==
  /\ Sizes
  /\ ~Twins => OneEach
  /\ PoolSuffices => WorkerAlone
  /\ ~Twins \/ PoolSuffices => NoneDangling

LEMMA SizesInitially == Init => Sizes
<1> SUFFICES ASSUME Init PROVE Sizes
    OBVIOUS
<1>1. /\ load.last \in Nat \ {0} /\ load.parts \in Nat \ {0}
  <2>1. load \in Loads
        BY DEF Init
  <2> QED  BY <2>1, FragmentAssumption
<1>2. \A c \in Channels : recording[c].minute = 1 /\ recording[c].part = 1
      BY DEF Init
<1> QED  BY <1>1, <1>2 DEF Init, Sizes, Sized

LEMMA SizesNext ==
  PipelineInv /\ Sizes /\ [Next]_<<load, fragmentVars>> => Sizes'
<1> SUFFICES ASSUME PipelineInv, Sizes, [Next]_<<load, fragmentVars>>
             PROVE  Sizes'
    OBVIOUS
<1>1. UNCHANGED load /\ load.last \in Nat \ {0} /\ load.parts \in Nat \ {0}
  <2>1. load \in Loads
        BY DEF PipelineInv, PipelineTypeOK
  <2> QED  BY <2>1, FragmentAssumption DEF Next
<1>2. CASE UNCHANGED <<closed, recording>>
      BY <1>1, <1>2 DEF Sizes, Sized
<1>3. ASSUME NEW c \in Channels, Close(c), NEW g,
             recording' = [recording EXCEPT ![c] = g],
             g # NoFragment => Sized(g)
      PROVE  Sizes'
  <2>1. \A d \in Channels : recording'[d] = IF d = c THEN g ELSE recording[d]
        BY <1>3 DEF PipelineInv, PipelineTypeOK
  <2>2. closed' = closed \cup {recording[c]} /\ Sized(recording[c])
        BY <1>3 DEF Close, Sizes
  <2> QED  BY <1>1, <1>3, <2>1, <2>2 DEF Sizes, Sized
<1>4. ASSUME NEW c \in Channels, Split(c) PROVE Sizes'
  <2>1. Close(c) /\ recording[c] # NoFragment
        BY <1>4 DEF Split, Close
  <2>2. /\ recording[c] \in Fragments
        /\ recording[c].minute \in 1..load.last /\ recording[c].part \in 1..load.parts
        BY <2>1 DEF Sizes, Sized, PipelineInv, PipelineTypeOK, MaybeFragments
  <2>3. CASE /\ recording[c].minute < load.last
             /\ recording' = [recording EXCEPT
                  ![c] = [ch |-> c, minute |-> @.minute + 1, part |-> 1]]
    <3> DEFINE g == [ch |-> c, minute |-> recording[c].minute + 1, part |-> 1]
    <3>1. Sized(g)
          BY <1>1, <2>2, <2>3 DEF Sized
    <3> QED  BY <1>3, <2>1, <2>3, <3>1
  <2>4. CASE /\ recording[c].part < load.parts
             /\ recording' = [recording EXCEPT ![c].part = @ + 1]
    <3> DEFINE g == [recording[c] EXCEPT !.part = @ + 1]
    <3>1. Sized(g)
          BY <1>1, <2>2, <2>4 DEF Sized, Fragments
    <3>2. recording' = [recording EXCEPT ![c] = g]
          BY <2>4
    <3> HIDE DEF g
    <3> QED  BY <1>3, <2>1, <3>1, <3>2
  <2> QED  BY <1>4, <2>3, <2>4 DEF Split
<1>5. ASSUME NEW c \in Channels, SinkEos(c) PROVE Sizes'
      BY <1>3, <1>5 DEF SinkEos
<1> QED  BY <1>2, <1>4, <1>5
         DEF Next, MainRuns, Worker, Sinks, Vcm, Handle, Lookup, Mark, Check, Remove,
             WorkerPops, WorkerFinishes, QueueFragment, HandleDirectly, MainFinishes,
             ReceiveEos, ReceiveError, Terminate, DrainTimesOut, StopWorker, JoinWorker,
             PipelineEos, VcmMarks, VcmChecks, TakeAway, sinkVars, fragmentVars

(* What a thread handles is closed and not handled yet, and no other       *)
(* thread's.                                                               *)
LEMMA Apart ==
  ASSUME PipelineInv, NEW t \in Threads, frag[t] # NoFragment
  PROVE  /\ frag[t] \in Fragments /\ frag[t] \in closed /\ frag[t] \notin handled
         /\ \A u \in Threads : frag[u] = frag[t] => u = t
<1>1. CASE t = "main"
  <2>1. frag[t] \in ByMain
        BY <1>1 DEF ByMain
  <2>2. frag["worker"] # NoFragment => frag["worker"] \in InSlots
        BY DEF PipelineInv, InHand, PipelineTypeOK, InSlots, Slots
  <2>3. frag["worker"] # frag[t]
        BY <2>1, <2>2 DEF PipelineInv, OnePlace
  <2> QED  BY <1>1, <2>1, <2>3 DEF PipelineInv, OnePlace, PipelineTypeOK, Threads
<1>2. CASE t = "worker"
  <2>1. frag[t] \in InSlots
        BY <1>2 DEF PipelineInv, InHand, PipelineTypeOK, InSlots, Slots
  <2>2. frag["main"] # NoFragment => frag["main"] \in ByMain
        BY DEF ByMain
  <2>3. frag["main"] # frag[t]
        BY <2>1, <2>2 DEF PipelineInv, OnePlace
  <2> QED  BY <1>2, <2>1, <2>3 DEF PipelineInv, OnePlace, PipelineTypeOK, Threads
<1> QED  BY <1>1, <1>2 DEF Threads

LEMMA HandlesOne ==
  ASSUME PipelineInv, NEW t \in Threads, at[t] \in Handling
  PROVE  /\ frag[t] # NoFragment /\ frag[t] \in Fragments /\ frag[t] \in closed
         /\ frag[t] \notin handled /\ \A u \in Threads : frag[u] = frag[t] => u = t
         /\ Minute(t) \in Minutes /\ frag[t].ch \in Channels /\ frag[t].minute = Minute(t)
<1>1. frag[t] # NoFragment
      BY DEF PipelineInv, InHand
<1>2. frag[t] \in Fragments
      BY <1>1, Apart
<1> QED  BY <1>1, <1>2, Apart DEF Fragments, Minute

LEMMA AlikeIsSame ==
  ASSUME PipelineInv, Sizes, ~Twins, NEW f \in closed, NEW g \in closed,
         f.ch = g.ch, f.minute = g.minute
  PROVE  f = g
<1>1. load.parts = 1
  <2>1. load.parts \in Nat \ {0}
        BY FragmentAssumption DEF PipelineInv, PipelineTypeOK
  <2> QED  BY <2>1 DEF Twins
<1>2. f \in Fragments /\ g \in Fragments
      BY DEF PipelineInv, PipelineTypeOK
<1>3. f.part = 1 /\ g.part = 1
      BY <1>1 DEF Sizes, Sized
<1> QED  BY <1>2, <1>3 DEF Fragments

LEMMA ThroughClosed ==
  ASSUME PipelineInv
  PROVE  Through \subseteq closed
<1>1. handled \subseteq closed
      BY DEF PipelineInv, OnePlace
<1>2. \A t \in Threads : Beyond(t) => frag[t] \in closed
      BY HandlesOne DEF Beyond, Handling
<1> QED  BY <1>1, <1>2 DEF Through

(* A thread that has still to mark its channel has it uncounted. *)
LEMMA Uncounted ==
  ASSUME PipelineInv, Sizes, ~Twins, NEW t \in Threads, at[t] \in {"lookup", "mark"}
  PROVE  frag[t].ch \notin Counted(Minute(t))
<1> SUFFICES ASSUME NEW f \in Through, f.ch = frag[t].ch, f.minute = Minute(t)
             PROVE  FALSE
    BY DEF Counted
<1>1. at[t] \in Handling
      BY DEF Handling
<1>2. frag[t] \in closed /\ f \in closed /\ frag[t].minute = Minute(t)
      BY <1>1, HandlesOne, ThroughClosed
<1>3. f = frag[t]
      BY <1>2, AlikeIsSame
<1>4. \A u \in Threads : Beyond(u) => frag[u] # frag[t]
      BY <1>1, HandlesOne DEF Beyond
<1>5. frag[t] \notin handled
      BY <1>1, HandlesOne
<1> QED  BY <1>3, <1>4, <1>5 DEF Through

(* Steps that mark no channel and remove no session. *)
LEMMA OneEachAlone ==
  ASSUME OneEach, UNCHANGED <<table, done>>, Through' = Through,
         \A t \in Threads : Removes(t)' <=> Removes(t),
         \A t \in Threads : Removes(t) => frag'[t] = frag[t]
  PROVE  OneEach'
<1>1. \A m : Counted(m)' = Counted(m)
      BY DEF Counted
<1>2. \A t \in Threads : Removes(t) => Minute(t)' = Minute(t)
      BY DEF Minute
<1>3. CountsExactly' /\ NoneOrAll'
      BY <1>1 DEF OneEach, CountsExactly, NoneOrAll
<1>4. RemovesFull'
  <2> SUFFICES ASSUME NEW t \in Threads, Removes(t)'
               PROVE  Counted(Minute(t))' = Channels
      BY DEF RemovesFull
  <2>1. Removes(t) /\ Minute(t)' = Minute(t)
        BY <1>2
  <2>2. Counted(Minute(t)') = Channels
        BY <2>1 DEF OneEach, RemovesFull
  <2>3. Counted(Minute(t))' = Counted(Minute(t)')
        BY DEF Counted
  <2> QED  BY <2>2, <2>3
<1>5. FullIsRemoved'
  <2> SUFFICES ASSUME NEW m \in Minutes, table[m] # 0, Counted(m) = Channels
               PROVE  \E t \in Threads : Removes(t)' /\ Minute(t)' = m
      BY <1>1 DEF FullIsRemoved
  <2>1. PICK t \in Threads : Removes(t) /\ Minute(t) = m
        BY DEF OneEach, FullIsRemoved
  <2> QED  BY <1>2, <2>1
<1> QED  BY <1>3, <1>4, <1>5 DEF OneEach

(* What is handled or marked of the other minutes stays as it is. *)
LEMMA LookupCounts ==
  ASSUME PipelineInv, SessionInv, Sizes, ~Twins, OneEach, NEW t \in Threads, Lookup(t)
  PROVE  OneEach'
<1> DEFINE m == Minute(t)
<1>1. /\ at[t] = "lookup" /\ at' = [at EXCEPT ![t] = "mark"]
      /\ UNCHANGED <<frag, handled>>
      BY DEF Lookup
<1>2. m \in Minutes
      BY <1>1, HandlesOne DEF Handling
<1>3. \A u \in Threads : at'[u] = IF u = t THEN "mark" ELSE at[u]
      BY <1>1 DEF PipelineInv, PipelineTypeOK
<1>4. /\ \A u \in Threads : Beyond(u)' <=> Beyond(u)
      /\ \A u \in Threads : Removes(u)' <=> Removes(u)
      BY <1>1, <1>3 DEF Beyond, Removes
<1>5. Through' = Through
      BY <1>1, <1>4 DEF Through
<1> HIDE DEF m
<1>6. CASE table[m] # 0
  <2>1. UNCHANGED <<table, done>>
        BY <1>6 DEF Lookup, HasSession, m
  <2> QED  BY <1>1, <1>4, <1>5, <2>1, OneEachAlone
<1>7. CASE table[m] = 0
  <2> DEFINE n == Len(done)
  <2>1. done' = Append(done, {}) /\ table' = [table EXCEPT ![m] = n + 1]
        BY <1>7 DEF Lookup, HasSession, m
  <2>2. n \in Nat /\ done'[n + 1] = {} /\ \A i \in 1..n : done'[i] = done[i]
        BY <2>1, AppendProperties, LenProperties DEF SessionInv, SessionTypeOK
  <2>3. \A l \in Minutes : table'[l] = IF l = m THEN n + 1 ELSE table[l]
        BY <2>1 DEF SessionInv, SessionTypeOK
  <2>4. \A l \in Minutes : table[l] \in 0..n
        BY DEF SessionInv, SessionTypeOK
  <2> HIDE DEF n
  <2>5. \A l : Counted(l)' = Counted(l)
        BY <1>5 DEF Counted
  <2>6. Counted(m) = {}
    <3>1. frag[t].ch \in Channels /\ frag[t].ch \notin Counted(m)
          BY <1>1, HandlesOne, Uncounted DEF m, Handling
    <3> QED  BY <1>2, <1>7, <3>1 DEF OneEach, NoneOrAll
  <2>7. CountsExactly'
    <3> SUFFICES ASSUME NEW l \in Minutes, table'[l] # 0
                 PROVE  done'[table'[l]] = Counted(l)
        BY <2>5 DEF CountsExactly
    <3>1. CASE l = m
          BY <2>2, <2>3, <2>6, <3>1
    <3>2. CASE l # m
          BY <2>2, <2>3, <2>4, <3>2 DEF OneEach, CountsExactly
    <3> QED  BY <3>1, <3>2
  <2>8. RemovesFull'
    <3> SUFFICES ASSUME NEW u \in Threads, Removes(u)
                 PROVE  Counted(Minute(u))' = Channels
        BY <1>4 DEF RemovesFull
    <3>1. Minute(u)' = Minute(u)
          BY <1>1 DEF Minute
    <3>2. Counted(Minute(u)) = Channels
          BY DEF OneEach, RemovesFull
    <3>3. Counted(Minute(u))' = Counted(Minute(u))
          BY <1>5, <3>1 DEF Counted
    <3> QED  BY <3>2, <3>3
  <2>9. FullIsRemoved'
    <3> SUFFICES ASSUME NEW l \in Minutes, table'[l] # 0, Counted(l) = Channels
                 PROVE  \E u \in Threads : Removes(u)' /\ Minute(u)' = l
        BY <2>5 DEF FullIsRemoved
    <3>1. l # m
          BY <2>6, FragmentAssumption
    <3>2. PICK u \in Threads : Removes(u) /\ Minute(u) = l
          BY <2>3, <3>1 DEF OneEach, FullIsRemoved
    <3>3. Minute(u)' = Minute(u)
          BY <1>1 DEF Minute
    <3> QED  BY <1>4, <3>2, <3>3
  <2>10. NoneOrAll'
    <3> SUFFICES ASSUME NEW l \in Minutes, table'[l] = 0
                 PROVE  Counted(l) \in {{}, Channels}
        BY <2>5 DEF NoneOrAll
    <3>1. table[l] = 0
          BY <2>2, <2>3
    <3> QED  BY <3>1 DEF OneEach, NoneOrAll
  <2> QED  BY <2>7, <2>8, <2>9, <2>10 DEF OneEach
<1> QED  BY <1>6, <1>7

LEMMA MarkCounts ==
  ASSUME PipelineInv, SessionInv, Sizes, ~Twins, OneEach, NEW t \in Threads, Mark(t)
  PROVE  OneEach'
<1>0. PICK m \in Minutes, c \in Channels, s \in {session[t]} :
        m = Minute(t) /\ c = frag[t].ch /\ s = session[t]
      BY HandlesOne DEF Mark, Handling
<1>1. /\ at[t] = "mark" /\ table[m] = s /\ done' = [done EXCEPT ![s] = Marked(t)]
      /\ UNCHANGED <<table, frag, handled>>
      BY <1>0 DEF Mark, Dangling
<1>2. m \in Minutes /\ c \in Channels /\ frag[t].minute = m
      BY <1>0 DEF Minute
<1>3. s \in 1..Len(done) /\ s # 0 /\ done \in Seq(SUBSET Channels)
      BY <1>1, <1>2, <1>0 DEF SessionInv, SessionTypeOK, LookedUp
<1>4. at' = [at EXCEPT ![t] = "check"] \/ at' = [at EXCEPT ![t] = "remove"]
      \/ at' = [at EXCEPT ![t] = "finish"]
      BY DEF Mark
<1>5. \A u \in Threads \ {t} : at'[u] = at[u]
      BY <1>4 DEF PipelineInv, PipelineTypeOK
<1>6. Beyond(t)' /\ ~Beyond(t) /\ ~Removes(t)
      BY <1>1, <1>4 DEF Beyond, Removes, PipelineInv, PipelineTypeOK
<1>7. Removes(t)' <=> AllMarked(Marked(t))
  <2>1. AllMarked(Marked(t)) =>
          at' = [at EXCEPT ![t] = "check"] \/ at' = [at EXCEPT ![t] = "remove"]
        BY DEF Mark
  <2>2. ~AllMarked(Marked(t)) => at' = [at EXCEPT ![t] = "finish"]
        BY DEF Mark
  <2> QED  BY <2>1, <2>2 DEF Removes, PipelineInv, PipelineTypeOK
<1>8. Through' = Through \cup {frag[t]}
      BY <1>1, <1>5, <1>6 DEF Through, Beyond
<1>9. /\ Counted(m)' = Counted(m) \cup {c}
      /\ \A l \in Minutes \ {m} : Counted(l)' = Counted(l)
      /\ \A l \in Minutes : Counted(l) \subseteq Counted(l)'
      BY <1>0, <1>2, <1>8 DEF Counted
<1>10. Marked(t) = Counted(m) \cup {c}
       BY <1>0, <1>1, <1>2, <1>3 DEF Marked, OneEach, CountsExactly
<1>11. AllMarked(Marked(t)) <=> Counted(m) \cup {c} = Channels
  <2>1. Marked(t) \subseteq Channels
        BY <1>2, <1>10 DEF Counted
  <2> QED  BY <1>10, <2>1, FS_Subset, FS_CardinalityType, FragmentAssumption DEF AllMarked
<1>12. \A u \in Threads : Minute(u)' = Minute(u)
       BY <1>1 DEF Minute
<1>13. CountsExactly'
  <2> SUFFICES ASSUME NEW l \in Minutes, table[l] # 0
               PROVE  done'[table[l]] = Counted(l)'
      BY <1>1 DEF CountsExactly
  <2>1. table[l] \in 1..Len(done)
        BY DEF SessionInv, SessionTypeOK
  <2>2. CASE l = m
        BY <1>1, <1>3, <1>9, <1>10, <2>1, <2>2, ExceptSeq
  <2>3. CASE l # m
    <3>1. table[l] # s
          BY <1>1, <1>2, <2>3 DEF SessionInv, OneMinute
    <3>2. done'[table[l]] = done[table[l]]
          BY <1>1, <1>3, <2>1, <3>1, ExceptSeq
    <3> QED  BY <1>9, <2>3, <3>2 DEF OneEach, CountsExactly
  <2> QED  BY <2>2, <2>3
<1>14. RemovesFull'
  <2> SUFFICES ASSUME NEW u \in Threads, Removes(u)'
               PROVE  Counted(Minute(u))' = Channels
      BY DEF RemovesFull
  <2>1. CASE u = t
    <3>1. Counted(m)' = Channels /\ Minute(u)' = m
          BY <1>0, <1>7, <1>9, <1>11, <1>12, <2>1
    <3> QED  BY <3>1 DEF Counted
  <2>2. CASE u # t
    <3>1. Removes(u)
          BY <1>5, <2>2 DEF Removes
    <3>2. Counted(Minute(u)) = Channels
          BY <3>1 DEF OneEach, RemovesFull
    <3>3. Counted(Minute(u)) \subseteq Counted(Minute(u))'
          BY <1>8, <1>12 DEF Counted
    <3>4. Counted(Minute(u))' \subseteq Channels
          BY DEF Counted
    <3> QED  BY <3>2, <3>3, <3>4
  <2> QED  BY <2>1, <2>2
<1>15. FullIsRemoved'
  <2> SUFFICES ASSUME NEW l \in Minutes, table[l] # 0, Counted(l)' = Channels
               PROVE  \E u \in Threads : Removes(u)' /\ Minute(u)' = l
      BY <1>1 DEF FullIsRemoved
  <2>1. CASE l = m
    <3>1. Removes(t)'
          BY <1>7, <1>9, <1>11, <2>1
    <3>2. Minute(t)' = l
          BY <1>0, <1>12, <2>1
    <3> QED  BY <3>1, <3>2
  <2>2. CASE l # m
    <3>1. Counted(l) = Channels
          BY <1>9, <2>2
    <3>2. PICK u \in Threads : Removes(u) /\ Minute(u) = l
          BY <3>1 DEF OneEach, FullIsRemoved
    <3>3. u # t /\ Removes(u)'
          BY <1>5, <1>6, <3>2 DEF Removes
    <3> QED  BY <1>12, <3>2, <3>3
  <2> QED  BY <2>1, <2>2
<1>16. NoneOrAll'
  <2> SUFFICES ASSUME NEW l \in Minutes, table[l] = 0
               PROVE  Counted(l)' \in {{}, Channels}
      BY <1>1 DEF NoneOrAll
  <2>1. l # m
        BY <1>1, <1>3
  <2> QED  BY <1>9, <2>1 DEF OneEach, NoneOrAll
<1> QED  BY <1>13, <1>14, <1>15, <1>16 DEF OneEach

LEMMA RemoveCounts ==
  ASSUME PipelineInv, SessionInv, OneEach, NEW t \in Threads, Remove(t)
  PROVE  OneEach'
<1>0. PICK m \in Minutes : m = Minute(t)
      BY HandlesOne DEF Remove, Handling
<1>1. /\ at[t] = "remove" /\ at' = [at EXCEPT ![t] = "finish"]
      /\ table' = [table EXCEPT ![m] = 0] /\ UNCHANGED <<done, frag, handled>>
      BY <1>0 DEF Remove, Erased
<1>2. \A u \in Threads : at'[u] = IF u = t THEN "finish" ELSE at[u]
      BY <1>1 DEF PipelineInv, PipelineTypeOK
<1>3. Through' = Through
      BY <1>1, <1>2 DEF Through, Beyond
<1>4. \A l \in Minutes : table'[l] = IF l = m THEN 0 ELSE table[l]
      BY <1>1 DEF SessionInv, SessionTypeOK
<1>5. \A l : Counted(l)' = Counted(l)
      BY <1>3 DEF Counted
<1>6. Counted(m) = Channels
      BY <1>0, <1>1 DEF OneEach, RemovesFull, Removes
<1>7. \A u \in Threads : Minute(u)' = Minute(u)
      BY <1>1 DEF Minute
<1>8. CountsExactly' /\ NoneOrAll'
      BY <1>1, <1>4, <1>5, <1>6 DEF OneEach, CountsExactly, NoneOrAll
<1>9. RemovesFull'
  <2> SUFFICES ASSUME NEW u \in Threads, Removes(u)'
               PROVE  Counted(Minute(u))' = Channels
      BY DEF RemovesFull
  <2>1. Removes(u)
        BY <1>1, <1>2 DEF Removes
  <2>2. Counted(Minute(u)) = Channels
        BY <2>1 DEF OneEach, RemovesFull
  <2>3. Counted(Minute(u))' = Counted(Minute(u))
        BY <1>3, <1>7 DEF Counted
  <2> QED  BY <2>2, <2>3
<1>10. FullIsRemoved'
  <2> SUFFICES ASSUME NEW l \in Minutes, table'[l] # 0, Counted(l) = Channels
               PROVE  \E u \in Threads : Removes(u)' /\ Minute(u)' = l
      BY <1>5 DEF FullIsRemoved
  <2>1. l # m /\ table[l] # 0
        BY <1>4
  <2>2. PICK u \in Threads : Removes(u) /\ Minute(u) = l
        BY <2>1 DEF OneEach, FullIsRemoved
  <2>3. u # t
        BY <1>0, <2>1, <2>2
  <2>4. Removes(u)'
        BY <1>2, <2>2, <2>3 DEF Removes
  <2> QED  BY <1>7, <2>2, <2>4
<1> QED  BY <1>8, <1>9, <1>10 DEF OneEach

(* The counts at the other steps. *)
LEMMA OneEachNext ==
  ASSUME PipelineInv, SessionInv, Sizes, ~Twins, OneEach, [Next]_<<load, fragmentVars>>
  PROVE  OneEach'
<1>1. CASE UNCHANGED <<sessionVars, at, frag, handled>>
  <2>1. Through' = Through
        BY <1>1 DEF Through, Beyond
  <2> QED  BY <1>1, <2>1, OneEachAlone DEF sessionVars, Removes
<1>2. ASSUME NEW t \in Threads, Handle(t) PROVE OneEach'
  <2>1. CASE Check(t)
    <3>1. /\ at[t] = "check" /\ at' = [at EXCEPT ![t] = "remove"]
          /\ UNCHANGED <<table, done, frag, handled>>
          BY <2>1 DEF Check
    <3>2. \A u \in Threads : (Beyond(u)' <=> Beyond(u)) /\ (Removes(u)' <=> Removes(u))
          BY <3>1 DEF Beyond, Removes, PipelineInv, PipelineTypeOK
    <3>3. Through' = Through
          BY <3>1, <3>2 DEF Through
    <3> QED  BY <3>1, <3>2, <3>3, OneEachAlone
  <2> QED  BY <1>2, <2>1, LookupCounts, MarkCounts, RemoveCounts DEF Handle
<1>3. ASSUME NEW t \in Threads, Finished(t), UNCHANGED sessionVars PROVE OneEach'
  <2>1. /\ at[t] = "finish" /\ handled' = handled \cup {frag[t]}
        /\ \A u \in Threads : at'[u] = IF u = t THEN "idle" ELSE at[u]
        /\ \A u \in Threads : u # t => frag'[u] = frag[u]
        BY <1>3 DEF Finished, PipelineInv, PipelineTypeOK
  <2>2. Through' = Through
        BY <2>1 DEF Through, Beyond
  <2>3. \A u \in Threads : (Removes(u)' <=> Removes(u)) /\ (Removes(u) => frag'[u] = frag[u])
        BY <2>1 DEF Removes
  <2> QED  BY <1>3, <2>2, <2>3, OneEachAlone DEF sessionVars
<1>4. CASE WorkerPops \/ HandleDirectly
  <2>1. PICK t \in Threads :
          /\ at[t] = "idle" /\ at'[t] \in {"lookup", "exited"}
          /\ \A u \in Threads \ {t} : at'[u] = at[u] /\ frag'[u] = frag[u]
    <3>1. CASE WorkerPops
          BY <3>1 DEF WorkerPops, Threads, PipelineInv, PipelineTypeOK
    <3>2. CASE HandleDirectly
          BY <3>2 DEF HandleDirectly, MainListens, Threads, PipelineInv, PipelineTypeOK
    <3> QED  BY <1>4, <3>1, <3>2
  <2>2. UNCHANGED <<sessionVars, handled>>
        BY <1>4 DEF WorkerPops, HandleDirectly
  <2>3. \A u \in Threads : (Beyond(u)' <=> Beyond(u)) /\ (Beyond(u) => frag'[u] = frag[u])
        BY <2>1 DEF Beyond
  <2>4. Through' = Through
        BY <2>2, <2>3 DEF Through
  <2>5. \A u \in Threads : (Removes(u)' <=> Removes(u)) /\ (Removes(u) => frag'[u] = frag[u])
        BY <2>1 DEF Removes
  <2> QED  BY <2>2, <2>4, <2>5, OneEachAlone DEF sessionVars
<1>5. CASE WorkerFinishes \/ MainFinishes
      BY <1>3, <1>5 DEF WorkerFinishes, MainFinishes, Threads
<1> QED  BY <1>1, <1>2, <1>4, <1>5
         DEF Next, MainRuns, Worker, Sinks, Vcm, QueueFragment, ReceiveEos, ReceiveError,
             Terminate, DrainTimesOut, StopWorker, JoinWorker, PipelineEos, Split, SinkEos,
             VcmMarks, VcmChecks, TakeAway, threadVars, fragmentVars, Threads

LEMMA UpTo ==
  ASSUME NEW n \in Nat
  PROVE  IsFiniteSet(1..n) /\ Cardinality(1..n) = n
<1>1. 1 \in Int /\ n \in Int /\ (1 > n => n = 0) /\ n - 1 + 1 = n
      OBVIOUS
<1> QED  BY <1>1, FS_Interval

LEMMA Places ==
  ASSUME NEW S, IsFiniteSet(S), NEW a \in Nat, NEW b \in Nat
  PROVE  /\ IsFiniteSet((S \X (1..a)) \X (1..b))
         /\ Cardinality((S \X (1..a)) \X (1..b)) = Cardinality(S) * a * b
<1> DEFINE A == 1..a
           B == 1..b
<1>1. IsFiniteSet(A) /\ Cardinality(A) = a /\ IsFiniteSet(B) /\ Cardinality(B) = b
      BY UpTo
<1> HIDE DEF A, B
<1>2. IsFiniteSet(S \X A) /\ Cardinality(S \X A) = Cardinality(S) * a
      BY <1>1, FS_Product
<1>3. IsFiniteSet((S \X A) \X B) /\ Cardinality((S \X A) \X B) = Cardinality(S) * a * b
      BY <1>1, <1>2, FS_Product
<1> QED  BY <1>3 DEF A, B

(* A pool with a slot for every fragment is never exhausted: its fragments *)
(* and the one to be queued would be more than there are.                  *)
LEMMA NeverExhausted ==
  ASSUME PipelineInv, Sizes, PoolSuffices, bus # <<>>, Head(bus) # EosMessage
  PROVE  Free # {}
<1> SUFFICES ASSUME Free = {} PROVE FALSE
    OBVIOUS
<1> DEFINE n == load.pool
           places == (Channels \X (1..load.last)) \X (1..load.parts)
           queued == [k \in 1..n + 1 |-> IF k = n + 1 THEN Head(bus) ELSE slot[k]]
           place == [k \in 1..n + 1 |->
                       <<<<queued[k].ch, queued[k].minute>>, queued[k].part>>]
<1>1. /\ n \in Nat \ {0} /\ load.last \in Nat \ {0} /\ load.parts \in Nat \ {0}
      BY FragmentAssumption DEF PipelineInv, PipelineTypeOK
<1>2. IsFiniteSet(places) /\ Cardinality(places) <= n
  <2>1. /\ IsFiniteSet(places)
        /\ Cardinality(places) = Cardinality(Channels) * load.last * load.parts
    <3>1. IsFiniteSet(Channels) /\ load.last \in Nat /\ load.parts \in Nat
          BY <1>1, FragmentAssumption
    <3> HIDE DEF queued, place
    <3> QED  BY <3>1, Places, Zenon
  <2> HIDE DEF places
  <2>2. n >= Cardinality(places)
        BY <2>1, Zenon DEF PoolSuffices
  <2>3. Cardinality(places) \in Nat
        BY <2>1, FS_CardinalityType
  <2> HIDE DEF n
  <2> QED  BY <1>1, <2>1, <2>2, <2>3
<1>3. Head(bus) \in OnBus
  <2>1. Head(bus) \in Elements(bus)
        BY TailOf DEF PipelineInv, PipelineTypeOK, EosIsLast
  <2> QED  BY <2>1 DEF Elements, OnBus
<1>4. \A k \in 1..n : slot[k] # NoFragment /\ slot[k] \in InSlots
      BY DEF Free, Slots, InSlots
<1>5. \A k \in 1..n + 1 : queued[k] \in closed
  <2>1. \A k \in 1..n + 1 : k = n + 1 \/ k \in 1..n
        BY <1>1
  <2> QED  BY <1>3, <1>4, <2>1 DEF PipelineInv, OnePlace
<1>6. \A j, k \in 1..n + 1 : queued[j] = queued[k] => j = k
  <2>1. \A k \in 1..n + 1 : k # n + 1 => k \in 1..n
        BY <1>1
  <2>2. \A k \in 1..n : slot[k] # Head(bus)
        BY <1>3, <1>4 DEF PipelineInv, OnePlace
  <2>3. \A j, k \in 1..n : slot[j] = slot[k] => j = k
        BY <1>4 DEF PipelineInv, OnePlace, Slots
  <2> QED  BY <2>1, <2>2, <2>3
<1> HIDE DEF queued
<1>7. \A k \in 1..n + 1 :
        /\ queued[k] \in Fragments
        /\ queued[k].minute \in 1..load.last /\ queued[k].part \in 1..load.parts
      BY <1>5 DEF Sizes, Sized, PipelineInv, PipelineTypeOK
<1>8. place \in [1..n + 1 -> places]
      BY <1>7 DEF Fragments
<1>9. IsFiniteSet(1..n + 1) /\ Cardinality(1..n + 1) = n + 1
      BY <1>1, UpTo
<1>10. PICK j, k \in 1..n + 1 : j # k /\ place[j] = place[k]
  <2>1. Cardinality(places) < Cardinality(1..n + 1)
        BY <1>1, <1>2, <1>9, FS_CardinalityType
  <2> HIDE DEF place, places, n
  <2> QED  BY <1>2, <1>8, <1>9, <2>1, FS_PigeonHole
<1>11. queued[j].ch = queued[k].ch /\ queued[j].minute = queued[k].minute
       /\ queued[j].part = queued[k].part
       BY <1>10
<1>12. queued[j] = queued[k]
       BY <1>7, <1>11 DEF Fragments
<1> QED  BY <1>6, <1>10, <1>12

LEMMA WorkerAloneNext ==
  ASSUME PipelineInv, Sizes, PoolSuffices, WorkerAlone, [Next]_<<load, fragmentVars>>
  PROVE  WorkerAlone'
<1>1. ~HandleDirectly
      BY NeverExhausted DEF HandleDirectly
<1>2. ~Handle("main") /\ ~MainFinishes
      BY DEF WorkerAlone, Handling, Handle, Lookup, Mark, Check, Remove, MainFinishes, Finished
<1>3. CASE at'["main"] = at["main"]
      BY <1>3 DEF WorkerAlone
<1>4. CASE Worker
  <2>1. at'["main"] = at["main"]
        BY <1>4 DEF Worker, WorkerPops, Handle, Lookup, Mark, Check, Remove, WorkerFinishes,
           Finished, PipelineInv, PipelineTypeOK, Threads
  <2> QED  BY <1>3, <2>1
<1> QED  BY <1>1, <1>2, <1>3, <1>4
         DEF Next, MainRuns, Sinks, Vcm, QueueFragment, ReceiveEos, ReceiveError, Terminate,
             DrainTimesOut, StopWorker, JoinWorker, PipelineEos, Split, SinkEos, VcmMarks,
             VcmChecks, TakeAway, threadVars, fragmentVars

(* Only the removal of a session leaves a thread with one that is freed,   *)
(* and no thread is still to mark a minute whose session is removed.       *)
LEMMA NoneDanglingNext ==
  ASSUME PipelineInv, SessionInv, SoundInv, ~Twins \/ PoolSuffices,
         [Next]_<<load, fragmentVars>>
  PROVE  NoneDangling'
<1> SUFFICES ASSUME NEW t \in Threads, at'[t] = "mark"
             PROVE  table'[Minute(t)'] = session'[t]
    BY DEF NoneDangling, Dangling
<1>1. ASSUME at[t] = "mark"
      PROVE  /\ table[Minute(t)] = session[t] /\ session[t] # 0
             /\ Minute(t) \in Minutes
      BY <1>1, HandlesOne DEF SoundInv, NoneDangling, Dangling, SessionInv, LookedUp, Handling
<1>2. CASE /\ UNCHANGED table
           /\ at[t] = "mark" /\ frag'[t] = frag[t] /\ session'[t] = session[t]
      BY <1>1, <1>2 DEF Minute
<1>3. ASSUME NEW u \in Threads, Lookup(u) PROVE table'[Minute(t)'] = session'[t]
  <2>1. /\ session' = [session EXCEPT ![u] = table'[Minute(u)]]
        /\ at' = [at EXCEPT ![u] = "mark"] /\ UNCHANGED frag
        /\ Minute(t)' = Minute(t)
        BY <1>3 DEF Lookup, Minute
  <2>2. CASE u = t
        BY <2>1, <2>2 DEF SessionInv, SessionTypeOK
  <2>3. CASE u # t
    <3>1. at[t] = "mark" /\ session'[t] = session[t]
          BY <2>1, <2>3 DEF PipelineInv, PipelineTypeOK, SessionInv, SessionTypeOK
    <3>2. CASE UNCHANGED table
          BY <1>2, <2>1, <3>1, <3>2
    <3>3. CASE /\ table[Minute(u)] = 0
               /\ table' = [table EXCEPT ![Minute(u)] = Len(done) + 1]
      <4>1. Minute(t) # Minute(u)
            BY <1>1, <3>1, <3>3
      <4>2. table'[Minute(t)] = table[Minute(t)]
            BY <1>1, <3>1, <3>3, <4>1 DEF SessionInv, SessionTypeOK
      <4> QED  BY <1>1, <2>1, <3>1, <4>2
    <3> QED  BY <1>3, <3>2, <3>3 DEF Lookup, HasSession
  <2> QED  BY <2>2, <2>3
<1>4. ASSUME NEW u \in Threads, Remove(u) PROVE table'[Minute(t)'] = session'[t]
  <2>1. /\ at[u] = "remove" /\ at' = [at EXCEPT ![u] = "finish"]
        /\ table' = [table EXCEPT ![Minute(u)] = 0] /\ UNCHANGED <<frag, session>>
        /\ Minute(t)' = Minute(t)
        BY <1>4 DEF Remove, Erased, Minute
  <2>2. u # t /\ at[t] = "mark"
        BY <2>1 DEF PipelineInv, PipelineTypeOK
  <2>3. Minute(t) # Minute(u)
    <3>1. CASE ~Twins
      <4>1. Counted(Minute(u)) = Channels
            BY <2>1, <3>1 DEF SoundInv, OneEach, RemovesFull, Removes
      <4>2. frag[t].ch \in Channels /\ frag[t].ch \notin Counted(Minute(t))
            BY <2>2, <3>1, HandlesOne, Uncounted DEF SoundInv, Handling
      <4> QED  BY <4>1, <4>2
    <3>2. CASE PoolSuffices
      <4>1. at["main"] \notin Handling
            BY <3>2 DEF SoundInv, WorkerAlone
      <4>2. t = "worker" /\ u = "worker"
            BY <2>1, <2>2, <4>1 DEF Threads, Handling
      <4> QED  BY <2>2, <4>2
    <3> QED  BY <3>1, <3>2
  <2>4. table'[Minute(t)] = table[Minute(t)]
        BY <1>1, <2>1, <2>2, <2>3 DEF SessionInv, SessionTypeOK
  <2> QED  BY <1>1, <2>1, <2>2, <2>4
<1>5. ASSUME NEW u \in Threads, Mark(u) \/ Check(u) PROVE table'[Minute(t)'] = session'[t]
  <2>1. UNCHANGED <<table, frag, session>> /\ at[t] = "mark"
        BY <1>5 DEF Mark, Check, PipelineInv, PipelineTypeOK
  <2> QED  BY <1>2, <2>1
<1>6. ASSUME NEW u \in Threads, Finished(u), UNCHANGED table
      PROVE  table'[Minute(t)'] = session'[t]
  <2>1. u # t /\ at[t] = "mark" /\ frag'[t] = frag[t] /\ session'[t] = session[t]
        BY <1>6 DEF Finished, PipelineInv, PipelineTypeOK, SessionInv, SessionTypeOK
  <2> QED  BY <1>2, <1>6, <2>1
<1>7. CASE WorkerPops \/ HandleDirectly
  <2>1. UNCHANGED <<table, session>>
        BY <1>7 DEF WorkerPops, HandleDirectly, sessionVars
  <2>2. at[t] = "mark" /\ frag'[t] = frag[t]
        BY <1>7 DEF WorkerPops, HandleDirectly, MainListens, PipelineInv, PipelineTypeOK
  <2> QED  BY <1>2, <2>1, <2>2
<1>8. CASE UNCHANGED <<table, at, frag, session>>
      BY <1>2, <1>8
<1>9. CASE WorkerFinishes \/ MainFinishes
      BY <1>6, <1>9 DEF WorkerFinishes, MainFinishes, Threads, sessionVars
<1> QED  BY <1>3, <1>4, <1>5, <1>7, <1>8, <1>9
         DEF Next, MainRuns, Worker, Handle, Sinks, Vcm, QueueFragment, ReceiveEos,
             ReceiveError, Terminate, DrainTimesOut, StopWorker, JoinWorker, PipelineEos, Split,
             SinkEos, VcmMarks, VcmChecks, TakeAway, threadVars, sessionVars, fragmentVars,
             Threads

LEMMA SoundInitially == Init => SoundInv
<1> SUFFICES ASSUME Init PROVE SoundInv
    OBVIOUS
<1>1. \A t \in Threads : at[t] = "idle"
      BY DEF Init
<1>2. Through = {}
      BY <1>1 DEF Init, Through, Beyond
<1>3. \A m : Counted(m) = {}
      BY <1>2 DEF Counted
<1>4. \A m \in Minutes : table[m] = 0
      BY DEF Init
<1>5. OneEach
      BY <1>1, <1>3, <1>4
      DEF OneEach, CountsExactly, RemovesFull, FullIsRemoved, NoneOrAll, Removes
<1>6. WorkerAlone /\ NoneDangling
      BY <1>1 DEF WorkerAlone, NoneDangling, Dangling, Handling, Threads
<1> QED  BY <1>5, <1>6, SizesInitially DEF SoundInv

LEMMA SoundNext ==
  PipelineInv /\ SessionInv /\ SoundInv /\ [Next]_<<load, fragmentVars>> => SoundInv'
<1> SUFFICES ASSUME PipelineInv, SessionInv, SoundInv, [Next]_<<load, fragmentVars>>
             PROVE  SoundInv'
    OBVIOUS
<1>1. (Twins' <=> Twins) /\ (PoolSuffices' <=> PoolSuffices)
      BY DEF Next, Twins, PoolSuffices
<1>2. Sizes'
      BY SizesNext DEF SoundInv
<1>3. ~Twins => OneEach'
      BY OneEachNext DEF SoundInv
<1>4. PoolSuffices => WorkerAlone'
      BY WorkerAloneNext DEF SoundInv
<1>5. ~Twins \/ PoolSuffices => NoneDangling'
      BY NoneDanglingNext
<1> QED  BY <1>1, <1>2, <1>3, <1>4, <1>5 DEF SoundInv

(* The inductive invariant behind the next theorem: what the sessions of   *)
(* handleFragmentClosed() count (muxSinkBin.cpp 264-361), where channels   *)
(* have one fragment of a minute each, and who handles fragments where the *)
(* pool has a slot for each (main.cpp 368-390).                      *)
THEOREM SoundInvariant == Spec => []SoundInv
BY SoundInitially, SoundNext, PipelineInvariant, SessionInvariant, PTL DEF Spec

(* No session is used after it was freed and none is left behind           *)
(* (muxSinkBin.cpp 269-271, 354-361), for any number of channels, of       *)
(* minutes and of slots, as long as no channel has two fragments named     *)
(* alike, or, of the first, every fragment has a slot.                     *)
THEOREM SessionsStaySound == Spec => []SessionsSound
<1>1. PipelineInv /\ SoundInv => SessionsSound
  <2> SUFFICES ASSUME PipelineInv, SoundInv PROVE SessionsSound
      OBVIOUS
  <2>1. ~Twins \/ PoolSuffices => \A t \in Threads : ~Dangling(t)
        BY DEF SoundInv, NoneDangling
  <2>2. ASSUME ~Twins, NEW m \in Minutes,
               \A c \in Channels : \E f \in handled : f.ch = c /\ f.minute = m
        PROVE  table[m] = 0
    <3> SUFFICES ASSUME table[m] # 0 PROVE FALSE
        OBVIOUS
    <3>1. Counted(m) = Channels
          BY <2>2 DEF Counted, Through
    <3>2. PICK t \in Threads : Removes(t) /\ Minute(t) = m
          BY <2>2, <3>1 DEF SoundInv, OneEach, FullIsRemoved
    <3>3. /\ frag[t] \in closed /\ frag[t] \notin handled
          /\ frag[t].ch \in Channels /\ frag[t].minute = m
          BY <3>2, HandlesOne DEF Removes, Handling
    <3>4. PICK f \in handled : f.ch = frag[t].ch /\ f.minute = m
          BY <2>2, <3>3
    <3>5. f \in closed
          BY DEF PipelineInv, OnePlace
    <3>6. f = frag[t]
          BY <2>2, <3>3, <3>4, <3>5, AlikeIsSame DEF SoundInv
    <3> QED  BY <3>3, <3>6
  <2> QED  BY <2>1, <2>2 DEF SessionsSound
<1> QED  BY <1>1, PipelineInvariant, SoundInvariant, PTL
=============================================================================
