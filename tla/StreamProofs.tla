---------------------------- MODULE StreamProofs ----------------------------
(***************************************************************************)
(* Proofs about a channel's live stream: of RtspMedia, the media that      *)
(* carry it, and of EncoderSettings, the encoders that feed it.  The two   *)
(* have no variable in common; each has a part of its own.                 *)
(***************************************************************************)
EXTENDS RtspMedia, EncoderSettings, FiniteSetTheorems, TLAPS

(***************************************************************************)
(* The safety of one RTSP channel, for any number of media.                *)
(*                                                                         *)
(* LifeInv says what each thread may rely on between its steps:            *)
(* media_configure() works on a media that nobody else can reach yet, and  *)
(* holds a replaced generation that RtspServerData no longer publishes;    *)
(* media_unprepared_cb() works on a media that is stopped and disowned;    *)
(* what is published has its signals in place, or is being closed.  With   *)
(* these, the count of references and of their holders move together at    *)
(* every step (Accounted), which gives FreedByTheLast, and PublishedPair   *)
(* is inductive.  Two further invariants rest on LifeInv.  RegistryHeld    *)
(* follows the entry of g_rtsp_appsrc from RtspServerData to the callback  *)
(* that withdraws it: each takes the entry out before it gives back its    *)
(* own reference.  FlowInv follows the frames: a delta frame is let        *)
(* through only to an appsrc whose last frame arrived, or that takes no    *)
(* more; and "full" is put on by the frame in flight, which wakes the      *)
(* media it fills.                                                         *)
(***************************************************************************)

(***************************************************************************)
(* Types.                                                                  *)
(***************************************************************************)
OrNone == Media \cup {None}

(* What is left to do of media_configure() and of media_unprepared_cb(). *)
Retiring == <<"retire", "register", "unref", "connect">>
Registering == <<"register", "unref", "connect">>
WithdrawnRetiring == <<"retire", "unref", "connect">>
Unreffing == <<"unref", "connect">>
Connecting == <<"connect">>
ConfigureTodos ==
  {Configure, Retiring, Registering, Withdraw, WithdrawnRetiring, Unreffing, Connecting,
   <<>>}

Unregistering == <<"unregister", "release">>
Releasing == <<"release">>
UnprepareTodos == {Unprepare, Unregistering, Releasing, <<>>}

InfoRecord == [appsrc : OrNone, generation : OrNone, full : BOOLEAN,
               wait_keyframe : BOOLEAN, caps : Caps \cup {None}]
Call == [todo : ConfigureTodos, media : OrNone, app : OrNone, gen : OrNone,
         current : {FALSE}]
UnprepareCall == [todo : UnprepareTodos, media : OrNone, app : OrNone, gen : OrNone,
                  current : BOOLEAN]
StreamPcs == {"wait", "ask", "drop", "check", "push", "enough", "enqueue", "error"}
StreamRecord == [pc : StreamPcs, app : OrNone, gen : OrNone, key : BOOLEAN]
GenStates == {"none", "new", "active", "cancelled", "freed"}
MediaStates == {"none", "built", "open", "closing", "gone"}
SourceStates == {"stopped", "run", "need", "starving"}
GivenSet == Caps \cup {None, Fallback}

TypeOK ==
  /\ info \in InfoRecord
  /\ registry \in OrNone
  /\ refs \in [Media -> Int]
  /\ gen \in [Media -> GenStates]
  /\ hooks \in [Media -> {{}, Hooks}]
  /\ media \in [Media -> MediaStates]
  /\ owned \in SUBSET Media
  /\ source \in [Media -> SourceStates]
  /\ queue \in [Media -> Nat]
  /\ caps \in [Media -> GivenSet]
  /\ eos \in SUBSET Media
  /\ gap \in [Media -> BOOLEAN]
  /\ conf \in Call
  /\ unprep \in [Media -> UnprepareCall]
  /\ stream \in StreamRecord
  /\ kick \in {"idle", "throttled", "sent"}
  /\ main \in {"run", "eos", "send", "stop", "stopped"}
  /\ targets \in SUBSET Media
  /\ is_interrupted \in BOOLEAN

(***************************************************************************)
(* The life of a generation.                                               *)
(***************************************************************************)

(* What media_configure() is doing: it holds a replaced generation until   *)
(* "retire", and works on a media that nobody else can reach yet.          *)
Configuring ==
  /\ conf.todo = <<>> => conf = NoCall
  /\ conf.todo # <<>> => conf.media # None /\ media[conf.media] = "built"
  /\ conf.todo = Configure =>
       /\ conf.gen = None /\ gen[conf.media] = "new" /\ conf.media \in owned
       /\ hooks[conf.media] = Hooks
  /\ conf.gen # None =>
       /\ info.generation # conf.gen
       /\ conf.todo \in {Retiring, Withdraw, WithdrawnRetiring}
  /\ conf.todo \in {Retiring, Registering} => info.appsrc = conf.media

(* What media_unprepared_cb() of a media is doing. *)
Unpreparing ==
  \A m \in Media :
    /\ unprep[m].todo = <<>> => unprep[m] = NoCall
    /\ unprep[m].todo # <<>> =>
         media[m] = "closing" /\ m \notin owned /\ gen[m] # "active"
    /\ unprep[m].gen \in {m, None} /\ unprep[m].media \in {m, None}
    /\ unprep[m].todo # <<>> /\ unprep[m].gen = None => gen[m] = "none"
    /\ unprep[m].current => unprep[m].gen = m /\ unprep[m].todo # Unprepare

(* Every media that has a generation owns it until it is unprepared. *)
Owners ==
  \A m \in Media :
    /\ media[m] = "none" => gen[m] = "none"
    /\ gen[m] \in {"none", "freed"} => m \notin owned
    /\ gen[m] # "none" /\ (\/ media[m] \in {"built", "open"}
                           \/ media[m] = "closing" /\ unprep[m] = NoCall)
         => m \in owned

Handling ==
  /\ stream.pc \in {"wait", "error"} => stream.gen = None /\ stream.app = None
  /\ stream.pc \in {"ask", "drop"} => stream.app = None
  /\ stream.pc \in {"check", "push", "enough", "enqueue"} => stream.app # None
  /\ stream.app # None => stream.gen = stream.app

(* What is published is complete, as long as its media can be fed. *)
PublishedLive ==
  info.generation # None =>
    /\ gen[info.generation] # "new"
    /\ \/ media[info.generation] \in {"closing", "gone"}
       \/ gen[info.generation] = "active" /\ hooks[info.generation] = Hooks

(* Only a media that is connected and not stopped streams. *)
Sources == \A m \in Media : source[m] # "stopped" => media[m] = "open"

LifeInv ==
  /\ Configuring /\ Unpreparing /\ Owners /\ Handling /\ Sources /\ PublishedLive
  /\ FreedByTheLast /\ PublishedPair

(***************************************************************************)
(* The registry: an entry is the published appsrc, or the one that the     *)
(* call which took it out of RtspServerData still holds, and will take out *)
(* of the registry before it gives it back.                                *)
(***************************************************************************)
RegistryHeld ==
  registry # None =>
    \/ registry = info.appsrc
    \/ /\ registry = conf.app
       /\ conf.todo \in {Retiring, Registering, Withdraw}
    \/ \E m \in Media : /\ unprep[m].todo = Unregistering
                        /\ registry = DetachedApp(unprep[m])

(***************************************************************************)
(* The flow.                                                               *)
(***************************************************************************)

(* A frame that is not a key frame is let through only where the one       *)
(* before it arrived, or to an appsrc that will not take it.               *)
NoGap(m) == ~gap[m] \/ ~Accepts(m)

FlowGap ==
  /\ /\ Video /\ ~info.wait_keyframe
     /\ info.appsrc # None /\ stream.app # info.appsrc
     => NoGap(info.appsrc) \/ is_interrupted \/ stream.pc = "error"
  /\ stream.app # None =>
       stream.key \/ NoGap(stream.app) \/ (is_interrupted /\ stream.pc = "check")

(* "full" is put on by the frame in flight, which then wakes the media. *)
FlowFull ==
  stream.pc \in {"check", "push"} /\ stream.app = info.appsrc => ~info.full

FlowInv == FlowGap /\ FlowFull /\ NeverWedged
-----------------------------------------------------------------------------
(* The todo lists, from here on only known by their heads and tails. *)
LEMMA ConfigureTails ==
  /\ Tail(Configure) = Retiring /\ Tail(Retiring) = Registering
  /\ Tail(Registering) = Unreffing /\ Tail(Unreffing) = Connecting
  /\ Tail(Withdraw) = WithdrawnRetiring /\ Tail(WithdrawnRetiring) = Unreffing
  /\ Tail(Connecting) = <<>>
BY DEF Configure, Retiring, Registering, Withdraw, WithdrawnRetiring, Unreffing, Connecting

LEMMA ConfigureHeads ==
  /\ Head(Configure) = "publish" /\ Head(Retiring) = "retire"
  /\ Head(Registering) = "register" /\ Head(Unreffing) = "unref"
  /\ Head(Withdraw) = "unregister" /\ Head(WithdrawnRetiring) = "retire"
  /\ Head(Connecting) = "connect"
BY DEF Configure, Retiring, Registering, Withdraw, WithdrawnRetiring, Unreffing, Connecting

LEMMA ConfigureNonEmpty ==
  /\ Configure # <<>> /\ Retiring # <<>> /\ Registering # <<>> /\ Unreffing # <<>>
  /\ Withdraw # <<>> /\ WithdrawnRetiring # <<>> /\ Connecting # <<>>
BY DEF Configure, Retiring, Registering, Withdraw, WithdrawnRetiring, Unreffing, Connecting

LEMMA UnprepareTails ==
  /\ Tail(Unprepare) = Unregistering /\ Tail(Unregistering) = Releasing
  /\ Tail(Releasing) = <<>>
  /\ Head(Unprepare) = "detach" /\ Head(Unregistering) = "unregister"
  /\ Head(Releasing) = "release"
  /\ Unprepare # <<>> /\ Unregistering # <<>> /\ Releasing # <<>>
BY DEF Unprepare, Unregistering, Releasing

(* Where a step of media_configure() finds it, and where it leaves it. *)
LEMMA ConfigureStep ==
  ASSUME NEW call, call.todo \in ConfigureTodos
  PROVE  /\ Step(call, "publish") <=> call.todo = Configure
         /\ Step(call, "retire") <=> call.todo \in {Retiring, WithdrawnRetiring}
         /\ Step(call, "register") <=> call.todo = Registering
         /\ Step(call, "unregister") <=> call.todo = Withdraw
         /\ Step(call, "unref") <=> call.todo = Unreffing
         /\ Step(call, "connect") <=> call.todo = Connecting
BY ConfigureHeads, ConfigureNonEmpty DEF ConfigureTodos, Step

(* The lists are told apart. *)
LEMMA ConfigureDistinct ==
  /\ Configure \notin {Retiring, Registering, Withdraw, WithdrawnRetiring, Unreffing,
                       Connecting, <<>>}
  /\ Retiring \notin {Registering, Withdraw, WithdrawnRetiring, Unreffing, Connecting, <<>>}
  /\ Registering \notin {Withdraw, WithdrawnRetiring, Unreffing, Connecting, <<>>}
  /\ Withdraw \notin {WithdrawnRetiring, Unreffing, Connecting, <<>>}
  /\ WithdrawnRetiring \notin {Unreffing, Connecting, <<>>}
  /\ Unreffing \notin {Connecting, <<>>}
  /\ Connecting # <<>>
<1>1. Retiring # WithdrawnRetiring
      BY ConfigureTails, ConfigureHeads
<1> QED BY <1>1, ConfigureHeads, ConfigureNonEmpty

LEMMA UnprepareStep ==
  ASSUME NEW call, call.todo \in UnprepareTodos
  PROVE  /\ Step(call, "detach") <=> call.todo = Unprepare
         /\ Step(call, "unregister") <=> call.todo = Unregistering
         /\ Step(call, "release") <=> call.todo = Releasing
BY UnprepareTails DEF UnprepareTodos, Step

LEMMA UnprepareDistinct ==
  /\ Unprepare \notin {Unregistering, Releasing, <<>>}
  /\ Unregistering \notin {Releasing, <<>>}
  /\ Releasing # <<>>
BY UnprepareTails

LEMMA MediaNotNone == None \notin Media
BY DEF Media, None

(* No hook, or all of them. *)
LEMMA HooksCount ==
  /\ Cardinality({}) = 0 /\ Cardinality(Hooks) \in Nat \ {0}
  /\ "flow" \in Hooks
<1>1. Cardinality({}) = 0
      BY FS_EmptySet
<1>2. IsFiniteSet(Hooks) /\ Cardinality(Hooks) \in Nat
  <2>1. IsFiniteSet({}) /\ IsFiniteSet({} \cup {"flow"})
        BY FS_EmptySet, FS_AddElement
  <2>2. IsFiniteSet(({} \cup {"flow"}) \cup {"probes"})
        BY <2>1, FS_AddElement
  <2>3. Hooks = ({} \cup {"flow"}) \cup {"probes"}
        BY DEF Hooks
  <2> QED BY <2>2, <2>3, FS_CardinalityType
<1>3. Cardinality(Hooks) # 0
      BY <1>2, FS_EmptySet DEF Hooks
<1> QED BY <1>1, <1>2, <1>3 DEF Hooks

-----------------------------------------------------------------------------
(* Type correctness.  The sets of records stay folded where a step only    *)
(* has to leave a variable alone.                                          *)

LEMMA RecordFields ==
  ASSUME TypeOK
  PROVE  /\ info.appsrc \in OrNone /\ info.generation \in OrNone
         /\ conf.media \in OrNone /\ conf.app \in OrNone /\ conf.gen \in OrNone
         /\ stream.app \in OrNone /\ stream.gen \in OrNone
         /\ \A m \in Media : /\ unprep[m] \in UnprepareCall /\ hooks[m] \in {{}, Hooks}
                             /\ refs[m] \in Int
BY DEF TypeOK, InfoRecord, Call, StreamRecord

LEMMA ContinueType ==
  /\ \A call \in Call : call.todo # <<>> => Continue(call) \in Call
  /\ \A call \in UnprepareCall : call.todo # <<>> => Continue(call) \in UnprepareCall
<1>1. \A t \in ConfigureTodos : t # <<>> => Tail(t) \in ConfigureTodos
      BY ConfigureTails DEF ConfigureTodos
<1>2. \A t \in UnprepareTodos : t # <<>> => Tail(t) \in UnprepareTodos
      BY UnprepareTails DEF UnprepareTodos
<1> QED BY <1>1, <1>2 DEF Call, UnprepareCall, Continue

LEMMA NoCallType == NoCall \in Call /\ NoCall \in UnprepareCall
BY DEF NoCall, Call, UnprepareCall, ConfigureTodos, UnprepareTodos, OrNone

LEMMA InitTypeOK == Init => TypeOK
<1> SUFFICES ASSUME Init PROVE TypeOK
    OBVIOUS
<1>1. info \in InfoRecord /\ stream \in StreamRecord /\ registry \in OrNone
      BY DEF Init, InfoRecord, StreamRecord, StreamPcs, Waiting, OrNone
<1>2. conf \in Call /\ unprep \in [Media -> UnprepareCall]
      BY NoCallType DEF Init
<1>3. /\ gen \in [Media -> GenStates] /\ media \in [Media -> MediaStates]
      /\ source \in [Media -> SourceStates] /\ caps \in [Media -> GivenSet]
      BY DEF Init, GenStates, MediaStates, SourceStates, GivenSet
<1>4. /\ refs \in [Media -> Int] /\ hooks \in [Media -> {{}, Hooks}]
      /\ queue \in [Media -> Nat] /\ gap \in [Media -> BOOLEAN]
      BY DEF Init
<1>5. /\ owned \in SUBSET Media /\ eos \in SUBSET Media /\ targets \in SUBSET Media
      /\ kick \in {"idle", "throttled", "sent"} /\ is_interrupted \in BOOLEAN
      /\ main \in {"run", "eos", "send", "stop", "stopped"}
      BY DEF Init
<1> QED BY <1>1, <1>2, <1>3, <1>4, <1>5 DEF TypeOK

LEMMA UnrefType ==
  ASSUME TypeOK, NEW m \in Media, NEW n \in Nat, NEW states \in [Media -> GenStates],
         Unref(m, n, states)
  PROVE  refs' \in [Media -> Int] /\ gen' \in [Media -> GenStates]
BY DEF TypeOK, Unref, Remaining, GenStates

LEMMA DeactivatedType ==
  ASSUME TypeOK, NEW m \in Media
  PROVE  Deactivated(m) \in [Media -> GenStates]
BY DEF TypeOK, Deactivated, GenStates

LEMMA CountType ==
  ASSUME NEW h \in {{}, Hooks}
  PROVE  Cardinality(h) \in Nat
BY HooksCount

LEMMA ReleasedType ==
  ASSUME TypeOK, NEW m \in Media
  PROVE  Released(m) \in [Media -> {{}, Hooks}]
BY DEF TypeOK, Released

LEMMA ConstructTypeOK ==
  ASSUME TypeOK, NEW m \in Media, Construct(m) \/ ConstructNoAppsrc(m) \/ ConstructFails(m)
  PROVE  TypeOK'
<1> USE DEF TypeOK, genVars, srcVars
<1>1. conf' \in Call /\ media' \in [Media -> MediaStates]
  <2>1. media' \in [Media -> MediaStates]
        BY DEF Construct, ConstructNoAppsrc, ConstructFails, MediaStates
  <2>2. {Configure, Withdraw, <<"connect">>} \subseteq ConfigureTodos
        BY DEF ConfigureTodos, Connecting
  <2>3. CASE Construct(m)
    <3>1. conf' = [NoCall EXCEPT !.todo = Configure, !.media = m]
          BY <2>3 DEF Construct
    <3> QED BY <2>1, <2>2, <3>1 DEF NoCall, Call, OrNone
  <2>4. CASE ConstructNoAppsrc(m)
    <3>1. conf' = [NoCall EXCEPT !.todo = Withdraw, !.media = m, !.app = info.appsrc,
                                 !.gen = info.generation]
          BY <2>4 DEF ConstructNoAppsrc
    <3> QED BY <2>1, <2>2, <3>1, RecordFields DEF NoCall, Call, OrNone
  <2>5. CASE ConstructFails(m)
    <3>1. conf' = [NoCall EXCEPT !.todo = <<"connect">>, !.media = m]
          BY <2>5 DEF ConstructFails
    <3> QED BY <2>1, <2>2, <3>1 DEF NoCall, Call, OrNone
  <2> QED BY <2>3, <2>4, <2>5
<1>2. CASE Construct(m)
  <2>1. /\ refs' \in [Media -> Int] /\ hooks' \in [Media -> {{}, Hooks}]
        /\ owned' \in SUBSET Media /\ gen' \in [Media -> GenStates]
        BY <1>2, HooksCount DEF Construct, GenStates
  <2> QED BY <1>1, <1>2, <2>1 DEF Construct
<1>3. CASE ConstructNoAppsrc(m)
  <2>1. info' \in InfoRecord
        BY <1>3 DEF ConstructNoAppsrc, InfoRecord, OrNone
  <2> QED BY <1>1, <1>3, <2>1 DEF ConstructNoAppsrc
<1>4. CASE ConstructFails(m)
      BY <1>1, <1>4 DEF ConstructFails
<1> QED BY <1>2, <1>3, <1>4

LEMMA ConfigureTypeOK ==
  ASSUME TypeOK, ConfigureRuns
  PROVE  TypeOK'
<1> USE DEF TypeOK, genVars, srcVars
<1>1. conf.todo # <<>> => Continue(conf) \in Call
      BY ContinueType
<1>2. conf' \in Call
  <2>1. CASE Publish
        BY <1>1, <2>1 DEF Publish, Step, Call, InfoRecord
  <2>2. CASE RetireOld \/ UnrefOld
        BY <1>1, <2>2 DEF RetireOld, UnrefOld, Step, Call, OrNone
  <2>3. CASE Register
        BY <1>1, <2>3 DEF Register, Step
  <2>4. CASE Connect
        BY <2>4, NoCallType DEF Connect
  <2> QED BY <2>1, <2>2, <2>3, <2>4 DEF ConfigureRuns
<1>3. CASE Publish
  <2>1. info' \in InfoRecord
        BY <1>3, RtspMediaAssumption DEF Publish, Published, InfoRecord, Call
  <2>2. caps' \in [Media -> GivenSet]
        BY <1>3 DEF Publish, GivenCaps, InfoRecord, GivenSet
  <2>3. refs' \in [Media -> Int]
    <3>1. refs' = [refs EXCEPT ![conf.media] = @ + 1]
          BY <1>3 DEF Publish
    <3>2. CASE conf.media \in Media
          BY <3>1, <3>2
    <3>3. CASE conf.media \notin Media
          BY <3>1, <3>3
    <3> QED BY <3>2, <3>3
  <2>4. gen' \in [Media -> GenStates]
        BY <1>3 DEF Publish, GenStates
  <2> QED BY <1>2, <1>3, <2>1, <2>2, <2>3, <2>4 DEF Publish
<1>4. CASE RetireOld
  <2>1. /\ refs' \in [Media -> Int] /\ hooks' \in [Media -> {{}, Hooks}]
        /\ gen' \in [Media -> GenStates]
    <3>1. CASE conf.gen = None
          BY <1>4, <3>1 DEF RetireOld
    <3>2. CASE conf.gen # None
      <4>1. conf.gen \in Media
            BY <3>2, RecordFields DEF OrNone
      <4>2. 1 + Cardinality(hooks[conf.gen]) \in Nat
        <5>1. hooks[conf.gen] \in {{}, Hooks}
              BY <4>1
        <5>2. Cardinality(hooks[conf.gen]) \in Nat
              BY <5>1, CountType
        <5> QED BY <5>2
      <4>3. /\ Unref(conf.gen, 1 + Cardinality(hooks[conf.gen]), Deactivated(conf.gen))
            /\ hooks' = Released(conf.gen)
            BY <1>4, <3>2 DEF RetireOld
      <4> QED BY <4>1, <4>2, <4>3, UnrefType, DeactivatedType, ReleasedType
    <3> QED BY <3>1, <3>2
  <2> QED BY <1>2, <1>4, <2>1 DEF RetireOld
<1>5. CASE Register
      BY <1>2, <1>5, RecordFields DEF Register, OrNone
<1>6. CASE UnrefOld
      BY <1>2, <1>6 DEF UnrefOld
<1>7. CASE Connect
  <2>1. /\ media' \in [Media -> MediaStates] /\ source' \in [Media -> SourceStates]
        /\ kick' \in {"idle", "throttled", "sent"}
        BY <1>7 DEF Connect, MediaStates, SourceStates, RequestKeyframe
  <2> QED BY <1>2, <1>7, <2>1 DEF Connect
<1> QED BY <1>3, <1>4, <1>5, <1>6, <1>7 DEF ConfigureRuns

LEMMA MediaTypeOK ==
  ASSUME TypeOK, NEW m \in Media, MediaRuns(m) \/ StopMedia(m) \/ OwnerFree(m)
  PROVE  TypeOK'
<1> USE DEF TypeOK, genVars, srcVars
<1>1. CASE Pull(m)
      BY <1>1 DEF Pull
<1>2. CASE EmitNeedData(m)
      BY <1>2 DEF EmitNeedData, SourceStates
<1>3. CASE StopMedia(m)
      BY <1>3 DEF StopMedia, SourceStates, MediaStates
<1>4. CASE NeedData(m)
  <2>1. refs' \in [Media -> Int] /\ gen' \in [Media -> GenStates]
        BY <1>4, UnrefType DEF NeedData
  <2>2. /\ info' \in InfoRecord /\ source' \in [Media -> SourceStates]
        /\ kick' \in {"idle", "throttled", "sent"}
        BY <1>4 DEF NeedData, InfoRecord, SourceStates, RequestKeyframe
  <2> QED BY <1>4, <2>1, <2>2 DEF NeedData
<1>5. CASE OwnerFree(m)
  <2>1. Cardinality(hooks[m]) \in Nat
        BY CountType
  <2>2. /\ refs' \in [Media -> Int] /\ gen' \in [Media -> GenStates]
        /\ hooks' \in [Media -> {{}, Hooks}]
    <3>1. CASE m \notin owned
          BY <1>5, <3>1 DEF OwnerFree
    <3>2. CASE m \in owned
      <4>1. /\ Unref(m, 1 + Cardinality(hooks[m]), Deactivated(m))
            /\ hooks' = Released(m)
            BY <1>5, <3>2 DEF OwnerFree
      <4>2. 1 + Cardinality(hooks[m]) \in Nat
            BY <2>1
      <4> QED BY <4>1, <4>2, UnrefType, DeactivatedType, ReleasedType
    <3> QED BY <3>1, <3>2
  <2>3. media' \in [Media -> MediaStates] /\ source' \in [Media -> SourceStates]
        BY <1>5 DEF OwnerFree, MediaStates, SourceStates
  <2> QED BY <1>5, <2>2, <2>3 DEF OwnerFree
<1> QED BY <1>1, <1>2, <1>3, <1>4, <1>5 DEF MediaRuns

LEMMA UnprepareTypeOK ==
  ASSUME TypeOK, NEW m \in Media, UnprepareRuns(m)
  PROVE  TypeOK'
<1> USE DEF TypeOK, genVars, srcVars
<1>1. unprep[m] \in UnprepareCall
      OBVIOUS
<1>2. unprep[m].todo # <<>> => Continue(unprep[m]) \in UnprepareCall
      BY <1>1, ContinueType
<1>3. unprep' \in [Media -> UnprepareCall]
  <2>1. CASE Unprepared(m)
    <3>1. \A f, g \in OrNone :
            [NoCall EXCEPT !.todo = Unprepare, !.media = f, !.gen = g] \in UnprepareCall
          BY DEF NoCall, UnprepareCall, UnprepareTodos, OrNone
    <3>2. m \in OrNone /\ None \in OrNone
          BY DEF OrNone
    <3>3. \E call \in UnprepareCall : unprep' = [unprep EXCEPT ![m] = call]
          BY <2>1, <3>1, <3>2 DEF Unprepared
    <3> QED BY <3>3
  <2>2. CASE Detach(m)
    <3>1. \E call \in UnprepareCall : unprep' = [unprep EXCEPT ![m] = call]
      <4>1. \A a \in OrNone, b \in BOOLEAN, call \in UnprepareCall :
              [call EXCEPT !.app = a, !.current = b] \in UnprepareCall
              /\ [call EXCEPT !.app = a] \in UnprepareCall
            BY DEF UnprepareCall
      <4>2. info.appsrc \in OrNone
            BY RecordFields
      <4> QED BY <1>2, <2>2, <4>1, <4>2 DEF Detach, Step
    <3> QED BY <3>1
  <2>3. CASE Unregister(m)
        BY <1>2, <2>3 DEF Unregister, Step
  <2>4. CASE Release(m)
        BY <2>4, NoCallType DEF Release
  <2> QED BY <2>1, <2>2, <2>3, <2>4 DEF UnprepareRuns
<1>4. CASE Unprepared(m)
      BY <1>3, <1>4, DeactivatedType DEF Unprepared
<1>5. CASE Detach(m)
  <2>1. info' \in InfoRecord
        BY <1>5 DEF Detach, InfoRecord, OrNone
  <2> QED BY <1>3, <1>5, <2>1 DEF Detach
<1>6. CASE Unregister(m)
      BY <1>3, <1>6 DEF Unregister, OrNone
<1>7. CASE Release(m)
  <2>1. /\ refs' \in [Media -> Int] /\ hooks' \in [Media -> {{}, Hooks}]
        /\ gen' \in [Media -> GenStates]
    <3>1. CASE unprep[m].gen = None
          BY <1>7, <3>1 DEF Release
    <3>2. CASE unprep[m].gen # None
      <4> DEFINE n == Cardinality(hooks[m]) + (IF unprep[m].current THEN 2 ELSE 1)
      <4>1. Cardinality(hooks[m]) \in Nat
            BY CountType
      <4>2. n \in Nat
            BY <4>1
      <4>3. Unref(m, n, gen) /\ hooks' = Released(m)
            BY <1>7, <3>2 DEF Release
      <4> HIDE DEF n
      <4> QED BY <4>2, <4>3, UnrefType, ReleasedType
    <3> QED BY <3>1, <3>2
  <2>2. media' \in [Media -> MediaStates]
        BY <1>7 DEF Release, MediaStates
  <2> QED BY <1>3, <1>7, <2>1, <2>2 DEF Release
<1> QED BY <1>4, <1>5, <1>6, <1>7 DEF UnprepareRuns

LEMMA FinishType ==
  ASSUME TypeOK, NEW pushed \in BOOLEAN, NEW pc \in {"wait", "error"}, Finish(pushed, pc)
  PROVE  /\ refs' \in [Media -> Int] /\ gen' \in [Media -> GenStates]
         /\ gap' \in [Media -> BOOLEAN] /\ stream' \in StreamRecord
<1> USE DEF TypeOK
<1>1. refs' \in [Media -> Int] /\ gen' \in [Media -> GenStates]
  <2>1. CASE stream.gen = None
        BY <2>1 DEF Finish
  <2>2. CASE stream.gen # None
    <3>1. stream.gen \in Media /\ Unref(stream.gen, 1, gen)
          BY <2>2, RecordFields DEF Finish, OrNone
    <3> QED BY <3>1, UnrefType
  <2> QED BY <2>1, <2>2
<1>2. stream' \in StreamRecord
      BY DEF Finish, Waiting, StreamRecord, StreamPcs, OrNone
<1> QED BY <1>1, <1>2 DEF Finish

LEMMA HandlerTypeOK ==
  ASSUME TypeOK, HandlerRuns
  PROVE  TypeOK'
<1> USE DEF TypeOK, genVars, srcVars
<1>1. CASE DropFrame
  <2>1. kick' \in {"idle", "throttled", "sent"} /\ Finish(FALSE, "wait")
        BY <1>1 DEF DropFrame, RequestKeyframe
  <2> QED BY <1>1, <2>1, FinishType DEF DropFrame, Finish
<1>2. CASE Interrupted \/ PushFails
  <2>1. Finish(FALSE, "wait")
        BY <1>2 DEF Interrupted, PushFails
  <2> QED BY <1>2, <2>1, FinishType DEF Interrupted, PushFails, Finish
<1>3. CASE CopyFails
  <2>1. Finish(FALSE, "error")
        BY <1>3 DEF CopyFails
  <2> QED BY <1>3, <2>1, FinishType DEF CopyFails, Finish
<1>4. ASSUME NEW pc \in StreamPcs, GoOn(pc) PROVE stream' \in StreamRecord
      BY <1>4 DEF GoOn, StreamRecord
<1>5. CASE CopyFrame \/ PushFull
  <2>1. stream' \in StreamRecord
        BY <1>4, <1>5 DEF CopyFrame, PushFull, StreamPcs
  <2> QED BY <1>5, <2>1 DEF CopyFrame, PushFull, GoOn
<1>6. CASE EnoughData
  <2>1. stream' \in StreamRecord /\ info' \in InfoRecord
        BY <1>4, <1>6 DEF EnoughData, StreamPcs, InfoRecord
  <2> QED BY <1>6, <2>1 DEF EnoughData, GoOn
<1>7. CASE Enqueue
  <2>1. refs' \in [Media -> Int] /\ gen' \in [Media -> GenStates]
    <3>1. CASE stream.gen = None
          BY <1>7, <3>1 DEF Enqueue
    <3>2. CASE stream.gen # None
      <4>1. stream.gen \in Media /\ Unref(stream.gen, 1, gen)
            BY <1>7, <3>2, RecordFields DEF Enqueue, OrNone
      <4> QED BY <4>1, UnrefType
    <3> QED BY <3>1, <3>2
  <2>2. stream' \in StreamRecord /\ source' \in [Media -> SourceStates]
        BY <1>7 DEF Enqueue, Waiting, StreamRecord, StreamPcs, OrNone, SourceStates
  <2> QED BY <1>7, <2>1, <2>2 DEF Enqueue
<1> QED BY <1>1, <1>2, <1>3, <1>5, <1>6, <1>7 DEF HandlerRuns

LEMMA SampleTypeOK ==
  ASSUME TypeOK, NEW key \in BOOLEAN, NEW c \in Caps, Sample(key, c)
  PROVE  TypeOK'
<1> USE DEF TypeOK, genVars, srcVars
<1>1. info' \in InfoRecord
  <2>1. Dropped(key) \in BOOLEAN
        BY DEF Dropped, InfoRecord
  <2> QED BY <2>1 DEF Sample, WaitsAfter, InfoRecord
<1>2. caps' \in [Media -> GivenSet]
      BY DEF Sample, CapsFollow, GivenSet
<1>3. stream' \in StreamRecord
      BY RecordFields DEF Sample, StreamRecord, StreamPcs, OrNone
<1>4. /\ refs' \in [Media -> Int] /\ gap' \in [Media -> BOOLEAN]
      /\ kick' \in {"idle", "throttled", "sent"}
  <2>1. refs' \in [Media -> Int]
    <3>1. info.generation # None => info.generation \in Media
          BY RecordFields DEF OrNone
    <3> QED BY <3>1 DEF Sample
  <2>2. kick' \in {"idle", "throttled", "sent"}
        BY DEF Sample
  <2>3. gap' \in [Media -> BOOLEAN]
        BY DEF Sample
  <2> QED BY <2>1, <2>2, <2>3
<1> QED BY <1>1, <1>2, <1>3, <1>4 DEF Sample

LEMMA MainTypeOK == TypeOK /\ (Second \/ End \/ MainRuns) => TypeOK'
BY DEF TypeOK, OrNone, Second, End, MainRuns, CollectTargets, SendEos, StopServer,
       genVars, srcVars

LEMMA NextTypeOK == TypeOK /\ [Next]_rtspVars => TypeOK'
<1> SUFFICES ASSUME TypeOK, [Next]_rtspVars PROVE TypeOK'
    OBVIOUS
<1>1. CASE UNCHANGED rtspVars
      BY <1>1 DEF TypeOK, rtspVars, genVars, srcVars
<1>2. CASE Next
      BY <1>2, ConstructTypeOK, ConfigureTypeOK, MediaTypeOK, UnprepareTypeOK,
         HandlerTypeOK, SampleTypeOK, MainTypeOK DEF Next, SampleTaken
<1> QED BY <1>1, <1>2

(***************************************************************************)
(* Every variable keeps its type.                                          *)
(***************************************************************************)
THEOREM TypeCorrect == Spec => []TypeOK
BY InitTypeOK, NextTypeOK, PTL DEF Spec

-----------------------------------------------------------------------------
(* Counting the holders of a generation. *)

Accounted(m) ==
  /\ refs[m] = Holders(m)
  /\ gen[m] \notin {"none", "freed"} <=> Holders(m) > 0

LEMMA AllAccounted == FreedByTheLast <=> \A m \in Media : Accounted(m)
BY DEF FreedByTheLast, Accounted

LEMMA AllAccountedNext == (\A m \in Media : Accounted(m)') => FreedByTheLast'
BY DEF FreedByTheLast, Accounted

LEMMA HoldersType ==
  ASSUME TypeOK, NEW m \in Media
  PROVE  /\ Cardinality(hooks[m]) \in Nat /\ Holders(m) \in Nat
         /\ hooks[m] = {} => Cardinality(hooks[m]) = 0
         /\ hooks[m] # {} => Cardinality(hooks[m]) > 0
<1>1. hooks[m] \in {{}, Hooks}
      BY DEF TypeOK
<1>2. /\ Cardinality(hooks[m]) \in Nat
      /\ hooks[m] = {} => Cardinality(hooks[m]) = 0
      /\ hooks[m] # {} => Cardinality(hooks[m]) > 0
      BY <1>1, HooksCount
<1> QED BY <1>2 DEF Holders, One

(* Whoever holds a generation keeps it from being freed. *)
Held(m) ==
  \/ m \in owned \/ hooks[m] # {} \/ info.generation = m \/ conf.gen = m
  \/ unprep[m].gen = m \/ unprep[m].current \/ stream.gen = m \/ source[m] = "need"

LEMMA HeldIsAlive ==
  ASSUME TypeOK, NEW m \in Media, Accounted(m)
  PROVE  gen[m] \notin {"none", "freed"} <=> Held(m)
BY HoldersType DEF Accounted, Held, Holders, One

(* Nothing happened to m. *)
LEMMA AccountSame ==
  ASSUME TypeOK, NEW m \in Media, Accounted(m),
         refs'[m] = refs[m], gen'[m] = gen[m], hooks'[m] = hooks[m],
         (m \in owned)' <=> m \in owned,
         (info.generation = m)' <=> info.generation = m, (conf.gen = m)' <=> conf.gen = m,
         (unprep[m].gen = m)' <=> unprep[m].gen = m,
         unprep'[m].current <=> unprep[m].current,
         (stream.gen = m)' <=> stream.gen = m,
         (source[m] = "need")' <=> source[m] = "need"
  PROVE  Accounted(m)'
BY DEF Accounted, Holders, One

(* The references of a generation are given up as its holders go. *)
LEMMA AccountUnref ==
  ASSUME TypeOK, TypeOK', NEW m \in Media, Accounted(m), NEW n \in Nat, n > 0,
         NEW states \in [Media -> GenStates], states[m] \notin {"none", "freed"},
         Unref(m, n, states), Holders(m)' = Holders(m) - n
  PROVE  Accounted(m)'
<1>1. Holders(m) \in Nat /\ Holders(m)' \in Nat
  <2>1. hooks'[m] \in {{}, Hooks}
        BY DEF TypeOK
  <2>2. Cardinality(hooks'[m]) \in Nat
        BY <2>1, HooksCount
  <2> QED BY <2>2, HoldersType DEF Holders, One
<1>2. refs'[m] = refs[m] - n
      BY DEF TypeOK, Unref, Remaining
<1>3. gen'[m] = IF refs[m] - n = 0 THEN "freed" ELSE states[m]
      BY DEF Unref, Remaining
<1> QED BY <1>1, <1>2, <1>3 DEF Accounted

LEMMA UnrefOthers ==
  ASSUME TypeOK, NEW m \in Media, NEW n, NEW states, Unref(m, n, states),
         NEW k \in Media, k # m,
         states \in {gen, Deactivated(m)}
  PROVE  refs'[k] = refs[k] /\ gen'[k] = gen[k]
BY DEF TypeOK, Unref, Deactivated

LEMMA InitLifeInv == Init => LifeInv
<1> SUFFICES ASSUME Init PROVE LifeInv
    OBVIOUS
<1>1. Configuring
      BY ConfigureDistinct DEF Init, Configuring, NoCall
<1>2. Unpreparing /\ Owners /\ Sources
      BY DEF Init, Unpreparing, Owners, Sources, NoCall
<1>3. Handling /\ PublishedLive /\ PublishedPair
      BY DEF Init, Handling, PublishedLive, PublishedPair, Waiting
<1>4. FreedByTheLast
      BY HooksCount DEF Init, FreedByTheLast, Holders, One, NoCall, Waiting, Media, None
<1> QED BY <1>1, <1>2, <1>3, <1>4 DEF LifeInv

-----------------------------------------------------------------------------
(* The steps that leave every generation and its holders alone. *)
LEMMA QuietLifeInv ==
  ASSUME TypeOK, LifeInv, Handling',
         UNCHANGED <<refs, gen, hooks, owned, media, caps, conf, unprep, source>>,
         info'.appsrc = info.appsrc, info'.generation = info.generation,
         info'.caps = info.caps, stream'.gen = stream.gen
  PROVE  LifeInv'
<1> USE DEF LifeInv
<1>1. Configuring'
      BY DEF Configuring
<1>2. Unpreparing' /\ Owners' /\ Sources'
      BY DEF Unpreparing, Owners, Sources
<1>3. PublishedLive'
      BY DEF PublishedLive
<1>4. PublishedPair'
      BY DEF PublishedPair
<1>5. ASSUME NEW m \in Media PROVE Accounted(m)'
      BY AccountSame, AllAccounted
<1> QED BY <1>1, <1>2, <1>3, <1>4, <1>5, AllAccountedNext

LEMMA QuietSteps ==
  ASSUME TypeOK, LifeInv,
         \/ \E m \in Media : Pull(m)
         \/ CopyFrame \/ PushFull \/ EnoughData \/ Second \/ End \/ MainRuns
         \/ UNCHANGED rtspVars
  PROVE  LifeInv'
<1> USE DEF genVars, srcVars
<1>1. CASE CopyFrame \/ PushFull \/ EnoughData
  <2>1. /\ stream.pc \in {"check", "push", "enough"}
        /\ stream'.pc \in {"check", "push", "enough", "enqueue"}
        /\ stream'.app = stream.app /\ stream'.gen = stream.gen
        BY <1>1 DEF TypeOK, StreamRecord, CopyFrame, PushFull, EnoughData, GoOn
  <2>2. Handling'
        BY <2>1 DEF LifeInv, Handling
  <2>3. UNCHANGED <<refs, gen, hooks, owned, media, caps, conf, unprep, source>>
        BY <1>1 DEF CopyFrame, PushFull, EnoughData, GoOn
  <2>4. /\ info'.appsrc = info.appsrc /\ info'.generation = info.generation
        /\ info'.caps = info.caps
        BY <1>1 DEF CopyFrame, PushFull, EnoughData, TypeOK, InfoRecord
  <2> QED BY <2>1, <2>2, <2>3, <2>4, QuietLifeInv
<1>2. CASE \/ \E m \in Media : Pull(m)
           \/ Second \/ End \/ MainRuns \/ UNCHANGED rtspVars
  <2>1. UNCHANGED <<info, refs, gen, hooks, owned, media, caps, conf, unprep, source, stream>>
        BY <1>2 DEF Pull, Second, End, MainRuns, CollectTargets, SendEos, StopServer, rtspVars
  <2>2. Handling'
        BY <2>1 DEF LifeInv, Handling
  <2> QED BY <2>1, <2>2, QuietLifeInv
<1> QED BY <1>1, <1>2

-----------------------------------------------------------------------------
(* media_configure() *)

LEMMA ConstructLifeInv ==
  ASSUME TypeOK, TypeOK', LifeInv, NEW m \in Media,
         Construct(m) \/ ConstructNoAppsrc(m) \/ ConstructFails(m)
  PROVE  LifeInv'
<1> USE DEF LifeInv, genVars, srcVars
<1>1. /\ conf = NoCall /\ media[m] = "none" /\ gen[m] = "none"
      /\ media' = [media EXCEPT ![m] = "built"]
      /\ UNCHANGED <<caps, unprep, stream, source>>
      BY DEF Construct, ConstructNoAppsrc, ConstructFails, Configuring, Owners
<1>2. /\ conf.todo = <<>> /\ conf.gen = None /\ conf.media = None /\ m # None
      BY <1>1 DEF NoCall, Media, None
<1>3. ~Held(m) /\ Holders(m) = 0
  <2>1. Accounted(m)
        BY AllAccounted
  <2> QED BY <1>1, <2>1, HeldIsAlive, HoldersType DEF Accounted
<1>4. media'[m] = "built" /\ \A k \in Media : k # m => media'[k] = media[k]
      BY <1>1 DEF TypeOK
<1>5. /\ unprep[m].todo = <<>> /\ m \notin owned /\ info.generation # m
      /\ info.appsrc # m /\ stream.gen # m
      BY <1>1, <1>3 DEF Unpreparing, Held, PublishedPair
<1>6. Unpreparing'
  <2>1. \A k \in Media : k # m => gen'[k] = gen[k] /\ ((k \in owned)' <=> k \in owned)
        BY DEF Construct, ConstructNoAppsrc, ConstructFails, TypeOK
  <2>2. unprep[m] = NoCall
        BY <1>5 DEF Unpreparing
  <2>3. /\ NoCall.todo = <<>> /\ NoCall.gen = None /\ NoCall.media = None
        /\ ~NoCall.current
        BY DEF NoCall
  <2> QED BY <1>1, <1>4, <2>1, <2>2, <2>3 DEF Unpreparing
<1>7. Handling' /\ Sources'
      BY <1>1, <1>4 DEF Handling, Sources
<1>8. CASE Construct(m)
  <2>1. /\ refs'[m] = 1 + Cardinality(Hooks) /\ gen'[m] = "new" /\ hooks'[m] = Hooks
        /\ owned' = owned \cup {m} /\ UNCHANGED info
        /\ conf'.todo = Configure /\ conf'.media = m /\ conf'.gen = None
        /\ \A k \in Media : k # m => refs'[k] = refs[k] /\ gen'[k] = gen[k] /\ hooks'[k] = hooks[k]
        BY <1>8 DEF Construct, TypeOK, NoCall
  <2>2. Configuring'
        BY <1>2, <1>4, <2>1, ConfigureDistinct DEF Configuring
  <2>3. Owners'
        BY <1>1, <1>4, <2>1 DEF Owners
  <2>4. PublishedLive'
        BY <1>4, <1>5, <2>1, RecordFields DEF PublishedLive, OrNone
  <2>5. PublishedPair'
    <3>1. conf.todo # <<>> <=> FALSE
          BY <1>2
    <3> QED BY <1>1, <2>1, <3>1 DEF PublishedPair
  <2>6. Accounted(m)'
    <3>1. Holders(m)' = 1 + Cardinality(Hooks)
          BY <1>1, <1>2, <1>3, <2>1 DEF Holders, One, Held, TypeOK
    <3> QED BY <2>1, <3>1, HooksCount DEF Accounted
  <2>7. ASSUME NEW k \in Media, k # m PROVE Accounted(k)'
        BY <1>1, <1>2, <2>1, <2>7, AccountSame, AllAccounted DEF Media, None
  <2> QED BY <1>6, <1>7, <2>2, <2>3, <2>4, <2>5, <2>6, <2>7, AllAccountedNext
<1>9. CASE ConstructFails(m)
  <2>1. /\ UNCHANGED <<refs, gen, hooks, owned, info>>
        /\ conf'.todo = Connecting /\ conf'.media = m /\ conf'.gen = None
        BY <1>9 DEF ConstructFails, NoCall, Connecting
  <2>2. Configuring'
        BY <1>2, <1>4, <2>1, ConfigureDistinct DEF Configuring
  <2>3. Owners'
        BY <1>1, <1>4, <2>1 DEF Owners
  <2>4. PublishedLive'
        BY <1>4, <1>5, <2>1, RecordFields DEF PublishedLive, OrNone
  <2>5. PublishedPair'
        BY <1>1, <1>2, <2>1 DEF PublishedPair
  <2>6. ASSUME NEW k \in Media PROVE Accounted(k)'
        BY <1>1, <1>2, <2>1, AccountSame, AllAccounted
  <2> QED BY <1>6, <1>7, <2>2, <2>3, <2>4, <2>5, <2>6, AllAccountedNext
<1>10. CASE ConstructNoAppsrc(m)
  <2>1. /\ UNCHANGED <<refs, gen, hooks, owned>>
        /\ conf'.todo = Withdraw /\ conf'.media = m /\ conf'.gen = info.generation
        /\ info'.appsrc = None /\ info'.generation = None
        BY <1>10 DEF ConstructNoAppsrc, NoCall, TypeOK, InfoRecord
  <2>2. Configuring'
        BY <1>2, <1>4, <2>1, ConfigureDistinct DEF Configuring
  <2>3. Owners'
        BY <1>1, <1>4, <2>1 DEF Owners
  <2>4. PublishedLive'
        BY <2>1 DEF PublishedLive
  <2>5. PublishedPair'
        BY <1>1, <1>2, <2>1, ConfigureDistinct DEF PublishedPair
  <2>6. ASSUME NEW k \in Media PROVE Accounted(k)'
    <3>1. Holders(k)' = Holders(k)
      <4>1. /\ info'.generation # k /\ conf.gen # k
            /\ conf'.gen = k <=> info.generation = k
            BY <1>2, <2>1, MediaNotNone
      <4> QED BY <1>1, <2>1, <4>1, HoldersType DEF Holders, One
    <3>2. Accounted(k)
          BY AllAccounted
    <3> QED BY <2>1, <3>1, <3>2 DEF Accounted
  <2> QED BY <1>6, <1>7, <2>2, <2>3, <2>4, <2>5, <2>6, AllAccountedNext
<1> QED BY <1>8, <1>9, <1>10

(* The call goes on to its next step, which is not "retire". *)
LEMMA ConfigureGoesOn ==
  ASSUME TypeOK, Configuring, UNCHANGED <<gen, hooks, media, owned>>,
         conf.todo \in {Retiring, WithdrawnRetiring, Registering, Unreffing},
         conf'.todo = Tail(conf.todo), conf'.media = conf.media, conf'.gen = None,
         info'.appsrc = info.appsrc
  PROVE  Configuring'
BY ConfigureTails, ConfigureDistinct DEF Configuring

LEMMA RegisterLifeInv ==
  ASSUME TypeOK, LifeInv, Register \/ UnrefOld
  PROVE  LifeInv'
<1> USE DEF LifeInv, genVars, srcVars
<1>1. /\ conf.todo # <<>> /\ conf.todo \in {Registering, Withdraw, Unreffing}
      /\ UNCHANGED <<info, refs, gen, hooks, owned, media, caps, unprep, stream, source>>
      /\ conf'.media = conf.media /\ conf'.gen = conf.gen
      /\ conf'.todo = Tail(conf.todo)
      BY ConfigureStep, ConfigureNonEmpty
         DEF Register, UnrefOld, Continue, Step, TypeOK, Call
<1>2. conf.todo # Withdraw => conf.gen = None
      BY <1>1, ConfigureDistinct DEF Configuring
<1>3. Configuring'
      BY <1>1, <1>2, ConfigureTails, ConfigureDistinct DEF Configuring
<1>4. Unpreparing' /\ Owners' /\ Handling' /\ PublishedLive' /\ Sources'
      BY <1>1 DEF Unpreparing, Owners, Handling, PublishedLive, Sources
<1>5. PublishedPair'
      BY <1>1, <1>2, ConfigureTails, ConfigureDistinct DEF PublishedPair, Media, None
<1>6. ASSUME NEW m \in Media PROVE Accounted(m)'
      BY <1>1, AccountSame, AllAccounted
<1> QED BY <1>3, <1>4, <1>5, <1>6, AllAccountedNext

LEMMA ConnectLifeInv ==
  ASSUME TypeOK, LifeInv, Connect
  PROVE  LifeInv'
<1> USE DEF LifeInv, genVars, srcVars
<1>1. /\ conf.todo = Connecting /\ conf' = NoCall
      /\ media' = [media EXCEPT ![conf.media] = "open"]
      /\ source' = [source EXCEPT ![conf.media] = IF conf.media \in owned THEN "run" ELSE @]
      /\ UNCHANGED <<info, refs, gen, hooks, owned, caps, unprep, stream>>
      BY ConfigureStep DEF Connect, TypeOK, Call
<1>2. conf.gen = None /\ conf.media \in Media /\ media[conf.media] = "built"
      BY <1>1, ConfigureDistinct, RecordFields DEF Configuring, OrNone
<1>3. /\ media'[conf.media] = "open"
      /\ \A k \in Media : k # conf.media => media'[k] = media[k] /\ source'[k] = source[k]
      BY <1>1, <1>2 DEF TypeOK
<1>4. conf'.todo = <<>> /\ conf'.gen = None
      BY <1>1 DEF NoCall
<1>5. Configuring'
      BY <1>1, <1>4, ConfigureDistinct DEF Configuring
<1>6. Unpreparing' /\ Owners' /\ Handling' /\ PublishedLive' /\ Sources'
  <2>1. Unpreparing' /\ Owners'
        BY <1>1, <1>2, <1>3 DEF Unpreparing, Owners
  <2>2. Handling' /\ PublishedLive'
        BY <1>1, <1>2, <1>3, RecordFields DEF Handling, PublishedLive, OrNone
  <2>3. Sources'
        BY <1>2, <1>3 DEF Sources
  <2> QED BY <2>1, <2>2, <2>3
<1>7. PublishedPair'
      BY <1>1, <1>2, <1>4 DEF PublishedPair, Media, None
<1>8. ASSUME NEW m \in Media PROVE Accounted(m)'
  <2>1. (source[m] = "need")' <=> source[m] = "need"
    <3>1. CASE m = conf.media
      <4>1. source[m] # "need"
            BY <1>2, <3>1 DEF Sources
      <4> QED BY <1>1, <3>1, <4>1
    <3>2. CASE m # conf.media
          BY <1>3, <3>2
    <3> QED BY <3>1, <3>2
  <2> QED BY <1>1, <1>2, <1>4, <2>1, AccountSame, AllAccounted
<1> QED BY <1>5, <1>6, <1>7, <1>8, AllAccountedNext

LEMMA PublishLifeInv ==
  ASSUME TypeOK, TypeOK', LifeInv, Publish
  PROVE  LifeInv'
<1> USE DEF LifeInv, genVars, srcVars
<1>1. /\ conf.todo = Configure /\ conf.gen = None /\ gen[conf.media] = "new"
      /\ conf.media \in owned /\ conf.media \in Media /\ media[conf.media] = "built"
      BY ConfigureStep, ConfigureDistinct, RecordFields
         DEF Publish, TypeOK, Call, Configuring, OrNone
<1>2. /\ conf'.todo = Retiring /\ conf'.media = conf.media /\ conf'.gen = info.generation
      BY <1>1, ConfigureTails DEF Publish, Continue, TypeOK, Call
<1>3. /\ info'.appsrc = conf.media /\ info'.generation = conf.media
      /\ info'.caps = info.caps
      BY DEF Publish, Published, TypeOK, InfoRecord
<1>4. /\ UNCHANGED <<hooks, owned, media, unprep, stream, source>>
      /\ refs'[conf.media] = refs[conf.media] + 1 /\ gen'[conf.media] = "active"
      /\ \A k \in Media : k # conf.media =>
           refs'[k] = refs[k] /\ gen'[k] = gen[k] /\ caps'[k] = caps[k]
      /\ info.caps # None => caps'[conf.media] = info.caps
      BY <1>1 DEF Publish, GivenCaps, TypeOK
<1>5. info.generation # conf.media
      BY <1>1, MediaNotNone DEF PublishedLive
<1>6. Configuring'
      BY <1>1, <1>2, <1>3, <1>4, <1>5, ConfigureDistinct DEF Configuring
<1>7. Unpreparing' /\ Owners' /\ Handling' /\ Sources'
      BY <1>1, <1>4 DEF Unpreparing, Owners, Handling, Sources
<1>8. PublishedLive'
      BY <1>1, <1>3, <1>4 DEF PublishedLive, Configuring
<1>9. PublishedPair'
  <2>1. ASSUME NEW k \in Media, k \in owned, gen'[k] = "active", k # conf.media
        PROVE  conf'.gen = k
        BY <1>1, <1>2, <1>4, <2>1, MediaNotNone DEF PublishedPair
  <2> QED BY <1>2, <1>3, <1>4, <2>1, ConfigureDistinct DEF PublishedPair
<1>10. ASSUME NEW k \in Media PROVE Accounted(k)'
  <2>1. Accounted(k) /\ Cardinality(hooks[k]) \in Nat
        BY AllAccounted, HoldersType
  <2>2. CASE k = conf.media
    <3>1. Holders(k)' = Holders(k) + 1
          BY <1>1, <1>2, <1>3, <1>4, <1>5, <2>1, <2>2, MediaNotNone DEF Holders, One
    <3> QED BY <1>1, <1>4, <2>1, <2>2, <3>1, HoldersType DEF Accounted
  <2>3. CASE k # conf.media
    <3>1. Holders(k)' = Holders(k)
          BY <1>1, <1>2, <1>3, <1>4, <2>1, <2>3, MediaNotNone DEF Holders, One
    <3> QED BY <1>4, <2>1, <2>3, <3>1 DEF Accounted
  <2> QED BY <2>2, <2>3
<1> QED BY <1>6, <1>7, <1>8, <1>9, <1>10, AllAccountedNext

LEMMA RetireLifeInv ==
  ASSUME TypeOK, TypeOK', LifeInv, RetireOld
  PROVE  LifeInv'
<1> USE DEF LifeInv, genVars, srcVars
<1>1. /\ conf.todo \in {Retiring, WithdrawnRetiring} /\ conf.todo # <<>>
      /\ conf.media \in Media /\ media[conf.media] = "built"
      /\ conf'.todo = Tail(conf.todo) /\ conf'.media = conf.media /\ conf'.gen = None
  <2>1. conf.todo \in {Retiring, WithdrawnRetiring} /\ conf.todo # <<>>
        BY ConfigureStep, ConfigureDistinct DEF RetireOld, TypeOK, Call
  <2> QED BY <2>1, RecordFields DEF RetireOld, Continue, TypeOK, Call, Configuring, OrNone
<1>2. UNCHANGED <<info, owned, media, caps, unprep, stream, source>>
      BY DEF RetireOld
<1>3. conf.todo = Retiring => info.appsrc = conf.media
      BY DEF Configuring
<1>4. /\ conf'.todo \in {Registering, Unreffing}
      /\ conf'.todo = Registering => conf.todo = Retiring
      BY <1>1, ConfigureTails, ConfigureDistinct
<1>5. Configuring'
      BY <1>1, <1>2, <1>3, <1>4, ConfigureDistinct DEF Configuring
<1>6. Handling' /\ Sources'
      BY <1>2 DEF Handling, Sources
<1>7. CASE conf.gen = None
  <2>1. UNCHANGED <<refs, gen, hooks>>
        BY <1>7 DEF RetireOld
  <2>2. Unpreparing' /\ Owners' /\ PublishedLive'
        BY <1>2, <2>1 DEF Unpreparing, Owners, PublishedLive
  <2>3. PublishedPair'
        BY <1>1, <1>2, <1>7, <2>1, MediaNotNone DEF PublishedPair
  <2>4. ASSUME NEW k \in Media PROVE Accounted(k)'
        BY <1>1, <1>2, <1>7, <2>1, AccountSame, AllAccounted
  <2> QED BY <1>5, <1>6, <2>2, <2>3, <2>4, AllAccountedNext
<1>8. CASE conf.gen # None
  <2> PICK o \in Media : o = conf.gen
      BY <1>8, RecordFields DEF OrNone
  <2> PICK n : n = 1 + Cardinality(hooks[o])
      OBVIOUS
  <2>1. Cardinality(hooks[o]) \in Nat /\ o # None
        BY <1>8, HoldersType
  <2>2. Unref(o, n, Deactivated(o)) /\ hooks' = [hooks EXCEPT ![o] = {}]
        BY <1>8 DEF RetireOld, Released
  <2>3. Accounted(o) /\ Held(o)
        BY <2>1, AllAccounted DEF Held
  <2>4. gen[o] \notin {"none", "freed"}
        BY <2>1, <2>3, HeldIsAlive
  <2>5. gen'[o] \in {"cancelled", "freed"}
        BY <2>1, <2>2 DEF Unref, Deactivated, TypeOK
  <2>6. \A k \in Media : k # o => refs'[k] = refs[k] /\ gen'[k] = gen[k] /\ hooks'[k] = hooks[k]
        BY <2>1, <2>2 DEF Unref, Deactivated, TypeOK
  <2>7. hooks'[o] = {}
        BY <2>1, <2>2 DEF TypeOK
  <2>8. Accounted(o)'
    <3>1. Holders(o)' = Holders(o) - n
      <4>1. Cardinality(hooks'[o]) = 0
            BY <2>7, HooksCount
      <4> QED BY <1>1, <1>2, <2>1, <4>1, SMTT(30) DEF Holders, One
    <3>2. Deactivated(o) \in [Media -> GenStates] /\ Deactivated(o)[o] = "cancelled"
          BY <2>1, DeactivatedType DEF Deactivated, TypeOK
    <3>3. n \in Nat /\ n > 0
          BY <2>1
    <3> QED BY <2>1, <2>2, <2>3, <3>1, <3>2, <3>3, AccountUnref
  <2>9. ASSUME NEW k \in Media PROVE Accounted(k)'
    <3>1. CASE k # o
      <4>1. (conf.gen = k)' <=> conf.gen = k
            BY <1>1, <3>1, MediaNotNone
      <4> QED BY <1>2, <2>6, <3>1, <4>1, AccountSame, AllAccounted
    <3> QED BY <2>8, <3>1
  <2>10. Unpreparing'
        BY <1>2, <2>4, <2>5, <2>6 DEF Unpreparing
  <2>11. Owners'
    <3>1. Accounted(o)' /\ (o \in owned => gen'[o] # "freed")
      <4>1. Cardinality(hooks'[o]) = 0
            BY <2>7, HooksCount
      <4>2. o \in owned => Holders(o)' > 0
            BY <1>2, <4>1 DEF Holders, One
      <4> QED BY <2>8, <4>2 DEF Accounted
    <3> QED BY <1>2, <2>1, <2>4, <2>5, <2>6, <3>1 DEF Owners
  <2>12. PublishedLive'
    <3>1. info.generation # o
          BY <1>8 DEF Configuring
    <3> QED BY <1>2, <2>6, <3>1, RecordFields DEF PublishedLive, OrNone
  <2>13. PublishedPair'
        BY <1>1, <1>2, <2>1, <2>5, <2>6, MediaNotNone DEF PublishedPair
  <2> QED BY <1>5, <1>6, <2>9, <2>10, <2>11, <2>12, <2>13, AllAccountedNext
<1> QED BY <1>7, <1>8

LEMMA ConfigureLifeInv ==
  ASSUME TypeOK, TypeOK', LifeInv, ConfigureRuns
  PROVE  LifeInv'
BY PublishLifeInv, RetireLifeInv, RegisterLifeInv, ConnectLifeInv DEF ConfigureRuns

-----------------------------------------------------------------------------
(* The threads of a media. *)

LEMMA NeedDataLifeInv ==
  ASSUME TypeOK, TypeOK', LifeInv, NEW m \in Media, EmitNeedData(m) \/ NeedData(m)
  PROVE  LifeInv'
<1> USE DEF LifeInv, genVars, srcVars
<1>1. /\ UNCHANGED <<hooks, owned, media, caps, conf, unprep, stream>>
      /\ info'.appsrc = info.appsrc /\ info'.generation = info.generation
      /\ info'.caps = info.caps /\ source[m] \in {"run", "need"}
      /\ \A k \in Media : k # m => source'[k] = source[k]
      BY DEF EmitNeedData, NeedData, TypeOK, InfoRecord
<1>2. media[m] = "open"
      BY <1>1 DEF Sources
<1>3. \A k \in Media : k # m => refs'[k] = refs[k] /\ gen'[k] = gen[k]
      BY DEF EmitNeedData, NeedData, Unref, TypeOK
<1>4. Accounted(m) /\ (gen[m] \notin {"none", "freed"} <=> Held(m))
      BY AllAccounted, HeldIsAlive
<1>5. Accounted(m)' /\ (gen'[m] = gen[m] \/ (gen'[m] = "freed" /\ m \notin owned))
  <2>1. CASE EmitNeedData(m)
    <3>1. gen' = gen /\ source[m] = "run"
          BY <2>1 DEF EmitNeedData
    <3>2. CASE "flow" \in hooks[m]
      <4>1. refs'[m] = refs[m] + 1 /\ source'[m] = "need"
            BY <2>1, <3>2 DEF EmitNeedData, TypeOK
      <4>2. Holders(m)' = Holders(m) + 1
            BY <1>1, <3>1, <4>1, HoldersType DEF Holders, One
      <4>3. hooks[m] # {}
            BY <3>2
      <4> QED BY <1>4, <3>1, <4>1, <4>2, <4>3, HoldersType DEF Accounted, Held
    <3>3. CASE "flow" \notin hooks[m]
      <4>1. refs'[m] = refs[m] /\ source'[m] # "need"
            BY <2>1, <3>3 DEF EmitNeedData, TypeOK
      <4> QED BY <1>1, <1>4, <3>1, <4>1, AccountSame
    <3> QED BY <3>2, <3>3
  <2>2. CASE NeedData(m)
    <3>1. source[m] = "need" /\ source'[m] # "need" /\ Unref(m, 1, gen)
          BY <2>2 DEF NeedData, TypeOK
    <3>2. Holders(m)' = Holders(m) - 1
          BY <1>1, <3>1, HoldersType DEF Holders, One
    <3>3. gen \in [Media -> GenStates] /\ gen[m] \notin {"none", "freed"}
          BY <1>4, <3>1 DEF Held, TypeOK
    <3>4. Accounted(m)'
          BY <1>4, <3>1, <3>2, <3>3, AccountUnref
    <3>5. gen'[m] \in {gen[m], "freed"}
          BY <3>1 DEF Unref, TypeOK
    <3>6. m \in owned => Holders(m)' > 0
      <4>1. Cardinality(hooks'[m]) \in Nat
            BY <1>1, HoldersType
      <4> QED BY <1>1, <4>1 DEF Holders, One
    <3> QED BY <3>4, <3>5, <3>6 DEF Accounted
  <2> QED BY <2>1, <2>2
<1>6. ASSUME NEW k \in Media PROVE Accounted(k)'
  <2>1. CASE k # m
        BY <1>1, <1>3, <2>1, AccountSame, AllAccounted
  <2> QED BY <1>5, <2>1
<1>7. Sources'
      BY <1>1, <1>2 DEF Sources
<1>8. Configuring'
  <2>1. conf.media # m \/ conf.todo = <<>>
        BY <1>2 DEF Configuring
  <2> QED BY <1>1, <1>3, <2>1, ConfigureDistinct, RecordFields DEF Configuring, OrNone
<1>9. Unpreparing' /\ Owners' /\ Handling'
  <2>1. unprep[m].todo = <<>>
        BY <1>2 DEF Unpreparing
  <2>2. gen'[m] = "none" <=> gen[m] = "none"
        BY <1>4, <1>5 DEF Accounted, EmitNeedData, NeedData, Held
  <2>3. Unpreparing'
        BY <1>1, <1>3, <2>1 DEF Unpreparing
  <2>4. Owners'
    <3>1. gen[m] # "none" => m \in owned
          BY <1>2 DEF Owners
    <3> QED BY <1>1, <1>2, <1>3, <1>5, <2>2, <3>1 DEF Owners
  <2> QED BY <1>1, <2>3, <2>4 DEF Handling
<1>10. PublishedLive'
  <2>1. info.generation = m => gen'[m] = gen[m]
    <3> SUFFICES ASSUME info.generation = m, gen'[m] # gen[m] PROVE FALSE
        OBVIOUS
    <3>1. Holders(m)' > 0
      <4>1. Cardinality(hooks'[m]) \in Nat
            BY <1>1, HoldersType
      <4> QED BY <1>1, <4>1 DEF Holders, One
    <3> QED BY <1>5, <3>1 DEF Accounted
  <2> QED BY <1>1, <1>3, <2>1, RecordFields DEF PublishedLive, OrNone
<1>11. PublishedPair'
      BY <1>1, <1>3, <1>5 DEF PublishedPair
<1> QED BY <1>6, <1>7, <1>8, <1>9, <1>10, <1>11, AllAccountedNext

LEMMA StopLifeInv ==
  ASSUME TypeOK, LifeInv, NEW m \in Media, StopMedia(m)
  PROVE  LifeInv'
<1> USE DEF LifeInv, genVars
<1>1. /\ UNCHANGED <<info, refs, gen, hooks, owned, caps, conf, unprep, stream>>
      /\ media[m] = "open" /\ media'[m] = "closing" /\ source[m] # "need"
      /\ source'[m] = "stopped"
      /\ \A k \in Media : k # m => source'[k] = source[k] /\ media'[k] = media[k]
      BY DEF StopMedia, TypeOK
<1>2. Configuring'
  <2>1. conf.media # m \/ conf.todo = <<>>
        BY <1>1 DEF Configuring
  <2> QED BY <1>1, <2>1, RecordFields DEF Configuring, OrNone
<1>3. Unpreparing' /\ Owners'
  <2>1. unprep[m].todo = <<>>
        BY <1>1 DEF Unpreparing
  <2> QED BY <1>1, <2>1 DEF Unpreparing, Owners
<1>4. Handling' /\ Sources' /\ PublishedPair'
      BY <1>1 DEF Handling, Sources, PublishedPair
<1>5. PublishedLive'
      BY <1>1, RecordFields DEF PublishedLive, OrNone
<1>6. ASSUME NEW k \in Media PROVE Accounted(k)'
      BY <1>1, AccountSame, AllAccounted
<1> QED BY <1>2, <1>3, <1>4, <1>5, <1>6, AllAccountedNext

LEMMA OwnerFreeLifeInv ==
  ASSUME TypeOK, TypeOK', LifeInv, NEW m \in Media, OwnerFree(m)
  PROVE  LifeInv'
<1> USE DEF LifeInv, genVars
<1>1. /\ UNCHANGED <<info, caps, conf, unprep, stream>>
      /\ media[m] = "open" /\ media'[m] = "gone" /\ source[m] # "need"
      /\ source'[m] = "stopped" /\ owned' = owned \ {m}
      /\ \A k \in Media : k # m => source'[k] = source[k] /\ media'[k] = media[k]
      BY DEF OwnerFree, TypeOK
<1>2. \A k \in Media : k # m => refs'[k] = refs[k] /\ gen'[k] = gen[k] /\ hooks'[k] = hooks[k]
      BY DEF OwnerFree, Unref, Deactivated, Released, TypeOK
<1>3. Accounted(m)' /\ (gen'[m] = "none" <=> gen[m] = "none")
      /\ (m \in owned => gen'[m] \in {"cancelled", "freed"})
  <2>1. Accounted(m) /\ (gen[m] \notin {"none", "freed"} <=> Held(m))
        BY AllAccounted, HeldIsAlive
  <2>2. CASE m \notin owned
    <3>1. refs' = refs /\ gen' = gen /\ hooks' = hooks
          BY <2>2 DEF OwnerFree
    <3> QED BY <1>1, <2>1, <2>2, <3>1, AccountSame
  <2>3. CASE m \in owned
    <3>1. /\ Unref(m, 1 + Cardinality(hooks[m]), Deactivated(m))
          /\ hooks'[m] = {}
          BY <2>3 DEF OwnerFree, Released, TypeOK
    <3>2. Cardinality(hooks'[m]) = 0 /\ Cardinality(hooks[m]) \in Nat
          BY <3>1, HooksCount, HoldersType
    <3>3. PICK n \in Nat : n = 1 + Cardinality(hooks[m])
          BY <3>2
    <3>4. Holders(m)' = Holders(m) - n
          BY <1>1, <2>3, <3>2, <3>3 DEF Holders, One
    <3>5. Deactivated(m) \in [Media -> GenStates] /\ Deactivated(m)[m] = "cancelled"
          BY DeactivatedType DEF Deactivated, TypeOK
    <3>6. Accounted(m)'
          BY <2>1, <3>1, <3>2, <3>3, <3>4, <3>5, AccountUnref
    <3>7. gen'[m] \in {"cancelled", "freed"}
          BY <3>1 DEF Unref, Deactivated, TypeOK
    <3> QED BY <2>1, <2>3, <3>6, <3>7 DEF Held
  <2> QED BY <2>2, <2>3
<1>4. Configuring'
  <2>1. conf.media # m \/ conf.todo = <<>>
        BY <1>1 DEF Configuring
  <2> QED BY <1>1, <1>2, <2>1, ConfigureDistinct, RecordFields DEF Configuring, OrNone
<1>5. Unpreparing' /\ Owners'
  <2>1. unprep[m].todo = <<>>
        BY <1>1 DEF Unpreparing
  <2> QED BY <1>1, <1>2, <1>3, <2>1 DEF Unpreparing, Owners
<1>6. Handling' /\ Sources'
      BY <1>1 DEF Handling, Sources
<1>7. PublishedLive'
  <2>1. gen'[m] # "new" \/ info.generation # m
    <3>1. CASE m \in owned
          BY <1>3, <3>1
    <3>2. CASE m \notin owned
          BY <3>2, MediaNotNone DEF OwnerFree, PublishedLive
    <3> QED BY <3>1, <3>2
  <2> QED BY <1>1, <1>2, <2>1, RecordFields DEF PublishedLive, OrNone
<1>8. PublishedPair'
      BY <1>1, <1>2 DEF PublishedPair
<1>9. ASSUME NEW k \in Media PROVE Accounted(k)'
  <2>1. CASE k # m
        BY <1>1, <1>2, <2>1, AccountSame, AllAccounted
  <2> QED BY <1>3, <2>1
<1> QED BY <1>4, <1>5, <1>6, <1>7, <1>8, <1>9, AllAccountedNext

-----------------------------------------------------------------------------
(* media_unprepared_cb() *)

LEMMA UnpreparedLifeInv ==
  ASSUME TypeOK, TypeOK', LifeInv, NEW m \in Media, Unprepared(m)
  PROVE  LifeInv'
<1> USE DEF LifeInv, genVars
<1>1. /\ UNCHANGED <<info, refs, hooks, media, source, caps, conf, stream>>
      /\ media[m] = "closing" /\ unprep[m] = NoCall /\ owned' = owned \ {m}
      /\ \A k \in Media : k # m => unprep'[k] = unprep[k] /\ gen'[k] = gen[k]
      /\ gen'[m] = IF m \in owned THEN "cancelled" ELSE gen[m]
      BY DEF Unprepared, Deactivated, TypeOK, srcVars
<1>2. /\ unprep'[m].todo = Unprepare /\ unprep'[m].media \in {m, None}
      /\ unprep'[m].gen = IF m \in owned THEN m ELSE None
      /\ unprep'[m].current = FALSE
  <2>1. \A f, g : LET call == [NoCall EXCEPT !.todo = Unprepare, !.media = f, !.gen = g]
                  IN  /\ call.todo = Unprepare /\ call.media = f /\ call.gen = g
                      /\ call.current = FALSE
        BY DEF NoCall
  <2>2. \E f \in {m, None} :
          unprep'[m] = [NoCall EXCEPT !.todo = Unprepare, !.media = f,
                                      !.gen = IF m \in owned THEN m ELSE None]
        BY DEF Unprepared, TypeOK
  <2> QED BY <2>1, <2>2
<1>3. unprep[m].gen = None /\ ~unprep[m].current
      BY <1>1 DEF NoCall
<1>4. m \notin owned => gen[m] \in {"none"}
      BY <1>1 DEF Owners
<1>5. Accounted(m) /\ (gen[m] \notin {"none", "freed"} <=> Held(m))
      BY AllAccounted, HeldIsAlive
<1>6. ASSUME NEW k \in Media PROVE Accounted(k)'
  <2>1. CASE k # m
        BY <1>1, <2>1, AccountSame, AllAccounted
  <2>2. CASE k = m
    <3>1. Cardinality(hooks[m]) \in Nat
          BY HoldersType
    <3>2. Holders(m)' = Holders(m)
          BY <1>1, <1>2, <1>3, <3>1, MediaNotNone DEF Holders, One
    <3> QED BY <1>1, <1>5, <2>2, <3>2 DEF Accounted, Held
  <2> QED BY <2>1, <2>2
<1>7. Configuring'
  <2>1. conf.media # m \/ conf.todo = <<>>
        BY <1>1 DEF Configuring
  <2> QED BY <1>1, <2>1, ConfigureDistinct, RecordFields DEF Configuring, OrNone
<1>8. Unpreparing'
  <2>1. gen'[m] # "active" /\ (unprep'[m].gen = None => gen'[m] = "none")
        BY <1>1, <1>2, <1>4, MediaNotNone
  <2>2. m \notin owned' /\ media'[m] = "closing" /\ unprep'[m].todo # <<>>
        BY <1>1, <1>2, UnprepareTails
  <2> QED BY <1>1, <1>2, <2>1, <2>2 DEF Unpreparing
<1>9. Owners'
  <2>1. unprep'[m] # NoCall
        BY <1>2, UnprepareTails DEF NoCall
  <2> QED BY <1>1, <1>5, <2>1 DEF Owners, Held
<1>10. Handling' /\ Sources'
      BY <1>1 DEF Handling, Sources
<1>11. PublishedLive'
      BY <1>1, RecordFields DEF PublishedLive, OrNone
<1>12. PublishedPair'
      BY <1>1 DEF PublishedPair
<1> QED BY <1>6, <1>7, <1>8, <1>9, <1>10, <1>11, <1>12, AllAccountedNext

LEMMA DetachLifeInv ==
  ASSUME TypeOK, TypeOK', LifeInv, NEW m \in Media, Detach(m) \/ Unregister(m)
  PROVE  LifeInv'
<1> USE DEF LifeInv, genVars, srcVars
<1>1. /\ UNCHANGED <<refs, gen, hooks, owned, media, source, caps, conf, stream>>
      /\ unprep[m] \in UnprepareCall
      /\ \A k \in Media : k # m => unprep'[k] = unprep[k]
      BY DEF Detach, Unregister, TypeOK
<1>2. /\ unprep[m].todo \in {Unprepare, Unregistering} /\ unprep[m].todo # <<>>
      /\ Detach(m) => unprep[m].todo = Unprepare
      BY <1>1, UnprepareStep, UnprepareTails DEF Detach, Unregister, Step, UnprepareCall
<1>3. /\ media[m] = "closing" /\ m \notin owned /\ gen[m] # "active"
      /\ unprep[m].gen \in {m, None} /\ unprep[m].media \in {m, None}
      /\ unprep[m].gen = None => gen[m] = "none"
      /\ Detach(m) => ~unprep[m].current
      BY <1>2 DEF Unpreparing
<1>4. \A call \in UnprepareCall :
        /\ \A a \in OrNone :
             LET detached == [Continue(call) EXCEPT !.app = a, !.current = TRUE]
             IN /\ detached.todo = Tail(call.todo) /\ detached.gen = call.gen
                /\ detached.media = call.media /\ detached.current = TRUE
        /\ Continue(call).todo = Tail(call.todo) /\ Continue(call).gen = call.gen
        /\ Continue(call).media = call.media /\ Continue(call).current = call.current
      BY DEF Continue, UnprepareCall
<1>5. info.appsrc = info.generation
      BY DEF PublishedPair
<1>6. Accounted(m) /\ (gen[m] \notin {"none", "freed"} <=> Held(m))
      BY AllAccounted, HeldIsAlive
<1>7. /\ unprep'[m].todo = Tail(unprep[m].todo) /\ unprep'[m].gen = unprep[m].gen
      /\ unprep'[m].media = unprep[m].media
      /\ info'.caps = info.caps
      /\ \/ /\ unprep'[m].current = unprep[m].current
            /\ info'.appsrc = info.appsrc /\ info'.generation = info.generation
         \/ /\ unprep'[m].current /\ ~unprep[m].current
            /\ unprep[m].gen = m /\ info.generation = m
            /\ info'.appsrc = None /\ info'.generation = None
  <2>1. CASE Unregister(m)
    <3>1. unprep'[m] = Continue(unprep[m]) /\ info' = info
          BY <2>1 DEF Unregister, TypeOK
    <3> QED BY <1>1, <1>4, <3>1
  <2>2. CASE Detach(m) /\ Matches(unprep[m])
    <3>1. /\ unprep'[m] = [Continue(unprep[m]) EXCEPT !.app = info.appsrc, !.current = TRUE]
          /\ info' = [info EXCEPT !.appsrc = None, !.generation = None]
          /\ info.appsrc \in OrNone
          BY <2>2 DEF Detach, TypeOK, InfoRecord
    <3>2. info'.appsrc = None /\ info'.generation = None /\ info'.caps = info.caps
          BY <3>1 DEF TypeOK, InfoRecord
    <3>3. unprep[m].gen = m /\ info.generation = m
          BY <1>3, <2>2 DEF Matches
    <3>4. /\ unprep'[m].todo = Tail(unprep[m].todo) /\ unprep'[m].gen = unprep[m].gen
          /\ unprep'[m].media = unprep[m].media /\ unprep'[m].current = TRUE
          BY <1>1, <1>4, <3>1
    <3> QED BY <1>3, <2>2, <3>2, <3>3, <3>4
  <2>3. CASE Detach(m) /\ ~Matches(unprep[m])
    <3>1. unprep[m].media = None \/ info.appsrc # unprep[m].media
      <4> SUFFICES ASSUME unprep[m].media # None, info.appsrc = unprep[m].media
                   PROVE  FALSE
          OBVIOUS
      <4>1. info.generation = m
            BY <1>3, <1>5
      <4>2. unprep[m].gen = None
            BY <1>3, <2>3, <4>1, MediaNotNone DEF Matches
      <4> QED BY <1>3, <1>6, <4>1, <4>2 DEF Held
    <3>2. unprep'[m] = Continue(unprep[m]) /\ info' = info
          BY <2>3, <3>1 DEF Detach, TypeOK
    <3> QED BY <1>1, <1>4, <3>2
  <2> QED BY <2>1, <2>2, <2>3
<1>8. unprep'[m].todo \in {Unregistering, Releasing}
      BY <1>2, <1>7, UnprepareTails
<1>9. ASSUME NEW k \in Media PROVE Accounted(k)'
  <2>1. CASE k # m
    <3>1. (info.generation = k)' <=> info.generation = k
          BY <1>7, <2>1, MediaNotNone
    <3> QED BY <1>1, <2>1, <3>1, AccountSame, AllAccounted
  <2>2. CASE k = m
    <3>1. Cardinality(hooks[m]) \in Nat
          BY HoldersType
    <3>2. Holders(m)' = Holders(m)
      <4>1. One((info.generation = m)') + One(unprep'[m].current)
              = One(info.generation = m) + One(unprep[m].current)
            BY <1>7, MediaNotNone DEF One
      <4> QED BY <1>1, <1>7, <3>1, <4>1 DEF Holders, One
    <3> QED BY <1>1, <1>6, <2>2, <3>2 DEF Accounted
  <2> QED BY <2>1, <2>2
<1>10. Configuring'
  <2>1. conf.todo \in {Retiring, Registering} => info'.appsrc = info.appsrc
    <3>1. conf.todo \in {Retiring, Registering} => info.generation # m
          BY <1>3, <1>5, ConfigureDistinct DEF Configuring
    <3> QED BY <1>7, <3>1
  <2>2. conf.gen # None => info'.generation # conf.gen
        BY <1>7 DEF Configuring
  <2> QED BY <1>1, <2>1, <2>2 DEF Configuring
<1>11. Unpreparing'
  <2>1. unprep'[m].todo # <<>> /\ unprep'[m].todo # Unprepare
        BY <1>8, UnprepareDistinct
  <2>2. unprep'[m].current => unprep'[m].gen = m
        BY <1>7 DEF Unpreparing
  <2>3. /\ unprep'[m].gen \in {m, None} /\ unprep'[m].media \in {m, None}
        /\ unprep'[m].gen = None => gen'[m] = "none"
        /\ media'[m] = "closing" /\ m \notin owned' /\ gen'[m] # "active"
        BY <1>1, <1>3, <1>7
  <2> QED BY <1>1, <2>1, <2>2, <2>3 DEF Unpreparing
<1>12. Owners'
  <2>1. unprep[m] # NoCall /\ unprep'[m] # NoCall
        BY <1>2, <1>8, UnprepareTails DEF NoCall
  <2> QED BY <1>1, <2>1 DEF Owners
<1>13. Handling' /\ Sources' /\ PublishedLive'
      BY <1>1, <1>7 DEF Handling, Sources, PublishedLive
<1>14. PublishedPair'
      BY <1>1, <1>3, <1>5, <1>7 DEF PublishedPair
<1> QED BY <1>9, <1>10, <1>11, <1>12, <1>13, <1>14, AllAccountedNext

LEMMA ReleaseLifeInv ==
  ASSUME TypeOK, TypeOK', LifeInv, NEW m \in Media, Release(m)
  PROVE  LifeInv'
<1> USE DEF LifeInv, genVars, srcVars
<1>1. /\ UNCHANGED <<info, owned, source, caps, conf, stream>>
      /\ unprep'[m] = NoCall /\ media'[m] = "gone"
      /\ \A k \in Media : k # m => unprep'[k] = unprep[k] /\ media'[k] = media[k]
      BY DEF Release, TypeOK
<1>2. \A k \in Media : k # m => refs'[k] = refs[k] /\ gen'[k] = gen[k] /\ hooks'[k] = hooks[k]
      BY DEF Release, Unref, Released, TypeOK
<1>3. unprep[m].todo # <<>> /\ NoCall.todo = <<>> /\ NoCall.gen = None /\ ~NoCall.current
      /\ NoCall.media = None
      BY DEF Release, Step, NoCall
<1>4. /\ media[m] = "closing" /\ m \notin owned /\ gen[m] # "active"
      /\ unprep[m].gen \in {m, None} /\ (unprep[m].gen = None => gen[m] = "none")
      /\ unprep[m].current => unprep[m].gen = m
      BY <1>3 DEF Unpreparing
<1>5. Accounted(m)' /\ (gen'[m] = "none" <=> gen[m] = "none")
      /\ (gen'[m] \in {gen[m], "freed"})
  <2>1. Accounted(m) /\ (gen[m] \notin {"none", "freed"} <=> Held(m))
        BY AllAccounted, HeldIsAlive
  <2>2. CASE unprep[m].gen = None
    <3>1. refs' = refs /\ gen' = gen /\ hooks' = hooks
          BY <2>2 DEF Release
    <3> QED BY <1>1, <1>3, <1>4, <2>1, <2>2, <3>1, MediaNotNone, AccountSame
  <2>3. CASE unprep[m].gen # None
    <3>1. Cardinality(hooks[m]) \in Nat
          BY HoldersType
    <3>2. PICK n \in Nat : n = Cardinality(hooks[m]) + (IF unprep[m].current THEN 2 ELSE 1)
          BY <3>1
    <3>3. Unref(m, n, gen) /\ hooks'[m] = {}
          BY <2>3, <3>2 DEF Release, Released, TypeOK
    <3>4. Cardinality(hooks'[m]) = 0
          BY <3>3, HooksCount
    <3>5. unprep[m].current \in BOOLEAN
          BY DEF TypeOK, UnprepareCall
    <3>6. Holders(m)' = Holders(m) - n
          BY <1>1, <1>3, <1>4, <2>3, <3>1, <3>2, <3>4, <3>5, MediaNotNone, SMTT(30)
             DEF Holders, One
    <3>7. n > 0 /\ gen \in [Media -> GenStates] /\ gen[m] \notin {"none", "freed"}
          BY <1>4, <2>1, <2>3, <3>1, <3>2 DEF Held, TypeOK
    <3>8. Accounted(m)'
          BY <2>1, <3>3, <3>6, <3>7, AccountUnref
    <3>9. gen'[m] \in {gen[m], "freed"}
          BY <3>3 DEF Unref, TypeOK
    <3> QED BY <3>7, <3>8, <3>9
  <2> QED BY <2>2, <2>3
<1>6. Configuring'
  <2>1. conf.media # m \/ conf.todo = <<>>
        BY <1>4 DEF Configuring
  <2> QED BY <1>1, <1>2, <2>1, ConfigureDistinct, RecordFields DEF Configuring, OrNone
<1>7. Unpreparing'
      BY <1>1, <1>2, <1>3 DEF Unpreparing
<1>8. Owners'
      BY <1>1, <1>2, <1>4, <1>5 DEF Owners
<1>9. Handling' /\ Sources'
  <2>1. source[m] = "stopped"
        BY <1>4 DEF TypeOK, Sources
  <2> QED BY <1>1, <2>1 DEF Handling, Sources
<1>10. PublishedLive'
  <2>1. gen'[m] # "new" \/ info.generation # m
        BY <1>5, MediaNotNone DEF PublishedLive
  <2> QED BY <1>1, <1>2, <2>1, RecordFields DEF PublishedLive, OrNone
<1>11. PublishedPair'
      BY <1>1, <1>2, <1>4 DEF PublishedPair
<1>12. ASSUME NEW k \in Media PROVE Accounted(k)'
  <2>1. CASE k # m
        BY <1>1, <1>2, <2>1, AccountSame, AllAccounted
  <2> QED BY <1>5, <2>1
<1> QED BY <1>6, <1>7, <1>8, <1>9, <1>10, <1>11, <1>12, AllAccountedNext

-----------------------------------------------------------------------------
(* The encoder's streaming thread. *)

LEMMA SampleLifeInv ==
  ASSUME TypeOK, TypeOK', LifeInv, NEW key \in BOOLEAN, NEW c \in Caps, Sample(key, c)
  PROVE  LifeInv'
<1> USE DEF LifeInv, genVars
<1>1. /\ UNCHANGED <<gen, hooks, owned, media, source, conf, unprep>>
      /\ stream.pc = "wait" /\ stream.gen = None
      /\ stream'.gen = info.generation
      /\ stream'.app \in {None, info.appsrc}
      /\ stream'.pc \in {"check", "ask", "drop"} /\ (stream'.pc = "check" <=> stream'.app # None)
      BY DEF Sample, Handling, srcVars
<1>2. /\ info'.appsrc = info.appsrc /\ info'.generation = info.generation /\ info'.caps = c
      BY DEF Sample, TypeOK, InfoRecord
<1>3. info.appsrc = info.generation
      BY DEF PublishedPair
<1>4. Handling'
      BY <1>1, <1>3 DEF Handling
<1>5. Configuring' /\ Unpreparing' /\ Owners' /\ Sources' /\ PublishedLive'
      BY <1>1, <1>2 DEF Configuring, Unpreparing, Owners, Sources, PublishedLive
<1>6. PublishedPair'
  <2>1. info'.appsrc # None /\ info'.caps # None => caps'[info'.appsrc] = info'.caps
    <3>1. info.appsrc # None => info.appsrc \in Media
          BY RecordFields DEF OrNone
    <3>2. caps' = CapsFollow(c)
          BY DEF Sample
    <3> QED BY <1>2, <3>1, <3>2 DEF CapsFollow, TypeOK, PublishedPair
  <2> QED BY <1>1, <1>2, <2>1 DEF PublishedPair
<1>7. ASSUME NEW k \in Media PROVE Accounted(k)'
  <2>1. Accounted(k) /\ (gen[k] \notin {"none", "freed"} <=> Held(k))
        /\ Cardinality(hooks[k]) \in Nat
        BY AllAccounted, HeldIsAlive, HoldersType
  <2>2. CASE info.generation = k
    <3>1. refs'[k] = refs[k] + 1
          BY <2>2, MediaNotNone DEF Sample, TypeOK
    <3>2. Holders(k)' = Holders(k) + 1
          BY <1>1, <1>2, <2>1, <2>2, MediaNotNone DEF Holders, One
    <3>3. Holders(k) \in Nat /\ Holders(k) > 0
          BY <2>1, <2>2, HoldersType DEF Accounted, Held
    <3> QED BY <1>1, <2>1, <3>1, <3>2, <3>3 DEF Accounted
  <2>3. CASE info.generation # k
    <3>1. refs'[k] = refs[k]
          BY <2>3 DEF Sample, TypeOK
    <3>2. (stream.gen = k)' <=> stream.gen = k
          BY <1>1, <2>3, MediaNotNone
    <3> QED BY <1>1, <1>2, <2>1, <3>1, <3>2, AccountSame
  <2> QED BY <2>2, <2>3
<1> QED BY <1>4, <1>5, <1>6, <1>7, AllAccountedNext

(* The handler is done with its frame and its generation. *)
LEMMA FinishLifeInv ==
  ASSUME TypeOK, TypeOK', LifeInv,
         UNCHANGED <<info, hooks, owned, media, caps, conf, unprep>>,
         stream'.pc \in {"wait", "error"}, stream'.app = None, stream'.gen = None,
         \A m \in Media : /\ source'[m] = "need" <=> source[m] = "need"
                          /\ source'[m] # "stopped" => source[m] # "stopped",
         IF stream.gen = None THEN UNCHANGED <<refs, gen>> ELSE Unref(stream.gen, 1, gen)
  PROVE  LifeInv'
<1> USE DEF LifeInv
<1>1. Handling' /\ Sources'
      BY DEF Handling, Sources
<1>2. CASE stream.gen = None
  <2>1. UNCHANGED <<refs, gen>>
        BY <1>2
  <2>2. Configuring' /\ Unpreparing' /\ Owners' /\ PublishedLive' /\ PublishedPair'
        BY <2>1 DEF Configuring, Unpreparing, Owners, PublishedLive, PublishedPair
  <2>3. ASSUME NEW k \in Media PROVE Accounted(k)'
        BY <1>2, <2>1, AccountSame, AllAccounted
  <2> QED BY <1>1, <2>2, <2>3, AllAccountedNext
<1>3. CASE stream.gen # None
  <2> PICK o \in Media : o = stream.gen
      BY <1>3, RecordFields DEF OrNone
  <2>1. Accounted(o) /\ gen[o] \notin {"none", "freed"}
        BY AllAccounted, HeldIsAlive DEF Held
  <2>2. Unref(o, 1, gen) /\ o # None
        BY <1>3
  <2>3. \A k \in Media : k # o => refs'[k] = refs[k] /\ gen'[k] = gen[k]
        BY <2>2 DEF Unref, TypeOK
  <2>4. Accounted(o)'
    <3>1. Holders(o)' = Holders(o) - 1
      <4>1. Cardinality(hooks[o]) \in Nat
            BY HoldersType
      <4> QED BY <2>2, <4>1 DEF Holders, One
    <3> QED BY <2>1, <2>2, <3>1, AccountUnref DEF TypeOK
  <2>5. gen'[o] \in {gen[o], "freed"} /\ (gen'[o] = "freed" => gen[o] = "freed" \/ ~Held(o)')
    <3>1. gen'[o] \in {gen[o], "freed"}
          BY <2>2 DEF Unref, TypeOK
    <3>2. Held(o)' => Holders(o)' > 0
      <4>1. hooks'[o] \in {{}, Hooks}
            BY DEF TypeOK
      <4>2. Cardinality(hooks'[o]) \in Nat /\ (hooks'[o] # {} => Cardinality(hooks'[o]) > 0)
            BY <4>1, HooksCount
      <4> QED BY <4>2 DEF Held, Holders, One
    <3> QED BY <2>4, <3>1, <3>2 DEF Accounted
  <2>6. (o \in owned \/ info.generation = o) => gen'[o] = gen[o]
        BY <2>1, <2>5 DEF Held
  <2>7. Configuring'
    <3>1. conf.todo = Configure => gen'[conf.media] = gen[conf.media]
      <4>1. conf.todo = Configure => conf.media \in owned
            BY DEF Configuring
      <4> QED BY <2>3, <2>6, <4>1 DEF TypeOK
    <3> QED BY <3>1 DEF Configuring
  <2>8. Unpreparing' /\ Owners'
        BY <2>1, <2>3, <2>5, <2>6 DEF Unpreparing, Owners
  <2>9. PublishedLive'
        BY <2>3, <2>6, RecordFields DEF PublishedLive, OrNone
  <2>10. PublishedPair'
        BY <2>3, <2>5 DEF PublishedPair
  <2>11. ASSUME NEW k \in Media PROVE Accounted(k)'
    <3>1. CASE k # o
          BY <1>3, <2>3, <3>1, MediaNotNone, AccountSame, AllAccounted
    <3> QED BY <2>4, <3>1
  <2> QED BY <1>1, <2>7, <2>8, <2>9, <2>10, <2>11, AllAccountedNext
<1> QED BY <1>2, <1>3

LEMMA HandlerLifeInv ==
  ASSUME TypeOK, TypeOK', LifeInv, DropFrame \/ Interrupted \/ CopyFails \/ PushFails \/ Enqueue
  PROVE  LifeInv'
<1> USE DEF genVars
<1>1. CASE DropFrame \/ Interrupted \/ CopyFails \/ PushFails
  <2>1. \E pushed \in BOOLEAN, pc \in {"wait", "error"} : Finish(pushed, pc)
        BY <1>1 DEF DropFrame, Interrupted, CopyFails, PushFails
  <2>2. UNCHANGED <<info, hooks, owned, media, caps, conf, unprep, source>>
        BY <2>1 DEF Finish
  <2>3. stream'.pc \in {"wait", "error"} /\ stream'.app = None /\ stream'.gen = None
        BY <2>1 DEF Finish, Waiting
  <2>4. IF stream.gen = None THEN UNCHANGED <<refs, gen>> ELSE Unref(stream.gen, 1, gen)
        BY <2>1 DEF Finish
  <2> QED BY <2>2, <2>3, <2>4, FinishLifeInv
<1>2. CASE Enqueue
  <2>1. UNCHANGED <<info, hooks, owned, media, caps, conf, unprep>>
        BY <1>2 DEF Enqueue
  <2>2. stream'.pc \in {"wait", "error"} /\ stream'.app = None /\ stream'.gen = None
        BY <1>2 DEF Enqueue, Waiting
  <2>3. IF stream.gen = None THEN UNCHANGED <<refs, gen>> ELSE Unref(stream.gen, 1, gen)
        BY <1>2 DEF Enqueue
  <2>4. \A m \in Media : /\ source'[m] = "need" <=> source[m] = "need"
                         /\ source'[m] # "stopped" => source[m] # "stopped"
        BY <1>2 DEF Enqueue, TypeOK
  <2> QED BY <2>1, <2>2, <2>3, <2>4, FinishLifeInv
<1> QED BY <1>1, <1>2

LEMMA NextLifeInv == TypeOK /\ TypeOK' /\ LifeInv /\ [Next]_rtspVars => LifeInv'
<1> SUFFICES ASSUME TypeOK, TypeOK', LifeInv, [Next]_rtspVars PROVE LifeInv'
    OBVIOUS
<1>1. CASE \E m \in Media : Construct(m) \/ ConstructNoAppsrc(m) \/ ConstructFails(m)
      BY <1>1, ConstructLifeInv
<1>2. CASE ConfigureRuns
      BY <1>2, ConfigureLifeInv
<1>3. ASSUME NEW m \in Media, MediaRuns(m) \/ StopMedia(m) \/ UnprepareRuns(m) \/ OwnerFree(m)
      PROVE  LifeInv'
      BY <1>3, QuietSteps, NeedDataLifeInv, StopLifeInv, OwnerFreeLifeInv, UnpreparedLifeInv,
         DetachLifeInv, ReleaseLifeInv DEF MediaRuns, UnprepareRuns
<1>4. CASE SampleTaken \/ HandlerRuns
      BY <1>4, QuietSteps, SampleLifeInv, HandlerLifeInv DEF SampleTaken, HandlerRuns
<1>5. CASE Second \/ End \/ MainRuns \/ UNCHANGED rtspVars
      BY <1>5, QuietSteps
<1> QED BY <1>1, <1>2, <1>3, <1>4, <1>5 DEF Next

(***************************************************************************)
(* The counts, the registry and the flags of the media's threads, as they  *)
(* are kept from one callback of RtspServerBin to the next.                *)
(***************************************************************************)
THEOREM LifeInvariant == Spec => [](TypeOK /\ LifeInv)
<1>1. Init => TypeOK /\ LifeInv
      BY InitTypeOK, InitLifeInv
<1>2. (TypeOK /\ LifeInv) /\ [Next]_rtspVars => (TypeOK /\ LifeInv)'
      BY NextTypeOK, NextLifeInv
<1> QED BY <1>1, <1>2, PTL DEF Spec

(***************************************************************************)
(* Whichever thread comes last frees a media's generation, and nobody uses *)
(* it afterwards.                                                          *)
(***************************************************************************)
THEOREM LastFrees == Spec => []FreedByTheLast
<1>1. LifeInv => FreedByTheLast
      BY DEF LifeInv
<1> QED BY <1>1, LifeInvariant, PTL

(***************************************************************************)
(* RtspServerData always publishes the appsrc and the generation of one    *)
(* media, the newest that is still prepared, with the encoder's caps.      *)
(***************************************************************************)
THEOREM PublishesPair == Spec => []PublishedPair
<1>1. LifeInv => PublishedPair
      BY DEF LifeInv
<1> QED BY <1>1, LifeInvariant, PTL

-----------------------------------------------------------------------------
(* The registry *)

LEMMA RegistryHeldIsAlive == RegistryHeld => RegistryAlive
BY DEF RegistryHeld, RegistryAlive, DetachedApp

(* A step that leaves the published appsrc and the two callbacks alone. *)
LEMMA QuietRegistry ==
  ASSUME RegistryHeld, registry' \in {registry, None}, info'.appsrc = info.appsrc,
         UNCHANGED <<conf, unprep>>
  PROVE  RegistryHeld'
BY DEF RegistryHeld, DetachedApp

LEMMA QuietRegistrySteps ==
  ASSUME TypeOK, RegistryHeld,
         \/ \E m \in Media : MediaRuns(m) \/ StopMedia(m) \/ OwnerFree(m)
         \/ SampleTaken \/ HandlerRuns \/ Second \/ End \/ MainRuns
         \/ UNCHANGED rtspVars
  PROVE  RegistryHeld'
<1>1. UNCHANGED <<conf, unprep>> /\ registry' \in {registry, None}
      BY DEF MediaRuns, Pull, EmitNeedData, NeedData, StopMedia, OwnerFree, SampleTaken,
             Sample, HandlerRuns, DropFrame, Interrupted, CopyFails, CopyFrame, PushFull,
             EnoughData, Enqueue, PushFails, Finish, GoOn, Second, End, MainRuns,
             CollectTargets, SendEos, StopServer, rtspVars
<1>2. info' = info \/ SampleTaken \/ EnoughData \/ \E m \in Media : NeedData(m)
      BY DEF MediaRuns, Pull, EmitNeedData, NeedData, StopMedia, OwnerFree, SampleTaken,
             HandlerRuns, DropFrame, Interrupted, CopyFails, CopyFrame, PushFull,
             Enqueue, PushFails, Finish, GoOn, Second, End, MainRuns,
             CollectTargets, SendEos, StopServer, rtspVars
<1>3. info'.appsrc = info.appsrc
  <2>1. info \in InfoRecord
        BY DEF TypeOK
  <2>2. CASE SampleTaken
    <3>1. PICK key \in BOOLEAN, c \in Caps : Sample(key, c)
          BY <2>2 DEF SampleTaken
    <3> QED BY <2>1, <3>1 DEF Sample, InfoRecord
  <2>3. CASE EnoughData
        BY <2>1, <2>3 DEF EnoughData, InfoRecord
  <2>4. CASE \E m \in Media : NeedData(m)
        BY <2>1, <2>4 DEF NeedData, InfoRecord
  <2> QED BY <1>2, <2>2, <2>3, <2>4
<1> QED BY <1>1, <1>3, QuietRegistry

LEMMA ConstructRegistry ==
  ASSUME TypeOK, LifeInv, RegistryHeld, NEW m \in Media,
         Construct(m) \/ ConstructNoAppsrc(m) \/ ConstructFails(m)
  PROVE  RegistryHeld'
<1>1. conf.todo = <<>> /\ UNCHANGED <<registry, unprep>>
      BY DEF Construct, ConstructNoAppsrc, ConstructFails
<1>2. conf.todo \notin {Retiring, Registering, Withdraw}
      BY <1>1, ConfigureDistinct
<1>3. CASE info' = info
      BY <1>1, <1>2, <1>3 DEF RegistryHeld, DetachedApp
<1>4. CASE ConstructNoAppsrc(m)
  <2>1. conf'.todo = Withdraw /\ conf'.app = info.appsrc
        BY <1>4 DEF ConstructNoAppsrc, NoCall
  <2> QED BY <1>1, <1>2, <2>1 DEF RegistryHeld, DetachedApp
<1> QED BY <1>3, <1>4 DEF Construct, ConstructFails

LEMMA ConfigureRegistry ==
  ASSUME TypeOK, LifeInv, RegistryHeld, ConfigureRuns
  PROVE  RegistryHeld'
<1>1. conf.todo \in ConfigureTodos /\ UNCHANGED unprep
      BY DEF TypeOK, Call, ConfigureRuns, Publish, RetireOld, Register, UnrefOld, Connect
<1>2. conf \in Call /\ (~Connect => conf'.todo = Tail(conf.todo))
      BY DEF TypeOK, Call, ConfigureRuns, Publish, RetireOld, Register, UnrefOld, Continue
<1>3. CASE Publish
  <2>1. conf.todo = Configure /\ conf'.todo = Retiring /\ conf'.app = info.appsrc
        BY <1>1, <1>2, <1>3, ConfigureStep, ConfigureTails DEF Publish, Continue, Call
  <2>2. conf.todo \notin {Retiring, Registering, Withdraw} /\ registry' = registry
        BY <1>3, <2>1, ConfigureDistinct DEF Publish
  <2> QED BY <1>1, <2>1, <2>2 DEF RegistryHeld, DetachedApp
<1>4. CASE RetireOld
  <2>1. /\ conf.todo \in {Retiring, WithdrawnRetiring} /\ conf'.app = conf.app
        /\ UNCHANGED <<info, registry>>
        BY <1>1, <1>2, <1>4, ConfigureStep DEF RetireOld, Continue, Call
  <2>2. conf.todo \in {Retiring, Registering, Withdraw} => conf'.todo = Registering
        BY <1>2, <1>4, <2>1, ConfigureTails, ConfigureDistinct
           DEF RetireOld, Continue, Call
  <2> QED BY <1>1, <2>1, <2>2 DEF RegistryHeld, DetachedApp
<1>5. CASE Register
  <2>1. CASE conf.todo = Registering
    <3>1. registry' = conf.media /\ info' = info
          BY <1>1, <1>5, <2>1, ConfigureStep, ConfigureDistinct DEF Register
    <3>2. info.appsrc = conf.media
          BY <2>1 DEF LifeInv, Configuring
    <3> QED BY <3>1, <3>2 DEF RegistryHeld
  <2>2. CASE conf.todo = Withdraw
    <3>1. registry' = (IF registry = conf.app THEN None ELSE registry) /\ info' = info
          BY <1>1, <1>5, <2>2, ConfigureStep, ConfigureDistinct DEF Register
    <3> QED BY <1>1, <3>1 DEF RegistryHeld, DetachedApp
  <2> QED BY <1>1, <1>5, <2>1, <2>2, ConfigureStep DEF Register
<1>6. CASE UnrefOld \/ Connect
  <2>1. conf.todo \in {Unreffing, Connecting} /\ UNCHANGED <<info, registry>>
        BY <1>1, <1>6, ConfigureStep DEF UnrefOld, Connect
  <2>2. conf.todo \notin {Retiring, Registering, Withdraw}
        BY <2>1, ConfigureDistinct
  <2> QED BY <1>1, <2>1, <2>2 DEF RegistryHeld, DetachedApp
<1> QED BY <1>3, <1>4, <1>5, <1>6 DEF ConfigureRuns

LEMMA UnprepareRegistry ==
  ASSUME TypeOK, LifeInv, RegistryHeld, NEW m \in Media, UnprepareRuns(m)
  PROVE  RegistryHeld'
<1>1. /\ unprep[m].todo \in UnprepareTodos /\ unprep[m] \in UnprepareCall /\ conf' = conf
      /\ \A k \in Media : k # m => unprep'[k] = unprep[k]
      BY DEF TypeOK, UnprepareCall, UnprepareRuns, Unprepared, Detach, Unregister, Release
<1>2. CASE Unprepared(m) \/ Release(m)
  <2>1. unprep[m].todo \in {<<>>, Releasing} /\ UNCHANGED <<info, registry>>
        BY <1>1, <1>2, UnprepareStep DEF Unprepared, Release, NoCall
  <2>2. unprep[m].todo # Unregistering
        BY <2>1, UnprepareDistinct
  <2> QED BY <1>1, <2>1, <2>2 DEF RegistryHeld, DetachedApp
<1>3. CASE Unregister(m)
  <2>1. registry' = (IF registry = DetachedApp(unprep[m]) THEN None ELSE registry)
        BY <1>3 DEF Unregister
  <2>2. info' = info
        BY <1>3 DEF Unregister
  <2> QED BY <1>1, <2>1, <2>2 DEF RegistryHeld, DetachedApp
<1>4. CASE Detach(m)
  <2>1. unprep[m].todo = Unprepare /\ registry' = registry
        BY <1>1, <1>4, UnprepareStep DEF Detach
  <2>2. unprep[m] \in [todo : UnprepareTodos, media : OrNone, app : OrNone, gen : OrNone,
                       current : BOOLEAN]
        BY <1>1 DEF UnprepareCall
  <2>3. \/ info'.appsrc = info.appsrc
        \/ unprep'[m].todo = Unregistering /\ unprep'[m].app = info.appsrc
    <3>1. info \in InfoRecord /\ unprep \in [Media -> UnprepareCall]
          BY DEF TypeOK
    <3>2. \/ /\ info' = [info EXCEPT !.appsrc = None, !.generation = None]
             /\ unprep'[m] = [Continue(unprep[m]) EXCEPT !.app = info.appsrc, !.current = TRUE]
          \/ /\ info' = [info EXCEPT !.appsrc = None]
             /\ unprep'[m] = [Continue(unprep[m]) EXCEPT !.app = info.appsrc]
          \/ info' = info
          BY <1>4, <3>1 DEF Detach
    <3>3. CASE unprep'[m] = [Continue(unprep[m]) EXCEPT !.app = info.appsrc, !.current = TRUE]
          BY <1>1, <2>1, <2>2, <3>3, UnprepareTails DEF Continue
    <3>4. CASE unprep'[m] = [Continue(unprep[m]) EXCEPT !.app = info.appsrc]
          BY <1>1, <2>1, <2>2, <3>4, UnprepareTails DEF Continue
    <3> QED BY <3>2, <3>3, <3>4
  <2>4. unprep[m].todo # Unregistering
        BY <2>1, UnprepareDistinct
  <2> QED BY <1>1, <2>1, <2>3, <2>4 DEF RegistryHeld, DetachedApp
<1> QED BY <1>2, <1>3, <1>4 DEF UnprepareRuns

LEMMA NextRegistryHeld ==
  TypeOK /\ LifeInv /\ RegistryHeld /\ [Next]_rtspVars => RegistryHeld'
BY QuietRegistrySteps, ConstructRegistry, ConfigureRegistry, UnprepareRegistry DEF Next

(***************************************************************************)
(* g_rtsp_appsrc never holds an appsrc that nobody keeps alive: an entry   *)
(* is taken out before the callback that withdrew it gives its own         *)
(* reference back.                                                         *)
(***************************************************************************)
THEOREM RegistryStaysAlive == Spec => []RegistryAlive
<1>1. Init => RegistryHeld
      BY DEF Init, RegistryHeld
<1>2. Spec => []RegistryHeld
      BY <1>1, LifeInvariant, NextRegistryHeld, PTL DEF Spec
<1> QED BY <1>2, RegistryHeldIsAlive, PTL

-----------------------------------------------------------------------------
(* The flow *)

LEMMA FlowIsDecodable == Handling /\ FlowGap => Decodable
BY DEF Handling, FlowGap, NoGap, Decodable

(* A media that is published, or that a frame is for, has been constructed. *)
LEMMA ReachedIsConstructed ==
  ASSUME TypeOK, LifeInv, NEW m \in Media, info.appsrc = m \/ stream.app = m
  PROVE  media[m] # "none"
<1> USE DEF LifeInv
<1>1. CASE info.appsrc = m
  <2>1. info.generation = m /\ m # None
        BY <1>1, MediaNotNone DEF PublishedPair
  <2> QED BY <2>1 DEF PublishedLive, Owners
<1>2. CASE stream.app = m
  <2>1. stream.gen = m
        BY <1>2, MediaNotNone DEF Handling
  <2>2. gen[m] # "none"
        BY <2>1, AllAccounted, HeldIsAlive DEF Held
  <2> QED BY <2>2 DEF Owners
<1> QED BY <1>1, <1>2

(* What is published and still takes buffers is active, with its signals. *)
LEMMA AcceptingIsLive ==
  ASSUME TypeOK, LifeInv, NEW m \in Media, info.appsrc = m, Accepts(m)
  PROVE  Current(m) /\ "flow" \in hooks[m]
<1>1. info.generation = m /\ m # None
      BY MediaNotNone DEF LifeInv, PublishedPair
<1>2. gen[m] = "active" /\ hooks[m] = Hooks
      BY <1>1 DEF LifeInv, PublishedLive, Accepts
<1> QED BY <1>1, <1>2, HooksCount DEF Current, Active

(* A step that lets no further appsrc take buffers or wait for one.        *)
LEMMA QuietFlow ==
  ASSUME LifeInv, FlowInv, UNCHANGED <<gap, stream>>,
         info'.appsrc \in {info.appsrc, None},
         info'.full = info.full, info'.wait_keyframe = info.wait_keyframe,
         is_interrupted => is_interrupted',
         \A m : m \in {info.appsrc, stream.app} /\ m # None =>
           /\ Accepts(m)' => Accepts(m)
           /\ source'[m] = "starving" => source[m] = "starving"
  PROVE  FlowInv'
<1>1. FlowGap'
      BY DEF FlowInv, FlowGap, NoGap
<1>2. FlowFull'
      BY DEF LifeInv, Handling, FlowInv, FlowFull
<1>3. NeverWedged'
      BY DEF FlowInv, NeverWedged
<1> QED BY <1>1, <1>2, <1>3 DEF FlowInv

LEMMA ConstructFlow ==
  ASSUME TypeOK, LifeInv, FlowInv, NEW m \in Media,
         Construct(m) \/ ConstructNoAppsrc(m) \/ ConstructFails(m)
  PROVE  FlowInv'
<1> USE DEF genVars, srcVars
<1>1. /\ UNCHANGED <<gap, stream, source, eos, is_interrupted>>
      /\ media[m] = "none" /\ \A k \in Media : k # m => media'[k] = media[k]
      BY DEF TypeOK, Construct, ConstructNoAppsrc, ConstructFails
<1>2. /\ info'.appsrc \in {info.appsrc, None} /\ info'.full = info.full
      /\ info'.wait_keyframe = info.wait_keyframe
  <2>1. CASE ConstructNoAppsrc(m)
        BY <2>1 DEF ConstructNoAppsrc, TypeOK, InfoRecord
  <2> QED BY <2>1 DEF Construct, ConstructFails
<1>3. m # info.appsrc /\ m # stream.app
      BY <1>1, ReachedIsConstructed
<1>4. \A k : k \in {info.appsrc, stream.app} /\ k # None => k \in Media
      BY RecordFields DEF OrNone
<1> QED BY <1>1, <1>2, <1>3, <1>4, QuietFlow DEF Accepts

LEMMA ConfigureFlow ==
  ASSUME TypeOK, LifeInv, FlowInv, ConfigureRuns
  PROVE  FlowInv'
<1> USE DEF genVars, srcVars
<1>1. CASE Publish
  <2>1. info'.wait_keyframe = Video /\ info'.full = FALSE
        BY <1>1 DEF Publish, Published, TypeOK, InfoRecord
  <2>2. UNCHANGED <<gap, stream, media, eos, is_interrupted>>
        BY <1>1 DEF Publish
  <2>3. FlowGap'
        BY <2>1, <2>2 DEF FlowInv, FlowGap, NoGap, Accepts
  <2>4. FlowFull' /\ NeverWedged'
        BY <2>1 DEF FlowFull, NeverWedged
  <2> QED BY <2>3, <2>4 DEF FlowInv
<1>2. CASE RetireOld \/ Register \/ UnrefOld
  <2>1. UNCHANGED <<info, gap, stream, media, source, eos, is_interrupted>>
        BY <1>2 DEF RetireOld, Register, UnrefOld
  <2> QED BY <2>1, QuietFlow DEF Accepts
<1>3. CASE Connect
  <2>1. /\ UNCHANGED <<info, gap, stream, eos, is_interrupted>>
        /\ \A k \in Media : k # conf.media => media'[k] = media[k] /\ source'[k] = source[k]
        BY <1>3 DEF Connect, TypeOK
  <2>2. conf.media \in Media /\ media[conf.media] = "built"
        BY <1>3, RecordFields DEF Connect, Step, LifeInv, Configuring, OrNone
  <2>3. source'[conf.media] = "starving" => source[conf.media] = "starving"
        BY <1>3, <2>2 DEF Connect, TypeOK
  <2>4. \A k : k \in {info.appsrc, stream.app} /\ k # None => k \in Media
        BY RecordFields DEF OrNone
  <2> QED BY <2>1, <2>2, <2>3, <2>4, QuietFlow DEF Accepts
<1> QED BY <1>1, <1>2, <1>3 DEF ConfigureRuns

LEMMA MediaFlow ==
  ASSUME TypeOK, LifeInv, FlowInv, NEW m \in Media,
         MediaRuns(m) \/ StopMedia(m) \/ UnprepareRuns(m) \/ OwnerFree(m)
  PROVE  FlowInv'
<1> USE DEF genVars, srcVars
<1>1. /\ UNCHANGED <<gap, stream, eos, is_interrupted>>
      BY DEF MediaRuns, Pull, EmitNeedData, NeedData, StopMedia, UnprepareRuns, Unprepared,
             Detach, Unregister, Release, OwnerFree
<1>2. /\ \A k \in Media : Accepts(k)' => Accepts(k)
      /\ \A k \in Media : k # m => source'[k] = source[k]
  <2>1. \A k \in Media : media'[k] \in {media[k], "closing", "gone"}
        BY DEF TypeOK, MediaRuns, Pull, EmitNeedData, NeedData, StopMedia, UnprepareRuns,
               Unprepared, Detach, Unregister, Release, OwnerFree
  <2>2. \A k \in Media : k # m => source'[k] = source[k]
        BY DEF TypeOK, MediaRuns, Pull, EmitNeedData, NeedData, StopMedia, UnprepareRuns,
               Unprepared, Detach, Unregister, Release, OwnerFree
  <2> QED BY <1>1, <2>1, <2>2 DEF Accepts
<1>3. \A k : k \in {info.appsrc, stream.app} /\ k # None => k \in Media
      BY RecordFields DEF OrNone
<1>4. CASE Pull(m) \/ StopMedia(m) \/ OwnerFree(m) \/ UnprepareRuns(m)
  <2>1. source'[m] = "starving" => source[m] = "starving"
        BY <1>4 DEF TypeOK, Pull, StopMedia, OwnerFree, UnprepareRuns, Unprepared, Detach,
                    Unregister, Release
  <2>2. /\ info'.appsrc \in {info.appsrc, None} /\ info'.full = info.full
        /\ info'.wait_keyframe = info.wait_keyframe
    <3>1. CASE Detach(m)
          BY <3>1 DEF Detach, TypeOK, InfoRecord
    <3>2. CASE ~Detach(m)
          BY <1>4, <3>2 DEF Pull, StopMedia, OwnerFree, UnprepareRuns, Unprepared,
                            Unregister, Release
    <3> QED BY <3>1, <3>2
  <2> QED BY <1>1, <1>2, <1>3, <2>1, <2>2, QuietFlow
<1>5. CASE EmitNeedData(m)
  <2>1. info' = info /\ UNCHANGED media
        BY <1>5 DEF EmitNeedData
  <2>2. CASE info.appsrc = m /\ Accepts(m)
    <3>1. source'[m] = "need"
          BY <1>5, <2>2, AcceptingIsLive DEF EmitNeedData, TypeOK
    <3>2. FlowGap' /\ FlowFull'
          BY <1>1, <2>1 DEF FlowInv, FlowGap, FlowFull, NoGap, Accepts
    <3>3. NeverWedged'
          BY <2>1, <2>2, <3>1 DEF NeverWedged
    <3> QED BY <3>2, <3>3 DEF FlowInv
  <2>3. CASE ~(info.appsrc = m /\ Accepts(m))
    <3>1. FlowGap' /\ FlowFull'
          BY <1>1, <2>1 DEF FlowInv, FlowGap, FlowFull, NoGap, Accepts
    <3>2. NeverWedged'
          BY <1>1, <1>2, <1>3, <2>1, <2>3 DEF FlowInv, NeverWedged, Accepts
    <3> QED BY <3>1, <3>2 DEF FlowInv
  <2> QED BY <2>2, <2>3
<1>6. CASE NeedData(m)
  <2>1. /\ info'.appsrc = info.appsrc /\ info'.wait_keyframe = info.wait_keyframe
        /\ info'.full => info.full /\ ~Current(m)
        /\ UNCHANGED media
        BY <1>6 DEF NeedData, TypeOK, InfoRecord
  <2>2. FlowGap' /\ FlowFull'
        BY <1>1, <2>1 DEF FlowInv, FlowGap, FlowFull, NoGap, Accepts
  <2>3. NeverWedged'
    <3>1. CASE info.appsrc = m /\ Accepts(m)
          BY <2>1, <3>1, AcceptingIsLive DEF NeverWedged
    <3>2. CASE ~(info.appsrc = m /\ Accepts(m))
          BY <1>1, <1>2, <1>3, <2>1, <3>2 DEF FlowInv, NeverWedged, Accepts
    <3> QED BY <3>1, <3>2
  <2> QED BY <2>2, <2>3 DEF FlowInv
<1> QED BY <1>4, <1>5, <1>6 DEF MediaRuns

LEMMA SampleFlow ==
  ASSUME TypeOK, LifeInv, FlowInv, NEW key \in BOOLEAN, NEW c \in Caps, Sample(key, c)
  PROVE  FlowInv'
<1> USE DEF genVars, srcVars
<1>1. PICK app : app = IF Dropped(key) THEN None ELSE info.appsrc
      OBVIOUS
<1>2. /\ stream.pc = "wait" /\ stream.app = None
      /\ UNCHANGED <<media, source, eos, is_interrupted>>
      BY DEF Sample, LifeInv, Handling
<1>3. /\ info'.appsrc = info.appsrc /\ info'.full = info.full
      /\ info'.wait_keyframe = Dropped(key)
      BY DEF Sample, WaitsAfter, TypeOK, InfoRecord
<1>4. /\ stream'.app = app /\ stream'.key = key
      /\ stream'.pc = "check" <=> app # None
      /\ stream'.pc # "push"
      BY <1>1 DEF Sample
<1>5. app \in Media => gap'[app] = gap[app]
      BY <1>1 DEF Sample, TypeOK
<1>6. ~Video => key
      BY DEF Sample
<1>7. FlowGap'
  <2>1. app # None => key \/ NoGap(app) \/ is_interrupted
        BY <1>1, <1>2, <1>6 DEF Dropped, FlowInv, FlowGap
  <2>2. app # None => app \in Media
        BY <1>1, RecordFields DEF OrNone
  <2>3. app # None => (key \/ NoGap(app)' \/ (is_interrupted' /\ stream'.pc = "check"))
        BY <1>2, <1>4, <1>5, <2>1, <2>2 DEF NoGap, Accepts
  <2>4. ~info'.wait_keyframe => app = info'.appsrc
        BY <1>1, <1>3
  <2> QED BY <1>4, <2>3, <2>4 DEF FlowGap, NoGap
<1>8. FlowFull'
      BY <1>1, <1>3, <1>4 DEF FlowFull, Dropped
<1>9. NeverWedged'
      BY <1>2, <1>3 DEF FlowInv, NeverWedged, Accepts
<1> QED BY <1>7, <1>8, <1>9 DEF FlowInv

LEMMA HandlerFlow ==
  ASSUME TypeOK, LifeInv, FlowInv, HandlerRuns
  PROVE  FlowInv'
<1> USE DEF genVars, srcVars
<1>1. stream.app \in OrNone /\ info.appsrc \in OrNone
      BY RecordFields
<1>2. UNCHANGED <<media, eos, is_interrupted>>
      BY DEF HandlerRuns, DropFrame, Interrupted, CopyFails, CopyFrame, PushFull, EnoughData,
             Enqueue, PushFails, Finish, GoOn
<1>3. CASE DropFrame \/ Interrupted \/ CopyFails \/ PushFails
  <2>1. /\ UNCHANGED <<info, source>> /\ stream'.app = None
        /\ stream'.pc \in {"wait", "error"} /\ (CopyFails => stream'.pc = "error")
        /\ \A k \in Media : k # stream.app => gap'[k] = gap[k]
        BY <1>3 DEF DropFrame, Interrupted, CopyFails, PushFails, Finish, Waiting, TypeOK
  <2>2. DropFrame => stream.app = None
        BY DEF DropFrame, LifeInv, Handling
  <2>3. \/ stream.app = None \/ is_interrupted \/ stream'.pc = "error" \/ ~Accepts(stream.app)
        BY <1>3, <2>1, <2>2 DEF Interrupted, PushFails
  <2>4. FlowGap'
    <3>1. CASE info.appsrc = stream.app
          BY <1>2, <2>1, <2>3, <3>1 DEF FlowGap, NoGap, Accepts
    <3>2. CASE info.appsrc # stream.app
      <4>1. stream.pc # "error"
            BY <1>3 DEF DropFrame, Interrupted, CopyFails, PushFails
      <4> QED BY <1>1, <1>2, <2>1, <3>2, <4>1 DEF FlowInv, FlowGap, NoGap, Accepts, OrNone
    <3> QED BY <3>1, <3>2
  <2>5. FlowFull'
        BY <2>1 DEF FlowFull
  <2>6. NeverWedged'
    <3>1. CASE info.appsrc = stream.app /\ info.appsrc # None
      <4>1. ~info.full \/ ~Accepts(stream.app)
            BY <1>3, <2>2, <3>1 DEF Interrupted, CopyFails, PushFails, FlowInv, FlowFull
      <4> QED BY <1>2, <2>1, <3>1, <4>1 DEF NeverWedged, Accepts
    <3>2. CASE info.appsrc # stream.app \/ info.appsrc = None
          BY <1>2, <2>1, <3>2 DEF FlowInv, NeverWedged, Accepts
    <3> QED BY <3>1, <3>2
  <2> QED BY <2>4, <2>5, <2>6 DEF FlowInv
<1>4. CASE CopyFrame \/ PushFull
  <2>1. /\ UNCHANGED <<info, source, gap>> /\ stream'.app = stream.app
        /\ stream'.key = stream.key /\ stream'.pc # "check" /\ stream.pc \in {"check", "push"}
        /\ stream.pc = "check" => ~is_interrupted
        BY <1>4 DEF CopyFrame, PushFull, GoOn, TypeOK, StreamRecord
  <2>2. FlowGap'
        BY <1>2, <2>1 DEF FlowInv, FlowGap, NoGap, Accepts
  <2>3. FlowFull'
        BY <2>1 DEF FlowInv, FlowFull
  <2>4. NeverWedged'
        BY <1>2, <2>1 DEF FlowInv, NeverWedged, Accepts
  <2> QED BY <2>2, <2>3, <2>4 DEF FlowInv
<1>5. CASE EnoughData
  <2>1. /\ UNCHANGED <<source, gap>> /\ stream'.app = stream.app /\ stream'.key = stream.key
        /\ stream'.pc = "enqueue" /\ stream.pc = "enough" /\ info'.appsrc = info.appsrc
        /\ info'.wait_keyframe = info.wait_keyframe
        /\ info'.full => info.full \/ Current(stream.app)
        BY <1>5 DEF EnoughData, GoOn, TypeOK, StreamRecord, InfoRecord
  <2>2. FlowGap'
        BY <1>2, <2>1 DEF FlowInv, FlowGap, NoGap, Accepts
  <2>3. FlowFull'
        BY <2>1 DEF FlowFull
  <2>4. Current(stream.app) => info.appsrc = stream.app
        BY DEF Current, LifeInv, PublishedPair
  <2>5. NeverWedged'
        BY <1>2, <2>1, <2>4 DEF FlowInv, NeverWedged, Accepts
  <2> QED BY <2>2, <2>3, <2>5 DEF FlowInv
<1>6. CASE Enqueue
  <2>1. stream.app \in Media /\ stream.pc # "error"
        BY <1>1, <1>6 DEF Enqueue, LifeInv, Handling, OrNone
  <2>2. /\ info' = info /\ stream'.app = None /\ stream'.pc = "wait"
        /\ gap'[stream.app] = FALSE /\ source'[stream.app] # "starving"
        /\ \A k \in Media : k # stream.app => gap'[k] = gap[k] /\ source'[k] = source[k]
        BY <1>6, <2>1 DEF Enqueue, Waiting, TypeOK
  <2>3. FlowGap'
    <3>1. CASE info.appsrc = stream.app
          BY <2>2, <3>1 DEF FlowGap, NoGap
    <3>2. CASE info.appsrc # stream.app
          BY <1>1, <1>2, <2>1, <2>2, <3>2 DEF FlowInv, FlowGap, NoGap, Accepts, OrNone
    <3> QED BY <3>1, <3>2
  <2>4. FlowFull'
        BY <2>2 DEF FlowFull
  <2>5. NeverWedged'
    <3>1. CASE info.appsrc = stream.app
          BY <2>2, <3>1 DEF NeverWedged
    <3>2. CASE info.appsrc # stream.app
          BY <1>1, <1>2, <2>2, <3>2 DEF FlowInv, NeverWedged, Accepts, OrNone
    <3> QED BY <3>1, <3>2
  <2> QED BY <2>3, <2>4, <2>5 DEF FlowInv
<1> QED BY <1>3, <1>4, <1>5, <1>6 DEF HandlerRuns

LEMMA MainFlow ==
  ASSUME TypeOK, LifeInv, FlowInv, Second \/ End \/ MainRuns \/ UNCHANGED rtspVars
  PROVE  FlowInv'
<1>1. /\ UNCHANGED <<info, gap, stream, media, source>>
      /\ eos \subseteq eos' /\ (is_interrupted => is_interrupted')
      BY DEF Second, End, MainRuns, CollectTargets, SendEos, StopServer, rtspVars, srcVars
<1> QED BY <1>1, QuietFlow DEF Accepts

LEMMA NextFlowInv == TypeOK /\ LifeInv /\ FlowInv /\ [Next]_rtspVars => FlowInv'
BY ConstructFlow, ConfigureFlow, MediaFlow, SampleFlow, HandlerFlow, MainFlow
   DEF Next, SampleTaken

(***************************************************************************)
(* What pushing and the flow signals (needDataCb, enoughDataCb) keep of a  *)
(* media: no gap behind its back, and never a full mark that stays.        *)
(***************************************************************************)
THEOREM FlowInvariant == Spec => []FlowInv
<1>1. Init => FlowInv
      BY DEF Init, Waiting, FlowInv, FlowGap, FlowFull, NeverWedged
<1> QED BY <1>1, LifeInvariant, NextFlowInv, PTL DEF Spec

(***************************************************************************)
(* Every frame that an appsrc accepts can be decoded.                      *)
(***************************************************************************)
THEOREM FramesDecodable == Spec => []Decodable
<1>1. LifeInv /\ FlowInv => Decodable
      BY FlowIsDecodable DEF LifeInv, FlowInv
<1> QED BY <1>1, LifeInvariant, FlowInvariant, PTL

(***************************************************************************)
(* The enough-data / need-data flow control never wedges.                  *)
(***************************************************************************)
THEOREM FlowNeverWedges == Spec => []NeverWedged
<1>1. FlowInv => NeverWedged
      BY DEF FlowInv
<1> QED BY <1>1, FlowInvariant, PTL

-----------------------------------------------------------------------------
(***************************************************************************)
(* Proofs about EncoderSettings: cmdArg and the encoders agree in every    *)
(* channel in which no two commands have overlapped (Agree), and the key   *)
(* frame intervals keep their duration (KeepsInterval).                    *)
(*                                                                         *)
(* Agree looks only at channels that no command is in.  While one is, what *)
(* holds is that the encoders agree with what cmdArg will say when the     *)
(* command has noted its values; that is the invariant that is inductive.  *)
(***************************************************************************)

USE DEF Streams, Threads

Values == [fps : Int, gop : 1..MaxGop, bps : Int]

Tasks ==
  [kind : {"none", "bps", "fps", "rate", "main", "gop"}, stream : Streams,
   value : Nat, todo : SUBSET Channels, at : Channels \cup {0 - 1},
   gop : [Streams -> 0..MaxGop]]

SettingsTypeOK ==
  /\ config \in Configurations
  /\ arg \in [Channels -> [Streams -> Values]]
  /\ elem \in [Channels -> [Encoders -> Values]]
  /\ task \in [Threads -> Tasks]
  /\ mixed \subseteq Channels /\ stale \subseteq Channels

(* What a command has in hand: a stream that it may set, an interval that  *)
(* was admitted, and once it is in a channel the intervals to be noted.    *)
InHand(k) ==
  /\ k.stream = "rtsp" => Dual
  /\ k.kind = "gop" => k.value \in 0..MaxGop
  /\ k.kind \in {"gop", "main"} /\ k.at >= 0 =>
       \A s \in Streams : k.gop[s] \in 1..MaxGop

(* The values v of encoder e are the ones that cmdArg, saying told, tells  *)
(* of it; the frame rate only if cmdArg is not behind.                     *)
Told(e, v, told, behind) ==
  /\ v.gop = told[Slot(e)].gop
  /\ v.bps = told[Slot(e)].bps
  /\ e # "rtsp" /\ ~behind => v.fps = told[Slot(e)].fps
  /\ e = "single" => /\ told["rtsp"].gop = told["rec"].gop
                     /\ told["rtsp"].bps = told["rec"].bps

AtRest(c) == \A t \in Threads : task[t].at # c

Behind(t, c) == c \in stale /\ task[t].kind # "main"

Settled(c) ==
  AtRest(c) => \A e \in Encoders : Told(e, elem[c][e], arg[c], c \in stale)

Underway(c) ==
  \A t \in Threads : task[t].at = c =>
    /\ \A u \in Threads : task[u].at = c => u = t
    /\ \A e \in Encoders : Told(e, elem[c][e], Noted(t, c), Behind(t, c))

SettingsInv ==
  /\ SettingsTypeOK
  /\ \A t \in Threads : InHand(task[t])
  /\ \A c \in Channels \ mixed : Settled(c) /\ Underway(c)

-----------------------------------------------------------------------------
(* Facts about the encoders there are and about the arithmetic.            *)

LEMMA EncodersShape ==
  ASSUME config \in Configurations
  PROVE  /\ Dual \in BOOLEAN
         /\ Encoders \subseteq {"rec", "rtsp", "single"}
         /\ Dual => Encoders \subseteq Streams
         /\ ~Dual => Encoders \subseteq {"single"}
         /\ \A e \in Encoders : Slot(e) \in Streams
<1>1. config \in [dual : BOOLEAN, streams : SUBSET Streams,
                  given : [Streams -> [fps : Int, gop : Int, bps : Int]]]
  BY EncoderSettingsAssumption
<1>2. Dual \in BOOLEAN /\ config.streams \subseteq Streams
  BY <1>1 DEF Dual
<1>3. Encoders \subseteq {"rec", "rtsp", "single"} /\ (Dual => Encoders \subseteq Streams)
      /\ (~Dual => Encoders \subseteq {"single"})
  BY <1>2 DEF Encoders
<1>4. ASSUME NEW e \in Encoders PROVE Slot(e) \in Streams
  BY <1>3 DEF Slot
<1> QED
  BY <1>2, <1>3, <1>4

LEMMA ResolveRange ==
  ASSUME NEW gop \in 0..MaxGop, NEW fps \in Int
  PROVE  Resolve(gop, fps) \in 1..MaxGop
BY EncoderSettingsAssumption DEF Resolve, AtMost

LEMMA RescaleRange ==
  ASSUME NEW gop \in 1..MaxGop, NEW prev \in Int, NEW new \in Nat
  PROVE  Rescale(gop, prev, new) \in 1..MaxGop
<1>1. CASE prev <= 0 \/ new <= 0
  BY <1>1 DEF Rescale
<1>2. CASE prev > 0 /\ new > 0
  <2> DEFINE scaled == (gop * new + prev \div 2) \div prev
  <2>1. gop \in Int /\ gop * new \in Int /\ prev \div 2 \in Int
    BY <1>2, EncoderSettingsAssumption
  <2>2. scaled \in Int
    BY <2>1, <1>2
  <2>3. Rescale(gop, prev, new) = AtMost(IF scaled < 1 THEN 1 ELSE scaled, MaxGop)
    BY <1>2, <2>1, EncoderSettingsAssumption DEF Rescale
  <2> HIDE DEF scaled
  <2> QED
    BY <2>2, <2>3, EncoderSettingsAssumption DEF AtMost
<1> QED
  BY <1>1, <1>2

(* What a command notes depends on its own task and on its channel alone.  *)
LEMMA NotedSame ==
  ASSUME NEW t \in Threads, NEW c \in Channels,
         task'[t] = task[t], arg'[c] = arg[c], config' = config
  PROVE  Noted(t, c)' = Noted(t, c)
<1>1. Slots(t)' = Slots(t) /\ (Dual)' = Dual
  BY DEF Slots, Dual
<1> QED
  BY <1>1 DEF Noted

-----------------------------------------------------------------------------
(* The start *)

LEMMA InitInv == SettingsInit => SettingsInv
<1> SUFFICES ASSUME SettingsInit PROVE SettingsInv
  OBVIOUS
<1>1. config \in Configurations /\ task = [t \in Threads |-> NoTask]
      /\ mixed = {} /\ stale \subseteq Channels
  BY DEF SettingsInit
<1>2. config \in [dual : BOOLEAN, streams : SUBSET Streams,
                  given : [Streams -> [fps : Int, gop : Int, bps : Int]]]
  BY <1>1, EncoderSettingsAssumption
<1>3. ASSUME NEW s \in Streams PROVE Checked(config, s) \in Values
  <2> DEFINE from == IF config.dual THEN s ELSE "rec"
  <2>1. from \in Streams /\ (config.dual \/ from = "rec")
    BY <1>2
  <2>2. config.given[s].fps \in Int /\ config.given[from].fps \in Int
        /\ config.given[from].bps \in Int
    BY <1>2, <2>1
  <2>3. config.given[from].gop \in 0..MaxGop
    BY <1>1, <2>1, EncoderSettingsAssumption
  <2>4. Resolve(config.given[from].gop, config.given[from].fps) \in 1..MaxGop
    BY <2>2, <2>3, ResolveRange
  <2> QED
    BY <2>2, <2>4 DEF Checked, Values
<1>4. arg = [c \in Channels |-> [s \in Streams |-> Checked(config, s)]]
  BY DEF SettingsInit
<1>5. arg \in [Channels -> [Streams -> Values]]
  BY <1>3, <1>4
<1>6. /\ Encoders \subseteq {"rec", "rtsp", "single"}
      /\ \A e \in Encoders : Slot(e) \in Streams /\ FpsFrom(config, e) \in Streams
  BY <1>1, EncodersShape DEF FpsFrom
<1>7. elem = [c \in Channels |-> [e \in Encoders |-> Built(config, arg[c], e)]]
  BY DEF SettingsInit
<1>8. ASSUME NEW c \in Channels, NEW e \in Encoders
      PROVE  /\ Built(config, arg[c], e) \in Values
             /\ elem[c][e] = Built(config, arg[c], e)
  <2>1. arg[c][FpsFrom(config, e)] \in Values /\ arg[c][Slot(e)] \in Values
    BY <1>5, <1>6
  <2> QED
    BY <2>1, <1>7 DEF Built, Values
<1>9. elem \in [Channels -> [Encoders -> Values]]
  BY <1>7, <1>8
<1>10. task \in [Threads -> Tasks]
  BY <1>1, EncoderSettingsAssumption DEF NoTask, Tasks
<1>11. SettingsTypeOK
  BY <1>1, <1>5, <1>9, <1>10 DEF SettingsTypeOK
<1>12. ASSUME NEW t \in Threads PROVE InHand(task[t]) /\ task[t].at = 0 - 1
  BY <1>1 DEF InHand, NoTask
<1>13. ASSUME NEW c \in Channels, NEW e \in Encoders
       PROVE  Told(e, elem[c][e], arg[c], c \in stale)
  <2>1. elem[c][e].gop = arg[c][Slot(e)].gop /\ elem[c][e].bps = arg[c][Slot(e)].bps
    <3>1. elem[c][e] = Built(config, arg[c], e)
      BY <1>8
    <3> QED
      BY <3>1 DEF Built
  <2>2. ASSUME e # "rtsp", c \notin stale PROVE elem[c][e].fps = arg[c][Slot(e)].fps
    <3>1. stale = {d \in Channels : \E f \in Encoders \ {"rtsp"} :
                     elem[d][f].fps # arg[d]["rec"].fps}
      BY DEF SettingsInit
    <3>2. elem[c][e].fps = arg[c]["rec"].fps
      BY <2>2, <3>1
    <3> QED
      BY <3>2, <2>2, <1>6 DEF Slot
  <2>3. ASSUME e = "single"
        PROVE  arg[c]["rtsp"].gop = arg[c]["rec"].gop
               /\ arg[c]["rtsp"].bps = arg[c]["rec"].bps
    <3>1. ~config.dual
      BY <2>3, <1>1, EncodersShape DEF Dual
    <3> QED
      BY <3>1, <1>4 DEF Checked
  <2> QED
    BY <2>1, <2>2, <2>3 DEF Told
<1>14. ASSUME NEW c \in Channels PROVE Settled(c) /\ Underway(c)
  BY <1>12, <1>13, EncoderSettingsAssumption DEF Settled, Underway
<1> QED
  BY <1>11, <1>12, <1>14 DEF SettingsInv

-----------------------------------------------------------------------------
(* A command begins *)

LEMMA BeginInv ==
  ASSUME SettingsInv,
         NEW t \in Threads, NEW kind \in {"bps", "fps", "rate", "main", "gop"},
         NEW of \in Streams, NEW value \in Nat, NEW channels \in SUBSET Channels,
         of = "rtsp" => Dual, kind = "gop" => value \in 0..MaxGop,
         Begin(t, kind, of, value, channels)
  PROVE  SettingsInv'
<1> DEFINE k == [NoTask EXCEPT !.kind = kind, !.stream = of, !.value = value,
                               !.todo = channels]
<1>1. /\ task[t] = NoTask /\ task' = [task EXCEPT ![t] = k]
      /\ UNCHANGED <<config, arg, elem, mixed, stale>>
  BY DEF Begin, Idle
<1>2. (Encoders)' = Encoders /\ Dual' = Dual
  BY <1>1 DEF Encoders, Dual
<1>3. /\ k \in Tasks /\ k.at = 0 - 1 /\ k.stream = of /\ k.kind = kind
      /\ k.value = value
  <2>1. [s \in Streams |-> 0] \in [Streams -> 0..MaxGop]
    BY EncoderSettingsAssumption
  <2>2. NoTask \in Tasks /\ NoTask.at = 0 - 1
    BY <2>1 DEF NoTask, Tasks
  <2> QED
    BY <2>2 DEF Tasks
<1> HIDE DEF k
<1>4. SettingsTypeOK'
  BY <1>1, <1>2, <1>3 DEF SettingsInv, SettingsTypeOK
<1>5. ASSUME NEW u \in Threads
      PROVE  task'[u].at = task[u].at /\ (u # t => task'[u] = task[u])
             /\ task'[t] = k /\ task[t].at = 0 - 1
  BY <1>1, <1>3 DEF SettingsInv, SettingsTypeOK, NoTask
<1>6. ASSUME NEW u \in Threads PROVE InHand(task[u])'
  <2>1. CASE u = t
    <3>1. /\ k.stream = "rtsp" => Dual'
          /\ k.kind = "gop" => k.value \in 0..MaxGop
          /\ ~(k.at >= 0)
      BY <1>2, <1>3
    <3> QED
      BY <3>1, <2>1, <1>5 DEF InHand
  <2>2. CASE u # t
    BY <2>2, <1>2, <1>5 DEF SettingsInv, InHand
  <2> QED
    BY <2>1, <2>2
<1>7. ASSUME NEW c \in Channels \ mixed PROVE Settled(c)' /\ Underway(c)'
  <2>1. Settled(c) /\ Underway(c)
    BY DEF SettingsInv
  <2>2. Settled(c)'
    BY <2>1, <1>1, <1>2, <1>5 DEF Settled, AtRest
  <2>3. ASSUME NEW u \in Threads, task'[u].at = c
        PROVE  u # t /\ task'[u] = task[u] /\ task[u].at = c
    BY <2>3, <1>5, EncoderSettingsAssumption
  <2>4. ASSUME NEW u \in Threads, task'[u].at = c
        PROVE  /\ \A v \in Threads : task'[v].at = c => v = u
               /\ \A e \in Encoders : Told(e, elem[c][e], Noted(u, c)', Behind(u, c)')
    <3>1. Noted(u, c)' = Noted(u, c) /\ Behind(u, c)' = Behind(u, c)
      BY <2>3, <2>4, <1>1, NotedSame DEF Behind
    <3> QED
      BY <3>1, <2>1, <2>3, <2>4, <1>5 DEF Underway
  <2>5. Underway(c)'
    BY <2>4, <1>1, <1>2 DEF Underway
  <2> QED
    BY <2>2, <2>5
<1> QED
  BY <1>1, <1>4, <1>6, <1>7 DEF SettingsInv

LEMMA ControlsDual == Controls("rtsp") => Dual
BY DEF Controls

LEMMA SetInv ==
  ASSUME SettingsInv, NEW t \in Threads,
         SetBps(t) \/ SetFps(t) \/ SetRate(t) \/ SetMain(t) \/ SetGop(t)
  PROVE  SettingsInv'
<1>1. CASE SetBps(t)
  <2>1. PICK b \in Bitrates :
          \/ \E c \in Channels : Begin(t, "bps", "rec", b, {c})
          \/ Controls("rtsp") /\ Begin(t, "bps", "rtsp", b, Channels)
    BY <1>1 DEF SetBps
  <2>2. b \in Nat
    BY EncoderSettingsAssumption
  <2>3. ASSUME NEW c \in Channels, Begin(t, "bps", "rec", b, {c})
        PROVE  SettingsInv'
    BY <2>2, <2>3, BeginInv
  <2>4. CASE Controls("rtsp") /\ Begin(t, "bps", "rtsp", b, Channels)
    BY <2>2, <2>4, BeginInv, ControlsDual
  <2> QED
    BY <2>1, <2>3, <2>4
<1>2. CASE SetFps(t)
  <2>1. PICK s \in Streams, c \in Channels, r \in Rates :
          Controls(s) /\ Begin(t, "fps", s, r, {c})
    BY <1>2 DEF SetFps
  <2>2. r \in Nat /\ (s = "rtsp" => Dual)
    BY <2>1, EncoderSettingsAssumption, ControlsDual
  <2>3. CASE s = "rec"
    <3>1. Begin(t, "fps", "rec", r, {c})
      BY <2>1, <2>3
    <3> QED
      BY <3>1, <2>2, BeginInv
  <2>4. CASE s = "rtsp"
    <3>1. Begin(t, "fps", "rtsp", r, {c})
      BY <2>1, <2>4
    <3> QED
      BY <3>1, <2>2, <2>4, BeginInv
  <2> QED
    BY <2>3, <2>4
<1>3. CASE SetRate(t)
  <2>1. PICK c \in Channels, r \in Rates \ {0} : Begin(t, "rate", "rec", r, {c})
    BY <1>3 DEF SetRate
  <2>2. r \in Nat
    BY EncoderSettingsAssumption
  <2> QED
    BY <2>1, <2>2, BeginInv
<1>4. CASE SetMain(t)
  <2>1. PICK r \in Rates \ {0} : Begin(t, "main", "rec", r, Channels)
    BY <1>4 DEF SetMain
  <2>2. r \in Nat
    BY EncoderSettingsAssumption
  <2> QED
    BY <2>1, <2>2, BeginInv
<1>5. CASE SetGop(t)
  <2>1. PICK s \in Streams, g \in Gops :
          Controls(s) /\ Begin(t, "gop", s, g, Channels)
    BY <1>5 DEF SetGop
  <2>2. g \in Nat /\ g \in 0..MaxGop
    BY EncoderSettingsAssumption
  <2> QED
    BY <2>1, <2>2, BeginInv, ControlsDual
<1> QED
  BY <1>1, <1>2, <1>3, <1>4, <1>5

-----------------------------------------------------------------------------
(* A command sets the encoders of a channel.  What it owes the invariant   *)
(* is said of that channel alone.                                          *)

(* Before: if no other command is in the channel, cmdArg tells of the      *)
(* encoders what they are set to.                                          *)
LEMMA ToldBefore ==
  ASSUME SettingsInv, NEW t \in Threads, NEW c \in Channels, NEW kind,
         Applies(t, kind, c), c \notin mixed'
  PROVE  /\ c \notin mixed
         /\ AtRest(c)
         /\ \A e \in Encoders : Told(e, elem[c][e], arg[c], c \in stale)
<1>1. c \notin mixed /\ AtRest(c)
  BY DEF Applies, AtRest
<1> QED
  BY <1>1 DEF SettingsInv, Settled

LEMMA ApplyInv ==
  ASSUME SettingsInv, NEW t \in Threads, NEW c \in Channels,
         NEW kind \in {"bps", "fps", "rate", "main", "gop"},
         NEW gop \in [Streams -> 0..MaxGop], NEW values \in [Encoders -> Values],
         Applies(t, kind, c), Takes(t, c, gop, values),
         stale' \subseteq Channels,
         \A d \in Channels \ {c} : d \in stale' <=> d \in stale,
         kind \in {"gop", "main"} => \A s \in Streams : gop[s] \in 1..MaxGop,
         c \notin mixed' =>
           \A e \in Encoders : Told(e, values[e], Noted(t, c)', Behind(t, c)')
  PROVE  SettingsInv'
<1>1. /\ task[t].kind = kind /\ task[t].at < 0
      /\ mixed' = mixed \cup {d \in {c} : \E u \in Threads : task[u].at = d}
      /\ config' = config /\ arg' = arg
      /\ elem' = [elem EXCEPT ![c] = values]
      /\ task' = [task EXCEPT ![t].todo = @ \ {c}, ![t].at = c, ![t].gop = gop]
  BY DEF Applies, Takes
<1>2. (Encoders)' = Encoders /\ Dual' = Dual
  BY <1>1 DEF Encoders, Dual
<1>3. /\ task \in [Threads -> Tasks] /\ elem \in [Channels -> [Encoders -> Values]]
      /\ mixed \subseteq Channels
  BY DEF SettingsInv, SettingsTypeOK
<1>4. /\ task'[t] \in Tasks /\ task'[t].at = c /\ task'[t].gop = gop
      /\ task'[t].kind = kind /\ task'[t].stream = task[t].stream
      /\ task'[t].value = task[t].value
      /\ \A u \in Threads \ {t} : task'[u] = task[u]
  <2> DEFINE k == task[t]
  <2>1. k \in Tasks /\ (k.todo \ {c}) \in SUBSET Channels
    BY <1>3 DEF Tasks
  <2>2. task'[t] = [k EXCEPT !.todo = @ \ {c}, !.at = c, !.gop = gop]
    BY <1>1, <1>3
  <2>3. k.kind = kind
    BY <1>1
  <2>4. \A u \in Threads \ {t} : task'[u] = task[u]
    BY <1>1, <1>3
  <2> HIDE DEF k
  <2>5. /\ task'[t] \in Tasks /\ task'[t].at = c /\ task'[t].gop = gop
        /\ task'[t].kind = k.kind /\ task'[t].stream = k.stream
        /\ task'[t].value = k.value
    BY <2>1, <2>2 DEF Tasks
  <2> QED
    BY <2>3, <2>4, <2>5 DEF k
<1>5. SettingsTypeOK'
  <2>1. task' \in [Threads -> Tasks]
    <3>1. \A u \in Threads : task'[u] \in Tasks
      BY <1>3, <1>4
    <3>2. task' = [u \in Threads |-> task'[u]]
      BY <1>1, <1>3
    <3> QED
      BY <3>1, <3>2
  <2>2. elem' \in [Channels -> [Encoders -> Values]]
    BY <1>1, <1>3
  <2> QED
    BY <2>1, <2>2, <1>1, <1>2, <1>3 DEF SettingsInv, SettingsTypeOK
<1>6. ASSUME NEW u \in Threads PROVE InHand(task[u])'
  <2>1. CASE u = t
    <3>1. InHand(task[t])
      BY DEF SettingsInv
    <3> QED
      BY <2>1, <3>1, <1>1, <1>2, <1>4 DEF InHand
  <2>2. CASE u # t
    BY <2>2, <1>2, <1>4 DEF SettingsInv, InHand
  <2> QED
    BY <2>1, <2>2
<1>7. ASSUME c \notin mixed' PROVE Settled(c)' /\ Underway(c)'
  <2>1. AtRest(c)
    BY <1>7, ToldBefore
  <2>2. \A u \in Threads : task'[u].at = c => u = t
    BY <2>1, <1>4 DEF AtRest
  <2>3. elem'[c] = values
    BY <1>1, <1>3
  <2>4. Underway(c)'
    BY <2>2, <2>3, <1>2, <1>7 DEF Underway
  <2>5. Settled(c)'
    BY <1>4 DEF Settled, AtRest
  <2> QED
    BY <2>4, <2>5
<1>8. ASSUME NEW d \in Channels \ {c}, d \notin mixed' PROVE Settled(d)' /\ Underway(d)'
  <2>1. Settled(d) /\ Underway(d)
    BY <1>1, <1>8 DEF SettingsInv
  <2>2. /\ elem'[d] = elem[d] /\ arg'[d] = arg[d] /\ (d \in stale' <=> d \in stale)
    BY <1>1, <1>3
  <2>3. ASSUME NEW u \in Threads
        PROVE  (task'[u].at = d <=> task[u].at = d) /\ (task'[u].at = d => u # t)
    <3>1. d \in Nat /\ task[t].at # d /\ task'[t].at # d
      BY <1>1, <1>4, EncoderSettingsAssumption
    <3> QED
      BY <3>1, <1>4
  <2>4. Settled(d)'
    BY <2>1, <2>2, <2>3, <1>2 DEF Settled, AtRest
  <2>5. ASSUME NEW u \in Threads, task'[u].at = d
        PROVE  /\ \A v \in Threads : task'[v].at = d => v = u
               /\ \A e \in Encoders : Told(e, elem'[d][e], Noted(u, d)', Behind(u, d)')
    <3>1. u # t /\ task'[u] = task[u] /\ task[u].at = d
      BY <2>3, <2>5, <1>4
    <3>2. Noted(u, d)' = Noted(u, d) /\ (Behind(u, d)' <=> Behind(u, d))
      BY <3>1, <2>2, <1>1, NotedSame DEF Behind
    <3>3. /\ \A v \in Threads : task[v].at = d => v = u
          /\ \A e \in Encoders : Told(e, elem[d][e], Noted(u, d), Behind(u, d))
      BY <3>1, <2>1 DEF Underway
    <3>4. ASSUME NEW e \in Encoders
          PROVE  Told(e, elem'[d][e], Noted(u, d)', Behind(u, d)')
      <4>1. Told(e, elem[d][e], Noted(u, d), Behind(u, d))
        BY <3>3
      <4> QED
        BY <4>1, <3>2, <2>2 DEF Told
    <3> QED
      BY <3>3, <3>4, <2>3
  <2>6. Underway(d)'
    BY <2>5, <1>2 DEF Underway
  <2> QED
    BY <2>4, <2>6
<1> QED
  BY <1>5, <1>6, <1>7, <1>8 DEF SettingsInv

LEMMA Hand ==
  ASSUME SettingsInv, NEW t \in Threads, NEW c \in Channels, NEW kind,
         NEW gop \in [Streams -> 0..MaxGop], NEW values,
         Applies(t, kind, c), Takes(t, c, gop, values)
  PROVE  /\ task[t] \in Tasks /\ InHand(task[t]) /\ task[t].kind = kind
         /\ task'[t].kind = kind /\ task'[t].stream = task[t].stream
         /\ task'[t].value = task[t].value /\ task'[t].gop = gop
         /\ arg' = arg /\ Dual' = Dual
         /\ arg[c] \in [Streams -> Values] /\ elem[c] \in [Encoders -> Values]
<1>1. task \in [Threads -> Tasks]
  BY DEF SettingsInv, SettingsTypeOK
<1> DEFINE k == task[t]
<1>2. task'[t] = [k EXCEPT !.todo = @ \ {c}, !.at = c, !.gop = gop]
  BY <1>1 DEF Takes
<1>3. k \in Tasks /\ k.kind = kind /\ InHand(k)
  BY <1>1 DEF SettingsInv, Applies
<1>4. arg' = arg /\ Dual' = Dual
  BY DEF Applies, Dual
<1>5. arg[c] \in [Streams -> Values] /\ elem[c] \in [Encoders -> Values]
  BY DEF SettingsInv, SettingsTypeOK
<1> HIDE DEF k
<1>6. /\ task'[t].kind = k.kind /\ task'[t].stream = k.stream
      /\ task'[t].value = k.value /\ task'[t].gop = gop
  BY <1>2, <1>3 DEF Tasks
<1> QED
  BY <1>3, <1>4, <1>5, <1>6 DEF k

LEMMA NoIntervals == Unchanged \in [Streams -> 0..MaxGop]
BY EncoderSettingsAssumption DEF Unchanged

LEMMA ApplyBpsInv ==
  ASSUME SettingsInv, NEW t \in Threads, NEW c \in Channels, ApplyBps(t, c)
  PROVE  SettingsInv'
<1> DEFINE k == task[t]
           values == [e \in Encoders |->
             IF Slot(e) = k.stream THEN [elem[c][e] EXCEPT !.bps = k.value]
             ELSE elem[c][e]]
<1>1. Applies(t, "bps", c) /\ stale' = stale /\ Takes(t, c, Unchanged, values)
  BY DEF ApplyBps
<1>2. /\ k \in Tasks /\ InHand(k) /\ arg[c] \in [Streams -> Values]
      /\ elem[c] \in [Encoders -> Values]
      /\ task'[t].kind = "bps" /\ task'[t].stream = k.stream /\ task'[t].value = k.value
      /\ arg' = arg /\ Dual' = Dual
  BY <1>1, Hand, NoIntervals
<1>3. config \in Configurations /\ stale \subseteq Channels
  BY DEF SettingsInv, SettingsTypeOK
<1> HIDE DEF k
<1>4. values \in [Encoders -> Values]
  BY <1>2 DEF Values, Tasks
<1>5. Noted(t, c)' = [s \in Streams |->
        IF s \in (IF Dual THEN {k.stream} ELSE Streams)
        THEN [arg[c][s] EXCEPT !.bps = k.value] ELSE arg[c][s]]
  BY <1>2 DEF Noted, Slots
<1>6. ASSUME NEW s \in Streams
      PROVE  LET n == Noted(t, c)'[s] IN
             /\ n.fps = arg[c][s].fps /\ n.gop = arg[c][s].gop
             /\ n.bps = IF Dual => s = k.stream THEN k.value ELSE arg[c][s].bps
  <2>1. arg[c][s] \in Values
    BY <1>2
  <2> QED
    BY <2>1, <1>5 DEF Values
<1>7. ASSUME NEW e \in Encoders
      PROVE  LET v == elem[c][e]
                 w == values[e]
             IN /\ w.fps = v.fps /\ w.gop = v.gop
                /\ w.bps = IF Slot(e) = k.stream THEN k.value ELSE v.bps
  <2>1. elem[c][e] \in Values
    BY <1>2
  <2> QED
    BY <2>1 DEF Values
<1> HIDE DEF values
<1>8. ASSUME c \notin mixed', NEW e \in Encoders
      PROVE  Told(e, values[e], Noted(t, c)', Behind(t, c)')
  <2>1. Told(e, elem[c][e], arg[c], c \in stale)
    BY <1>1, <1>8, ToldBefore
  <2>2. Behind(t, c)' <=> c \in stale
    BY <1>1, <1>2 DEF Behind
  <2>3. e = "single" => ~Dual /\ k.stream = "rec"
    BY <1>2, <1>3, EncodersShape DEF InHand, Tasks
  <2>4. Slot(e) \in Streams /\ (~Dual => e = "single")
    BY <1>3, EncodersShape
  <2> QED
    BY <2>1, <2>2, <2>3, <2>4, <1>6, <1>7 DEF Told, Slot
<1> QED
  BY <1>1, <1>3, <1>4, <1>8, ApplyInv, NoIntervals

LEMMA ApplyFpsInv ==
  ASSUME SettingsInv, NEW t \in Threads, NEW c \in Channels, ApplyFps(t, c)
  PROVE  SettingsInv'
<1> DEFINE k == task[t]
           values == [e \in Encoders |->
             IF Slot(e) = k.stream THEN Paced(elem[c][e], e, k.value) ELSE elem[c][e]]
<1>1. /\ Applies(t, "fps", c) /\ Takes(t, c, Unchanged, values)
      /\ stale' = IF ~Dual THEN stale \ {c}
                  ELSE IF k.stream = "rec" THEN stale \cup {c} ELSE stale
  BY DEF ApplyFps
<1>2. Unchanged \in [Streams -> 0..MaxGop]
  BY NoIntervals
<1>3. /\ k \in Tasks /\ InHand(k) /\ arg[c] \in [Streams -> Values]
      /\ elem[c] \in [Encoders -> Values]
      /\ task'[t].kind = "fps" /\ task'[t].stream = k.stream /\ task'[t].value = k.value
      /\ task'[t].gop = Unchanged /\ arg' = arg /\ Dual' = Dual
  BY <1>1, <1>2, Hand
<1>4. config \in Configurations /\ stale \subseteq Channels
  BY DEF SettingsInv, SettingsTypeOK
<1> HIDE DEF k
<1>5. values \in [Encoders -> Values]
  BY <1>3 DEF Values, Tasks, Paced
<1>6. Noted(t, c)' = IF ~Dual THEN [s \in Streams |-> [arg[c][s] EXCEPT !.fps = k.value]]
                       ELSE arg[c]
  BY <1>3 DEF Noted, Slots
<1>7. ASSUME NEW s \in Streams
      PROVE  LET n == Noted(t, c)'[s] IN
             /\ n.gop = arg[c][s].gop /\ n.bps = arg[c][s].bps
             /\ n.fps = IF Dual THEN arg[c][s].fps ELSE k.value
  <2>1. arg[c][s] \in Values
    BY <1>3
  <2> QED
    BY <2>1, <1>6 DEF Values
<1>8. ASSUME NEW e \in Encoders
      PROVE  LET v == elem[c][e]
                 w == values[e]
             IN /\ w.gop = v.gop /\ w.bps = v.bps
                /\ e # "rtsp" /\ Slot(e) = k.stream => w.fps = k.value
                /\ Slot(e) # k.stream => w.fps = v.fps
  <2>1. elem[c][e] \in Values
    BY <1>3
  <2> QED
    BY <2>1 DEF Values, Paced
<1> HIDE DEF values
<1>9. ASSUME c \notin mixed', NEW e \in Encoders
      PROVE  Told(e, values[e], Noted(t, c)', Behind(t, c)')
  <2>1. Told(e, elem[c][e], arg[c], c \in stale)
    BY <1>1, <1>9, ToldBefore
  <2>2. Behind(t, c)' <=> Dual /\ (k.stream = "rec" \/ c \in stale)
    BY <1>1, <1>3 DEF Behind
  <2>3. e = "single" => ~Dual /\ k.stream = "rec"
    BY <1>3, <1>4, EncodersShape DEF InHand, Tasks
  <2>4. Slot(e) \in Streams /\ (~Dual => e = "single") /\ e \in {"rec", "rtsp", "single"}
    BY <1>4, EncodersShape
  <2> QED
    BY <2>1, <2>2, <2>3, <2>4, <1>3, <1>7, <1>8 DEF Told, Slot
<1> QED
  BY <1>1, <1>2, <1>4, <1>5, <1>9, ApplyInv

LEMMA ApplyRateInv ==
  ASSUME SettingsInv, NEW t \in Threads, NEW c \in Channels, ApplyRate(t, c)
  PROVE  SettingsInv'
<1> DEFINE k == task[t]
           values == [e \in Encoders |->
             IF Dual THEN Paced(elem[c][e], e, k.value) ELSE elem[c][e]]
<1>1. /\ Applies(t, "rate", c) /\ Takes(t, c, Unchanged, values)
      /\ stale' = IF Dual THEN stale \cup {c} ELSE stale
  BY DEF ApplyRate
<1>2. Unchanged \in [Streams -> 0..MaxGop]
  BY NoIntervals
<1>3. /\ k \in Tasks /\ InHand(k) /\ arg[c] \in [Streams -> Values]
      /\ elem[c] \in [Encoders -> Values]
      /\ task'[t].kind = "rate" /\ task'[t].stream = k.stream /\ task'[t].value = k.value
      /\ task'[t].gop = Unchanged /\ arg' = arg /\ Dual' = Dual
  BY <1>1, <1>2, Hand
<1>4. config \in Configurations /\ stale \subseteq Channels
  BY DEF SettingsInv, SettingsTypeOK
<1> HIDE DEF k
<1>5. values \in [Encoders -> Values]
  BY <1>3 DEF Values, Tasks, Paced
<1>6. Noted(t, c)' = arg[c]
  BY <1>3 DEF Noted, Slots
<1>7. ASSUME NEW s \in Streams
      PROVE  LET n == Noted(t, c)'[s] IN
             n = arg[c][s]
  <2>1. arg[c][s] \in Values
    BY <1>3
  <2> QED
    BY <2>1, <1>6 DEF Values
<1>8. ASSUME NEW e \in Encoders
      PROVE  LET v == elem[c][e]
                 w == values[e]
             IN /\ w.gop = v.gop /\ w.bps = v.bps
                /\ ~Dual => w = v
  <2>1. elem[c][e] \in Values
    BY <1>3
  <2> QED
    BY <2>1 DEF Values, Paced
<1> HIDE DEF values
<1>9. ASSUME c \notin mixed', NEW e \in Encoders
      PROVE  Told(e, values[e], Noted(t, c)', Behind(t, c)')
  <2>1. Told(e, elem[c][e], arg[c], c \in stale)
    BY <1>1, <1>9, ToldBefore
  <2>2. Behind(t, c)' <=> (Dual \/ c \in stale)
    BY <1>1, <1>3 DEF Behind
  <2>3. e = "single" => ~Dual /\ k.stream = "rec"
    BY <1>3, <1>4, EncodersShape DEF InHand, Tasks
  <2>4. Slot(e) \in Streams /\ (~Dual => e = "single") /\ e \in {"rec", "rtsp", "single"}
    BY <1>4, EncodersShape
  <2> QED
    BY <2>1, <2>2, <2>3, <2>4, <1>3, <1>7, <1>8 DEF Told, Slot
<1> QED
  BY <1>1, <1>2, <1>4, <1>5, <1>9, ApplyInv

LEMMA ApplyMainInv ==
  ASSUME SettingsInv, NEW t \in Threads, NEW c \in Channels, ApplyMain(t, c)
  PROVE  SettingsInv'
<1> DEFINE k == task[t]
           gop == [s \in Streams |-> Rescaled(t, c, s)]
           values == [e \in Encoders |->
             [Paced(elem[c][e], e, k.value) EXCEPT
                !.gop = gop[Slot(e)], !.bps = arg[c][Slot(e)].bps]]
<1>1. /\ Applies(t, "main", c) /\ Takes(t, c, gop, values)
      /\ stale' = stale
  BY DEF ApplyMain
<1>2. gop \in [Streams -> 0..MaxGop] /\ \A s \in Streams : gop[s] \in 1..MaxGop
  <2>1. k \in Tasks /\ arg[c] \in [Streams -> Values]
    BY DEF SettingsInv, SettingsTypeOK
  <2>2. ASSUME NEW s \in Streams PROVE Rescaled(t, c, s) \in 1..MaxGop
    <3>1. arg[c][s].gop \in 1..MaxGop /\ arg[c][s].fps \in Int /\ k.value \in Nat
      BY <2>1 DEF Values, Tasks
    <3> QED
      BY <3>1, RescaleRange DEF Rescaled
  <2>3. 1..MaxGop \subseteq 0..MaxGop
    BY EncoderSettingsAssumption
  <2> QED
    BY <2>2, <2>3
<1>3. /\ k \in Tasks /\ InHand(k) /\ arg[c] \in [Streams -> Values]
      /\ elem[c] \in [Encoders -> Values]
      /\ task'[t].kind = "main" /\ task'[t].stream = k.stream /\ task'[t].value = k.value
      /\ task'[t].gop = gop /\ arg' = arg /\ Dual' = Dual
  <2> HIDE DEF gop, values
  <2> QED
    BY <1>1, <1>2, Hand
<1>4. config \in Configurations /\ stale \subseteq Channels
  BY DEF SettingsInv, SettingsTypeOK
<1> HIDE DEF k, gop
<1>5. values \in [Encoders -> Values]
  <2>1. ASSUME NEW e \in Encoders PROVE values[e] \in Values
    <3>1. elem[c][e] \in Values /\ arg[c][Slot(e)] \in Values /\ k.value \in Int
          /\ gop[Slot(e)] \in 1..MaxGop
      BY <1>2, <1>3, <1>4, EncodersShape DEF Tasks
    <3> QED
      BY <3>1 DEF Values, Paced
  <2> QED
    BY <2>1
<1>6. Noted(t, c)' = [s \in Streams |-> [arg[c][s] EXCEPT
                         !.gop = gop[IF Dual THEN s ELSE "rec"], !.fps = k.value]]
  BY <1>3 DEF Noted, Slots
<1>7. ASSUME NEW s \in Streams
      PROVE  LET n == Noted(t, c)'[s] IN
             /\ n.gop = gop[IF Dual THEN s ELSE "rec"]
             /\ n.bps = arg[c][s].bps /\ n.fps = k.value
  <2> DEFINE x == gop[IF Dual THEN s ELSE "rec"]
  <2>1. arg[c][s] \in Values
    BY <1>3
  <2>2. Noted(t, c)'[s] = [arg[c][s] EXCEPT !.gop = x, !.fps = k.value]
    BY <1>6
  <2> HIDE DEF x
  <2>3. /\ Noted(t, c)'[s].gop = x /\ Noted(t, c)'[s].bps = arg[c][s].bps
        /\ Noted(t, c)'[s].fps = k.value
    BY <2>1, <2>2 DEF Values
  <2> QED
    BY <2>3 DEF x
<1>8. ASSUME NEW e \in Encoders
      PROVE  LET v == elem[c][e]
                 w == values[e]
             IN /\ w.gop = gop[Slot(e)] /\ w.bps = arg[c][Slot(e)].bps
                /\ e # "rtsp" => w.fps = k.value
  <2>1. elem[c][e] \in Values
    BY <1>3
  <2> QED
    BY <2>1 DEF Values, Paced
<1> HIDE DEF values
<1>9. ASSUME c \notin mixed', NEW e \in Encoders
      PROVE  Told(e, values[e], Noted(t, c)', Behind(t, c)')
  <2>1. Told(e, elem[c][e], arg[c], c \in stale)
    BY <1>1, <1>9, ToldBefore
  <2>2. Behind(t, c)' <=> FALSE
    BY <1>1, <1>3 DEF Behind
  <2>3. e = "single" => ~Dual /\ k.stream = "rec"
    BY <1>3, <1>4, EncodersShape DEF InHand, Tasks
  <2>4. Slot(e) \in Streams /\ (~Dual => e = "single") /\ e \in {"rec", "rtsp", "single"}
    BY <1>4, EncodersShape
  <2> QED
    BY <2>1, <2>2, <2>3, <2>4, <1>3, <1>7, <1>8 DEF Told, Slot
<1> QED
  BY <1>1, <1>2, <1>4, <1>5, <1>9, ApplyInv

LEMMA ApplyGopInv ==
  ASSUME SettingsInv, NEW t \in Threads, NEW c \in Channels, ApplyGop(t, c)
  PROVE  SettingsInv'
<1> DEFINE k == task[t]
           g == ResolvedGop(t, c)
           gop == [s \in Streams |-> g]
           values == [e \in Encoders |->
             IF Slot(e) = k.stream THEN [elem[c][e] EXCEPT !.gop = gop[Slot(e)]]
             ELSE elem[c][e]]
<1>1. /\ Applies(t, "gop", c) /\ Takes(t, c, gop, values)
      /\ stale' = stale
  BY DEF ApplyGop
<1>2. gop \in [Streams -> 0..MaxGop] /\ g \in 1..MaxGop
  <2>1. k \in Tasks /\ InHand(k) /\ arg[c] \in [Streams -> Values] /\ k.kind = "gop"
    BY <1>1 DEF SettingsInv, SettingsTypeOK, Applies
  <2>2. arg[c][k.stream].fps \in Int /\ k.value \in 0..MaxGop
    BY <2>1 DEF Values, Tasks, InHand
  <2>3. g \in 1..MaxGop
    BY <2>2, ResolveRange DEF ResolvedGop
  <2>4. 1..MaxGop \subseteq 0..MaxGop
    BY EncoderSettingsAssumption
  <2> HIDE DEF g
  <2> QED
    BY <2>3, <2>4
<1>3. /\ k \in Tasks /\ InHand(k) /\ arg[c] \in [Streams -> Values]
      /\ elem[c] \in [Encoders -> Values]
      /\ task'[t].kind = "gop" /\ task'[t].stream = k.stream /\ task'[t].value = k.value
      /\ task'[t].gop = gop /\ arg' = arg /\ Dual' = Dual
  BY <1>1, <1>2, Hand
<1>4. config \in Configurations /\ stale \subseteq Channels
  BY DEF SettingsInv, SettingsTypeOK
<1> HIDE DEF k, g
<1>5. values \in [Encoders -> Values]
  <2>1. ASSUME NEW e \in Encoders PROVE values[e] \in Values
    <3>1. elem[c][e] \in Values /\ Slot(e) \in Streams /\ gop[Slot(e)] \in 1..MaxGop
      BY <1>2, <1>3, <1>4, EncodersShape
    <3> HIDE DEF gop
    <3> QED
      BY <3>1 DEF Values
  <2> QED
    BY <2>1
<1>6. Noted(t, c)' = [s \in Streams |->
        IF s \in (IF Dual THEN {k.stream} ELSE Streams)
        THEN [arg[c][s] EXCEPT !.gop = gop[s]] ELSE arg[c][s]]
  BY <1>3 DEF Noted, Slots
<1>7. ASSUME NEW s \in Streams
      PROVE  LET n == Noted(t, c)'[s] IN
             /\ n.fps = arg[c][s].fps /\ n.bps = arg[c][s].bps
             /\ n.gop = IF Dual => s = k.stream THEN g ELSE arg[c][s].gop
  <2>1. arg[c][s] \in Values
    BY <1>3
  <2> QED
    BY <2>1, <1>6 DEF Values
<1>8. ASSUME NEW e \in Encoders
      PROVE  LET v == elem[c][e]
                 w == values[e]
             IN /\ w.fps = v.fps /\ w.bps = v.bps
                /\ w.gop = IF Slot(e) = k.stream THEN g ELSE v.gop
  <2>1. elem[c][e] \in Values /\ gop[Slot(e)] = g
    BY <1>3, <1>4, EncodersShape
  <2> HIDE DEF gop
  <2> QED
    BY <2>1 DEF Values
<1> HIDE DEF values
<1>9. ASSUME c \notin mixed', NEW e \in Encoders
      PROVE  Told(e, values[e], Noted(t, c)', Behind(t, c)')
  <2>1. Told(e, elem[c][e], arg[c], c \in stale)
    BY <1>1, <1>9, ToldBefore
  <2>2. Behind(t, c)' <=> c \in stale
    BY <1>1, <1>3 DEF Behind
  <2>3. e = "single" => ~Dual /\ k.stream = "rec"
    BY <1>3, <1>4, EncodersShape DEF InHand, Tasks
  <2>4. Slot(e) \in Streams /\ (~Dual => e = "single") /\ e \in {"rec", "rtsp", "single"}
    BY <1>4, EncodersShape
  <2> QED
    BY <2>1, <2>2, <2>3, <2>4, <1>3, <1>7, <1>8 DEF Told, Slot
<1> QED
  BY <1>1, <1>2, <1>4, <1>5, <1>9, ApplyInv

-----------------------------------------------------------------------------
(* A command notes what it set *)

LEMMA NotedIn ==
  ASSUME SettingsInv, NEW t \in Threads, NEW c \in Channels, task[t].at = c
  PROVE  Noted(t, c) \in [Streams -> Values]
<1> DEFINE k == task[t]
<1>1. k \in Tasks /\ InHand(k) /\ arg[c] \in [Streams -> Values]
  BY DEF SettingsInv, SettingsTypeOK
<1>2. k.at >= 0
  BY EncoderSettingsAssumption
<1>3. k.value \in Int /\ Dual \in BOOLEAN
  BY <1>1, EncodersShape DEF Tasks, SettingsInv, SettingsTypeOK
<1> HIDE DEF k
<1>4. ASSUME NEW s \in Streams
      PROVE  /\ [arg[c][s] EXCEPT !.bps = k.value] \in Values
             /\ [arg[c][s] EXCEPT !.fps = k.value] \in Values
             /\ \A g \in 1..MaxGop : [arg[c][s] EXCEPT !.gop = g] \in Values
             /\ \A g \in 1..MaxGop :
                  [arg[c][s] EXCEPT !.gop = g, !.fps = k.value] \in Values
  <2>1. arg[c][s] \in Values
    BY <1>1
  <2> QED
    BY <2>1, <1>3 DEF Values
<1>5. CASE k.kind = "bps"
  BY <1>1, <1>4, <1>5 DEF Noted, k
<1>6. CASE k.kind = "gop"
  <2>1. \A s \in Streams : k.gop[s] \in 1..MaxGop
    BY <1>1, <1>2, <1>6 DEF InHand
  <2> QED
    BY <2>1, <1>1, <1>4, <1>6 DEF Noted, k
<1>7. CASE k.kind = "fps"
  BY <1>1, <1>4, <1>7 DEF Noted, k
<1>8. CASE k.kind = "main"
  <2>1. \A s \in Streams : k.gop[IF Dual THEN s ELSE "rec"] \in 1..MaxGop
    BY <1>1, <1>2, <1>3, <1>8 DEF InHand
  <2> QED
    BY <2>1, <1>1, <1>4, <1>8 DEF Noted, k
<1>9. CASE k.kind \in {"none", "rate"}
  BY <1>1, <1>9 DEF Noted, k
<1> QED
  BY <1>1, <1>5, <1>6, <1>7, <1>8, <1>9 DEF Tasks

LEMMA NoteInv ==
  ASSUME SettingsInv, NEW t \in Threads, Note(t)
  PROVE  SettingsInv'
<1> DEFINE c == task[t].at
           k == task[t]
<1>1. /\ c \in Channels /\ c \in Nat /\ k \in Tasks
      /\ arg' = [arg EXCEPT ![c] = Noted(t, c)]
      /\ task' = [task EXCEPT ![t] =
           IF k.todo = {} THEN NoTask ELSE [k EXCEPT !.at = 0 - 1]]
      /\ stale' = (IF k.kind = "main" THEN stale \ {c} ELSE stale)
      /\ config' = config /\ elem' = elem /\ mixed' = mixed
  <2>1. k \in Tasks /\ c >= 0 /\ task \in [Threads -> Tasks]
    BY DEF Note, SettingsInv, SettingsTypeOK
  <2>2. c \in Channels
    BY <2>1 DEF Tasks
  <2> QED
    BY <2>1, <2>2, EncoderSettingsAssumption DEF Note
<1>2. (Encoders)' = Encoders /\ Dual' = Dual
  BY <1>1 DEF Encoders, Dual
<1>3. Noted(t, c) \in [Streams -> Values]
  BY <1>1, NotedIn
<1>4. /\ task \in [Threads -> Tasks] /\ arg \in [Channels -> [Streams -> Values]]
      /\ \A u \in Threads : InHand(task[u])
  BY DEF SettingsInv, SettingsTypeOK
<1>5. /\ task'[t] \in Tasks /\ task'[t].at = 0 - 1
      /\ task'[t] = NoTask \/ /\ task'[t].stream = k.stream
                              /\ task'[t].kind = k.kind /\ task'[t].value = k.value
  <2>1. [s \in Streams |-> 0] \in [Streams -> 0..MaxGop]
    BY EncoderSettingsAssumption
  <2>2. NoTask \in Tasks /\ NoTask.at = 0 - 1
    BY <2>1 DEF NoTask, Tasks
  <2>3. task'[t] = IF k.todo = {} THEN NoTask ELSE [k EXCEPT !.at = 0 - 1]
    BY <1>1, <1>4
  <2>4. k \in Tasks
    BY <1>1
  <2> HIDE DEF k
  <2> QED
    BY <2>2, <2>3, <2>4 DEF Tasks
<1>6. \A u \in Threads \ {t} : task'[u] = task[u]
  BY <1>1, <1>4
<1> HIDE DEF c, k
<1>7. SettingsTypeOK'
  <2>1. arg' \in [Channels -> [Streams -> Values]]
    BY <1>1, <1>3, <1>4
  <2>2. task' \in [Threads -> Tasks]
    BY <1>1, <1>4, <1>5, <1>6
  <2> QED
    BY <2>1, <2>2, <1>1, <1>2 DEF SettingsInv, SettingsTypeOK
<1>8. ASSUME NEW u \in Threads PROVE InHand(task[u])'
  <2>1. CASE u # t
    BY <2>1, <1>2, <1>4, <1>6 DEF InHand
  <2>2. CASE task'[t] = NoTask
    BY <2>1, <2>2 DEF InHand, NoTask
  <2>3. CASE /\ task'[t].stream = k.stream
             /\ task'[t].kind = k.kind /\ task'[t].value = k.value
    <3>1. InHand(k)
      BY <1>4 DEF k
    <3> QED
      BY <2>1, <2>3, <3>1, <1>2, <1>5 DEF InHand
  <2> QED
    BY <2>1, <2>2, <2>3, <1>5
<1>9. ASSUME NEW d \in Channels \ mixed, NEW u \in Threads, task'[u].at = d
      PROVE  u # t /\ task'[u] = task[u] /\ task[u].at = d /\ d # c
  <2>1. u # t
    BY <1>5, <1>9, EncoderSettingsAssumption
  <2>2. task'[u] = task[u] /\ task[u].at = d
    BY <2>1, <1>6, <1>9
  <2>3. Underway(d)
    BY DEF SettingsInv
  <2>4. task[t].at # d
    BY <2>1, <2>2, <2>3 DEF Underway
  <2> QED
    BY <2>1, <2>2, <2>4 DEF c
<1>10. ASSUME NEW d \in Channels \ mixed PROVE Underway(d)'
  <2>1. Underway(d)
    BY DEF SettingsInv
  <2>2. ASSUME NEW u \in Threads, task'[u].at = d
        PROVE  /\ \A v \in Threads : task'[v].at = d => v = u
               /\ \A e \in Encoders : Told(e, elem[d][e], Noted(u, d)', Behind(u, d)')
    <3>1. u # t /\ task'[u] = task[u] /\ task[u].at = d /\ d # c
      BY <2>2, <1>9
    <3>2. arg'[d] = arg[d] /\ (d \in stale' <=> d \in stale)
      BY <3>1, <1>1, <1>4
    <3>3. Noted(u, d)' = Noted(u, d) /\ (Behind(u, d)' <=> Behind(u, d))
      BY <3>1, <3>2, <1>1, NotedSame DEF Behind
    <3>4. \A v \in Threads : task'[v].at = d => v = u
      BY <3>1, <2>1, <1>9 DEF Underway
    <3>5. ASSUME NEW e \in Encoders
          PROVE  Told(e, elem[d][e], Noted(u, d)', Behind(u, d)')
      <4>1. Told(e, elem[d][e], Noted(u, d), Behind(u, d))
        BY <3>1, <2>1 DEF Underway
      <4> QED
        BY <4>1, <3>3 DEF Told
    <3> QED
      BY <3>4, <3>5
  <2> QED
    BY <2>2, <1>1, <1>2 DEF Underway
<1>11. ASSUME NEW d \in Channels \ mixed PROVE Settled(d)'
  <2>1. CASE d = c
    <3>1. arg'[d] = Noted(t, d) /\ (d \in stale' <=> Behind(t, d))
      BY <2>1, <1>1, <1>4 DEF Behind, k
    <3>2. Underway(d) /\ task[t].at = d
      BY <2>1 DEF SettingsInv, c
    <3>3. ASSUME NEW e \in Encoders PROVE Told(e, elem[d][e], arg'[d], d \in stale')
      <4>1. Told(e, elem[d][e], Noted(t, d), Behind(t, d))
        BY <3>2 DEF Underway
      <4> QED
        BY <4>1, <3>1 DEF Told
    <3> QED
      BY <3>3, <1>1, <1>2 DEF Settled
  <2>2. CASE d # c
    <3>1. arg'[d] = arg[d] /\ (d \in stale' <=> d \in stale)
      BY <2>2, <1>1, <1>4
    <3>2. AtRest(d)' => AtRest(d)
      BY <2>2, <1>6 DEF AtRest, c
    <3>3. Settled(d)
      BY DEF SettingsInv
    <3>4. ASSUME AtRest(d)', NEW e \in Encoders
          PROVE  Told(e, elem[d][e], arg'[d], d \in stale')
      <4>1. Told(e, elem[d][e], arg[d], d \in stale)
        BY <3>2, <3>3, <3>4 DEF Settled
      <4> QED
        BY <4>1, <3>1 DEF Told
    <3> QED
      BY <3>4, <1>1, <1>2 DEF Settled
  <2> QED
    BY <2>1, <2>2
<1> QED
  BY <1>1, <1>7, <1>8, <1>10, <1>11 DEF SettingsInv

-----------------------------------------------------------------------------
(* The invariant, and what the runs check of it *)

LEMMA StepInv == SettingsInv /\ [\E t \in Threads : Tune(t)]_settingVars => SettingsInv'
<1> SUFFICES ASSUME SettingsInv, [\E t \in Threads : Tune(t)]_settingVars
             PROVE  SettingsInv'
  OBVIOUS
<1>1. CASE UNCHANGED settingVars
  <2>1. /\ config' = config /\ arg' = arg /\ elem' = elem /\ task' = task
        /\ mixed' = mixed /\ stale' = stale
    BY <1>1 DEF settingVars
  <2>2. Encoders' = Encoders /\ Dual' = Dual
    BY <2>1 DEF Encoders, Dual
  <2>3. SettingsTypeOK' /\ \A t \in Threads : InHand(task[t])'
    BY <2>1, <2>2 DEF SettingsInv, SettingsTypeOK, InHand
  <2>4. ASSUME NEW c \in Channels \ mixed PROVE Settled(c)' /\ Underway(c)'
    <3>1. Settled(c) /\ Underway(c)
      BY DEF SettingsInv
    <3>2. \A t \in Threads : Noted(t, c)' = Noted(t, c) /\ (Behind(t, c)' <=> Behind(t, c))
      BY <2>1, NotedSame DEF Behind
    <3>3. Settled(c)'
      BY <3>1, <2>1, <2>2 DEF Settled, AtRest
    <3>4. ASSUME NEW t \in Threads, task[t].at = c, NEW e \in Encoders
          PROVE  Told(e, elem[c][e], Noted(t, c)', Behind(t, c)')
      <4>1. Told(e, elem[c][e], Noted(t, c), Behind(t, c))
        BY <3>1, <3>4 DEF Underway
      <4> QED
        BY <4>1, <3>2 DEF Told
    <3>5. Underway(c)'
      BY <3>1, <3>4, <2>1, <2>2 DEF Underway
    <3> QED
      BY <3>3, <3>5
  <2> QED
    BY <2>1, <2>3, <2>4 DEF SettingsInv
<1>2. ASSUME NEW t \in Threads, Tune(t) PROVE SettingsInv'
  <2>1. CASE SetBps(t) \/ SetFps(t) \/ SetRate(t) \/ SetMain(t) \/ SetGop(t)
    BY <2>1, SetInv
  <2>2. CASE Apply(t)
    <3>1. PICK c \in Channels : ApplyBps(t, c) \/ ApplyFps(t, c) \/ ApplyRate(t, c)
                                \/ ApplyMain(t, c) \/ ApplyGop(t, c)
      BY <2>2 DEF Apply
    <3> QED
      BY <3>1, ApplyBpsInv, ApplyFpsInv, ApplyRateInv, ApplyMainInv, ApplyGopInv
  <2>3. CASE Note(t)
    BY <2>3, NoteInv
  <2> QED
    BY <1>2, <2>1, <2>2, <2>3 DEF Tune
<1> QED
  BY <1>1, <1>2

(***************************************************************************)
(* cmd_parser() keeps, in every channel in which no two commands met, that *)
(* the encoders are set to what cmdArg tells of them, or will tell once    *)
(* the command that is in the channel has noted its values.                *)
(***************************************************************************)
THEOREM SettingsInvariant == SettingsSpec => []SettingsInv
<1>1. SettingsInit => SettingsInv
  BY InitInv
<1>2. SettingsInv /\ [\E t \in Threads : Tune(t)]_settingVars => SettingsInv'
  BY StepInv
<1> QED
  BY <1>1, <1>2, PTL DEF SettingsSpec

(***************************************************************************)
(* However the "set" commands of the terminal and of the TCP server fall,  *)
(* cmdArg and the encoders agree in every channel that no command is in    *)
(* and no two have met in, and no encoder ever gets the interval 0.        *)
(***************************************************************************)
THEOREM SettingsAgree == SettingsSpec => []Agree
<1>1. SettingsInv => Agree
  <2> SUFFICES ASSUME SettingsInv, NEW c \in Channels, NEW e \in Encoders
               PROVE  /\ elem[c][e].gop \in 1..MaxGop
                      /\ c \notin mixed /\ AtRest(c) => Told(e, elem[c][e], arg[c], c \in stale)
    BY DEF Agree, Told, AtRest
  <2>1. elem[c][e] \in Values
    BY DEF SettingsInv, SettingsTypeOK
  <2>2. ASSUME c \notin mixed, AtRest(c) PROVE Told(e, elem[c][e], arg[c], c \in stale)
    BY <2>2 DEF SettingsInv, Settled
  <2> QED
    BY <2>1, <2>2 DEF Values
<1> QED
  BY <1>1, SettingsInvariant, PTL

-----------------------------------------------------------------------------
(* Key frame intervals *)

(* enc_gop_rescale() rounds to the nearest frame. *)
LEMMA RescaleNearest ==
  ASSUME NEW gop \in 1..MaxGop, NEW prev \in Nat \ {0}, NEW new \in Nat \ {0},
         Rescale(gop, prev, new) \notin {1, MaxGop}
  PROVE  2 * Abs(Rescale(gop, prev, new) * prev - gop * new) <= prev
<1> DEFINE product == gop * new
           half == prev \div 2
           scaled == (product + half) \div prev
           back == scaled * prev
<1>1. product \in Int /\ half \in Int /\ 2 * half <= prev /\ prev <= 2 * half + 1
  BY EncoderSettingsAssumption
<1>2. Rescale(gop, prev, new) = AtMost(IF scaled < 1 THEN 1 ELSE scaled, MaxGop)
  BY EncoderSettingsAssumption DEF Rescale
<1> HIDE DEF product, half
<1>3. scaled \in Int /\ back \in Int
      /\ back <= product + half /\ product + half < back + prev
  BY <1>1
<1>4. Rescale(gop, prev, new) = scaled
  <2> HIDE DEF scaled
  <2> QED
    BY <1>2, <1>3, EncoderSettingsAssumption DEF AtMost
<1>5. 2 * Abs(back - product) <= prev
  <2> HIDE DEF back
  <2> QED
    BY <1>1, <1>3 DEF Abs
<1> HIDE DEF scaled
<1> QED
  BY <1>4, <1>5 DEF product, back

(***************************************************************************)
(* "set fps main" keeps the duration of the key frame interval to half a   *)
(* frame, and "set gop 0" makes it a second of the encoder's own frames.   *)
(***************************************************************************)
THEOREM IntervalsKept == SettingsSpec => KeepsInterval
<1> DEFINE Keeps ==
      \A t \in Threads, c \in Channels, e \in Encoders \ {"rtsp"} :
        c \notin mixed' \cup stale =>
          /\ ApplyMain(t, c) => SameInterval(elem[c][e], elem'[c][e])
          /\ ApplyGop(t, c) /\ task[t].value = 0 /\ Slot(e) = task[t].stream =>
               OneSecond(elem'[c][e])
<1>1. SettingsInv => Keeps
  <2> SUFFICES ASSUME SettingsInv,
                      NEW t \in Threads, NEW c \in Channels, NEW e \in Encoders \ {"rtsp"},
                      c \notin mixed' \cup stale
               PROVE  /\ ApplyMain(t, c) => SameInterval(elem[c][e], elem'[c][e])
                      /\ ApplyGop(t, c) /\ task[t].value = 0 /\ Slot(e) = task[t].stream =>
                           OneSecond(elem'[c][e])
    OBVIOUS
  <2> DEFINE k == task[t]
             old == elem[c][e]
             said == arg[c][Slot(e)]
  <2>1. /\ k \in Tasks /\ old \in Values /\ said \in Values
        /\ elem \in [Channels -> [Encoders -> Values]]
    <3>1. Slot(e) \in Streams
      BY EncodersShape DEF SettingsInv, SettingsTypeOK
    <3> QED
      BY <3>1 DEF SettingsInv, SettingsTypeOK
  <2>2. ASSUME NEW kind, Applies(t, kind, c) PROVE old.gop = said.gop /\ old.fps = said.fps
    BY <2>2, ToldBefore DEF Told
  <2>3. ASSUME ApplyMain(t, c) PROVE SameInterval(old, elem'[c][e])
    <3> DEFINE new == elem'[c][e]
               gop == [s \in Streams |-> Rescaled(t, c, s)]
    <3>1. new = [Paced(old, e, k.value) EXCEPT
                   !.gop = gop[Slot(e)], !.bps = arg[c][Slot(e)].bps]
      BY <2>1, <2>3 DEF ApplyMain, Takes
    <3>2. Applies(t, "main", c)
      BY <2>3 DEF ApplyMain
    <3>3. gop[Slot(e)] = Rescale(old.gop, old.fps, k.value)
      <4>1. Slot(e) \in Streams
        BY EncodersShape DEF SettingsInv, SettingsTypeOK
      <4> QED
        BY <4>1, <3>2, <2>2 DEF Rescaled
    <3> HIDE DEF gop, k, old, said
    <3>4. new.fps = k.value /\ new.gop = Rescale(old.gop, old.fps, k.value)
      BY <3>1, <3>3, <2>1 DEF Paced, Values
    <3>5. /\ old.gop \in 1..MaxGop /\ old.fps \in Int /\ k.value \in Nat
      BY <2>1 DEF Values, Tasks
    <3> HIDE DEF new
    <3>6. ASSUME old.fps > 0, new.fps > 0, new.gop \notin {1, MaxGop}
          PROVE  SameInterval(old, new)
      <4>1. 2 * Abs(Rescale(old.gop, old.fps, k.value) * old.fps - old.gop * k.value)
              <= old.fps
        BY <3>4, <3>5, <3>6, RescaleNearest
      <4> QED
        BY <4>1, <3>4 DEF SameInterval
    <3>7. ASSUME old.fps <= 0 \/ new.fps <= 0 \/ new.gop \in {1, MaxGop}
          PROVE  SameInterval(old, new)
      BY <3>7 DEF SameInterval
    <3>8. SameInterval(old, new)
      BY <3>4, <3>5, <3>6, <3>7
    <3> QED
      BY <3>8 DEF new
  <2>4. ASSUME ApplyGop(t, c), k.value = 0, Slot(e) = k.stream
        PROVE  OneSecond(elem'[c][e])
    <3> DEFINE new == elem'[c][e]
    <3>1. Slot(e) \in Streams
      BY EncodersShape DEF SettingsInv, SettingsTypeOK
    <3>2. new = [old EXCEPT !.gop = ResolvedGop(t, c)]
      BY <3>1, <2>1, <2>4 DEF ApplyGop, Takes
    <3>3. Applies(t, "gop", c)
      BY <2>4 DEF ApplyGop
    <3>4. ResolvedGop(t, c) = Resolve(0, old.fps)
      BY <3>3, <2>2, <2>4 DEF ResolvedGop
    <3> HIDE DEF old, k, said
    <3>5. old.fps \in Int /\ new.fps = old.fps /\ new.gop = Resolve(0, old.fps)
      BY <3>2, <3>4, <2>1 DEF Values
    <3> HIDE DEF new
    <3>6. OneSecond(new)
      BY <3>5 DEF OneSecond, Resolve
    <3> QED
      BY <3>6 DEF new
  <2> QED
    BY <2>3, <2>4
<1>2. SettingsInv /\ [\E t \in Threads : Tune(t)]_settingVars => [Keeps]_settingVars
  BY <1>1
<1> QED
  BY <1>2, SettingsInvariant, PTL DEF SettingsSpec, KeepsInterval
=============================================================================
