----------------------------- MODULE RtspMedia -----------------------------
(***************************************************************************)
(* One channel of the RTSP server: the media that clients make the factory *)
(* construct, each with an appsrc and a media generation; the publication  *)
(* of the newest pair in RtspServerData, from which the encoder's          *)
(* streaming thread feeds it; the enough-data / need-data flow control;    *)
(* the withdrawal of a media that is unprepared; and the shutdown.         *)
(*                                                                         *)
(* A media is a number, which also names its appsrc and its generation.    *)
(* Channels share only g_rtsp_appsrc and its count, the high-water mark of *)
(* the array; the entry of this channel is the variable registry.          *)
(***************************************************************************)
EXTENDS Naturals, FiniteSets, Sequences

CONSTANTS
  MaxMedia,  \* bound on the number of media constructed
  QueueMax,  \* buffers an appsrc holds when it is full (max-bytes)
  Caps,      \* caps the encoder may produce
  Video      \* the channel is a camera's (ch < MAX_CHANNEL)

ASSUME RtspMediaAssumption ==
  MaxMedia \in Nat /\ QueueMax \in Nat \ {0} /\ Video \in BOOLEAN

Media == 1..MaxMedia
None == 0

(* What a generation hooks into its media: the flow signals of the appsrc  *)
(* and the probes and overrun handler that trace, stall or debug it.       *)
Hooks == {"flow", "probes"}

VARIABLES
  info,       \* RtspServerData: see Init
  registry,   \* the channel's entry of g_rtsp_appsrc, a pointer with no reference
  refs,       \* ref_count of each generation
  gen,        \* "none", "new", "active", "cancelled" or "freed"
  hooks,      \* the hooks each generation has in place
  media,      \* "none", "built", "open", "closing" or "gone"
  owned,      \* the media that own a reference to their generation
  source,     \* the streaming thread of each appsrc
  queue,      \* the buffers in each appsrc
  caps,       \* the caps each appsrc was given
  eos,        \* the appsrcs that were sent EOS
  gap,        \* history: the media that missed a frame since the last one they were pushed
  conf,       \* media_configure(), one at a time: the factory holds its lock
  unprep,     \* media_unprepared_cb() of each media
  stream,     \* new_sample_handler()
  kick,       \* of request_keyframe(): "idle", "throttled" or "sent"
  main,       \* the thread that shuts down
  targets,    \* the appsrcs rtspServerSendEosToAllAppsrc() holds
  is_interrupted

genVars == <<refs, gen, hooks, owned>>
srcVars == <<source, queue, eos>>
rtspVars == <<info, registry, genVars, media, srcVars, caps, gap, conf, unprep,
              stream, kick, main, targets, is_interrupted>>

NoCall == [todo |-> <<>>, media |-> None, app |-> None, gen |-> None,
           current |-> FALSE]
Waiting == [pc |-> "wait", app |-> None, gen |-> None, key |-> FALSE]

Init ==
  /\ info = [appsrc |-> None, generation |-> None, full |-> FALSE,
             wait_keyframe |-> FALSE, caps |-> None]
  /\ registry = None
  /\ refs = [m \in Media |-> 0] /\ gen = [m \in Media |-> "none"]
  /\ hooks = [m \in Media |-> {}] /\ owned = {}
  /\ media = [m \in Media |-> "none"]
  /\ source = [m \in Media |-> "stopped"] /\ queue = [m \in Media |-> 0]
  /\ caps = [m \in Media |-> None] /\ eos = {} /\ gap = [m \in Media |-> TRUE]
  /\ conf = NoCall /\ unprep = [m \in Media |-> NoCall]
  /\ stream = Waiting /\ kick = "idle"
  /\ main = "run" /\ targets = {} /\ is_interrupted = FALSE

-----------------------------------------------------------------------------
(* Generations (rtspSync.cpp) *)

Active(m) == m # None /\ gen[m] = "active"

Deactivated(m) == [gen EXCEPT ![m] = "cancelled"]

(* slip: only one reference is dropped, whatever the call holds *)
RemainingOne(m, n) == refs[m] - 1

Remaining(m, n) == refs[m] - n

(* The generation is given n references less: the last one frees it. *)
Unref(m, n, states) ==
  /\ refs' = [refs EXCEPT ![m] = Remaining(m, n)]
  /\ gen' = IF Remaining(m, n) = 0 THEN [states EXCEPT ![m] = "freed"] ELSE states

(* A hook is released once, whoever comes first: the set is swapped for    *)
(* the empty one under data->lock, and each hook removed drops its         *)
(* reference.                                                              *)
Released(m) == [hooks EXCEPT ![m] = {}]

-----------------------------------------------------------------------------
(* The RTSP client thread: media_configure() *)

Step(call, label) == call.todo # <<>> /\ Head(call.todo) = label

Continue(call) == [call EXCEPT !.todo = Tail(@)]

(* slip: the replaced appsrc is given back before the registry forgets it *)
ConfigureUnrefFirst ==
  <<"publish", "retire", "unref", "register", "connect">>

Configure == <<"publish", "retire", "register", "unref", "connect">>
Withdraw == <<"unregister", "retire", "unref", "connect">>

(* The media has been constructed, its appsrc found, and its generation    *)
(* made, with every hook in place, before anything is published.           *)
Construct(m) ==
  /\ conf.todo = <<>> /\ main # "stopped"
  /\ media[m] = "none" /\ \A k \in 1..(m - 1) : media[k] # "none"
  /\ media' = [media EXCEPT ![m] = "built"]
  /\ conf' = [NoCall EXCEPT !.todo = Configure, !.media = m]
  /\ gen' = [gen EXCEPT ![m] = "new"]
  /\ hooks' = [hooks EXCEPT ![m] = Hooks]
  /\ refs' = [refs EXCEPT ![m] = 1 + Cardinality(Hooks)]
  /\ owned' = owned \cup {m}
  /\ UNCHANGED <<info, registry, srcVars, caps, gap, unprep, stream, kick, main,
                 targets, is_interrupted>>

(* The appsrc is not in the media: what was published is withdrawn. *)
ConstructNoAppsrc(m) ==
  /\ conf.todo = <<>> /\ main # "stopped"
  /\ media[m] = "none" /\ \A k \in 1..(m - 1) : media[k] # "none"
  /\ media' = [media EXCEPT ![m] = "built"]
  /\ conf' = [NoCall EXCEPT !.todo = Withdraw, !.media = m,
                             !.app = info.appsrc, !.gen = info.generation]
  /\ info' = [info EXCEPT !.appsrc = None, !.generation = None]
  /\ UNCHANGED <<registry, genVars, srcVars, caps, gap, unprep, stream, kick,
                 main, targets, is_interrupted>>

(* No fallback caps, or no generation: what was published stays. *)
ConstructFails(m) ==
  /\ conf.todo = <<>> /\ main # "stopped"
  /\ media[m] = "none" /\ \A k \in 1..(m - 1) : media[k] # "none"
  /\ media' = [media EXCEPT ![m] = "built"]
  /\ conf' = [NoCall EXCEPT !.todo = <<"connect">>, !.media = m]
  /\ UNCHANGED <<info, registry, genVars, srcVars, caps, gap, unprep, stream,
                 kick, main, targets, is_interrupted>>

(* slip: the next frame is let through, whatever it is *)
PublishedNoWait(m) ==
  [info EXCEPT !.appsrc = m, !.generation = m, !.full = FALSE]

(* A new media shows nothing before the key frame that is asked for. *)
Published(m) ==
  [info EXCEPT !.appsrc = m, !.generation = m, !.full = FALSE,
               !.wait_keyframe = Video]

Fallback == 0 - 1

(* slip: the fallback caps, whatever the encoder already produces *)
GivenFallback(m) == [caps EXCEPT ![m] = Fallback]

GivenCaps(m) == [caps EXCEPT ![m] = IF info.caps # None THEN info.caps ELSE Fallback]

Publish ==
  /\ Step(conf, "publish")
  /\ info' = Published(conf.media)
  /\ conf' = [Continue(conf) EXCEPT !.app = info.appsrc, !.gen = info.generation]
  /\ refs' = [refs EXCEPT ![conf.media] = @ + 1]
  /\ gen' = [gen EXCEPT ![conf.media] = "active"]
  /\ caps' = GivenCaps(conf.media)
  /\ UNCHANGED <<registry, hooks, owned, media, srcVars, gap, unprep, stream,
                 kick, main, targets, is_interrupted>>

(* The replaced generation is deactivated, its hooks are released, and the *)
(* reference of RtspServerData is dropped.                                 *)
RetireOld ==
  /\ Step(conf, "retire") /\ conf' = [Continue(conf) EXCEPT !.gen = None]
  /\ IF conf.gen = None THEN UNCHANGED <<refs, gen, hooks>>
     ELSE /\ Unref(conf.gen, 1 + Cardinality(hooks[conf.gen]), Deactivated(conf.gen))
          /\ hooks' = Released(conf.gen)
  /\ UNCHANGED <<info, registry, owned, media, srcVars, caps, gap, unprep,
                 stream, kick, main, targets, is_interrupted>>

Register ==
  /\ \/ Step(conf, "register") /\ registry' = conf.media
     \/ /\ Step(conf, "unregister")
        /\ registry' = IF registry = conf.app THEN None ELSE registry
  /\ conf' = Continue(conf)
  /\ UNCHANGED <<info, genVars, media, srcVars, caps, gap, unprep, stream, kick,
                 main, targets, is_interrupted>>

UnrefOld ==
  /\ Step(conf, "unref") /\ conf' = [Continue(conf) EXCEPT !.app = None]
  /\ UNCHANGED <<info, registry, genVars, media, srcVars, caps, gap, unprep,
                 stream, kick, main, targets, is_interrupted>>

(* slip: the request that is throttled counts as sent, for ever *)
RequestOnce == IF Video /\ kick = "idle" THEN "throttled" ELSE kick

(* request_keyframe(): at most one a second, and none for audio. *)
RequestKeyframe == IF Video /\ kick = "idle" THEN "sent" ELSE kick

(* A published media asks for a key frame. The prepared and unprepared     *)
(* signals are connected last; the media may then stream.                  *)
Connect ==
  /\ Step(conf, "connect") /\ conf' = NoCall
  /\ kick' = IF conf.media \in owned THEN RequestKeyframe ELSE kick
  /\ media' = [media EXCEPT ![conf.media] = "open"]
  /\ source' = [source EXCEPT ![conf.media] =
                  IF conf.media \in owned THEN "run" ELSE @]
  /\ UNCHANGED <<info, registry, genVars, queue, eos, caps, gap, unprep, stream,
                 main, targets, is_interrupted>>

-----------------------------------------------------------------------------
(* A media's own threads: its streaming thread, which empties the appsrc,  *)
(* and the thread that unprepares it.                                      *)

Pull(m) ==
  /\ source[m] = "run" /\ queue[m] > 0
  /\ queue' = [queue EXCEPT ![m] = @ - 1]
  /\ UNCHANGED <<info, registry, genVars, media, source, eos, caps, gap, conf,
                 unprep, stream, kick, main, targets, is_interrupted>>

(* An empty appsrc emits need-data and waits; the closure that is being    *)
(* called keeps its generation.                                            *)
EmitNeedData(m) ==
  /\ source[m] = "run" /\ queue[m] = 0
  /\ source' = [source EXCEPT ![m] = IF "flow" \in hooks[m] THEN "need" ELSE "starving"]
  /\ refs' = [refs EXCEPT ![m] = IF "flow" \in hooks[m] THEN @ + 1 ELSE @]
  /\ UNCHANGED <<info, registry, gen, hooks, owned, media, queue, eos, caps, gap,
                 conf, unprep, stream, kick, main, targets, is_interrupted>>

(* slip: a signal of a replaced media is taken for one of the current *)
AnyActive(m) == Active(m) \/ info.generation # None

Current(m) == Active(m) /\ info.generation = m

NeedData(m) ==
  /\ source[m] = "need"
  /\ source' = [source EXCEPT ![m] = IF queue[m] = 0 THEN "starving" ELSE "run"]
  /\ info' = IF Current(m) THEN [info EXCEPT !.full = FALSE] ELSE info
  /\ kick' = IF Current(m) /\ info.wait_keyframe THEN RequestKeyframe ELSE kick
  /\ Unref(m, 1, gen)
  /\ UNCHANGED <<registry, hooks, owned, media, queue, eos, caps, gap, conf,
                 unprep, stream, main, targets, is_interrupted>>

(* The media is set to NULL, which stops and flushes its appsrc. *)
StopMedia(m) ==
  /\ media[m] = "open" /\ source[m] # "need"
  /\ media' = [media EXCEPT ![m] = "closing"]
  /\ source' = [source EXCEPT ![m] = "stopped"]
  /\ queue' = [queue EXCEPT ![m] = 0]
  /\ UNCHANGED <<info, registry, genVars, eos, caps, gap, conf, unprep, stream,
                 kick, main, targets, is_interrupted>>

Unprepare == <<"detach", "unregister", "release">>

(* The owner's reference is taken from the media. The element may already  *)
(* be out of reach.                                                        *)
Unprepared(m) ==
  /\ media[m] = "closing" /\ unprep[m] = NoCall
  /\ \E found \in {m, None} :
       unprep' = [unprep EXCEPT ![m] =
         [NoCall EXCEPT !.todo = Unprepare, !.media = found,
                        !.gen = IF m \in owned THEN m ELSE None]]
  /\ owned' = owned \ {m}
  /\ gen' = IF m \in owned THEN Deactivated(m) ELSE gen
  /\ UNCHANGED <<info, registry, refs, hooks, media, srcVars, caps, gap, conf,
                 stream, kick, main, targets, is_interrupted>>

Matches(call) == call.gen # None /\ info.generation = call.gen

(* Only what this media published is withdrawn. *)
Detach(m) ==
  /\ Step(unprep[m], "detach")
  /\ \/ /\ Matches(unprep[m])
        /\ info' = [info EXCEPT !.appsrc = None, !.generation = None]
        /\ unprep' = [unprep EXCEPT ![m] =
             [Continue(@) EXCEPT !.app = info.appsrc, !.current = TRUE]]
     \/ /\ ~Matches(unprep[m])
        /\ unprep[m].media # None /\ info.appsrc = unprep[m].media
        /\ info' = [info EXCEPT !.appsrc = None]
        /\ unprep' = [unprep EXCEPT ![m] = [Continue(@) EXCEPT !.app = info.appsrc]]
     \/ /\ ~Matches(unprep[m])
        /\ unprep[m].media = None \/ info.appsrc # unprep[m].media
        /\ unprep' = [unprep EXCEPT ![m] = Continue(@)] /\ UNCHANGED info
  /\ UNCHANGED <<registry, genVars, media, srcVars, caps, gap, conf, stream, kick,
                 main, targets, is_interrupted>>

DetachedApp(call) == IF call.app # None THEN call.app ELSE call.media

Unregister(m) ==
  /\ Step(unprep[m], "unregister")
  /\ registry' = IF registry = DetachedApp(unprep[m]) THEN None ELSE registry
  /\ unprep' = [unprep EXCEPT ![m] = Continue(@)]
  /\ UNCHANGED <<info, genVars, media, srcVars, caps, gap, conf, stream, kick,
                 main, targets, is_interrupted>>

(* The hooks go, then the owner's reference and that of RtspServerData;    *)
(* the media can be finalized.                                             *)
Release(m) ==
  /\ Step(unprep[m], "release")
  /\ IF unprep[m].gen = None THEN UNCHANGED <<refs, gen, hooks>>
     ELSE /\ Unref(m, Cardinality(hooks[m]) + (IF unprep[m].current THEN 2 ELSE 1), gen)
          /\ hooks' = Released(m)
  /\ unprep' = [unprep EXCEPT ![m] = NoCall]
  /\ media' = [media EXCEPT ![m] = "gone"]
  /\ UNCHANGED <<info, registry, owned, srcVars, caps, gap, conf, stream, kick,
                 main, targets, is_interrupted>>

(* A media that was never prepared goes without the signal: the destroy    *)
(* notification of the owner's reference does what is left.                *)
OwnerFree(m) ==
  /\ media[m] = "open" /\ source[m] # "need"
  /\ media' = [media EXCEPT ![m] = "gone"]
  /\ source' = [source EXCEPT ![m] = "stopped"]
  /\ queue' = [queue EXCEPT ![m] = 0]
  /\ owned' = owned \ {m}
  /\ IF m \notin owned THEN UNCHANGED <<refs, gen, hooks>>
     ELSE /\ Unref(m, 1 + Cardinality(hooks[m]), Deactivated(m))
          /\ hooks' = Released(m)
  /\ UNCHANGED <<info, registry, eos, caps, gap, conf, unprep, stream, kick, main,
                 targets, is_interrupted>>

-----------------------------------------------------------------------------
(* The encoder's streaming thread: new_sample_handler() *)

(* After a drop nothing is shown before a key frame. *)
Dropped(key) == info.full \/ (info.wait_keyframe /\ ~key)

WaitsAfter(key) == Dropped(key)

(* The caps given to the published appsrc follow the encoder's. *)
CapsFollow(c) ==
  IF c # info.caps /\ info.appsrc # None
  THEN [caps EXCEPT ![info.appsrc] = c] ELSE caps

(* A sample is taken and what to do with it decided, under the lock; the   *)
(* appsrc and the generation are held for the use after the unlock.        *)
Sample(key, c) ==
  LET app == IF Dropped(key) THEN None ELSE info.appsrc IN
  /\ stream.pc = "wait"
  /\ (kick = "sent" \/ ~Video) => key
  /\ stream' = [pc |-> IF app # None THEN "check"
                       ELSE IF ~info.full /\ Dropped(key) THEN "ask" ELSE "drop",
                app |-> app, gen |-> info.generation, key |-> key]
  /\ info' = [info EXCEPT !.wait_keyframe = WaitsAfter(key), !.caps = c]
  /\ caps' = CapsFollow(c)
  /\ refs' = IF info.generation = None THEN refs
             ELSE [refs EXCEPT ![info.generation] = @ + 1]
  /\ gap' = [m \in Media |-> m # app \/ gap[m]]
  /\ kick' = IF key /\ kick = "sent" THEN "throttled" ELSE kick
  /\ UNCHANGED <<registry, gen, hooks, owned, media, srcVars, conf, unprep, main,
                 targets, is_interrupted>>

(* The handler ends: the frame was pushed or is missing from its media. *)
Finish(pushed, pc) ==
  /\ stream' = [Waiting EXCEPT !.pc = pc]
  /\ IF stream.gen = None THEN UNCHANGED <<refs, gen>> ELSE Unref(stream.gen, 1, gen)
  /\ gap' = IF stream.app = None THEN gap ELSE [gap EXCEPT ![stream.app] = ~pushed]
  /\ UNCHANGED <<info, registry, hooks, owned, media, source, eos, caps, conf,
                 unprep, main, targets, is_interrupted>>

DropFrame ==
  /\ stream.pc \in {"ask", "drop"}
  /\ kick' = IF stream.pc = "ask" THEN RequestKeyframe ELSE kick
  /\ Finish(FALSE, "wait") /\ UNCHANGED queue

GoOn(pc) ==
  /\ stream' = [stream EXCEPT !.pc = pc]
  /\ UNCHANGED <<registry, genVars, media, srcVars, caps, gap, conf, unprep, kick,
                 main, targets, is_interrupted>>

(* Nothing is pushed any more once the application is ending. A copy that  *)
(* fails stops the encoder's branch with an error.                         *)
Interrupted ==
  /\ stream.pc = "check" /\ is_interrupted
  /\ Finish(FALSE, "wait") /\ UNCHANGED <<queue, kick>>

CopyFails ==
  /\ stream.pc = "check" /\ ~is_interrupted
  /\ Finish(FALSE, "error") /\ UNCHANGED <<queue, kick>>

CopyFrame ==
  /\ stream.pc = "check" /\ ~is_interrupted
  /\ GoOn("push") /\ UNCHANGED info

(* An appsrc takes buffers from its construction until it is stopped or    *)
(* sent EOS. One that is full tells so first, and takes the buffer then.   *)
Accepts(m) == media[m] \in {"built", "open"} /\ m \notin eos

PushFull ==
  /\ stream.pc = "push" /\ Accepts(stream.app) /\ queue[stream.app] >= QueueMax
  /\ GoOn(IF "flow" \in hooks[stream.app] THEN "enough" ELSE "enqueue")
  /\ UNCHANGED info

EnoughData ==
  /\ stream.pc = "enough"
  /\ info' = IF Current(stream.app) THEN [info EXCEPT !.full = TRUE] ELSE info
  /\ GoOn("enqueue")

Enqueue ==
  /\ \/ stream.pc = "push" /\ queue[stream.app] < QueueMax
     \/ stream.pc = "enqueue"
  /\ Accepts(stream.app)
  /\ queue' = [queue EXCEPT ![stream.app] = @ + 1]
  /\ stream' = Waiting
  /\ source' = [source EXCEPT ![stream.app] = IF @ = "starving" THEN "run" ELSE @]
  /\ IF stream.gen = None THEN UNCHANGED <<refs, gen>> ELSE Unref(stream.gen, 1, gen)
  /\ gap' = [gap EXCEPT ![stream.app] = FALSE]
  /\ UNCHANGED <<info, registry, hooks, owned, media, eos, caps, conf, unprep,
                 kick, main, targets, is_interrupted>>

PushFails ==
  /\ stream.pc \in {"push", "enqueue"} /\ ~Accepts(stream.app)
  /\ Finish(FALSE, "wait") /\ UNCHANGED <<queue, kick>>

(* A second has passed since the last key frame was asked for. *)
Second ==
  /\ kick = "throttled" /\ kick' = "idle"
  /\ UNCHANGED <<info, registry, genVars, media, srcVars, caps, gap, conf, unprep,
                 stream, main, targets, is_interrupted>>

-----------------------------------------------------------------------------
(* The main thread: SIGTERM, or another end of the application *)

End ==
  /\ main = "run"
  /\ is_interrupted' = TRUE
  /\ main' \in {"eos", "stop"}
  /\ UNCHANGED <<info, registry, genVars, media, srcVars, caps, gap, conf, unprep,
                 stream, kick, targets>>

CollectTargets ==
  /\ main = "eos" /\ main' = "send"
  /\ targets' = {registry} \ {None} /\ registry' = None
  /\ UNCHANGED <<info, genVars, media, srcVars, caps, gap, conf, unprep, stream,
                 kick, is_interrupted>>

SendEos ==
  /\ main = "send" /\ main' = "stop"
  /\ eos' = eos \cup targets /\ targets' = {}
  /\ UNCHANGED <<info, registry, genVars, media, source, queue, caps, gap, conf,
                 unprep, stream, kick, is_interrupted>>

(* rtspServerStop(): no client is left, and none can come. *)
StopServer ==
  /\ main = "stop" /\ main' = "stopped"
  /\ UNCHANGED <<info, registry, genVars, media, srcVars, caps, gap, conf, unprep,
                 stream, kick, targets, is_interrupted>>

-----------------------------------------------------------------------------
ConfigureRuns ==
  Publish \/ RetireOld \/ Register \/ UnrefOld \/ Connect
UnprepareRuns(m) == Unprepared(m) \/ Detach(m) \/ Unregister(m) \/ Release(m)
MediaRuns(m) == Pull(m) \/ EmitNeedData(m) \/ NeedData(m)
HandlerRuns ==
  DropFrame \/ Interrupted \/ CopyFails \/ CopyFrame \/ PushFull \/ EnoughData
    \/ Enqueue \/ PushFails
SampleTaken == \E key \in BOOLEAN, c \in Caps : Sample(key, c)
MainRuns == CollectTargets \/ SendEos \/ StopServer

Next ==
  \/ \E m \in Media : Construct(m) \/ ConstructNoAppsrc(m) \/ ConstructFails(m)
  \/ ConfigureRuns
  \/ \E m \in Media : MediaRuns(m) \/ StopMedia(m) \/ UnprepareRuns(m) \/ OwnerFree(m)
  \/ SampleTaken \/ HandlerRuns \/ Second
  \/ End \/ MainRuns

(* The threads run; a media is stopped once the server has removed its     *)
(* clients.                                                                *)
Fairness ==
  /\ WF_rtspVars(ConfigureRuns)
  /\ \A m \in Media :
       /\ WF_rtspVars(MediaRuns(m))
       /\ WF_rtspVars(UnprepareRuns(m) \/ (main = "stopped" /\ StopMedia(m)))
  /\ WF_rtspVars(SampleTaken \/ HandlerRuns)
  /\ WF_rtspVars(Second) /\ WF_rtspVars(MainRuns)

Spec == Init /\ [][Next]_rtspVars /\ Fairness

-----------------------------------------------------------------------------
(* Properties *)

One(condition) == IF condition THEN 1 ELSE 0

(* The references that the media, its hooks, RtspServerData and the        *)
(* threads in flight hold of a generation.                                 *)
Holders(m) ==
  One(m \in owned) + Cardinality(hooks[m]) + One(info.generation = m)
    + One(conf.gen = m) + One(unprep[m].gen = m) + One(unprep[m].current)
    + One(stream.gen = m) + One(source[m] = "need")

(* A generation is freed by its last holder and by nobody else, whichever  *)
(* of media_configure(), media_unprepared_cb(), the owner's notification,  *)
(* the hooks and a frame in flight comes last: it never outlives its       *)
(* holders, and is never used after it was freed.                          *)
FreedByTheLast ==
  \A m \in Media :
    /\ refs[m] = Holders(m)
    /\ gen[m] \notin {"none", "freed"} <=> Holders(m) > 0

(* The appsrc and the generation that RtspServerData publishes belong to   *)
(* the same media, and a late unprepare never withdraws those of another:  *)
(* of the newest media with a generation, unless it was itself unprepared. *)
(* Nor has the appsrc in use the caps of an encoder configuration that is  *)
(* gone: media_configure() and the sample handler write them in turn.      *)
PublishedPair ==
  /\ info.appsrc = info.generation
  /\ info.appsrc # None /\ info.caps # None => caps[info.appsrc] = info.caps
  /\ \A m \in Media :
       m \in owned /\ gen[m] = "active" /\ ~(conf.todo # <<>> /\ conf.gen = m) =>
         info.generation = m

(* g_rtsp_appsrc holds no reference: an appsrc is in it only while someone *)
(* else keeps it alive, so that the shutdown can take its own.             *)
RegistryAlive ==
  registry # None =>
    \/ media[registry] \in {"built", "open", "closing"}
    \/ registry \in {info.appsrc, conf.app, stream.app} \cup targets
    \/ \E m \in Media : registry \in {unprep[m].app, unprep[m].media}

(* Every frame an appsrc accepts can be decoded: it is a key frame, or     *)
(* the one before it was accepted too, across full queues, replaced media  *)
(* and throttled key frame requests.                                       *)
Decodable ==
  stream.pc \in {"push", "enough", "enqueue"} /\ Accepts(stream.app) =>
    stream.key \/ ~gap[stream.app]

(* The flow control cannot wedge: with the mark "full" on, no media waits  *)
(* for a buffer that every new frame is dropped for.                       *)
NeverWedged ==
  /\ info.full /\ info.appsrc # None
  /\ source[info.appsrc] = "starving" /\ Accepts(info.appsrc)
  => stream.app = info.appsrc

(* A published media that stays gets its picture, however the drops, the   *)
(* replacements and the throttled key frame requests fall.                 *)
PictureArrives ==
  \A m \in Media :
    info.appsrc = m ~> \/ ~gap[m] \/ info.appsrc # m \/ is_interrupted
                       \/ stream.pc = "error" \/ media[m] = "gone"
=============================================================================
