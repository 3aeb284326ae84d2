----------------------- MODULE CaptureRequestsProofs -----------------------
(***************************************************************************)
(* The safety of a channel's captures, for any number of clients, of       *)
(* requests and of frames asked for, streamed or collected.                *)
(*                                                                         *)
(* OrderInv: the files written, the task the worker holds, the tasks that  *)
(* wait, the request in service and the requests that wait follow each     *)
(* other, by request and by index.  So no file is written twice, and the   *)
(* captureCnt of a request, which counts its files, tells when there is    *)
(* one for each index.  AnswerInv: once a request has its answer, only the *)
(* task in the worker's hands can still add a file, for the tasks of a     *)
(* request that has timed out are not taken.  ValveInv: nothing is queued  *)
(* or served while a client joins the feeder, and frames are collected for *)
(* the PNG encoder only.                                                   *)
(***************************************************************************)
EXTENDS CaptureRequests, Integers, FiniteSetTheorems, SequenceTheorems, TLAPS

(***************************************************************************)
(* Types.                                                                  *)
(***************************************************************************)
OrNone == Requests \cup {None}
Tasks == [req : OrNone, index : Nat, frame : OrNone]
FeederStates == {"none", "loop", "push", "exit", "last"}
ClientStates == {"idle", "stopping", "joining"}

TypeOK ==
  /\ mode \in Modes
  /\ asked \in Seq(Nat \ {0}) /\ Len(asked) <= MaxRequests
  /\ continuous \in SUBSET Requests /\ timed_out \in SUBSET Requests
  /\ stopped \in SUBSET Requests
  /\ answers \in [Requests -> Seq(Nat)]
  /\ files \in SUBSET (Requests \X Nat) /\ captureCnt \in [Requests -> Nat]
  /\ worker \in {"idle", "writing", "next"} /\ task \in Tasks
  /\ request_queue \in Seq(Requests) /\ current_request \in OrNone /\ pushed \in Nat
  /\ task_queue \in Seq(Tasks)
  /\ valve \in BOOLEAN /\ chain \in Seq(OrNone) /\ collecting \in BOOLEAN
  /\ buffering_active \in BOOLEAN /\ buffering_req \in OrNone /\ buffers \in Seq(OrNone)
  /\ feeder \in [Feeders -> FeederStates] /\ carried \in [Feeders -> OrNone]
  /\ handle \in Feeders \cup {None} /\ feeder_running \in BOOLEAN
  /\ at \in [Clients -> ClientStates]
  /\ crashed \in BOOLEAN

(***************************************************************************)
(* The order: the files written, the task the worker holds, the tasks that *)
(* wait, the request being served and the requests that wait, each before  *)
(* the next.                                                               *)
(***************************************************************************)
Earlier(r, k, q, l) == r < q \/ (r = q /\ k < l)

QueueOrder ==
  /\ current_request # None =>
       current_request \in Made /\ pushed < asked[current_request]
  /\ \A i \in DOMAIN request_queue :
       request_queue[i] \in Made /\ current_request < request_queue[i]
  /\ \A i, j \in DOMAIN request_queue : i < j => request_queue[i] < request_queue[j]

(* Frame k of request r was taken for it. *)
Issued(r, k) ==
  /\ r \in Made /\ k \in 0..(asked[r] - 1)
  /\ current_request # None => Earlier(r, k, current_request, pushed)
  /\ \A i \in DOMAIN request_queue : r < request_queue[i]

AllIssued ==
  /\ \A i \in DOMAIN task_queue : Issued(task_queue[i].req, task_queue[i].index)
  /\ worker = "writing" => Issued(task.req, task.index)

TaskOrder ==
  /\ Len(task_queue) <= QueueLimit + 1
  /\ AllIssued
  /\ \A i, j \in DOMAIN task_queue : i < j =>
       Earlier(task_queue[i].req, task_queue[i].index,
               task_queue[j].req, task_queue[j].index)
  /\ worker = "writing" =>
       \A i \in DOMAIN task_queue :
         Earlier(task.req, task.index, task_queue[i].req, task_queue[i].index)

FileOrder ==
  \A f \in files :
    /\ Issued(f[1], f[2])
    /\ worker = "writing" => Earlier(f[1], f[2], task.req, task.index)
    /\ \A i \in DOMAIN task_queue :
         Earlier(f[1], f[2], task_queue[i].req, task_queue[i].index)

OrderInv == QueueOrder /\ TaskOrder /\ FileOrder

(***************************************************************************)
(* The answers: captureCnt counts the files, and once a request has its    *)
(* answer only the task in the worker's hands can add one.                 *)
(***************************************************************************)
Written(r) == {f \in files : f[1] = r}

Counted ==
  /\ IsFiniteSet(files)
  /\ \A r \in Requests : captureCnt[r] = Cardinality(Written(r))

Answered(r) == answers[r] # <<>>

AnswersKept ==
  \A r \in Requests : Answered(r) =>
    /\ r \in Made
    /\ answers[r][1] <= captureCnt[r] /\ captureCnt[r] <= answers[r][1] + 1
    /\ answers[r][1] < asked[r] => r \in timed_out
    /\ worker = "writing" /\ task.req = r => captureCnt[r] = answers[r][1]

AnswerInv == Counted /\ AnswersKept

(***************************************************************************)
(* The valve: nothing is queued or served while a client joins, and frames *)
(* are collected for the PNG encoder only.                                 *)
(***************************************************************************)
ValveInv ==
  /\ ValveOpenForWork
  /\ ~MutexFree => request_queue = <<>> /\ current_request = None
  /\ ~Png => ~buffering_active /\ ~collecting
-----------------------------------------------------------------------------
(* Sequences without some of their members *)

UpTo(K, i) == {k \in K : k <= i}

(* The members of a finite set of numbers, counted from the least. *)
LEMMA CountedUp ==
  ASSUME NEW K \in SUBSET Nat, IsFiniteSet(K)
  PROVE  /\ \A i, j \in K : i < j => Cardinality(UpTo(K, i)) < Cardinality(UpTo(K, j))
         /\ \A n \in 1..Cardinality(K) : \E i \in K : Cardinality(UpTo(K, i)) = n
<1>0. \A i \in K : i \in Nat
      OBVIOUS
<1>1. ASSUME NEW i \in K
      PROVE  /\ IsFiniteSet(UpTo(K, i)) /\ Cardinality(UpTo(K, i)) \in Nat
             /\ Cardinality(UpTo(K, i)) <= Cardinality(K) /\ Cardinality(UpTo(K, i)) # 0
  <2>1. UpTo(K, i) \in SUBSET K /\ i \in UpTo(K, i)
        BY <1>0 DEF UpTo
  <2>2. IsFiniteSet(UpTo(K, i)) /\ Cardinality(UpTo(K, i)) <= Cardinality(K)
        BY <2>1, FS_Subset
  <2> QED BY <2>1, <2>2, FS_CardinalityType, FS_EmptySet
<1>2. Cardinality(K) \in Nat
      BY FS_CardinalityType
<1>3. ASSUME NEW i \in K, NEW j \in K, i < j
      PROVE  Cardinality(UpTo(K, i)) < Cardinality(UpTo(K, j))
  <2>1. UpTo(K, i) \in SUBSET UpTo(K, j) /\ j \in UpTo(K, j) /\ j \notin UpTo(K, i)
    <3>1. \A k \in K : k <= i => k <= j
          BY <1>0, <1>3
    <3>2. j <= j /\ ~(j <= i)
          BY <1>0, <1>3
    <3> QED BY <3>1, <3>2 DEF UpTo
  <2>2. /\ Cardinality(UpTo(K, i)) <= Cardinality(UpTo(K, j))
        /\ Cardinality(UpTo(K, i)) # Cardinality(UpTo(K, j))
        BY <1>1, <2>1, FS_Subset
  <2> QED BY <1>1, <2>2
<1>4. ASSUME NEW n \in 1..Cardinality(K) PROVE \E i \in K : Cardinality(UpTo(K, i)) = n
  <2> DEFINE T == 1..Cardinality(K)
             rank == [i \in K |-> Cardinality(UpTo(K, i))]
  <2>1. rank \in [K -> T]
        BY <1>1, <1>2
  <2>2. \A i, j \in K : rank[i] = rank[j] => i = j
    <3>1. ASSUME NEW i \in K, NEW j \in K, rank[i] = rank[j] PROVE i = j
      <4>1. ~(i < j) /\ ~(j < i)
            BY <1>1, <1>3, <3>1
      <4> QED BY <1>0, <4>1
    <3> QED BY <3>1
  <2>3. rank \in Injection(K, T)
    <3> HIDE DEF rank, T
    <3> QED BY <2>1, <2>2 DEF Injection, IsInjective
  <2>4. IsFiniteSet(T) /\ Cardinality(T) = Cardinality(K)
        BY <1>2, FS_Interval
  <2>5. rank \in Surjection(K, T)
        BY <2>3, <2>4, FS_Injection
  <2>6. \E i \in K : rank[i] = n
        BY <2>5 DEF Surjection
  <2> QED BY <2>6
<1> QED BY <1>3, <1>4

(* What Without leaves: the members that are not removed, in their order. *)
LEMMA WithoutKeeps ==
  ASSUME NEW S, NEW queue \in Seq(S), NEW removed
  PROVE  /\ Without(queue, removed) \in Seq(S)
         /\ \A n \in DOMAIN Without(queue, removed) :
              \E i \in DOMAIN queue :
                Without(queue, removed)[n] = queue[i] /\ queue[i] \notin removed
         /\ \A m, n \in DOMAIN Without(queue, removed) : m < n =>
              \E i, j \in DOMAIN queue :
                /\ Without(queue, removed)[m] = queue[i]
                /\ Without(queue, removed)[n] = queue[j] /\ i < j
<1> DEFINE kept == {i \in DOMAIN queue : queue[i] \notin removed}
           place(n) == CHOOSE i \in kept : Cardinality({k \in kept : k <= i}) = n
           N == Cardinality(kept)
           result == [n \in 1..N |-> queue[place(n)]]
<1>1. Without(queue, removed) = result
      BY DEF Without
<1>2. kept \in SUBSET Nat /\ IsFiniteSet(kept) /\ N \in Nat
  <2>1. DOMAIN queue = 1..Len(queue) /\ Len(queue) \in Nat
        OBVIOUS
  <2>2. IsFiniteSet(1..Len(queue)) /\ kept \in SUBSET (1..Len(queue))
        BY <2>1, FS_Interval
  <2>3. IsFiniteSet(kept)
        BY <2>2, FS_Subset
  <2> QED BY <2>1, <2>3, FS_CardinalityType
<1>3. ASSUME NEW n \in 1..N
      PROVE  place(n) \in kept /\ Cardinality(UpTo(kept, place(n))) = n
  <2>1. \E i \in kept : Cardinality({k \in kept : k <= i}) = n
        BY <1>2, CountedUp DEF UpTo
  <2> QED BY <2>1 DEF UpTo
<1>4. ASSUME NEW m \in 1..N, NEW n \in 1..N, m < n PROVE place(m) < place(n)
  <2>0. \E i, j \in kept : i = place(m) /\ j = place(n)
        BY <1>3
  <2> SUFFICES ASSUME NEW i \in kept, NEW j \in kept, i = place(m), j = place(n)
               PROVE  i < j
      BY <2>0
  <2>1. Cardinality(UpTo(kept, i)) = m /\ Cardinality(UpTo(kept, j)) = n
        BY <1>3
  <2>2. i \in Nat /\ j \in Nat
    <3>1. \A k \in kept : k \in Nat
          BY <1>2
    <3> QED BY <3>1
  <2>3. i # j /\ ~(j < i)
    <3>1. j < i => Cardinality(UpTo(kept, j)) < Cardinality(UpTo(kept, i))
          BY <1>2, CountedUp
    <3>2. m \in Nat /\ n \in Nat
          BY <1>2
    <3> HIDE DEF kept, place, N
    <3> QED BY <1>4, <2>1, <3>1, <3>2
  <2> HIDE DEF kept, place, N
  <2> QED BY <2>2, <2>3
<1>5. /\ DOMAIN result = 1..N
      /\ \A n \in 1..N : result[n] = queue[place(n)]
      OBVIOUS
<1>6. \A n \in 1..N : place(n) \in DOMAIN queue /\ queue[place(n)] \notin removed
      BY <1>3
<1>7. \A i \in DOMAIN queue : queue[i] \in S
      OBVIOUS
<1> HIDE DEF kept, place, N, result
<1>8. result \in Seq(S)
  <2>1. \A n \in 1..N : result[n] \in S
        BY <1>5, <1>6, <1>7
  <2>2. result = [n \in 1..N |-> result[n]]
        BY <1>5 DEF result
  <2> QED BY <1>2, <2>1, <2>2, IsASeq
<1> QED BY <1>1, <1>4, <1>5, <1>6, <1>8

LEMMA WithoutEmpty ==
  ASSUME NEW S, NEW queue \in Seq(S), NEW removed, queue = <<>>
  PROVE  Without(queue, removed) = <<>>
<1>1. Without(queue, removed) \in Seq(S)
      BY WithoutKeeps
<1>2. \A n \in DOMAIN Without(queue, removed) : FALSE
  <2>1. \A i \in DOMAIN queue : FALSE
        OBVIOUS
  <2> QED BY <2>1, WithoutKeeps
<1>3. \A s \in Seq(S) : (\A n \in DOMAIN s : FALSE) => s = <<>>
  <2>1. \A s \in Seq(S) : s # <<>> => 1 \in DOMAIN s
        OBVIOUS
  <2> QED BY <2>1
<1> QED BY <1>1, <1>2, <1>3

-----------------------------------------------------------------------------
(* Type correctness *)

LEMMA NoneIsNoRequest == None \notin Requests /\ None \in OrNone /\ Live \in OrNone
BY DEF None, Live, Requests, OrNone

LEMMA MadeRequests == TypeOK => Made \subseteq Requests /\ Made = 1..Len(asked)
<1> SUFFICES ASSUME TypeOK PROVE Made \subseteq Requests /\ Made = 1..Len(asked)
    OBVIOUS
<1>1. Made = 1..Len(asked) /\ Len(asked) \in Nat /\ Len(asked) <= MaxRequests
      BY DEF TypeOK, Made
<1>2. MaxRequests \in Nat
      BY CaptureAssumption
<1> QED BY <1>1, <1>2 DEF Requests

LEMMA NoFrames == \A S : <<>> \in Seq(S)
OBVIOUS

LEMMA Moded == TypeOK => Png \in BOOLEAN
BY CaptureAssumption DEF TypeOK, Png

LEMMA AnswerType ==
  ASSUME TypeOK, NEW counts, \A r \in DOMAIN counts \cap Requests : counts[r] \in Nat,
         Answer(counts)
  PROVE  answers' \in [Requests -> Seq(Nat)]
<1>1. \A n \in Nat : <<n>> \in Seq(Nat)
      OBVIOUS
<1> QED BY <1>1 DEF Answer, TypeOK

(* Who is served, and what is left in the queue. *)
LEMMA ServedType ==
  ASSUME TypeOK
  PROVE  /\ Served \in OrNone /\ Pending \in Seq(Requests) /\ PushedOf \in Nat
         /\ Served = None => current_request = None /\ request_queue = <<>>
BY NoneIsNoRequest DEF TypeOK, Served, Pending, PushedOf, OrNone

LEMMA InitTypeOK == Init => TypeOK
<1> SUFFICES ASSUME Init PROVE TypeOK
    OBVIOUS
<1>1. /\ files = {} /\ Len(asked) = 0 /\ asked \in Seq(Nat \ {0})
      /\ request_queue \in Seq(Requests) /\ task_queue \in Seq(Tasks)
      /\ chain \in Seq(OrNone) /\ buffers \in Seq(OrNone)
      BY DEF Init
<1>2. answers \in [Requests -> Seq(Nat)] /\ task \in Tasks
      BY NoneIsNoRequest DEF Init, NoTask, Tasks
<1>3. /\ feeder \in [Feeders -> FeederStates] /\ carried \in [Feeders -> OrNone]
      /\ at \in [Clients -> ClientStates] /\ captureCnt \in [Requests -> Nat]
      BY NoneIsNoRequest DEF Init, FeederStates, ClientStates
<1>4. /\ mode \in Modes /\ continuous \in SUBSET Requests /\ timed_out \in SUBSET Requests
      /\ stopped \in SUBSET Requests /\ Len(asked) <= MaxRequests
      /\ current_request \in OrNone /\ pushed \in Nat /\ buffering_req \in OrNone
      /\ handle \in Feeders \cup {None}
      BY <1>1, NoneIsNoRequest, CaptureAssumption DEF Init
<1>5. /\ files \in SUBSET (Requests \X Nat) /\ worker \in {"idle", "writing", "next"}
      /\ valve \in BOOLEAN /\ collecting \in BOOLEAN /\ buffering_active \in BOOLEAN
      /\ feeder_running \in BOOLEAN /\ crashed \in BOOLEAN
      BY <1>1 DEF Init
<1> QED BY <1>1, <1>2, <1>3, <1>4, <1>5 DEF TypeOK

LEMMA AddTypeOK ==
  ASSUME TypeOK, mode' = mode, NEW c \in Clients, NEW count \in Counts, NEW unbounded \in BOOLEAN,
         AddCaptureRequest(c, count, unbounded)
  PROVE  TypeOK'
<1> USE DEF TypeOK, requestVars, fileVars, queueVars, bufferVars, feederVars
<1> PICK r : r = Len(asked) + 1
    OBVIOUS
<1>1. r \in Requests /\ asked' = Append(asked, count) /\ count \in Nat \ {0}
      BY CaptureAssumption DEF AddCaptureRequest
<1>2. asked' \in Seq(Nat \ {0}) /\ Len(asked') <= MaxRequests
      BY <1>1 DEF Requests
<1>3. chain' \in Seq(OrNone)
  <2>1. Append(chain, r) \in Seq(OrNone)
        BY <1>1 DEF OrNone
  <2> QED BY <2>1 DEF AddCaptureRequest, Injected
<1>4. request_queue' \in Seq(Requests) /\ continuous' \in SUBSET Requests
  <2>1. request_queue' = Append(request_queue, r)
        BY DEF AddCaptureRequest
  <2>2. continuous' \in {continuous, continuous \cup {r}}
        BY DEF AddCaptureRequest
  <2>3. Append(request_queue, r) \in Seq(Requests)
        BY <1>1
  <2> QED BY <1>1, <2>1, <2>2, <2>3
<1>5. buffering_active' \in BOOLEAN /\ buffering_req' \in OrNone /\ buffers' \in Seq(OrNone)
  <2>1. UNCHANGED bufferVars \/ StartBuffering(r)
        BY DEF AddCaptureRequest
  <2>2. CASE StartBuffering(r)
        BY <1>1, <2>2, NoFrames DEF StartBuffering, OrNone
  <2> QED BY <2>1, <2>2
<1> QED BY <1>2, <1>3, <1>4, <1>5 DEF AddCaptureRequest

LEMMA StopTypeOK ==
  ASSUME TypeOK, mode' = mode, NEW c \in Clients, StopCapture(c)
  PROVE  TypeOK'
<1> USE DEF TypeOK, requestVars, fileVars, queueVars, bufferVars, feederVars
<1>1. at' \in [Clients -> ClientStates]
      BY DEF StopCapture, StopCloses, StopClears, StopJoins, ClientStates
<1>2. CASE StopCloses(c)
      BY <1>1, <1>2 DEF StopCloses
<1>3. CASE StopClears(c)
  <2>1. stopped' \in SUBSET Requests
        BY <1>3, MadeRequests DEF StopClears
  <2>2. request_queue' \in Seq(Requests)
        BY <1>3 DEF StopClears
  <2> QED BY <1>1, <1>3, <2>1, <2>2, NoneIsNoRequest DEF StopClears
<1>4. CASE StopJoins(c)
  <2>1. buffers' \in Seq(OrNone)
        BY <1>4 DEF StopJoins
  <2> QED BY <1>1, <1>4, <2>1 DEF StopJoins
<1> QED BY <1>2, <1>3, <1>4 DEF StopCapture

LEMMA SourceTypeOK == TypeOK /\ mode' = mode /\ Source => TypeOK'
<1> SUFFICES ASSUME TypeOK, mode' = mode, Source PROVE TypeOK'
    OBVIOUS
<1> USE DEF TypeOK, requestVars, fileVars, queueVars, bufferVars, feederVars
<1>1. CASE SourceFrame
  <2>1. Append(chain, Live) \in Seq(OrNone)
        BY NoneIsNoRequest
  <2> QED BY <1>1, <2>1 DEF SourceFrame
<1>2. CASE SkipFrame
      BY <1>2 DEF SkipFrame
<1>3. CASE CollectFrame
  <2>1. buffers' \in Seq(OrNone)
        BY <1>3 DEF CollectFrame
  <2>2. /\ feeder' \in [Feeders -> FeederStates] /\ carried' \in [Feeders -> OrNone]
        /\ handle' \in Feeders \cup {None} /\ feeder_running' \in BOOLEAN
        BY <1>3 DEF CollectFrame, StartFeeder, FeederStates
  <2>3. buffering_active' \in BOOLEAN /\ valve' \in BOOLEAN
        BY <1>3 DEF CollectFrame
  <2> QED BY <1>3, <2>1, <2>2, <2>3 DEF CollectFrame
<1>4. CASE CollectCrashes
      BY <1>4 DEF CollectCrashes
<1> QED BY <1>1, <1>2, <1>3, <1>4 DEF Source

LEMMA FeederTypeOK == \A f \in Feeders : TypeOK /\ mode' = mode /\ Feeder(f) => TypeOK'
<1> SUFFICES ASSUME NEW f \in Feeders, TypeOK, mode' = mode, Feeder(f) PROVE TypeOK'
    OBVIOUS
<1> USE DEF TypeOK, requestVars, fileVars, queueVars, bufferVars, feederVars
<1>1. feeder' \in [Feeders -> FeederStates]
      BY DEF Feeder, FeederPops, FeederPushes, FeederClears, FeederEnds, FeederStates
<1>2. CASE FeederPops(f)
  <2>1. buffers' \in Seq(OrNone) /\ carried' \in [Feeders -> OrNone]
    <3>1. CASE feeder_running /\ buffers # <<>>
      <4>1. Head(buffers) \in OrNone /\ Tail(buffers) \in Seq(OrNone)
            BY <3>1
      <4>2. /\ carried' = [carried EXCEPT ![f] = Head(buffers)]
            /\ buffers' = Tail(buffers)
            BY <1>2, <3>1 DEF FeederPops
      <4> QED BY <4>1, <4>2
    <3>2. CASE ~(feeder_running /\ buffers # <<>>)
          BY <1>2, <3>2 DEF FeederPops
    <3> QED BY <3>1, <3>2
  <2> QED BY <1>1, <1>2, <2>1 DEF FeederPops
<1>3. CASE FeederPushes(f)
  <2>1. carried' \in [Feeders -> OrNone] /\ carried[f] \in OrNone
        BY <1>3, NoneIsNoRequest DEF FeederPushes
  <2>2. Append(chain, carried[f]) \in Seq(OrNone)
        BY <2>1
  <2>3. chain' \in {chain, Append(chain, carried[f])}
        BY <1>3 DEF FeederPushes
  <2> QED BY <1>1, <1>3, <2>1, <2>2, <2>3 DEF FeederPushes
<1>4. CASE FeederClears(f)
  <2>1. buffers' \in Seq(OrNone)
        BY <1>4 DEF FeederClears
  <2> QED BY <1>1, <1>4, <2>1, NoneIsNoRequest DEF FeederClears
<1>5. CASE FeederEnds(f)
      BY <1>1, <1>5 DEF FeederEnds
<1> QED BY <1>2, <1>3, <1>4, <1>5 DEF Feeder

LEMMA ToFileTypeOK == TypeOK /\ mode' = mode /\ (ChainDrops \/ ToFile) => TypeOK'
<1> SUFFICES ASSUME TypeOK, mode' = mode, ChainDrops \/ ToFile PROVE TypeOK'
    OBVIOUS
<1> USE DEF TypeOK, requestVars, fileVars, queueVars, bufferVars, feederVars
<1>1. chain' \in Seq(OrNone) /\ Head(chain) \in OrNone
  <2>1. chain # <<>> /\ chain' = Tail(chain)
        BY DEF ChainDrops, ToFile, DropUnrequested, DropQueueFull, PushTask
  <2> QED BY <2>1
<1>2. CASE ChainDrops
      BY <1>1, <1>2 DEF ChainDrops
<1>3. CASE DropUnrequested
      BY <1>1, <1>3 DEF DropUnrequested
<1>4. CASE DropQueueFull
      BY <1>1, <1>4, ServedType DEF DropQueueFull
<1>5. CASE PushTask
  <2>1. [req |-> Served, index |-> PushedOf, frame |-> Head(chain)] \in Tasks
        BY <1>1, ServedType DEF Tasks
  <2>2. task_queue' \in Seq(Tasks)
        BY <1>5, <2>1 DEF PushTask
  <2>3. request_queue' \in Seq(Requests) /\ pushed' \in Nat
    <3>1. request_queue' = Pending /\ pushed' = PushedOf + 1
          BY <1>5 DEF PushTask
    <3>2. Pending \in Seq(Requests) /\ PushedOf \in Nat
          BY ServedType
    <3> HIDE DEF TypeOK
    <3> QED BY <3>1, <3>2
  <2>4. current_request' \in {None, Served} /\ valve' \in {valve, valve /\ MorePending}
        BY <1>5 DEF PushTask
  <2>5. current_request' \in OrNone /\ valve' \in BOOLEAN
        BY <2>4, ServedType, NoneIsNoRequest
  <2> QED BY <1>1, <1>5, <2>2, <2>3, <2>5 DEF PushTask
<1> QED BY <1>2, <1>3, <1>4, <1>5 DEF ToFile

(* The task the worker holds is one of a request. *)
LEMMA TaskType ==
  ASSUME TypeOK
  PROVE  /\ task.req \in OrNone /\ task.index \in Nat /\ NoTask \in Tasks
         /\ \A i \in DOMAIN task_queue : /\ task_queue[i] \in Tasks
                                         /\ task_queue[i].req \in OrNone
                                         /\ task_queue[i].index \in Nat
<1>1. \A t \in Tasks : t.req \in OrNone /\ t.index \in Nat
      BY DEF Tasks
<1>2. task \in Tasks /\ \A i \in DOMAIN task_queue : task_queue[i] \in Tasks
      BY DEF TypeOK
<1> QED BY <1>1, <1>2, NoneIsNoRequest DEF NoTask, Tasks

LEMMA WorkerTypeOK ==
  TypeOK /\ mode' = mode /\ (worker = "writing" => task.req \in Requests) /\ Worker => TypeOK'
<1> SUFFICES ASSUME TypeOK, mode' = mode, worker = "writing" => task.req \in Requests, Worker
             PROVE  TypeOK'
    OBVIOUS
<1> USE DEF TypeOK, requestVars, fileVars, queueVars, bufferVars, feederVars
<1>1. CASE WorkerPops
      BY <1>1 DEF WorkerPops
<1>2. CASE WorkerWrites
  <2>1. task.req \in Requests /\ task.index \in Nat /\ NoTask \in Tasks
        BY <1>2, TaskType DEF WorkerWrites
  <2>2. captureCnt' \in [Requests -> Nat] /\ files' \in SUBSET (Requests \X Nat)
        BY <1>2, <2>1 DEF WorkerWrites
  <2>3. answers' \in [Requests -> Seq(Nat)]
    <3>1. captureCnt[task.req] + 1 \in Nat
          BY <2>1
    <3> QED BY <1>2, <3>1, AnswerType DEF WorkerWrites
  <2> QED BY <1>2, <2>1, <2>2, <2>3 DEF WorkerWrites
<1>3. CASE WorkerFails
      BY <1>3, TaskType DEF WorkerFails
<1>4. CASE WorkerStartsNext
  <2>1. \/ UNCHANGED bufferVars /\ UNCHANGED valve
        \/ request_queue # <<>> /\ StartBuffering(Head(request_queue)) /\ valve' = TRUE
        BY <1>4 DEF WorkerStartsNext
  <2>2. request_queue # <<>> => Head(request_queue) \in OrNone
        BY DEF OrNone
  <2>3. /\ buffering_active' \in BOOLEAN /\ buffering_req' \in OrNone
        /\ buffers' \in Seq(OrNone) /\ valve' \in BOOLEAN
        BY <2>1, <2>2, NoFrames DEF StartBuffering
  <2> QED BY <1>4, <2>3 DEF WorkerStartsNext
<1> QED BY <1>1, <1>2, <1>3, <1>4 DEF Worker

LEMMA TimeoutTypeOK ==
  \A expired \in SUBSET Requests : TypeOK /\ mode' = mode /\ CheckTimeout(expired) => TypeOK'
<1> SUFFICES ASSUME NEW expired \in SUBSET Requests, TypeOK, mode' = mode, CheckTimeout(expired)
             PROVE  TypeOK'
    OBVIOUS
<1> USE DEF TypeOK, requestVars, fileVars, queueVars, bufferVars, feederVars
<1>1. answers' \in [Requests -> Seq(Nat)]
      BY AnswerType DEF CheckTimeout
<1>2. request_queue' \in Seq(Requests)
      BY WithoutKeeps DEF CheckTimeout
<1>3. /\ current_request' \in OrNone /\ valve' \in BOOLEAN
      /\ timed_out' \in SUBSET Requests
      BY NoneIsNoRequest DEF CheckTimeout
<1>4. /\ buffering_active' \in BOOLEAN /\ buffering_req' \in OrNone
      /\ buffers' \in Seq(OrNone) /\ feeder_running' \in BOOLEAN
  <2>1. \/ UNCHANGED <<bufferVars, feeder_running>>
        \/ /\ buffering_active' = FALSE /\ buffering_req' = None
           /\ buffers' = <<>> /\ feeder_running' = FALSE
        BY DEF CheckTimeout
  <2>2. CASE UNCHANGED <<bufferVars, feeder_running>>
        BY <2>2
  <2>3. CASE /\ buffering_active' = FALSE /\ buffering_req' = None
             /\ buffers' = <<>> /\ feeder_running' = FALSE
        BY <2>3, NoneIsNoRequest, NoFrames
  <2> QED BY <2>1, <2>2, <2>3
<1> QED BY <1>1, <1>2, <1>3, <1>4 DEF CheckTimeout

LEMMA Callers == TypeOK => mode.callers \in SUBSET Clients
BY CaptureAssumption DEF TypeOK

LEMMA NextTypeOK ==
  TypeOK /\ (worker = "writing" => task.req \in Requests) /\ [Next]_<<mode, captureVars>>
    => TypeOK'
<1> SUFFICES ASSUME TypeOK, worker = "writing" => task.req \in Requests,
                    [Next]_<<mode, captureVars>>
             PROVE  TypeOK'
    OBVIOUS
<1>1. CASE UNCHANGED <<mode, captureVars>>
      BY <1>1 DEF TypeOK, captureVars, requestVars, fileVars, queueVars, bufferVars, feederVars
<1>2. CASE Next
  <2>1. mode' = mode
        BY <1>2 DEF Next
  <2> QED BY <1>2, <2>1, Callers, AddTypeOK, StopTypeOK, SourceTypeOK, ToFileTypeOK,
             WorkerTypeOK, FeederTypeOK, TimeoutTypeOK DEF Next
<1> QED BY <1>1, <1>2

-----------------------------------------------------------------------------
(* The order *)

LEMMA TailMembers ==
  ASSUME NEW S, NEW s \in Seq(S), s # <<>>
  PROVE  /\ Tail(s) \in Seq(S) /\ Len(Tail(s)) = Len(s) - 1
         /\ \A i \in DOMAIN Tail(s) : i + 1 \in DOMAIN s /\ Tail(s)[i] = s[i + 1]
         /\ 1 \in DOMAIN s /\ Head(s) = s[1]
OBVIOUS

LEMMA AppendMembers ==
  ASSUME NEW S, NEW s \in Seq(S), NEW x \in S
  PROVE  /\ Append(s, x) \in Seq(S) /\ Len(Append(s, x)) = Len(s) + 1
         /\ \A i \in DOMAIN Append(s, x) :
              \/ i \in DOMAIN s /\ Append(s, x)[i] = s[i]
              \/ i = Len(s) + 1 /\ Append(s, x)[i] = x
         /\ \A i \in DOMAIN s : i <= Len(s)
OBVIOUS

LEMMA RequestTypes ==
  ASSUME TypeOK
  PROVE  /\ Requests \subseteq Nat /\ OrNone \subseteq Nat /\ current_request \in Nat
         /\ \A i \in DOMAIN request_queue : request_queue[i] \in Requests
         /\ \A r \in Made : asked[r] \in Nat \ {0}
<1>1. Requests \subseteq Nat /\ OrNone \subseteq Nat
      BY DEF Requests, OrNone, None
<1>2. current_request \in Nat /\ \A r \in Made : asked[r] \in Nat \ {0}
      BY <1>1 DEF TypeOK, Made
<1>3. \A i \in DOMAIN request_queue : request_queue[i] \in Requests
      BY DEF TypeOK
<1> QED BY <1>1, <1>2, <1>3

(* The request in service, or the next to be, comes after all that was     *)
(* issued and before all that still waits.                                 *)
LEMMA ServedNext ==
  ASSUME TypeOK, QueueOrder, Served # None
  PROVE  /\ Served \in Made /\ PushedOf < asked[Served]
         /\ \A r, k : Issued(r, k) => Earlier(r, k, Served, PushedOf)
         /\ \A i \in DOMAIN Pending : Pending[i] \in Made /\ Served < Pending[i]
         /\ \A i, j \in DOMAIN Pending : i < j => Pending[i] < Pending[j]
         /\ \A r, k : Issued(r, k) => \A i \in DOMAIN Pending : r < Pending[i]
<1>1. CASE current_request # None
      BY <1>1 DEF Served, Pending, PushedOf, QueueOrder, Issued
<1>2. CASE current_request = None
  <2>1. request_queue \in Seq(Requests) /\ request_queue # <<>>
        BY <1>2 DEF TypeOK, Served
  <2>2. /\ Served = request_queue[1] /\ 1 \in DOMAIN request_queue
        /\ Pending = Tail(request_queue) /\ PushedOf = 0
        BY <1>2, <2>1, TailMembers DEF Served, Pending, PushedOf
  <2>3. \A i \in DOMAIN Pending :
          i + 1 \in DOMAIN request_queue /\ Pending[i] = request_queue[i + 1] /\ 1 < i + 1
    <3>1. \A i \in DOMAIN Pending : i \in Nat /\ i >= 1
          BY <2>1, <2>2
    <3> QED BY <2>1, <2>2, <3>1, TailMembers
  <2>4. Served \in Made /\ PushedOf < asked[Served]
        BY <2>2, RequestTypes DEF QueueOrder
  <2>5. \A r, k : Issued(r, k) => Earlier(r, k, Served, PushedOf)
        BY <2>2 DEF Issued, Earlier
  <2>6. \A i \in DOMAIN Pending : Pending[i] \in Made /\ Served < Pending[i]
        BY <2>2, <2>3 DEF QueueOrder
  <2>7. \A i, j \in DOMAIN Pending : i < j => Pending[i] < Pending[j]
    <3>1. \A i, j \in DOMAIN Pending : i < j => i + 1 < j + 1
          BY <2>1, <2>2
    <3> QED BY <2>3, <3>1 DEF QueueOrder
  <2>8. \A r, k : Issued(r, k) => \A i \in DOMAIN Pending : r < Pending[i]
        BY <2>3 DEF Issued
  <2> QED BY <2>4, <2>5, <2>6, <2>7, <2>8
<1> QED BY <1>1, <1>2

(* A step that takes no task and writes no file, and takes back nothing    *)
(* that was issued.                                                        *)
LEMMA OrderKept ==
  ASSUME OrderInv, QueueOrder', \A r, k : Issued(r, k) => Issued(r, k)',
         UNCHANGED <<task_queue, worker, task, files>>
  PROVE  OrderInv'
<1>1. TaskOrder'
      BY DEF OrderInv, TaskOrder, AllIssued
<1>2. FileOrder'
      BY DEF OrderInv, FileOrder
<1> QED BY <1>1, <1>2 DEF OrderInv

LEMMA QuietOrder ==
  ASSUME OrderInv, UNCHANGED <<asked, queueVars, task_queue, worker, task, files>>
  PROVE  OrderInv'
<1>1. QueueOrder' /\ \A r, k : Issued(r, k) => Issued(r, k)'
      BY DEF OrderInv, QueueOrder, Issued, Made, queueVars
<1> QED BY <1>1, OrderKept

LEMMA AddOrder ==
  ASSUME TypeOK, OrderInv, NEW c, NEW count \in Nat \ {0}, NEW unbounded,
         AddCaptureRequest(c, count, unbounded)
  PROVE  OrderInv'
<1> PICK r : r = Len(asked) + 1
    OBVIOUS
<1>1. /\ asked' = Append(asked, count) /\ request_queue' = Append(request_queue, r)
      /\ r \in Requests
      /\ UNCHANGED <<current_request, pushed, task_queue, worker, task, files>>
      BY DEF AddCaptureRequest, fileVars
<1>2. /\ Made' = Made \cup {r} /\ r \notin Made
      /\ \A q \in Made : asked'[q] = asked[q] /\ q < r
      BY <1>1, SMTT(30) DEF TypeOK, Made
<1>3. current_request < r
      BY <1>2, NoneIsNoRequest DEF TypeOK, OrderInv, QueueOrder, None
<1>4. \A i \in DOMAIN request_queue' :
        \/ i \in DOMAIN request_queue /\ request_queue'[i] = request_queue[i]
        \/ i = Len(request_queue) + 1 /\ request_queue'[i] = r
      BY <1>1, AppendMembers DEF TypeOK
<1>5. QueueOrder'
  <2>1. current_request' # None => current_request' \in Made' /\ pushed' < asked'[current_request']
        BY <1>1, <1>2 DEF OrderInv, QueueOrder
  <2>2. \A i \in DOMAIN request_queue' :
          request_queue'[i] \in Made' /\ current_request' < request_queue'[i]
        BY <1>1, <1>2, <1>3, <1>4 DEF OrderInv, QueueOrder
  <2>3. ASSUME NEW i \in DOMAIN request_queue', NEW j \in DOMAIN request_queue', i < j
        PROVE  request_queue'[i] < request_queue'[j]
    <3>1. i \in DOMAIN request_queue /\ request_queue'[i] = request_queue[i]
          BY <1>1, <1>4, <2>3, AppendMembers DEF TypeOK
    <3>2. request_queue[i] \in Made
          BY <3>1 DEF OrderInv, QueueOrder
    <3> QED BY <1>2, <1>4, <2>3, <3>1, <3>2 DEF OrderInv, QueueOrder
  <2> QED BY <2>1, <2>2, <2>3 DEF QueueOrder
<1>6. \A q, k : Issued(q, k) => Issued(q, k)'
      BY <1>1, <1>2, <1>4 DEF Issued
<1> QED BY <1>1, <1>5, <1>6, OrderKept

LEMMA StopOrder ==
  ASSUME TypeOK, OrderInv, NEW c, StopCapture(c)
  PROVE  OrderInv'
<1>1. CASE StopCloses(c) \/ StopJoins(c)
      BY <1>1, QuietOrder DEF StopCloses, StopJoins, requestVars, fileVars
<1>2. CASE StopClears(c)
  <2>1. /\ UNCHANGED <<asked, pushed, task_queue, worker, task, files>>
        /\ current_request' = None /\ request_queue' = <<>>
        BY <1>2 DEF StopClears, fileVars
  <2>2. QueueOrder' /\ \A r, k : Issued(r, k) => Issued(r, k)'
        BY <2>1 DEF QueueOrder, Issued, Made
  <2> QED BY <2>1, <2>2, OrderKept
<1> QED BY <1>1, <1>2 DEF StopCapture

LEMMA TimeoutOrder ==
  ASSUME TypeOK, OrderInv, NEW expired, CheckTimeout(expired)
  PROVE  OrderInv'
<1>1. /\ UNCHANGED <<asked, pushed, task_queue, worker, task, files>>
      /\ current_request' \in {current_request, None}
      /\ request_queue' = Without(request_queue, expired)
      BY DEF CheckTimeout, fileVars
<1>2. /\ \A n \in DOMAIN request_queue' :
           \E i \in DOMAIN request_queue : request_queue'[n] = request_queue[i]
      /\ \A m, n \in DOMAIN request_queue' : m < n =>
           \E i, j \in DOMAIN request_queue :
             request_queue'[m] = request_queue[i] /\ request_queue'[n] = request_queue[j] /\ i < j
      BY <1>1, WithoutKeeps DEF TypeOK
<1>3. Made' = Made
      BY <1>1 DEF Made
<1>4. QueueOrder'
  <2>1. current_request' # None => current_request' \in Made' /\ pushed' < asked'[current_request']
        BY <1>1, <1>3 DEF OrderInv, QueueOrder
  <2>2. ASSUME NEW n \in DOMAIN request_queue'
        PROVE  request_queue'[n] \in Made' /\ current_request' < request_queue'[n]
    <3>1. PICK i \in DOMAIN request_queue : request_queue'[n] = request_queue[i]
          BY <1>2
    <3>2. request_queue[i] \in Made /\ request_queue[i] \in Requests
          BY RequestTypes DEF OrderInv, QueueOrder
    <3>3. None < request_queue[i]
          BY <3>2 DEF Requests, None
    <3> QED BY <1>1, <1>3, <3>1, <3>2, <3>3 DEF OrderInv, QueueOrder
  <2>3. \A m, n \in DOMAIN request_queue' : m < n => request_queue'[m] < request_queue'[n]
        BY <1>2 DEF OrderInv, QueueOrder
  <2> QED BY <2>1, <2>2, <2>3 DEF QueueOrder
<1>5. \A r, k : Issued(r, k) => Issued(r, k)'
      BY <1>1, <1>2, <1>3 DEF Issued
<1> QED BY <1>1, <1>4, <1>5, OrderKept

LEMMA ToFileOrder ==
  ASSUME TypeOK, OrderInv, ChainDrops \/ ToFile
  PROVE  OrderInv'
<1>1. CASE ChainDrops \/ DropUnrequested
      BY <1>1, QuietOrder DEF ChainDrops, DropUnrequested, requestVars, fileVars
<1>2. QueueOrder /\ TaskOrder /\ FileOrder
      BY DEF OrderInv
<1>3. CASE DropQueueFull
  <2>1. /\ UNCHANGED <<asked, task_queue, worker, task, files>> /\ Served # None
        /\ current_request' = Served /\ request_queue' = Pending /\ pushed' = PushedOf
        BY <1>3 DEF DropQueueFull, requestVars, fileVars
  <2>2. Made' = Made
        BY <2>1 DEF Made
  <2>3. QueueOrder'
        BY <1>2, <2>1, <2>2, ServedNext DEF QueueOrder
  <2>4. \A r, k : Issued(r, k) => Issued(r, k)'
        BY <1>2, <2>1, <2>2, ServedNext DEF Issued
  <2> QED BY <2>1, <2>3, <2>4, OrderKept
<1>4. CASE PushTask
  <2> PICK t : t = [req |-> Served, index |-> PushedOf, frame |-> Head(chain)]
      OBVIOUS
  <2>1. /\ UNCHANGED <<asked, worker, task, files>> /\ Served # None
        /\ request_queue' = Pending /\ pushed' = PushedOf + 1
        /\ current_request' = IF PushedOf + 1 >= asked[Served] THEN None ELSE Served
        /\ task_queue' = Append(task_queue, t) /\ Len(task_queue) <= QueueLimit
        BY <1>4, CaptureAssumption DEF PushTask, QueueFull, requestVars, fileVars, TypeOK
  <2>2. Made' = Made /\ t.req = Served /\ t.index = PushedOf
        BY <2>1 DEF Made
  <2>3. /\ PushedOf \in Nat /\ asked[Served] \in Nat /\ Served \in Requests
        BY <1>2, <2>1, ServedType, ServedNext, RequestTypes, MadeRequests
  <2>4. /\ current_request' # None => /\ current_request' = Served
                                      /\ pushed' < asked'[current_request']
        BY <2>1, <2>3
  <2>5. QueueOrder'
    <3>1. \A i \in DOMAIN Pending : current_request' < Pending[i]
      <4>1. \A i \in DOMAIN Pending : Pending[i] \in Requests
            BY <1>2, <2>1, ServedNext, MadeRequests
      <4>2. \A r \in Requests : None < r
            BY DEF Requests, None
      <4> QED BY <1>2, <2>1, <2>4, <4>1, <4>2, ServedNext
    <3> QED BY <1>2, <2>1, <2>2, <2>4, <3>1, ServedNext DEF QueueOrder
  <2>6. \A r, k : Issued(r, k) => Issued(r, k)'
    <3>1. ASSUME NEW r, NEW k, Issued(r, k) PROVE Earlier(r, k, Served, PushedOf + 1)
      <4>1. Earlier(r, k, Served, PushedOf)
            BY <1>2, <2>1, <3>1, ServedNext
      <4>2. k \in Nat
            BY <1>2, <3>1, RequestTypes DEF Issued
      <4> QED BY <2>3, <4>1, <4>2 DEF Earlier
    <3> QED BY <1>2, <2>1, <2>2, <2>4, <3>1, ServedNext DEF Issued
  <2>7. \A r, k : r = Served /\ k = PushedOf => Issued(r, k)'
    <3>1. Served \in Made' /\ PushedOf \in 0..(asked'[Served] - 1)
          BY <1>2, <2>1, <2>2, <2>3, ServedNext
    <3>2. current_request' # None => Earlier(Served, PushedOf, current_request', pushed')
          BY <2>1, <2>3, <2>4 DEF Earlier
    <3>3. \A i \in DOMAIN request_queue' : Served < request_queue'[i]
          BY <1>2, <2>1, ServedNext
    <3> QED BY <3>1, <3>2, <3>3 DEF Issued
  <2>8. /\ \A i \in DOMAIN task_queue' :
             \/ i \in DOMAIN task_queue /\ task_queue'[i] = task_queue[i]
             \/ i = Len(task_queue) + 1 /\ task_queue'[i] = t
        /\ \A i \in DOMAIN task_queue : i <= Len(task_queue)
        /\ Len(task_queue') = Len(task_queue) + 1
    <3>1. t \in Tasks
      <4>1. Head(chain) \in OrNone
            BY <1>4 DEF PushTask, TypeOK
      <4> QED BY <4>1, ServedType DEF Tasks
    <3> QED BY <2>1, <3>1, AppendMembers DEF TypeOK
  <2>9. TaskOrder'
    <3>1. Len(task_queue') <= QueueLimit + 1
          BY <2>1, <2>8, CaptureAssumption DEF TypeOK
    <3>2. AllIssued'
          BY <1>2, <2>1, <2>2, <2>6, <2>7, <2>8 DEF TaskOrder, AllIssued
    <3>3. ASSUME NEW i \in DOMAIN task_queue', NEW j \in DOMAIN task_queue', i < j
          PROVE  Earlier(task_queue'[i].req, task_queue'[i].index,
                         task_queue'[j].req, task_queue'[j].index)
      <4>1. i \in DOMAIN task_queue /\ task_queue'[i] = task_queue[i]
            BY <2>1, <2>8, <3>3 DEF TypeOK
      <4>2. Issued(task_queue[i].req, task_queue[i].index)
            BY <1>2, <4>1 DEF TaskOrder, AllIssued
      <4>3. CASE j \in DOMAIN task_queue /\ task_queue'[j] = task_queue[j]
            BY <1>2, <3>3, <4>1, <4>3 DEF TaskOrder
      <4>4. CASE task_queue'[j] = t
            BY <1>2, <2>1, <2>2, <4>1, <4>2, <4>4, ServedNext
      <4> QED BY <2>8, <4>3, <4>4
    <3>4. worker' = "writing" =>
            \A i \in DOMAIN task_queue' :
              Earlier(task'.req, task'.index, task_queue'[i].req, task_queue'[i].index)
          BY <1>2, <2>1, <2>2, <2>8, ServedNext DEF TaskOrder, AllIssued
    <3> QED BY <3>1, <3>2, <3>3, <3>4 DEF TaskOrder
  <2>10. FileOrder'
        BY <1>2, <2>1, <2>2, <2>6, <2>8, ServedNext DEF FileOrder
  <2> QED BY <2>5, <2>9, <2>10 DEF OrderInv
<1> QED BY <1>1, <1>3, <1>4 DEF ToFile

LEMMA WorkerOrder ==
  ASSUME TypeOK, OrderInv, Worker
  PROVE  OrderInv'
<1>1. UNCHANGED <<asked, queueVars>>
      BY DEF Worker, WorkerPops, WorkerWrites, WorkerFails, WorkerStartsNext, requestVars
<1>2. QueueOrder' /\ \A r, k : Issued(r, k) => Issued(r, k)'
      BY <1>1 DEF OrderInv, QueueOrder, Issued, Made, queueVars
<1>3. QueueOrder /\ TaskOrder /\ FileOrder
      BY DEF OrderInv
<1>4. CASE WorkerPops
  <2>1. /\ task_queue # <<>> /\ task_queue' = Tail(task_queue) /\ files' = files
        /\ worker = "idle"
        /\ worker' = "writing" => task' = Head(task_queue)
        BY <1>4 DEF WorkerPops
  <2>2. /\ \A i \in DOMAIN task_queue' :
             /\ i + 1 \in DOMAIN task_queue /\ task_queue'[i] = task_queue[i + 1] /\ 1 < i + 1
        /\ \A i, j \in DOMAIN task_queue' : i < j => i + 1 < j + 1
        /\ 1 \in DOMAIN task_queue /\ Head(task_queue) = task_queue[1]
        /\ Len(task_queue') <= Len(task_queue)
        BY <2>1, TailMembers DEF TypeOK
  <2>3. TaskOrder'
    <3>1. Len(task_queue') <= QueueLimit + 1
          BY <1>3, <2>1, <2>2, CaptureAssumption DEF TaskOrder, TypeOK
    <3>2. AllIssued'
          BY <1>2, <1>3, <2>1, <2>2 DEF TaskOrder, AllIssued
    <3>3. \A i, j \in DOMAIN task_queue' : i < j =>
            Earlier(task_queue'[i].req, task_queue'[i].index,
                    task_queue'[j].req, task_queue'[j].index)
          BY <1>3, <2>2 DEF TaskOrder
    <3>4. worker' = "writing" =>
            \A i \in DOMAIN task_queue' :
              Earlier(task'.req, task'.index, task_queue'[i].req, task_queue'[i].index)
          BY <1>2, <1>3, <2>1, <2>2 DEF TaskOrder
    <3> QED BY <3>1, <3>2, <3>3, <3>4 DEF TaskOrder
  <2>4. FileOrder'
        BY <1>2, <1>3, <2>1, <2>2 DEF FileOrder
  <2> QED BY <1>2, <2>3, <2>4 DEF OrderInv
<1>5. CASE WorkerWrites
  <2>1. /\ UNCHANGED task_queue /\ worker = "writing" /\ worker' # "writing"
        /\ files' = files \cup {<<task.req, task.index>>}
        BY <1>5 DEF WorkerWrites
  <2>2. TaskOrder'
        BY <1>2, <1>3, <2>1 DEF TaskOrder, AllIssued
  <2>3. FileOrder'
        BY <1>2, <1>3, <2>1 DEF FileOrder, TaskOrder, AllIssued
  <2> QED BY <1>2, <2>2, <2>3 DEF OrderInv
<1>6. CASE WorkerFails \/ WorkerStartsNext
  <2>1. UNCHANGED <<task_queue, files>> /\ worker' # "writing"
        BY <1>6 DEF WorkerFails, WorkerStartsNext
  <2>2. TaskOrder' /\ FileOrder'
        BY <1>2, <1>3, <2>1 DEF TaskOrder, AllIssued, FileOrder
  <2> QED BY <1>2, <2>2 DEF OrderInv
<1> QED BY <1>4, <1>5, <1>6 DEF Worker

LEMMA NextOrder == TypeOK /\ OrderInv /\ [Next]_<<mode, captureVars>> => OrderInv'
<1> SUFFICES ASSUME TypeOK, OrderInv, [Next]_<<mode, captureVars>> PROVE OrderInv'
    OBVIOUS
<1>1. CASE UNCHANGED <<mode, captureVars>>
      BY <1>1, QuietOrder DEF captureVars, requestVars, fileVars
<1>2. CASE Source \/ \E f \in Feeders : Feeder(f)
  <2>1. UNCHANGED <<asked, queueVars, task_queue, worker, task, files>>
        BY <1>2 DEF Source, SourceFrame, SkipFrame, CollectFrame, CollectCrashes, Feeder,
                    FeederPops, FeederPushes, FeederClears, FeederEnds, requestVars, fileVars
  <2> QED BY <2>1, QuietOrder
<1> QED BY <1>1, <1>2, CaptureAssumption, AddOrder, StopOrder, ToFileOrder, WorkerOrder,
           TimeoutOrder DEF Next

LEMMA OrderIsServedInOrder == TypeOK /\ OrderInv => ServedInOrder
BY DEF OrderInv, QueueOrder, TaskOrder, Earlier, ServedInOrder

(* The worker writes for a request. *)
LEMMA HeldTask == TypeOK /\ OrderInv => (worker = "writing" => task.req \in Requests)
BY MadeRequests DEF OrderInv, TaskOrder, AllIssued, Issued

(***************************************************************************)
(* The queue, the request at hand and the ones whose answer is out stand   *)
(* in the order of their identities, whatever addRequest(), the worker and *)
(* checkTimeout() do between them.                                         *)
(***************************************************************************)
THEOREM OrderInvariant == Spec => [](TypeOK /\ OrderInv)
<1>1. Init => TypeOK /\ OrderInv
  <2>1. Init => OrderInv
        BY CaptureAssumption DEF Init, OrderInv, QueueOrder, TaskOrder, AllIssued, FileOrder
  <2> QED BY <2>1, InitTypeOK
<1>2. (TypeOK /\ OrderInv) /\ [Next]_<<mode, captureVars>> => (TypeOK /\ OrderInv)'
      BY NextTypeOK, NextOrder, HeldTask
<1> QED BY <1>1, <1>2, PTL DEF Spec

(***************************************************************************)
(* Requests are served, and their frames written, in the order they were   *)
(* made, and the worker's queue is bounded.                                *)
(***************************************************************************)
THEOREM ServesInOrder == Spec => []ServedInOrder
BY OrderInvariant, OrderIsServedInOrder, PTL

-----------------------------------------------------------------------------
(* The answers *)

(* Files with indexes below n: at most n, and all of them if they are n. *)
LEMMA FilesBelow ==
  ASSUME TypeOK, Counted, NEW r \in Requests, NEW n \in Nat,
         \A f \in Written(r) : f[2] \in 0..(n - 1)
  PROVE  /\ captureCnt[r] <= n
         /\ captureCnt[r] = n => Written(r) = {r} \X (0..(n - 1))
<1> PICK S : S = {r} \X (0..(n - 1))
    OBVIOUS
<1>1. IsFiniteSet(0..(n - 1)) /\ Cardinality(0..(n - 1)) = n
      BY FS_Interval
<1>2. IsFiniteSet({r}) /\ Cardinality({r}) = 1
  <2>1. IsFiniteSet({} \cup {r}) /\ Cardinality({} \cup {r}) = 1
        BY FS_EmptySet, FS_AddElement
  <2> QED BY <2>1
<1>3. IsFiniteSet(S) /\ Cardinality(S) = n
  <2>1. IsFiniteSet(S) /\ Cardinality(S) = Cardinality({r}) * Cardinality(0..(n - 1))
        BY <1>1, <1>2, FS_Product
  <2>2. 1 * n = n
        OBVIOUS
  <2> QED BY <1>1, <1>2, <2>1, <2>2
<1>4. Written(r) \in SUBSET S
      BY DEF Written, TypeOK
<1>5. captureCnt[r] = Cardinality(Written(r))
      BY DEF Counted
<1> QED BY <1>3, <1>4, <1>5, FS_Subset

LEMMA FilesAsked ==
  ASSUME TypeOK, OrderInv, Counted, NEW r \in Made
  PROVE  /\ captureCnt[r] <= asked[r]
         /\ captureCnt[r] = asked[r] => Written(r) = {r} \X (0..(asked[r] - 1))
<1>1. r \in Requests /\ asked[r] \in Nat
      BY MadeRequests, RequestTypes
<1>2. \A f \in Written(r) : f[2] \in 0..(asked[r] - 1)
      BY DEF Written, OrderInv, FileOrder, Issued
<1> QED BY <1>1, <1>2, FilesBelow

(* A task that was not written is missing from its request's files. *)
LEMMA TaskIsMissing ==
  ASSUME TypeOK, OrderInv, Counted, NEW r, NEW k, Issued(r, k),
         \A f \in files : Earlier(f[1], f[2], r, k)
  PROVE  /\ r \in Made /\ captureCnt[r] < asked[r] /\ <<r, k>> \notin files
<1>1. r \in Made /\ r \in Requests /\ r \in Nat /\ asked[r] \in Nat /\ k \in 0..(asked[r] - 1)
      BY MadeRequests, RequestTypes DEF Issued
<1>2. <<r, k>> \notin files
  <2>1. ~Earlier(r, k, r, k)
        BY <1>1 DEF Earlier
  <2> QED BY <2>1
<1>3. Written(r) # {r} \X (0..(asked[r] - 1))
      BY <1>1, <1>2 DEF Written
<1>4. captureCnt[r] # asked[r] /\ captureCnt[r] <= asked[r] /\ captureCnt[r] \in Nat
      BY <1>1, <1>3, FilesAsked DEF TypeOK
<1> QED BY <1>1, <1>2, <1>4

(* A request that still waits has no file. *)
LEMMA WaitingHasNone ==
  ASSUME TypeOK, OrderInv, Counted, NEW i \in DOMAIN request_queue
  PROVE  captureCnt[request_queue[i]] = 0
<1>1. request_queue[i] \in Requests /\ request_queue[i] \in Nat
      BY RequestTypes
<1>2. Written(request_queue[i]) = {}
  <2>1. \A f \in files : f[1] < request_queue[i]
        BY DEF OrderInv, FileOrder, Issued
  <2> QED BY <1>1, <2>1 DEF Written
<1> QED BY <1>1, <1>2, FS_EmptySet DEF Counted

(* An answered request has all its files, or its timeout has passed. *)
LEMMA AnsweredInTime ==
  ASSUME TypeOK, OrderInv, AnswerInv, NEW r \in Requests, Answered(r), r \notin timed_out
  PROVE  captureCnt[r] = asked[r]
<1>1. /\ r \in Made /\ answers[r][1] <= captureCnt[r] /\ ~(answers[r][1] < asked[r])
      BY DEF AnswerInv, AnswersKept
<1>2. asked[r] \in Nat /\ captureCnt[r] \in Nat /\ answers[r][1] \in Nat
  <2>1. answers[r] \in Seq(Nat) /\ answers[r] # <<>>
        BY DEF TypeOK, Answered
  <2>2. asked[r] \in Nat
        BY <1>1 DEF TypeOK, Made
  <2>3. captureCnt[r] \in Nat
        BY DEF TypeOK
  <2>4. answers[r][1] \in Nat
        BY <2>1
  <2> QED BY <2>2, <2>3, <2>4
<1>3. captureCnt[r] <= asked[r]
      BY <1>1, FilesAsked DEF AnswerInv
<1> QED BY <1>1, <1>2, <1>3

LEMMA QuietAnswers ==
  ASSUME AnswerInv, UNCHANGED <<answers, captureCnt, files>>,
         \A r \in Made : r \in Made' /\ asked'[r] = asked[r], timed_out \subseteq timed_out',
         worker' = "writing" => worker = "writing" /\ task' = task
  PROVE  AnswerInv'
<1>1. Counted'
      BY DEF AnswerInv, Counted, Written
<1>2. AnswersKept'
      BY DEF AnswerInv, AnswersKept, Answered
<1> QED BY <1>1, <1>2 DEF AnswerInv

LEMMA OtherAnswers ==
  ASSUME TypeOK, AnswerInv,
         \/ \E c \in Clients, count \in Counts, unbounded \in BOOLEAN :
              AddCaptureRequest(c, count, unbounded)
         \/ \E c \in Clients : StopCapture(c)
         \/ Source \/ ChainDrops \/ ToFile \/ \E f \in Feeders : Feeder(f)
         \/ UNCHANGED <<mode, captureVars>>
  PROVE  AnswerInv'
<1>1. UNCHANGED <<answers, captureCnt, files, timed_out, worker, task>>
      BY SMTT(30) DEF AddCaptureRequest, StopCapture, StopCloses, StopClears, StopJoins, Source,
             SourceFrame, SkipFrame, CollectFrame, CollectCrashes, ChainDrops, ToFile,
             DropUnrequested, DropQueueFull, PushTask, Feeder, FeederPops, FeederPushes,
             FeederClears, FeederEnds, captureVars, requestVars, fileVars
<1>2. asked' = asked \/ \E count \in Counts : asked' = Append(asked, count)
      BY DEF AddCaptureRequest, StopCapture, StopCloses, StopClears, StopJoins, Source,
             SourceFrame, SkipFrame, CollectFrame, CollectCrashes, ChainDrops, ToFile,
             DropUnrequested, DropQueueFull, PushTask, Feeder, FeederPops, FeederPushes,
             FeederClears, FeederEnds, captureVars, requestVars
<1>3. \A r \in Made : r \in Made' /\ asked'[r] = asked[r]
  <2>1. ASSUME NEW count \in Counts, asked' = Append(asked, count)
        PROVE  \A r \in Made : r \in Made' /\ asked'[r] = asked[r]
    <3>1. asked \in Seq(Nat \ {0}) /\ count \in Nat \ {0}
          BY CaptureAssumption DEF TypeOK
    <3> QED BY <2>1, <3>1 DEF Made
  <2> QED BY <1>2, <2>1 DEF Made
<1> QED BY <1>1, <1>3, QuietAnswers

LEMMA WorkerAnswers ==
  ASSUME TypeOK, TypeOK', OrderInv, AnswerInv, Worker
  PROVE  AnswerInv'
<1> USE DEF requestVars
<1>1. Counted /\ AnswersKept /\ FileOrder /\ TaskOrder /\ AllIssued
      BY DEF AnswerInv, OrderInv, TaskOrder
<1>2. CASE WorkerPops
  <2>1. /\ UNCHANGED <<asked, answers, captureCnt, files, timed_out>> /\ task_queue # <<>>
        /\ worker = "idle"
        /\ worker' = "writing" => /\ task' = Head(task_queue)
                                  /\ Head(task_queue).req \notin timed_out
        BY <1>2 DEF WorkerPops, Skipped
  <2>2. CASE worker' # "writing"
        BY <2>1, <2>2, QuietAnswers DEF Made
  <2>3. CASE worker' = "writing"
    <3>1. 1 \in DOMAIN task_queue /\ task' = task_queue[1]
          BY <2>1, <2>3, TailMembers DEF TypeOK
    <3>2. /\ Issued(task'.req, task'.index)
          /\ \A f \in files : Earlier(f[1], f[2], task'.req, task'.index)
          BY <1>1, <3>1 DEF AllIssued, FileOrder
    <3>3. captureCnt[task'.req] < asked[task'.req] /\ task'.req \in Made
          BY <1>1, <3>2, TaskIsMissing
    <3>4. task'.req \in Requests /\ asked[task'.req] \in Nat
          BY <3>3, MadeRequests, RequestTypes
    <3>5. ~Answered(task'.req)
          BY <2>1, <2>3, <3>3, <3>4, AnsweredInTime
    <3>6. Counted'
          BY <1>1, <2>1 DEF Counted, Written
    <3>7. AnswersKept'
          BY <1>1, <2>1, <3>5 DEF AnswersKept, Answered, Made
    <3> QED BY <3>6, <3>7 DEF AnswerInv
  <2> QED BY <2>2, <2>3
<1>3. CASE WorkerFails \/ WorkerStartsNext
  <2>1. UNCHANGED <<asked, answers, captureCnt, files, timed_out>> /\ worker' # "writing"
        BY <1>3 DEF WorkerFails, WorkerStartsNext
  <2> QED BY <2>1, QuietAnswers DEF Made
<1>4. CASE WorkerWrites
  <2> PICK r : r = task.req
      OBVIOUS
  <2>1. /\ worker = "writing" /\ worker' # "writing" /\ UNCHANGED <<asked, timed_out>>
        /\ files' = files \cup {<<r, task.index>>}
        /\ captureCnt' = [captureCnt EXCEPT ![r] = captureCnt[r] + 1]
        BY <1>4 DEF WorkerWrites
  <2>2. IF captureCnt[r] + 1 >= asked[r] THEN Answer([x \in {r} |-> captureCnt[r] + 1])
        ELSE UNCHANGED answers
        BY <1>4 DEF WorkerWrites, Complete
  <2>3. /\ Issued(r, task.index) /\ \A f \in files : Earlier(f[1], f[2], r, task.index)
        BY <1>1, <2>1 DEF AllIssued, FileOrder
  <2>4. r \in Made /\ captureCnt[r] < asked[r] /\ <<r, task.index>> \notin files
        BY <1>1, <2>3, TaskIsMissing
  <2>5. r \in Requests /\ asked[r] \in Nat /\ captureCnt[r] \in Nat
        BY <2>4, MadeRequests, RequestTypes DEF TypeOK
  <2>6. /\ captureCnt'[r] = captureCnt[r] + 1
        /\ \A q \in Requests : q # r => captureCnt'[q] = captureCnt[q]
        BY <2>1, <2>5 DEF TypeOK
  <2>7. Counted'
    <3>1. IsFiniteSet(files) /\ IsFiniteSet(files')
          BY <1>1, <2>1, FS_AddElement DEF Counted
    <3>2. ASSUME NEW q \in Requests PROVE captureCnt'[q] = Cardinality(Written(q))'
      <4>1. CASE q # r
        <5>1. Written(q)' = Written(q)
              BY <2>1, <4>1 DEF Written
        <5> QED BY <1>1, <2>6, <4>1, <5>1 DEF Counted
      <4>2. CASE q = r
        <5>1. Written(r)' = Written(r) \cup {<<r, task.index>>}
              BY <2>1 DEF Written
        <5>2. IsFiniteSet(Written(r))
          <6>1. Written(r) \in SUBSET files
                BY DEF Written
          <6> QED BY <3>1, <6>1, FS_Subset
        <5>3. <<r, task.index>> \notin Written(r)
              BY <2>4 DEF Written
        <5>4. Cardinality(Written(r)') = Cardinality(Written(r)) + 1
              BY <5>1, <5>2, <5>3, FS_AddElement
        <5>5. captureCnt[r] = Cardinality(Written(r))
              BY <1>1, <2>5 DEF Counted
        <5> QED BY <2>6, <4>2, <5>4, <5>5
      <4> QED BY <4>1, <4>2
    <3> QED BY <3>1, <3>2 DEF Counted
  <2>8. /\ \A q \in Requests : q # r => answers'[q] = answers[q]
        /\ Answered(r) => answers'[r] = answers[r]
        /\ ~Answered(r) /\ answers'[r] # <<>> =>
             /\ answers'[r] = <<captureCnt[r] + 1>>
             /\ captureCnt[r] + 1 >= asked[r]
    <3>1. CASE captureCnt[r] + 1 >= asked[r]
      <4>1. Answer([x \in {r} |-> captureCnt[r] + 1])
            BY <2>2, <3>1
      <4> QED BY <2>5, <3>1, <4>1 DEF Answer, Answered
    <3>2. CASE ~(captureCnt[r] + 1 >= asked[r])
          BY <2>2, <3>2 DEF Answered
    <3> QED BY <3>1, <3>2
  <2>9. AnswersKept'
    <3>1. ASSUME NEW q \in Requests, answers'[q] # <<>>, q # r
          PROVE  /\ q \in Made' /\ answers'[q][1] <= captureCnt'[q]
                 /\ captureCnt'[q] <= answers'[q][1] + 1
                 /\ answers'[q][1] < asked'[q] => q \in timed_out'
          BY <1>1, <2>1, <2>6, <2>8, <3>1 DEF AnswersKept, Answered, Made
    <3>2. ASSUME answers'[r] # <<>>
          PROVE  /\ r \in Made' /\ answers'[r][1] <= captureCnt'[r]
                 /\ captureCnt'[r] <= answers'[r][1] + 1
                 /\ answers'[r][1] < asked'[r] => r \in timed_out'
      <4>1. CASE Answered(r)
        <5>1. /\ captureCnt[r] = answers[r][1] /\ answers'[r] = answers[r]
              /\ answers[r][1] < asked[r] => r \in timed_out
              BY <1>1, <2>1, <2>5, <2>8, <4>1 DEF AnswersKept
        <5> QED BY <2>1, <2>4, <2>5, <2>6, <5>1 DEF Made
      <4>2. CASE ~Answered(r)
        <5>1. answers'[r][1] = captureCnt[r] + 1 /\ captureCnt[r] + 1 >= asked[r]
              BY <2>8, <3>2, <4>2
        <5> QED BY <2>1, <2>4, <2>5, <2>6, <5>1 DEF Made
      <4> QED BY <4>1, <4>2
    <3> QED BY <2>1, <3>1, <3>2 DEF AnswersKept, Answered
  <2> QED BY <2>7, <2>9 DEF AnswerInv
<1> QED BY <1>2, <1>3, <1>4 DEF Worker

LEMMA TimeoutAnswers ==
  ASSUME TypeOK, OrderInv, AnswerInv, NEW expired \in SUBSET Requests, CheckTimeout(expired)
  PROVE  AnswerInv'
<1>1. /\ UNCHANGED <<asked, files, captureCnt, worker, task>>
      /\ timed_out' = timed_out \cup expired
      /\ Answer([r \in expired |-> IF r = current_request THEN captureCnt[r] ELSE 0])
      /\ expired \subseteq (Waiting \cup {current_request}) \ (continuous \cup {None})
      BY DEF CheckTimeout, fileVars
<1>2. Counted /\ AnswersKept
      BY DEF AnswerInv
<1>3. \A r \in Requests :
        \/ answers'[r] = answers[r]
        \/ answers'[r] = <<captureCnt[r]>> /\ r \in expired /\ r \in Made
  <2>1. ASSUME NEW r \in expired
        PROVE  /\ r \in Made
               /\ (IF r = current_request THEN captureCnt[r] ELSE 0) = captureCnt[r]
    <3>1. CASE r = current_request
      <4>1. r # None
            BY <1>1
      <4> QED BY <3>1, <4>1 DEF OrderInv, QueueOrder
    <3>2. CASE r # current_request
      <4>1. PICK i \in DOMAIN request_queue : r = request_queue[i]
            BY <1>1, <3>2 DEF Waiting
      <4> QED BY <1>2, <3>2, <4>1, WaitingHasNone DEF OrderInv, QueueOrder
    <3> QED BY <3>1, <3>2
  <2> QED BY <1>1, <2>1 DEF Answer
<1>4. Counted'
      BY <1>1, <1>2 DEF Counted, Written
<1>5. AnswersKept'
  <2>1. ASSUME NEW r \in Requests, answers'[r] # <<>>
        PROVE  /\ r \in Made' /\ answers'[r][1] <= captureCnt'[r]
               /\ captureCnt'[r] <= answers'[r][1] + 1
               /\ answers'[r][1] < asked'[r] => r \in timed_out'
               /\ worker' = "writing" /\ task'.req = r => captureCnt'[r] = answers'[r][1]
    <3>1. CASE answers'[r] = answers[r]
          BY <1>1, <1>2, <2>1, <3>1 DEF AnswersKept, Answered, Made
    <3>2. CASE answers'[r] = <<captureCnt[r]>> /\ r \in expired /\ r \in Made
      <4>1. captureCnt[r] \in Nat /\ answers'[r][1] = captureCnt[r]
            BY <3>2 DEF TypeOK
      <4> QED BY <1>1, <3>2, <4>1 DEF Made
    <3> QED BY <1>3, <3>1, <3>2
  <2> QED BY <2>1 DEF AnswersKept, Answered
<1> QED BY <1>4, <1>5 DEF AnswerInv

LEMMA NextAnswers ==
  TypeOK /\ TypeOK' /\ OrderInv /\ AnswerInv /\ [Next]_<<mode, captureVars>> => AnswerInv'
BY Callers, OtherAnswers, WorkerAnswers, TimeoutAnswers DEF Next

LEMMA AnswersAreTrue == TypeOK /\ AnswerInv => AnswerIsTrue
BY MadeRequests DEF AnswerInv, AnswersKept, Answered, AnswerIsTrue

LEMMA AnswersInSequence ==
  ASSUME TypeOK, OrderInv, AnswerInv
  PROVE  IndexesSequential
<1> SUFFICES ASSUME NEW r \in Made, answers[r] # <<>>, answers[r][1] = asked[r]
             PROVE  {f \in files : f[1] = r} = {r} \X (0..(asked[r] - 1))
    BY DEF IndexesSequential
<1>1. r \in Requests /\ asked[r] \in Nat /\ captureCnt[r] \in Nat
      BY MadeRequests, RequestTypes DEF TypeOK
<1>2. asked[r] <= captureCnt[r] /\ Counted
      BY <1>1 DEF AnswerInv, AnswersKept, Answered
<1> QED BY <1>1, <1>2, FilesAsked DEF Written

(***************************************************************************)
(* What has been answered, counted and written of a request belong         *)
(* together at every step of the worker and of checkTimeout().             *)
(***************************************************************************)
THEOREM AnswerInvariant == Spec => []AnswerInv
<1>1. Init => AnswerInv
  <2>1. ASSUME Init PROVE AnswerInv
    <3>1. \A r \in Requests : Written(r) = {} /\ captureCnt[r] = 0 /\ answers[r] = <<>>
          BY <2>1 DEF Init, Written
    <3>2. IsFiniteSet(files)
          BY <2>1, FS_EmptySet DEF Init
    <3> QED BY <3>1, <3>2, FS_EmptySet DEF AnswerInv, Counted, AnswersKept, Answered
  <2> QED BY <2>1
<1>2. TypeOK /\ TypeOK' /\ OrderInv /\ AnswerInv /\ [Next]_<<mode, captureVars>> => AnswerInv'
      BY NextAnswers
<1> QED BY <1>1, <1>2, OrderInvariant, PTL DEF Spec

(***************************************************************************)
(* The answer a client gets is true: it counts the files written, but for  *)
(* one that a timeout left in the worker's hands.                          *)
(***************************************************************************)
THEOREM AnswersTrue == Spec => []AnswerIsTrue
BY OrderInvariant, AnswerInvariant, AnswersAreTrue, PTL

(***************************************************************************)
(* The files of a request answered in full have the indexes 0 to           *)
(* maxCnt - 1, none missing and none twice.                                *)
(***************************************************************************)
THEOREM FilesSequential == Spec => []IndexesSequential
BY OrderInvariant, AnswerInvariant, AnswersInSequence, PTL

-----------------------------------------------------------------------------
(* The valve *)

(* A step that leaves the valve, the work and the clients as they are, and *)
(* starts to collect frames in PNG mode only.                              *)
LEMMA QuietValve ==
  ASSUME ValveInv, UNCHANGED <<mode, valve, request_queue, current_request, at>>,
         ~Png => ~buffering_active' /\ ~collecting'
  PROVE  ValveInv'
BY DEF ValveInv, ValveOpenForWork, MutexFree, Png

LEMMA AddValve ==
  ASSUME TypeOK, ValveInv, mode' = mode, NEW c, NEW count, NEW unbounded,
         AddCaptureRequest(c, count, unbounded)
  PROVE  ValveInv'
<1>1. /\ valve' = TRUE /\ UNCHANGED <<at, collecting>> /\ MutexFree
      /\ ~Png => buffering_active' = buffering_active
      BY DEF AddCaptureRequest, bufferVars
<1> QED BY <1>1 DEF ValveInv, ValveOpenForWork, MutexFree, Png

LEMMA StopValve ==
  ASSUME TypeOK, ValveInv, mode' = mode, NEW c \in Clients, StopCapture(c)
  PROVE  ValveInv'
<1>0. ~Png => ~buffering_active' /\ ~collecting'
      BY DEF ValveInv, StopCapture, StopCloses, StopClears, StopJoins, bufferVars
<1>1. CASE StopCloses(c)
  <2>1. /\ at'[c] # "idle" /\ \A d \in Clients : at'[d] = "joining" => at[d] = "joining"
        /\ UNCHANGED <<request_queue, current_request>>
        BY <1>1 DEF StopCloses, TypeOK, queueVars
  <2> QED BY <1>0, <2>1 DEF ValveInv, ValveOpenForWork, MutexFree, Png
<1>2. CASE StopClears(c)
  <2>1. request_queue' = <<>> /\ current_request' = None
        BY <1>2 DEF StopClears
  <2> QED BY <1>0, <2>1 DEF ValveInv, ValveOpenForWork, Png
<1>3. CASE StopJoins(c)
  <2>1. at[c] = "joining" /\ UNCHANGED <<request_queue, current_request>>
        BY <1>3 DEF StopJoins, queueVars
  <2>2. request_queue' = <<>> /\ current_request' = None
        BY <2>1 DEF ValveInv, MutexFree
  <2> QED BY <1>0, <2>2 DEF ValveInv, ValveOpenForWork, Png
<1> QED BY <1>1, <1>2, <1>3 DEF StopCapture

LEMMA ToFileValve ==
  ASSUME TypeOK, ValveInv, mode' = mode, ChainDrops \/ ToFile
  PROVE  ValveInv'
<1>0. UNCHANGED <<at, collecting, buffering_active>>
      BY DEF ChainDrops, ToFile, DropUnrequested, DropQueueFull, PushTask, bufferVars
<1>1. CASE ChainDrops
      BY <1>0, <1>1, QuietValve DEF ChainDrops, queueVars, ValveInv
<1>2. CASE DropUnrequested
  <2>1. UNCHANGED queueVars /\ Served = None /\ MutexFree
        BY <1>2 DEF DropUnrequested
  <2>2. request_queue' = <<>> /\ current_request' = None
        BY <2>1, ServedType DEF queueVars
  <2> QED BY <1>0, <2>2 DEF ValveInv, ValveOpenForWork, Png
<1>3. ASSUME Served # None
      PROVE  request_queue # <<>> \/ current_request # None
      BY <1>3 DEF Served
<1>4. CASE DropQueueFull
  <2>1. Served # None /\ MutexFree /\ valve' = valve
        BY <1>4 DEF DropQueueFull
  <2> QED BY <1>0, <1>3, <2>1 DEF ValveInv, ValveOpenForWork, MutexFree, Png
<1>5. CASE PushTask
  <2>1. /\ Served # None /\ MutexFree /\ request_queue' = Pending
        /\ \/ valve' = valve
           \/ current_request' = None /\ valve' = (valve /\ MorePending)
        BY <1>5 DEF PushTask
  <2>2. valve' = valve \/ (request_queue' = <<>> /\ current_request' = None)
        BY <2>1 DEF MorePending, TypeOK
  <2> QED BY <1>0, <1>3, <2>1, <2>2 DEF ValveInv, ValveOpenForWork, MutexFree, Png
<1> QED BY <1>1, <1>2, <1>4, <1>5 DEF ToFile

LEMMA TimeoutValve ==
  ASSUME TypeOK, ValveInv, mode' = mode, NEW expired, CheckTimeout(expired)
  PROVE  ValveInv'
<1>1. /\ UNCHANGED <<at, collecting>> /\ MutexFree
      /\ buffering_active' => buffering_active
      BY DEF CheckTimeout, bufferVars
<1>2. request_queue = <<>> => request_queue' = <<>>
      BY WithoutEmpty DEF CheckTimeout, TypeOK
<1>3. current_request' \in {current_request, None}
      BY DEF CheckTimeout
<1>4. valve' = valve \/ (request_queue' = <<>> /\ current_request' = None)
      BY <1>2 DEF CheckTimeout, TypeOK
<1> QED BY <1>1, <1>2, <1>3, <1>4 DEF ValveInv, ValveOpenForWork, MutexFree, Png

LEMMA OtherValve ==
  ASSUME TypeOK, ValveInv, mode' = mode, Source \/ Worker \/ \E f \in Feeders : Feeder(f)
  PROVE  ValveInv'
<1>1. UNCHANGED <<request_queue, current_request, at>>
      BY DEF Source, SourceFrame, SkipFrame, CollectFrame, CollectCrashes, Feeder,
             FeederPops, FeederPushes, FeederClears, FeederEnds, Worker, WorkerPops,
             WorkerWrites, WorkerFails, WorkerStartsNext, queueVars
<1>2. CASE Png
      BY <1>1, <1>2 DEF ValveInv, ValveOpenForWork, MutexFree, Png
<1>3. CASE ~Png
  <2>1. UNCHANGED <<valve, buffering_active>> /\ ~collecting'
        BY <1>3 DEF ValveInv, Source, SourceFrame, SkipFrame, CollectFrame, CollectCrashes,
               Feeder, FeederPops, FeederPushes, FeederClears, FeederEnds, Worker,
               WorkerPops, WorkerWrites, WorkerFails, WorkerStartsNext, bufferVars
  <2> QED BY <1>1, <2>1, QuietValve DEF ValveInv
<1> QED BY <1>2, <1>3

LEMMA NextValve == TypeOK /\ ValveInv /\ [Next]_<<mode, captureVars>> => ValveInv'
<1> SUFFICES ASSUME TypeOK, ValveInv, [Next]_<<mode, captureVars>> PROVE ValveInv'
    OBVIOUS
<1>1. CASE UNCHANGED <<mode, captureVars>>
      BY <1>1, QuietValve DEF captureVars, queueVars, bufferVars, ValveInv
<1> QED BY <1>1, Callers, AddValve, StopValve, ToFileValve, TimeoutValve, OtherValve DEF Next

(***************************************************************************)
(* The valve is open whenever a request is queued or served and no client  *)
(* is stopping: its closing with the queue empty never overtakes a request *)
(* that was just added.                                                    *)
(***************************************************************************)
THEOREM ValveFollowsWork == Spec => []ValveOpenForWork
<1>1. Init => ValveInv
      BY DEF Init, ValveInv, ValveOpenForWork, MutexFree
<1>2. ValveInv => ValveOpenForWork
      BY DEF ValveInv
<1> QED BY <1>1, <1>2, OrderInvariant, NextValve, PTL DEF Spec
=============================================================================
