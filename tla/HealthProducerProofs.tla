----------------------- MODULE HealthProducerProofs -----------------------
(***************************************************************************)
(* What gstApp reports of its channels is true up to the delays of its     *)
(* threads, for any number of channels and any thresholds: a source        *)
(* published as stalled has delivered nothing, a recording published as    *)
(* not growing is overdue, and a channel logged as without data has had    *)
(* its link up and no frame for as long as the log says.                   *)
(***************************************************************************)
EXTENDS HealthProducer, SequenceTheorems, TLAPS

-----------------------------------------------------------------------------
(* The invariant. *)

Sources == [fresh : BOOLEAN, unwatched : BOOLEAN, any : BOOLEAN, idle : 0..IdleCap]
Files == [age : 0..FileCap, closed : {NONE} \cup (0..Lag)]
Notes == [seen : BOOLEAN, fragment : 0..NotedCap, moved : 0..MovedCap]
Snaps == [seen : BOOLEAN, fragment : Int, moved : Int]
Docs == [pc : {"idle", "lock", "observe"}, late : 0..Lag, ch : Nat,
         snap : {<<>>} \cup [Chan -> Snaps], error : BOOLEAN, storage : {"OK"} \cup Storages]
Watches == [strike : [Chan -> Nat], warned : SUBSET Enabled, logged : SUBSET Enabled,
            up : [Chan -> Nat]]

HealthTypeOK ==
  /\ linked \subseteq Enabled
  /\ source \in [Chan -> Sources]
  /\ file \in [Chan -> Files]
  /\ noted \in [Chan -> Notes]
  /\ error \in BOOLEAN
  /\ doc \in Docs
  /\ doc.pc = "observe" => doc.snap \in [Chan -> Snaps] /\ doc.ch > 0
  /\ watch \in Watches
  /\ due \in [health : (0 - Lag)..1, watch : (0 - Lag)..WatchPeriod]

(* A publication sets the timer when it takes the time. *)
Publishing ==
  /\ doc.pc = "idle" => doc = Idle
  /\ doc.pc # "idle" => doc.late = 1 - due.health

(* A channel the publication in progress has still to look at. *)
Pending(c) ==
  \/ doc.pc = "lock"
  \/ doc.pc = "observe" /\ \E i \in DOMAIN Channels : doc.ch <= i /\ Channels[i] = c

(* The ticks since the last publication took the time. *)
Since == 1 - due.health

(* A frame that is new to publish() came since it looked last, which was   *)
(* after it had taken the time.                                            *)
NewIsRecent ==
  \A c \in Enabled : source[c].fresh =>
    source[c].idle <= (IF Pending(c) THEN Since + 1 + Lag ELSE Since)

(* Where none is new, the time noted for the last one is that publish()    *)
(* had taken before it found it.                                           *)
MovedIsClose ==
  \A c \in Enabled : ~source[c].fresh =>
    /\ noted[c].moved - Lag <= source[c].idle
    /\ noted[c].moved < MovedCap => source[c].idle <= noted[c].moved + 1 + Lag

(* The copy publish() judges a channel by is as old as the document. *)
SnapIsMoved ==
  \A c \in Enabled : doc.pc = "observe" /\ Pending(c) =>
    /\ noted[c].moved - doc.late <= doc.snap[c].moved
    /\ noted[c].moved < MovedCap => doc.snap[c].moved = noted[c].moved - doc.late

(* The worker is at most Lag behind, and once it is through with a channel *)
(* it has noted the last fragment.                                         *)
NotedInTime ==
  \A c \in Enabled :
    /\ file[c].closed # NONE => file[c].age = file[c].closed
    /\ file[c].closed = NONE /\ noted[c].seen =>
         noted[c].fragment <= file[c].age \/ file[c].age = FileCap

SnapIsOverdue ==
  \A c \in Enabled :
    /\ doc.pc = "observe" /\ Pending(c)
    /\ doc.snap[c].seen /\ doc.snap[c].fragment > NoGrowth
    => file[c].age > Duration \/ file[c].age <= Lag + doc.late

(* A channel with strikes has had its link up and no frame for as many     *)
(* watches, and no frame since the last of them either.                    *)
Silence(n) == WatchPeriod * n
Silent(c) == IF watch.strike[c] < Strikes THEN watch.strike[c] ELSE Strikes - 1

StrikesAreSilent ==
  \A c \in Enabled :
    /\ ~source[c].unwatched =>
         source[c].idle >= Silence(Silent(c)) + WatchPeriod - due.watch
    /\ watch.up[c] >= watch.strike[c] \/ watch.up[c] >= Strikes

HealthInv ==
  /\ HealthTypeOK /\ Publishing /\ NewIsRecent /\ MovedIsClose /\ SnapIsMoved
  /\ NotedInTime /\ (NoGrowth >= Duration => SnapIsOverdue) /\ StrikesAreSilent

LEMMA Constants ==
  /\ Stall \in Nat /\ NoGrowth \in Nat /\ Duration \in Nat \ {0} /\ Lag \in Nat
  /\ WatchPeriod \in Nat \ {0} /\ Strikes \in Nat \ {0} /\ ColdStrikes \in Nat
  /\ Strikes <= ColdStrikes /\ Repeat \in Nat \ {0}
  /\ Enabled \subseteq Chan /\ DOMAIN Channels = 1..Len(Channels) /\ Len(Channels) \in Nat
BY HealthAssumption, LenProperties DEF Chan

LEMMA SilenceGrows ==
  /\ \A n \in Nat : Silence(n) \in Nat /\ Silence(n + 1) = Silence(n) + WatchPeriod
  /\ Silence(0) = 0
  /\ \A m, n \in Nat : m <= n => Silence(m) <= Silence(n)
<1>1. WatchPeriod \in Nat
      BY HealthAssumption
<1>2. \A n \in Nat : Silence(n) \in Nat
      BY <1>1 DEF Silence
<1>3. \A n \in Nat : Silence(n + 1) = Silence(n) + WatchPeriod
      BY <1>1 DEF Silence
<1>4. Silence(0) = 0
      BY <1>1 DEF Silence
<1>5. ASSUME NEW m \in Nat, NEW n \in Nat, m <= n PROVE Silence(m) <= Silence(n)
      BY <1>1, <1>5 DEF Silence
<1> QED  BY <1>2, <1>3, <1>4, <1>5

LEMMA Caps ==
  /\ IdleCap \in Nat /\ IdleCap = Stall + 2 * Lag + Silence(Strikes)
  /\ MovedCap \in Nat /\ MovedCap = Stall + Lag + 1
  /\ FileCap \in Nat /\ FileCap = Duration + 2 * Lag + 1
  /\ NotedCap \in Nat /\ NotedCap = NoGrowth + Lag + 1
  /\ Silence(Strikes) \in Nat \ {0}
<1>1. Silence(Strikes) \in Nat \ {0}
  <2>1. Strikes - 1 \in Nat /\ Strikes - 1 + 1 = Strikes
        BY Constants
  <2>2. Silence(Strikes - 1 + 1) = Silence(Strikes - 1) + WatchPeriod
        BY <2>1, SilenceGrows
  <2> QED  BY <2>1, <2>2, SilenceGrows, Constants
<1> QED  BY <1>1, Constants DEF IdleCap, MovedCap, FileCap, NotedCap, Silence

LEMMA Fields ==
  ASSUME HealthInv, NEW c \in Chan
  PROVE  /\ source[c] \in Sources /\ source[c].idle \in Nat /\ source[c].idle <= IdleCap
         /\ file[c] \in Files /\ file[c].age \in Nat /\ file[c].age <= FileCap
         /\ file[c].closed # NONE => file[c].closed \in Nat /\ file[c].closed <= Lag
         /\ noted[c] \in Notes /\ noted[c].fragment \in Nat /\ noted[c].moved \in Nat
         /\ noted[c].fragment <= NotedCap /\ noted[c].moved <= MovedCap
<1>1. source[c] \in Sources /\ file[c] \in Files /\ noted[c] \in Notes
      BY DEF HealthInv, HealthTypeOK
<1>2. /\ source[c].idle \in 0..IdleCap /\ file[c].age \in 0..FileCap
      /\ noted[c].fragment \in 0..NotedCap /\ noted[c].moved \in 0..MovedCap
      /\ file[c].closed # NONE => file[c].closed \in 0..Lag
      BY <1>1 DEF Sources, Files, Notes
<1>3. IdleCap \in Nat /\ FileCap \in Nat /\ NotedCap \in Nat /\ MovedCap \in Nat /\ Lag \in Nat
      BY Caps, Constants
<1> QED  BY <1>1, <1>2, <1>3

LEMMA Times ==
  ASSUME HealthInv
  PROVE  /\ doc \in Docs /\ doc.late \in Nat /\ doc.late <= Lag
         /\ due.health \in Int /\ 0 - Lag <= due.health /\ due.health <= 1
         /\ due.watch \in Int /\ 0 - Lag <= due.watch /\ due.watch <= WatchPeriod
         /\ Since \in Nat
<1>1. /\ doc \in Docs /\ due \in [health : (0 - Lag)..1, watch : (0 - Lag)..WatchPeriod]
      BY DEF HealthInv, HealthTypeOK
<1>2. /\ doc.late \in 0..Lag /\ due.health \in (0 - Lag)..1
      /\ due.watch \in (0 - Lag)..WatchPeriod
      BY <1>1 DEF Docs
<1> QED  BY <1>1, <1>2, Constants DEF Since

LEMMA HealthInitially == Init => HealthInv
<1> SUFFICES ASSUME Init PROVE HealthInv
    OBVIOUS
<1> USE Constants, Caps DEF Init
<1>1. /\ \A c \in Chan : source[c] =
           [fresh |-> FALSE, unwatched |-> FALSE, any |-> FALSE, idle |-> 0]
      /\ \A c \in Chan : file[c] = [age |-> 0, closed |-> NONE]
      /\ \A c \in Chan : noted[c] = [seen |-> FALSE, fragment |-> 0, moved |-> 0]
      /\ \A c \in Chan : watch.strike[c] = 0 /\ watch.up[c] = 0
      OBVIOUS
<1>2. doc.pc = "idle" /\ doc = Idle
      BY DEF Idle
<1>3. due.health = 1 /\ due.watch = WatchPeriod
      OBVIOUS
<1>4. HealthTypeOK
  <2>1. source \in [Chan -> Sources]
        BY DEF Sources
  <2>2. file \in [Chan -> Files]
        BY DEF Files
  <2>3. noted \in [Chan -> Notes]
        BY DEF Notes
  <2>4. doc \in Docs /\ doc.pc # "observe"
        BY DEF Docs, Idle
  <2>5. watch \in Watches
        BY DEF Watches
  <2>6. due \in [health : (0 - Lag)..1, watch : (0 - Lag)..WatchPeriod]
        OBVIOUS
  <2> QED  BY <2>1, <2>2, <2>3, <2>4, <2>5, <2>6 DEF HealthTypeOK
<1>5. Publishing /\ SnapIsMoved /\ SnapIsOverdue
      BY <1>2 DEF Publishing, SnapIsMoved, SnapIsOverdue
<1>6. NewIsRecent /\ MovedIsClose /\ NotedInTime
      BY <1>1 DEF NewIsRecent, MovedIsClose, NotedInTime
<1>7. StrikesAreSilent
  <2>1. \A c \in Enabled : Silent(c) = 0
        BY <1>1 DEF Silent
  <2> QED  BY <1>1, <1>3, <2>1, SilenceGrows DEF StrikesAreSilent
<1> QED  BY <1>4, <1>5, <1>6, <1>7 DEF HealthInv

LEMMA FrameKeeps ==
  ASSUME HealthInv, NEW c \in Chan, Frame(c)
  PROVE  HealthInv'
<1> USE Constants, Caps DEF HealthInv, Frame
<1>1. \A e \in Chan : source'[e] =
        IF e = c THEN [fresh |-> TRUE, unwatched |-> TRUE, any |-> TRUE, idle |-> 0]
        ELSE source[e]
      BY DEF HealthTypeOK
<1>2. HealthTypeOK'
  <2>1. source' \in [Chan -> Sources]
        BY DEF HealthTypeOK, Sources
  <2> QED  BY <2>1 DEF HealthTypeOK
<1>3. Publishing' /\ NotedInTime'
      BY DEF Publishing, NotedInTime
<1>4. \A e : Pending(e)' <=> Pending(e)
      BY DEF Pending
<1>5. SnapIsMoved' /\ (NoGrowth >= Duration => SnapIsOverdue')
      BY <1>4 DEF SnapIsMoved, SnapIsOverdue
<1>6. NewIsRecent'
  <2>1. Since' = Since /\ Since \in Nat
        BY Times DEF Since
  <2>2. NewIsRecent
        OBVIOUS
  <2> HIDE DEF HealthInv
  <2> QED  BY <1>1, <1>4, <2>1, <2>2 DEF NewIsRecent
<1>7. MovedIsClose'
  <2>1. MovedIsClose
        OBVIOUS
  <2> HIDE DEF HealthInv
  <2> QED  BY <1>1, <2>1 DEF MovedIsClose
<1>8. StrikesAreSilent'
      BY <1>1 DEF StrikesAreSilent, Silent
<1> QED  BY <1>2, <1>3, <1>5, <1>6, <1>7, <1>8

(* Steps that change files only. *)
LEMMA FilesKeep ==
  ASSUME HealthInv, NEW c \in Chan, CloseFragment(c) \/ NoteFragmentClosed(c)
  PROVE  HealthInv'
<1> USE Constants, Caps DEF HealthInv
<1>1. UNCHANGED <<linked, source, error, doc, watch, due>>
      BY DEF CloseFragment, NoteFragmentClosed
<1>2. \A e \in Chan \ {c} : file'[e] = file[e] /\ noted'[e] = noted[e]
      BY DEF CloseFragment, NoteFragmentClosed, Noted, HealthTypeOK
<1>3. CASE CloseFragment(c)
  <2>1. file'[c] = [age |-> 0, closed |-> 0] /\ UNCHANGED noted
        BY <1>3 DEF CloseFragment, HealthTypeOK
  <2>2. file' \in [Chan -> Files]
        BY <1>3 DEF CloseFragment, HealthTypeOK, Files
  <2>3. HealthTypeOK'
        BY <1>1, <2>1, <2>2 DEF HealthTypeOK
  <2>4. file'[c].closed = 0 /\ file'[c].age = 0 /\ 0 # NONE
        BY <2>1 DEF NONE
  <2>5. NotedInTime'
        BY <1>2, <2>1, <2>4 DEF NotedInTime
  <2>6. NoGrowth >= Duration => SnapIsOverdue'
    <3>1. \A e : Pending(e)' <=> Pending(e)
          BY <1>1 DEF Pending
    <3>2. 0 <= Lag + doc.late /\ doc' = doc
          BY <1>1, Times
    <3> QED  BY <1>2, <2>4, <3>1, <3>2 DEF SnapIsOverdue
  <2>7. Publishing' /\ NewIsRecent' /\ MovedIsClose' /\ SnapIsMoved' /\ StrikesAreSilent'
        BY <1>1, <2>1 DEF Publishing, NewIsRecent, MovedIsClose, SnapIsMoved, StrikesAreSilent,
           Pending, Since, Silent
  <2> QED  BY <2>3, <2>5, <2>6, <2>7
<1>4. CASE NoteFragmentClosed(c)
  <2>1. /\ file[c] \in Files /\ noted[c] \in Notes
        /\ file'[c] = [file[c] EXCEPT !.closed = NONE]
        /\ noted'[c] = [noted[c] EXCEPT !.seen = TRUE, !.fragment = 0]
        BY <1>4 DEF NoteFragmentClosed, Noted, HealthTypeOK
  <2>2. /\ file'[c].closed = NONE /\ file'[c].age = file[c].age /\ file[c].age \in 0..FileCap
        /\ noted'[c].fragment = 0 /\ noted'[c].moved = noted[c].moved
        BY <2>1 DEF Files, Notes
  <2>3. file' \in [Chan -> Files]
        BY <1>4, <2>1 DEF NoteFragmentClosed, HealthTypeOK, Files
  <2>4. noted' \in [Chan -> Notes]
    <3>1. 0 \in 0..NotedCap /\ noted[c] \in Notes
          BY <2>1
    <3>2. [noted[c] EXCEPT !.seen = TRUE, !.fragment = 0] \in Notes
          BY <3>1 DEF Notes
    <3> QED  BY <1>2, <1>4, <2>1, <3>2 DEF NoteFragmentClosed, Noted, HealthTypeOK
  <2>5. HealthTypeOK'
        BY <1>1, <2>3, <2>4 DEF HealthTypeOK
  <2>6. NotedInTime'
        BY <1>2, <2>2 DEF NotedInTime
  <2>7. \A e \in Chan : file'[e].age = file[e].age /\ noted'[e].moved = noted[e].moved
        BY <1>2, <2>2
  <2>8. Publishing' /\ NewIsRecent' /\ StrikesAreSilent'
        BY <1>1 DEF Publishing, NewIsRecent, StrikesAreSilent, Pending, Since, Silent
  <2>9. MovedIsClose' /\ SnapIsMoved' /\ (NoGrowth >= Duration => SnapIsOverdue')
        BY <1>1, <2>7 DEF MovedIsClose, SnapIsMoved, SnapIsOverdue, Pending
  <2> QED  BY <2>5, <2>6, <2>8, <2>9
<1> QED  BY <1>3, <1>4

LEMMA NotesKeep ==
  ASSUME HealthInv, NotePipelineError \/ Relink \/ UNCHANGED vars
  PROVE  HealthInv'
<1> USE DEF HealthInv
<1>1. UNCHANGED <<source, file, noted, doc, watch, due>>
      BY DEF NotePipelineError, Relink, vars
<1>2. linked' \subseteq Enabled /\ error' \in BOOLEAN
      BY DEF NotePipelineError, Relink, vars, HealthTypeOK
<1> QED  BY <1>1, <1>2
         DEF HealthTypeOK, Publishing, NewIsRecent, MovedIsClose, SnapIsMoved, NotedInTime,
             SnapIsOverdue, StrikesAreSilent, Pending, Since, Silent

LEMMA Locked ==
  /\ [Idle EXCEPT !.pc = "lock"] \in Docs
  /\ [Idle EXCEPT !.pc = "lock"].pc = "lock" /\ [Idle EXCEPT !.pc = "lock"].late = 0
<1>1. 0 \in 0..Lag
      BY HealthAssumption
<1>2. Idle \in Docs /\ Idle.late = 0
      BY <1>1 DEF Docs, Idle
<1>3. \A d \in Docs : /\ [d EXCEPT !.pc = "lock"] \in Docs
                      /\ [d EXCEPT !.pc = "lock"].pc = "lock"
                      /\ [d EXCEPT !.pc = "lock"].late = d.late
      BY DEF Docs
<1> QED  BY <1>2, <1>3

LEMMA TimeKeeps ==
  ASSUME HealthInv, PublishTime
  PROVE  HealthInv'
<1> USE Constants DEF HealthInv, PublishTime
<1>1. /\ UNCHANGED <<linked, source, file, noted, error, watch>>
      /\ doc.pc = "idle" /\ due.health \in (0 - Lag)..0
      BY DEF HealthTypeOK, Idle
<1>2. /\ doc' = [Idle EXCEPT !.pc = "lock"] /\ doc'.pc = "lock" /\ doc'.late = 0
      /\ doc' \in Docs
      BY Locked
<1>3. due' \in [health : (0 - Lag)..1, watch : (0 - Lag)..WatchPeriod]
      /\ due'.health = 1 /\ due'.watch = due.watch
      BY DEF HealthTypeOK
<1>4. HealthTypeOK'
  <2> HIDE DEF PublishTime
  <2> QED  BY <1>1, <1>2, <1>3, SMTT(30) DEF HealthTypeOK
<1>5. Publishing'
      BY <1>2, <1>3 DEF Publishing
<1>6. NewIsRecent'
  <2>1. NewIsRecent /\ \A c \in Enabled : source[c].idle \in Nat
        BY Fields
  <2> HIDE DEF HealthInv, PublishTime
  <2>2. \A c \in Enabled : ~Pending(c) /\ Pending(c)'
        BY <1>1, <1>2 DEF Pending
  <2>3. Since' = 0 /\ Since \in Int /\ Since <= 1 + Lag
        BY <1>1, <1>3 DEF Since
  <2> QED  BY <1>1, <2>1, <2>2, <2>3 DEF NewIsRecent
<1>7. MovedIsClose' /\ NotedInTime'
      BY <1>1 DEF MovedIsClose, NotedInTime
<1>8. SnapIsMoved' /\ SnapIsOverdue'
      BY <1>2 DEF SnapIsMoved, SnapIsOverdue
<1>9. StrikesAreSilent'
      BY <1>1, <1>3 DEF StrikesAreSilent, Silent
<1> QED  BY <1>4, <1>5, <1>6, <1>7, <1>8, <1>9

LEMMA SnapshotKeeps ==
  ASSUME HealthInv, PublishSnapshot
  PROVE  HealthInv'
<1> USE Constants DEF HealthInv
<1> DEFINE snap == [c \in Chan |->
                     [noted[c] EXCEPT !.fragment = @ - doc.late, !.moved = @ - doc.late]]
<1>1. /\ UNCHANGED <<linked, source, file, noted, error, watch, due>>
      /\ doc.pc = "lock" /\ doc \in Docs /\ doc.late \in 0..Lag /\ doc.late \in Int
      BY DEF PublishSnapshot, HealthTypeOK, Docs
<1>2. PICK s \in Storages :
        doc' = [doc EXCEPT !.pc = "observe", !.ch = 1, !.error = error, !.storage = s,
                           !.snap = snap]
      BY DEF PublishSnapshot
<1>3. ASSUME NEW c \in Chan
      PROVE  /\ snap[c] \in Snaps /\ snap[c].seen = noted[c].seen
             /\ snap[c].fragment = noted[c].fragment - doc.late
             /\ snap[c].moved = noted[c].moved - doc.late
             /\ noted[c].fragment \in 0..NotedCap /\ noted[c].moved \in 0..MovedCap
  <2>1. noted[c] \in Notes
        BY DEF HealthTypeOK
  <2>2. /\ noted[c].fragment \in 0..NotedCap /\ noted[c].moved \in 0..MovedCap
        /\ noted[c].seen \in BOOLEAN
        BY <2>1 DEF Notes
  <2>3. noted[c].fragment - doc.late \in Int /\ noted[c].moved - doc.late \in Int
    <3> HIDE DEF HealthInv
    <3>1. doc.late \in Int
          BY <1>1
    <3>2. noted[c].fragment \in Int /\ noted[c].moved \in Int
          BY <2>2, Caps
    <3> QED  BY <3>1, <3>2
  <2>4. snap[c] = [noted[c] EXCEPT !.fragment = @ - doc.late, !.moved = @ - doc.late]
        OBVIOUS
  <2> HIDE DEF snap
  <2>5. /\ snap[c].seen = noted[c].seen
        /\ snap[c].fragment = noted[c].fragment - doc.late
        /\ snap[c].moved = noted[c].moved - doc.late
        BY <2>1, <2>4 DEF Notes
  <2>6. snap[c] \in Snaps
        BY <2>1, <2>2, <2>3, <2>4 DEF Notes, Snaps
  <2> QED  BY <2>2, <2>5, <2>6
<1>4. snap \in [Chan -> Snaps]
      BY <1>3
<1> HIDE DEF snap
<1>5. doc'.pc = "observe" /\ doc'.late = doc.late /\ doc'.snap = snap /\ doc' \in Docs
      /\ doc'.ch = 1
      BY <1>1, <1>2, <1>4 DEF Docs, HealthTypeOK
<1>6. HealthTypeOK'
      BY <1>1, <1>4, <1>5 DEF HealthTypeOK
<1>7. Publishing'
      BY <1>1, <1>5 DEF Publishing
<1>8. NewIsRecent'
  <2>1. \A c \in Enabled : Pending(c)
        BY <1>1 DEF Pending
  <2>2. \A c \in Enabled : Pending(c)'
    <3> SUFFICES ASSUME NEW c \in Enabled PROVE Pending(c)'
        OBVIOUS
    <3>1. PICK i \in DOMAIN Channels : Channels[i] = c
          BY DEF Chan
    <3>2. doc'.ch = 1
          BY <1>1, <1>2 DEF Docs
    <3> QED  BY <1>5, <3>1, <3>2 DEF Pending
  <2> QED  BY <1>1, <2>1, <2>2 DEF NewIsRecent, Since
<1>9. MovedIsClose' /\ NotedInTime'
      BY <1>1 DEF MovedIsClose, NotedInTime
<1>10. SnapIsMoved'
  <2> SUFFICES ASSUME NEW c \in Enabled
               PROVE  /\ noted[c].moved - doc.late <= snap[c].moved
                      /\ noted[c].moved < MovedCap => snap[c].moved = noted[c].moved - doc.late
      BY <1>1, <1>5 DEF SnapIsMoved
  <2>1. snap[c].moved = noted[c].moved - doc.late /\ snap[c] \in Snaps
        BY <1>3
  <2> HIDE DEF HealthInv, snap
  <2>2. snap[c].moved \in Int
        BY <2>1 DEF Snaps
  <2> QED  BY <2>1, <2>2
<1>11. NoGrowth >= Duration => SnapIsOverdue'
  <2> SUFFICES ASSUME NoGrowth >= Duration, NEW c \in Enabled,
                      snap[c].seen, snap[c].fragment > NoGrowth
               PROVE  file[c].age > Duration \/ file[c].age <= Lag + doc.late
      BY <1>1, <1>5 DEF SnapIsOverdue
  <2>1. noted[c].seen /\ noted[c].fragment > Duration /\ noted[c].fragment \in Int
    <3>1. c \in Chan
          OBVIOUS
    <3>2. /\ snap[c].seen = noted[c].seen /\ noted[c].fragment \in 0..NotedCap
          /\ snap[c].fragment = noted[c].fragment - doc.late
          BY <1>3, <3>1
    <3>3. noted[c].fragment \in Int
          BY <3>2, Caps
    <3> QED  BY <1>1, <3>2, <3>3
  <2>2. /\ file[c].age \in 0..FileCap /\ file[c].closed \in {NONE} \cup (0..Lag)
        BY DEF HealthTypeOK, Files
  <2>3. CASE file[c].closed # NONE
        BY <1>1, <2>2, <2>3 DEF NotedInTime
  <2>4. CASE file[c].closed = NONE
    <3>1. noted[c].fragment <= file[c].age \/ file[c].age = FileCap
          BY <2>1, <2>4 DEF NotedInTime
    <3>2. /\ file[c].age \in Int /\ Duration \in Int /\ FileCap \in Int
          /\ FileCap > Duration
          BY <2>2, Caps
    <3> HIDE DEF HealthInv
    <3> QED  BY <2>1, <3>1, <3>2
  <2> QED  BY <2>3, <2>4
<1>12. StrikesAreSilent'
       BY <1>1 DEF StrikesAreSilent, Silent
<1> QED  BY <1>6, <1>7, <1>8, <1>9, <1>10, <1>11, <1>12

(* publish() goes on to the next channel: a channel still to come is still *)
(* to come, and the one it has looked at is not, as it is there once.      *)
LEMMA NextChannel ==
  ASSUME HealthInv, NEW c, Observing(c), doc' = [doc EXCEPT !.ch = @ + 1]
  PROVE  /\ doc.pc = "observe" /\ doc'.pc = "observe" /\ doc' \in Docs
         /\ doc'.late = doc.late /\ doc'.snap = doc.snap
         /\ Pending(c) /\ ~Pending(c)' /\ \A e : e # c => (Pending(e)' <=> Pending(e))
<1>1. doc \in Docs /\ doc.pc = "observe"
      BY DEF HealthInv, HealthTypeOK, Observing
<1>2. /\ doc'.pc = "observe" /\ doc' \in Docs /\ doc'.late = doc.late /\ doc'.snap = doc.snap
      /\ doc.ch \in Nat /\ doc'.ch = doc.ch + 1 /\ doc.ch > 0
      BY <1>1 DEF Docs, HealthInv, HealthTypeOK
<1>3. doc.ch \in DOMAIN Channels /\ c = Channels[doc.ch]
      BY <1>2, Constants DEF Observing
<1>4. Pending(c)
      BY <1>1, <1>2, <1>3 DEF Pending
<1>5. ~Pending(c)'
  <2> SUFFICES ASSUME NEW i \in DOMAIN Channels, doc.ch + 1 <= i, Channels[i] = c
               PROVE  FALSE
      BY <1>2 DEF Pending
  <2>1. i = doc.ch
        BY <1>3, HealthAssumption
  <2> QED  BY <1>2, <2>1
<1>6. ASSUME NEW e, e # c PROVE Pending(e)' <=> Pending(e)
  <2>1. \A i \in DOMAIN Channels : Channels[i] = e => (doc.ch <= i <=> doc.ch + 1 <= i)
    <3> SUFFICES ASSUME NEW i \in DOMAIN Channels, Channels[i] = e
                 PROVE  doc.ch <= i <=> doc.ch + 1 <= i
        OBVIOUS
    <3>1. i \in Int /\ i # doc.ch
          BY <1>3, <1>6, Constants
    <3> QED  BY <1>2, <3>1
  <2> QED  BY <1>1, <1>2, <2>1 DEF Pending
<1> QED  BY <1>1, <1>2, <1>4, <1>5, <1>6

LEMMA ObserveKeeps ==
  ASSUME HealthInv, NEW c \in Chan, PublishObserve(c)
  PROVE  HealthInv'
<1> USE Constants DEF HealthInv
<1>1. /\ Observing(c) /\ c \in Enabled /\ UNCHANGED <<linked, file, error, watch, due>>
      /\ noted' = WrittenBack(c) /\ source' = [source EXCEPT ![c].fresh = FALSE]
      /\ doc' = [doc EXCEPT !.ch = @ + 1]
      BY DEF PublishObserve
<1>2. /\ doc.pc = "observe" /\ doc'.pc = "observe" /\ doc' \in Docs
      /\ doc'.late = doc.late /\ doc'.snap = doc.snap /\ doc'.ch = doc.ch + 1
      /\ Pending(c) /\ ~Pending(c)' /\ \A e : e # c => (Pending(e)' <=> Pending(e))
      /\ doc.late \in 0..Lag /\ doc.late \in Nat /\ doc.late <= Lag /\ doc.ch \in Nat
  <2>1. doc \in Docs
        BY DEF HealthTypeOK
  <2>2. doc.late \in 0..Lag /\ doc.late \in Nat /\ doc.late <= Lag /\ doc.ch \in Nat
        BY <2>1, SMTT(30) DEF Docs
  <2> QED  BY <1>1, <2>1, <2>2, NextChannel, SMTT(30)
<1>3. Since = doc.late /\ Since' = doc.late
      BY <1>1, <1>2 DEF Publishing, Since, HealthTypeOK
<1>4. /\ source[c] \in Sources /\ source[c].idle \in Nat
      /\ source'[c].fresh = FALSE /\ source'[c].unwatched = source[c].unwatched
      /\ source'[c].idle = source[c].idle
      /\ \A e \in Chan \ {c} : source'[e] = source[e]
      /\ source' \in [Chan -> Sources]
  <2>1. source[c] \in Sources /\ source'[c] = [source[c] EXCEPT !.fresh = FALSE]
        BY <1>1 DEF HealthTypeOK
  <2>2. [source[c] EXCEPT !.fresh = FALSE] \in Sources
        BY <2>1 DEF Sources
  <2> QED  BY <1>1, <2>1, <2>2, Fields DEF HealthTypeOK, Sources
<1>5. /\ \A e \in Chan \ {c} : noted'[e] = noted[e]
      /\ noted'[c].seen = noted[c].seen /\ noted'[c].fragment = noted[c].fragment
      /\ noted'[c].moved = IF source[c].fresh THEN doc.late ELSE noted[c].moved
      /\ noted' \in [Chan -> Notes]
  <2>1. noted \in [Chan -> Notes] /\ noted[c] \in Notes
        BY DEF HealthTypeOK
  <2>2. CASE ~source[c].fresh
        BY <1>1, <2>1, <2>2 DEF WrittenBack
  <2>3. CASE source[c].fresh
    <3>1. noted' = [noted EXCEPT ![c].moved = doc.late]
          BY <1>1, <2>3 DEF WrittenBack
    <3>2. doc.late \in 0..MovedCap
          BY <1>2, Caps
    <3> HIDE DEF HealthInv
    <3>3. /\ [noted[c] EXCEPT !.moved = doc.late] \in Notes
          /\ [noted[c] EXCEPT !.moved = doc.late].seen = noted[c].seen
          /\ [noted[c] EXCEPT !.moved = doc.late].fragment = noted[c].fragment
          /\ [noted[c] EXCEPT !.moved = doc.late].moved = doc.late
          BY <2>1, <3>2 DEF Notes
    <3>4. noted'[c] = [noted[c] EXCEPT !.moved = doc.late]
          BY <2>1, <3>1
    <3> QED  BY <2>1, <2>3, <3>1, <3>3, <3>4
  <2> QED  BY <2>2, <2>3
<1>6. HealthTypeOK'
  <2>1. HealthTypeOK
        OBVIOUS
  <2> HIDE DEF HealthInv
  <2>2. doc'.pc = "observe" => doc'.snap \in [Chan -> Snaps] /\ doc'.ch > 0
        BY <1>2, <2>1 DEF HealthTypeOK
  <2>3. UNCHANGED <<linked, file, error, watch, due>>
        BY <1>1
  <2> QED  BY <1>2, <1>4, <1>5, <2>1, <2>2, <2>3, Zenon DEF HealthTypeOK
<1>7. Publishing'
      BY <1>1, <1>2 DEF Publishing
<1>8. NewIsRecent'
      BY <1>2, <1>3, <1>4 DEF NewIsRecent
<1>9. MovedIsClose'
  <2> SUFFICES ASSUME NEW e \in Enabled, ~source'[e].fresh
               PROVE  /\ noted'[e].moved - Lag <= source'[e].idle
                      /\ noted'[e].moved < MovedCap =>
                           source'[e].idle <= noted'[e].moved + 1 + Lag
      BY DEF MovedIsClose
  <2>1. CASE e # c
        BY <1>4, <1>5, <2>1 DEF MovedIsClose
  <2>2. CASE e = c /\ ~source[c].fresh
        BY <1>4, <1>5, <2>2 DEF MovedIsClose
  <2>3. CASE e = c /\ source[c].fresh
    <3>1. source[c].idle <= doc.late + 1 + Lag
          BY <1>2, <1>3, <2>3 DEF NewIsRecent
    <3> QED  BY <1>2, <1>4, <1>5, <2>3, <3>1
  <2> QED  BY <2>1, <2>2, <2>3
<1>10. SnapIsMoved' /\ (NoGrowth >= Duration => SnapIsOverdue')
       BY <1>1, <1>2, <1>5 DEF SnapIsMoved, SnapIsOverdue
<1>11. NotedInTime'
       BY <1>1, <1>5 DEF NotedInTime
<1>12. StrikesAreSilent'
  <2>1. \A e \in Enabled :
          source'[e].unwatched = source[e].unwatched /\ source'[e].idle = source[e].idle
        BY <1>4
  <2> QED  BY <1>1, <2>1 DEF StrikesAreSilent, Silent
<1> QED  BY <1>6, <1>7, <1>8, <1>9, <1>10, <1>11, <1>12

LEMMA DisabledKeeps ==
  ASSUME HealthInv, NEW c \in Chan, PublishDisabled(c)
  PROVE  HealthInv'
<1> USE DEF HealthInv
<1>1. /\ Observing(c) /\ c \notin Enabled
      /\ UNCHANGED <<linked, source, file, noted, error, watch, due>>
      /\ doc' = [doc EXCEPT !.ch = @ + 1]
      BY DEF PublishDisabled
<1>2. /\ doc.pc = "observe" /\ doc'.pc = "observe" /\ doc' \in Docs
      /\ doc'.late = doc.late /\ doc'.snap = doc.snap
      /\ \A e \in Enabled : Pending(e)' <=> Pending(e)
      BY <1>1, NextChannel
<1>3. doc.ch \in Nat /\ doc'.ch = doc.ch + 1
      BY <1>1 DEF HealthTypeOK, Docs
<1>4. HealthTypeOK' /\ Publishing'
      BY <1>1, <1>2, <1>3 DEF HealthTypeOK, Publishing
<1>5. NewIsRecent' /\ MovedIsClose' /\ SnapIsMoved'
      BY <1>1, <1>2 DEF NewIsRecent, MovedIsClose, SnapIsMoved, Since
<1>6. NotedInTime' /\ (NoGrowth >= Duration => SnapIsOverdue') /\ StrikesAreSilent'
      BY <1>1, <1>2 DEF NotedInTime, SnapIsOverdue, StrikesAreSilent, Silent
<1> QED  BY <1>4, <1>5, <1>6

LEMMA WrittenKeeps ==
  ASSUME HealthInv, PublishWritten
  PROVE  HealthInv'
<1> USE DEF HealthInv
<1>1. /\ doc.pc = "observe" /\ doc.ch > Len(Channels) /\ doc' = Idle
      /\ UNCHANGED <<linked, source, file, noted, error, watch, due>>
      BY DEF PublishWritten
<1>2. doc' \in Docs /\ doc'.pc = "idle"
  <2>1. 0 \in 0..Lag
        BY HealthAssumption
  <2> QED  BY <1>1, <2>1 DEF Idle, Docs
<1>3. \A e : ~Pending(e) /\ ~Pending(e)'
  <2>1. \A i \in DOMAIN Channels : ~(doc.ch <= i)
        BY <1>1, Constants DEF HealthTypeOK, Docs
  <2> QED  BY <1>1, <1>2, <2>1 DEF Pending
<1>4. HealthTypeOK' /\ Publishing'
      BY <1>1, <1>2 DEF HealthTypeOK, Publishing
<1>5. NewIsRecent' /\ MovedIsClose' /\ SnapIsMoved'
      BY <1>1, <1>3 DEF NewIsRecent, MovedIsClose, SnapIsMoved, Since
<1>6. NotedInTime' /\ SnapIsOverdue' /\ StrikesAreSilent'
      BY <1>1, <1>3 DEF NotedInTime, SnapIsOverdue, StrikesAreSilent, Silent
<1> QED  BY <1>4, <1>5, <1>6

(* The next strike is at most one more, and starts over no lower than the  *)
(* first report.                                                           *)
LEMMA OneStrike ==
  ASSUME HealthInv, NEW c \in Enabled
  PROVE  /\ Strike(c) \in Nat
         /\ Strike(c) # 0 => c \in linked /\ ~source[c].unwatched
         /\ Strike(c) <= watch.strike[c] + 1
         /\ watch.strike[c] >= Strikes => Strike(c) = 0 \/ Strike(c) >= Strikes
<1>1. watch.strike[c] \in Nat
      BY Constants DEF HealthInv, HealthTypeOK, Watches
<1>2. CASE ~Counts(c) \/ source[c].unwatched
      BY <1>1, <1>2 DEF Strike
<1>3. CASE /\ Counts(c) /\ ~source[c].unwatched
           /\ watch.strike[c] < ColdStrikes + Repeat
  <2>1. Strike(c) = watch.strike[c] + 1
        BY <1>3 DEF Strike
  <2> QED  BY <1>1, <1>3, <2>1, Constants DEF Counts
<1>4. CASE /\ Counts(c) /\ ~source[c].unwatched
           /\ ~(watch.strike[c] < ColdStrikes + Repeat)
  <2>1. Strike(c) = watch.strike[c] + 1 - Repeat
        BY <1>4 DEF Strike
  <2> QED  BY <1>1, <1>4, <2>1, Constants DEF Counts
<1> QED  BY <1>2, <1>3, <1>4

(* A strike that is counted now has been silent for one watch more. *)
LEMMA StruckIsSilent ==
  ASSUME HealthInv, NEW c \in Enabled, ~source[c].unwatched, due.watch <= 0
  PROVE  /\ source[c].idle >= Silence(Silent(c) + 1)
         /\ Silent(c) \in Nat
<1>1. watch.strike[c] \in Nat
      BY Constants DEF HealthInv, HealthTypeOK, Watches
<1>2. Silent(c) \in Nat
      BY <1>1, Constants DEF Silent
<1>3. /\ Silence(Silent(c)) \in Nat
      /\ Silence(Silent(c) + 1) = Silence(Silent(c)) + WatchPeriod
      BY <1>2, SilenceGrows
<1>4. source[c].idle >= Silence(Silent(c)) + WatchPeriod - due.watch
      BY DEF HealthInv, StrikesAreSilent
<1>5. due.watch \in Int /\ source[c].idle \in Int
      BY Constants, Caps DEF HealthInv, HealthTypeOK, Sources
<1> QED  BY <1>2, <1>3, <1>4, <1>5, Constants

LEMMA WatchKeeps ==
  ASSUME HealthInv, Watch
  PROVE  HealthInv'
<1> USE DEF HealthInv
<1>1. /\ UNCHANGED <<linked, file, noted, error, doc>>
      /\ due.watch <= 0 /\ due' = [due EXCEPT !.watch = WatchPeriod]
      BY DEF Watch
<1>2. /\ due'.health = due.health /\ due'.watch = WatchPeriod
      /\ due' \in [health : (0 - Lag)..1, watch : (0 - Lag)..WatchPeriod]
  <2>1. WatchPeriod \in (0 - Lag)..WatchPeriod
        BY Constants
  <2>2. due \in [health : (0 - Lag)..1, watch : (0 - Lag)..WatchPeriod]
        BY DEF HealthTypeOK
  <2> QED  BY <1>1, <2>1, <2>2
<1>3. /\ source' = [c \in Chan |-> IF c \in Enabled THEN [source[c] EXCEPT !.unwatched = FALSE]
                                   ELSE source[c]]
      BY DEF Watch
<1>4. \A c \in Chan : /\ source'[c] \in Sources
                      /\ source'[c].fresh = source[c].fresh /\ source'[c].idle = source[c].idle
  <2> SUFFICES ASSUME NEW c \in Chan
               PROVE  /\ source'[c] \in Sources
                      /\ source'[c].fresh = source[c].fresh /\ source'[c].idle = source[c].idle
      OBVIOUS
  <2>1. source[c] \in Sources
        BY Fields
  <2>2. source'[c] = [source[c] EXCEPT !.unwatched = FALSE] \/ source'[c] = source[c]
        BY <1>3
  <2> QED  BY <2>1, <2>2 DEF Sources
<1>5. source' \in [Chan -> Sources]
      BY <1>3, <1>4
<1>6. /\ watch'.strike = [c \in Chan |-> Strike(c)]
      /\ watch'.warned = (watch.warned \ {c \in linked \cap Enabled : source[c].unwatched})
                           \cup Logged
      /\ watch'.logged = Logged
      /\ watch'.up = [c \in Chan |-> IF c \notin linked THEN 0
                        ELSE IF watch.up[c] < Strikes THEN watch.up[c] + 1 ELSE Strikes]
      /\ watch' = [strike |-> watch'.strike, warned |-> watch'.warned,
                   logged |-> watch'.logged, up |-> watch'.up]
      BY DEF Watch
<1>7. watch' \in Watches
  <2>1. watch \in Watches
        BY DEF HealthTypeOK
  <2>2. /\ \A c \in Chan : watch.strike[c] \in Nat /\ watch.up[c] \in Nat
        /\ watch.warned \subseteq Enabled
        BY <2>1 DEF Watches
  <2>3. watch'.strike \in [Chan -> Nat]
    <3> SUFFICES ASSUME NEW c \in Chan PROVE Strike(c) \in Nat
        BY <1>6
    <3>1. CASE c \in Enabled
          BY <3>1, OneStrike
    <3>2. CASE c \notin Enabled
          BY <2>2, <3>2 DEF Strike
    <3> QED  BY <3>1, <3>2
  <2>4. watch'.up \in [Chan -> Nat]
        BY <1>6, <2>2, Constants
  <2>5. watch'.logged \subseteq Enabled /\ watch'.warned \subseteq Enabled
        BY <1>6, <2>2 DEF Logged
  <2> HIDE DEF HealthInv
  <2>6. [strike |-> watch'.strike, warned |-> watch'.warned,
         logged |-> watch'.logged, up |-> watch'.up] \in Watches
        BY <2>3, <2>4, <2>5 DEF Watches
  <2> QED  BY <1>6, <2>6
<1>8. HealthTypeOK'
      BY <1>1, <1>2, <1>5, <1>7 DEF HealthTypeOK
<1>9. Publishing'
      BY <1>1, <1>2 DEF Publishing
<1>10. NewIsRecent' /\ MovedIsClose'
  <2>1. \A c : Pending(c)' <=> Pending(c)
        BY <1>1 DEF Pending
  <2>2. Since' = Since
        BY <1>2 DEF Since
  <2>3. NewIsRecent'
        BY <1>4, <2>1, <2>2, Constants DEF NewIsRecent
  <2>4. MovedIsClose'
        BY <1>1, <1>4, Constants DEF MovedIsClose
  <2> QED  BY <2>3, <2>4
<1>11. SnapIsMoved' /\ NotedInTime' /\ (NoGrowth >= Duration => SnapIsOverdue')
       BY <1>1 DEF SnapIsMoved, NotedInTime, SnapIsOverdue, Pending
<1>12. StrikesAreSilent'
  <2> SUFFICES ASSUME NEW c \in Enabled
               PROVE  /\ source'[c].idle >= Silence(Silent(c)') + WatchPeriod - due'.watch
                      /\ watch'.up[c] >= watch'.strike[c] \/ watch'.up[c] >= Strikes
      BY DEF StrikesAreSilent
  <2>1. c \in Chan
        BY Constants
  <2>2. /\ watch'.strike[c] = Strike(c)
        /\ watch'.up[c] = IF c \notin linked THEN 0
                          ELSE IF watch.up[c] < Strikes THEN watch.up[c] + 1 ELSE Strikes
        BY <1>6, <2>1
  <2>3. /\ watch.strike[c] \in Nat /\ watch.up[c] \in Nat
        /\ watch.up[c] >= watch.strike[c] \/ watch.up[c] >= Strikes
        BY <2>1 DEF HealthTypeOK, Watches, StrikesAreSilent
  <2>4. watch'.up[c] >= watch'.strike[c] \/ watch'.up[c] >= Strikes
        BY <2>2, <2>3, OneStrike, Constants
  <2>5. source'[c].idle >= Silence(Silent(c)')
    <3>1. Silent(c)' = IF Strike(c) < Strikes THEN Strike(c) ELSE Strikes - 1
          BY <2>2 DEF Silent
    <3>2. source'[c].idle = source[c].idle /\ source[c].idle \in Nat
          BY <1>4, <2>1, Fields
    <3>3. CASE Strike(c) = 0
      <4>1. Silent(c)' = 0
            BY <3>1, <3>3, Constants
      <4> QED  BY <3>2, <4>1, SilenceGrows
    <3>4. CASE Strike(c) # 0
      <4>1. /\ source[c].idle >= Silence(Silent(c) + 1) /\ Silent(c) \in Nat
            BY <1>1, <3>4, OneStrike, StruckIsSilent
      <4>2. Silent(c)' \in Nat /\ Silent(c)' <= Silent(c) + 1
            BY <2>3, <3>1, OneStrike, Constants DEF Silent
      <4>3. /\ Silence(Silent(c)') <= Silence(Silent(c) + 1)
            /\ Silence(Silent(c)') \in Nat /\ Silence(Silent(c) + 1) \in Nat
            BY <4>1, <4>2, SilenceGrows
      <4> QED  BY <3>2, <4>1, <4>3
    <3> QED  BY <3>3, <3>4
  <2>6. /\ Silence(Silent(c)') \in Nat /\ due'.watch = WatchPeriod /\ source'[c].idle \in Nat
    <3>1. Silent(c)' \in Nat
          BY <2>2, OneStrike, Constants DEF Silent
    <3> QED  BY <1>2, <1>4, <2>1, <3>1, Fields, SilenceGrows
  <2> QED  BY <2>4, <2>5, <2>6, Constants
<1> QED  BY <1>8, <1>9, <1>10, <1>11, <1>12

(* A tick: every age is one more, or capped, and so is the document's. *)
LEMMA TickAges ==
  ASSUME HealthInv, Tick
  PROVE  /\ \A c \in Chan :
              /\ source'[c] \in Sources /\ source'[c].fresh = source[c].fresh
              /\ source'[c].unwatched = source[c].unwatched
              /\ source'[c].idle = Aged(source[c].idle, IdleCap)
              /\ file'[c] \in Files /\ file'[c].age = Aged(file[c].age, FileCap)
              /\ file'[c].closed = IF file[c].closed = NONE THEN NONE ELSE file[c].closed + 1
              /\ file[c].closed < Lag
              /\ noted'[c] \in Notes /\ noted'[c].seen = noted[c].seen
              /\ noted'[c].fragment = Aged(noted[c].fragment, NotedCap)
              /\ noted'[c].moved = Aged(noted[c].moved, MovedCap)
         /\ source' \in [Chan -> Sources] /\ file' \in [Chan -> Files]
         /\ noted' \in [Chan -> Notes]
<1>1. \A n, cap \in Nat : n <= cap => Aged(n, cap) \in 0..cap
      BY DEF Aged
<1>2. ASSUME NEW c \in Chan
      PROVE  /\ source'[c] \in Sources /\ source'[c].fresh = source[c].fresh
             /\ source'[c].unwatched = source[c].unwatched
             /\ source'[c].idle = Aged(source[c].idle, IdleCap)
  <2>1. source'[c] = [source[c] EXCEPT !.idle = Aged(@, IdleCap)]
        BY DEF Tick
  <2>2. source[c] \in Sources /\ Aged(source[c].idle, IdleCap) \in 0..IdleCap
        BY <1>1, Fields, Caps
  <2> QED  BY <2>1, <2>2 DEF Sources
<1>3. ASSUME NEW c \in Chan
      PROVE  /\ file'[c] \in Files /\ file'[c].age = Aged(file[c].age, FileCap)
             /\ file'[c].closed = IF file[c].closed = NONE THEN NONE ELSE file[c].closed + 1
             /\ file[c].closed < Lag
  <2>1. /\ file'[c] = [age |-> Aged(file[c].age, FileCap),
                       closed |-> IF file[c].closed = NONE THEN NONE ELSE file[c].closed + 1]
        /\ file[c].closed < Lag
        BY DEF Tick
  <2>2. /\ Aged(file[c].age, FileCap) \in 0..FileCap
        BY <1>1, Fields, Caps
  <2>3. file[c].closed # NONE => file[c].closed + 1 \in 0..Lag
        BY <2>1, Fields, Constants
  <2>4. file'[c].age = Aged(file[c].age, FileCap)
        /\ file'[c].closed = IF file[c].closed = NONE THEN NONE ELSE file[c].closed + 1
        BY <2>1
  <2>5. file'[c] \in Files
        BY <2>1, <2>2, <2>3 DEF Files
  <2> QED  BY <2>1, <2>4, <2>5
<1>4. ASSUME NEW c \in Chan
      PROVE  /\ noted'[c] \in Notes /\ noted'[c].seen = noted[c].seen
             /\ noted'[c].fragment = Aged(noted[c].fragment, NotedCap)
             /\ noted'[c].moved = Aged(noted[c].moved, MovedCap)
  <2>1. noted'[c] = [noted[c] EXCEPT !.fragment = Aged(@, NotedCap),
                                     !.moved = Aged(@, MovedCap)]
        BY DEF Tick
  <2>2. /\ noted[c] \in Notes /\ Aged(noted[c].fragment, NotedCap) \in 0..NotedCap
        /\ Aged(noted[c].moved, MovedCap) \in 0..MovedCap
        BY <1>1, Fields, Caps
  <2> QED  BY <2>1, <2>2 DEF Notes
<1>5. source' \in [Chan -> Sources]
      BY <1>2 DEF Tick
<1>6. file' \in [Chan -> Files]
      BY <1>3 DEF Tick
<1>7. noted' \in [Chan -> Notes]
      BY <1>4 DEF Tick
<1> QED  BY <1>2, <1>3, <1>4, <1>5, <1>6, <1>7

LEMMA TickDoc ==
  ASSUME HealthInv, Tick
  PROVE  /\ doc' \in Docs /\ doc'.pc = doc.pc /\ doc'.ch = doc.ch /\ doc'.snap = doc.snap
         /\ doc.pc = "idle" => doc' = Idle
         /\ doc.pc # "idle" => doc'.late = doc.late + 1
         /\ due'.health = due.health - 1 /\ due'.watch = due.watch - 1
         /\ due' \in [health : (0 - Lag)..1, watch : (0 - Lag)..WatchPeriod]
<1>1. /\ doc.late < Lag /\ due.health > 0 - Lag /\ due.watch > 0 - Lag
      /\ due' = [health |-> due.health - 1, watch |-> due.watch - 1]
      BY DEF Tick
<1>2. CASE doc.pc = "idle"
  <2>1. doc = Idle /\ doc' = doc /\ doc \in Docs
        BY <1>2, Times DEF Tick, HealthInv, Publishing
  <2> QED  BY <1>1, <1>2, <2>1, Times, Constants, SMTT(30)
<1>3. CASE doc.pc # "idle"
  <2>1. doc # Idle
        BY <1>3 DEF Idle
  <2>2. doc' = [doc EXCEPT !.late = @ + 1]
        BY <2>1 DEF Tick
  <2>3. doc \in Docs /\ doc.late + 1 \in 0..Lag
        BY <1>1, Times, Constants, SMTT(30)
  <2>4. doc' \in Docs /\ doc'.pc = doc.pc /\ doc'.ch = doc.ch /\ doc'.snap = doc.snap
        /\ doc'.late = doc.late + 1
        BY <2>2, <2>3, SMTT(30) DEF Docs
  <2> QED  BY <1>1, <1>3, <2>4, Times, Constants, SMTT(30)
<1> QED  BY <1>2, <1>3

LEMMA TickKeeps ==
  ASSUME HealthInv, Tick
  PROVE  HealthInv'
<1>1. UNCHANGED <<linked, error, watch>>
      BY DEF Tick
<1>2. HealthTypeOK'
      BY <1>1, TickAges, TickDoc DEF HealthInv, HealthTypeOK
<1>3. Publishing'
  <2>1. due.health \in Int /\ doc.late \in Int
        BY Times
  <2>2. doc.pc # "idle" => doc.late = 1 - due.health
        BY DEF HealthInv, Publishing
  <2> QED  BY <2>1, <2>2, TickDoc DEF Publishing
<1>4. /\ Since' = Since + 1
      /\ \A c : Pending(c)' <=> Pending(c)
  <2>1. Since' = Since + 1
        BY Times, TickDoc DEF Since
  <2> QED  BY <2>1, TickDoc DEF Pending
<1>5. NewIsRecent'
  <2> SUFFICES ASSUME NEW c \in Enabled, source'[c].fresh
               PROVE  source'[c].idle <= (IF Pending(c) THEN Since' + 1 + Lag ELSE Since')
      BY <1>4 DEF NewIsRecent
  <2>1. c \in Chan
        BY Constants
  <2>2. source[c].fresh /\ source'[c].idle = Aged(source[c].idle, IdleCap)
        BY <2>1, TickAges
  <2>3. source'[c].idle <= source[c].idle + 1 /\ source[c].idle \in Nat /\ source'[c].idle \in Nat
        BY <2>1, <2>2, Fields, Caps DEF Aged
  <2>4. source[c].idle <= (IF Pending(c) THEN Since + 1 + Lag ELSE Since)
        BY <2>2 DEF HealthInv, NewIsRecent
  <2>5. Since \in Int /\ Lag \in Int
        BY Times, Constants
  <2> QED  BY <1>4, <2>3, <2>4, <2>5
<1>6. MovedIsClose'
  <2> SUFFICES ASSUME NEW c \in Enabled, ~source'[c].fresh
               PROVE  /\ noted'[c].moved - Lag <= source'[c].idle
                      /\ noted'[c].moved < MovedCap =>
                           source'[c].idle <= noted'[c].moved + 1 + Lag
      BY DEF MovedIsClose
  <2>1. c \in Chan
        BY Constants
  <2>2. /\ ~source[c].fresh /\ source'[c].idle = Aged(source[c].idle, IdleCap)
        /\ noted'[c].moved = Aged(noted[c].moved, MovedCap)
        BY <2>1, TickAges
  <2>3. /\ noted[c].moved - Lag <= source[c].idle
        /\ noted[c].moved < MovedCap => source[c].idle <= noted[c].moved + 1 + Lag
        BY <2>2 DEF HealthInv, MovedIsClose
  <2>4. /\ source[c].idle \in Nat /\ source[c].idle <= IdleCap
        /\ noted[c].moved \in Nat /\ noted[c].moved <= MovedCap
        BY <2>1, Fields
  <2>5. MovedCap - Lag <= IdleCap /\ MovedCap \in Int /\ IdleCap \in Int /\ Lag \in Int
        BY Caps, Constants
  <2> QED  BY <2>2, <2>3, <2>4, <2>5 DEF Aged
<1>7. SnapIsMoved'
  <2> SUFFICES ASSUME NEW c \in Enabled, doc'.pc = "observe", Pending(c)
               PROVE  /\ noted'[c].moved - doc'.late <= doc'.snap[c].moved
                      /\ noted'[c].moved < MovedCap =>
                           doc'.snap[c].moved = noted'[c].moved - doc'.late
      BY <1>4 DEF SnapIsMoved
  <2>1. c \in Chan
        BY Constants
  <2>2. /\ doc.pc = "observe" /\ doc'.late = doc.late + 1 /\ doc'.snap = doc.snap
        BY TickDoc
  <2>3. noted'[c].moved = Aged(noted[c].moved, MovedCap)
        BY <2>1, TickAges
  <2>4. /\ noted[c].moved - doc.late <= doc.snap[c].moved
        /\ noted[c].moved < MovedCap => doc.snap[c].moved = noted[c].moved - doc.late
        BY <2>2 DEF HealthInv, SnapIsMoved
  <2>5. doc.snap[c].moved \in Int
        BY <2>1, <2>2 DEF HealthInv, HealthTypeOK, Snaps
  <2>6. noted[c].moved \in Nat /\ doc.late \in Nat /\ MovedCap \in Nat
        BY <2>1, Fields, Times, Caps
  <2> QED  BY <2>2, <2>3, <2>4, <2>5, <2>6 DEF Aged
<1>8. NotedInTime'
  <2> SUFFICES ASSUME NEW c \in Enabled
               PROVE  /\ file'[c].closed # NONE => file'[c].age = file'[c].closed
                      /\ file'[c].closed = NONE /\ noted'[c].seen =>
                           noted'[c].fragment <= file'[c].age \/ file'[c].age = FileCap
      BY DEF NotedInTime
  <2>1. c \in Chan
        BY Constants
  <2>2. /\ file'[c].age = Aged(file[c].age, FileCap)
        /\ file'[c].closed = IF file[c].closed = NONE THEN NONE ELSE file[c].closed + 1
        /\ file[c].closed < Lag /\ noted'[c].seen = noted[c].seen
        /\ noted'[c].fragment = Aged(noted[c].fragment, NotedCap)
        BY <2>1, TickAges
  <2>3. /\ file[c].closed # NONE => file[c].age = file[c].closed
        /\ file[c].closed = NONE /\ noted[c].seen =>
             noted[c].fragment <= file[c].age \/ file[c].age = FileCap
        BY DEF HealthInv, NotedInTime
  <2>4. /\ file[c].age \in Nat /\ file[c].age <= FileCap /\ noted[c].fragment \in Nat
        /\ noted[c].fragment <= NotedCap /\ FileCap \in Nat /\ NotedCap \in Nat
        /\ file[c].closed # NONE => file[c].closed \in Nat
        BY <2>1, Fields, Caps
  <2>5. Lag < FileCap /\ Lag \in Nat /\ NONE = 0 - 1
        BY Caps, Constants DEF NONE
  <2>6. CASE file[c].closed = NONE
    <3>1. file'[c].closed = NONE
          BY <2>2, <2>6
    <3>2. ASSUME noted[c].seen
          PROVE  noted'[c].fragment <= file'[c].age \/ file'[c].age = FileCap
      <4>1. noted[c].fragment <= file[c].age \/ file[c].age = FileCap
            BY <2>3, <2>6, <3>2
      <4> QED  BY <2>2, <2>4, <4>1 DEF Aged
    <3> QED  BY <2>2, <3>1, <3>2
  <2>7. CASE file[c].closed # NONE
    <3>1. file[c].closed \in Nat /\ file[c].age = file[c].closed /\ file[c].closed < FileCap
          BY <2>2, <2>3, <2>4, <2>5, <2>7
    <3>2. file'[c].closed = file[c].closed + 1 /\ file'[c].age = file[c].closed + 1
          BY <2>2, <2>7, <3>1 DEF Aged
    <3>3. file'[c].closed # NONE
          BY <2>5, <3>1, <3>2
    <3> QED  BY <3>2, <3>3
  <2> QED  BY <2>6, <2>7
<1>9. NoGrowth >= Duration => SnapIsOverdue'
  <2> SUFFICES ASSUME NoGrowth >= Duration, NEW c \in Enabled, doc'.pc = "observe", Pending(c),
                      doc'.snap[c].seen, doc'.snap[c].fragment > NoGrowth
               PROVE  file'[c].age > Duration \/ file'[c].age <= Lag + doc'.late
      BY <1>4 DEF SnapIsOverdue
  <2>1. c \in Chan
        BY Constants
  <2>2. /\ doc.pc = "observe" /\ doc'.late = doc.late + 1 /\ doc'.snap = doc.snap
        BY TickDoc
  <2>3. file'[c].age = Aged(file[c].age, FileCap)
        BY <2>1, TickAges
  <2>4. file[c].age > Duration \/ file[c].age <= Lag + doc.late
        BY <2>2 DEF HealthInv, SnapIsOverdue
  <2>5. file[c].age \in Nat /\ doc.late \in Nat /\ FileCap \in Nat /\ Lag \in Nat /\ Duration \in Nat
        BY <2>1, Fields, Times, Caps, Constants
  <2> QED  BY <2>2, <2>3, <2>4, <2>5 DEF Aged
<1>10. StrikesAreSilent'
  <2> SUFFICES ASSUME NEW c \in Enabled, ~source'[c].unwatched
               PROVE  source'[c].idle >= Silence(Silent(c)) + WatchPeriod - due'.watch
      BY <1>1 DEF HealthInv, StrikesAreSilent, Silent
  <2>1. c \in Chan
        BY Constants
  <2>2. /\ ~source[c].unwatched /\ source'[c].idle = Aged(source[c].idle, IdleCap)
        /\ due'.watch = due.watch - 1
        BY <2>1, TickAges, TickDoc
  <2>3. source[c].idle >= Silence(Silent(c)) + WatchPeriod - due.watch
        BY <2>2 DEF HealthInv, StrikesAreSilent
  <2>4. watch.strike[c] \in Nat
        BY <2>1 DEF HealthInv, HealthTypeOK, Watches
  <2>5. Silent(c) \in Nat /\ Silent(c) + 1 \in Nat /\ Silent(c) + 1 <= Strikes
        BY <2>4, Constants DEF Silent
  <2>6. /\ Silence(Silent(c)) \in Nat /\ Silence(Silent(c)) + WatchPeriod <= Silence(Strikes)
        BY <2>5, SilenceGrows, Constants
  <2>7. due.watch \in Int /\ due.watch > 0 - Lag
        BY Times DEF Tick
  <2>8. source[c].idle \in Nat /\ source[c].idle <= IdleCap
        BY <2>1, Fields
  <2>9. IdleCap \in Nat /\ IdleCap >= Silence(Strikes) + Lag /\ Silence(Strikes) \in Nat
        BY Caps, Constants
  <2>10. WatchPeriod \in Nat /\ Lag \in Nat
         BY Constants
  <2>11. CASE source[c].idle < IdleCap
    <3>1. source'[c].idle = source[c].idle + 1
          BY <2>2, <2>11 DEF Aged
    <3> QED  BY <2>2, <2>3, <2>6, <2>7, <2>8, <2>10, <3>1
  <2>12. CASE ~(source[c].idle < IdleCap)
    <3>1. source'[c].idle = IdleCap
          BY <2>2, <2>8, <2>9, <2>12 DEF Aged
    <3> QED  BY <2>2, <2>6, <2>7, <2>9, <2>10, <3>1
  <2> QED  BY <2>11, <2>12
<1> QED  BY <1>2, <1>3, <1>5, <1>6, <1>7, <1>8, <1>9, <1>10 DEF HealthInv

LEMMA HealthNext == HealthInv /\ [Next]_vars => HealthInv'
BY FrameKeeps, FilesKeep, NotesKeep, TimeKeeps, SnapshotKeeps, ObserveKeeps, DisabledKeeps,
   WrittenKeeps, WatchKeeps, TickKeeps DEF Next

(* The inductive invariant of the reports: how the ages of frames, of      *)
(* fragments and of the times noted for them differ while publish() looks  *)
(* (healthProducer.cpp 125-225), and for how long strikes have been silent *)
(* (encoderBin.cpp 611-673).                                               *)
THEOREM HealthInvariant == Spec => []HealthInv
BY HealthInitially, HealthNext, PTL DEF Spec

(* A source is published as stalled, or as OK, only if that is true of its *)
(* last frame up to the delays (healthProducer.cpp 168-196).               *)
THEOREM StallsAreTrue == Spec => StallIsTrue
<1>1. HealthInv /\ [Next]_vars =>
        [\A c \in Enabled : PublishObserve(c) /\ ~error =>
           /\ Gstreamer(c) = "SOURCE_STALL" => source[c].idle - doc.late > Stall - Lag
           /\ Gstreamer(c) = "OK" => source[c].idle - doc.late <= Stall + 1 + Lag]_vars
  <2> SUFFICES ASSUME HealthInv, NEW c \in Enabled, PublishObserve(c), ~error
               PROVE  /\ Gstreamer(c) = "SOURCE_STALL" =>
                           source[c].idle - doc.late > Stall - Lag
                      /\ Gstreamer(c) = "OK" => source[c].idle - doc.late <= Stall + 1 + Lag
      OBVIOUS
  <2>1. doc.pc = "observe" /\ Pending(c) /\ c \in Chan
        BY NextChannel, Constants DEF PublishObserve
  <2>2. Since = doc.late /\ doc.late \in Nat /\ doc.late <= Lag
        BY <2>1, Times DEF HealthInv, Publishing, Since
  <2>3. /\ source[c].idle \in Nat /\ noted[c].moved \in Nat /\ noted[c].moved <= MovedCap
        /\ MovedCap = Stall + Lag + 1 /\ Stall \in Nat /\ Lag \in Nat
        BY <2>1, Fields, Caps, Constants
  <2>4. doc.snap[c].moved \in Int
        BY <2>1 DEF HealthInv, HealthTypeOK, Snaps
  <2>5. source[c].fresh => source[c].idle <= doc.late + 1 + Lag
        BY <2>1, <2>2 DEF HealthInv, NewIsRecent
  <2>6. ~source[c].fresh =>
          /\ noted[c].moved - Lag <= source[c].idle
          /\ noted[c].moved < MovedCap => source[c].idle <= noted[c].moved + 1 + Lag
        BY DEF HealthInv, MovedIsClose
  <2>7. /\ noted[c].moved - doc.late <= doc.snap[c].moved
        /\ noted[c].moved < MovedCap => doc.snap[c].moved = noted[c].moved - doc.late
        BY <2>1 DEF HealthInv, SnapIsMoved
  <2>8. ASSUME Gstreamer(c) = "SOURCE_STALL"
        PROVE  source[c].idle - doc.late > Stall - Lag
    <3>1. ~source[c].fresh /\ doc.snap[c].moved > Stall
          BY <2>8 DEF Gstreamer
    <3> QED  BY <2>2, <2>3, <2>4, <2>6, <2>7, <3>1
  <2>9. ASSUME Gstreamer(c) = "OK"
        PROVE  source[c].idle - doc.late <= Stall + 1 + Lag
    <3>1. source[c].fresh \/ ~(doc.snap[c].moved > Stall)
          BY <2>9 DEF Gstreamer
    <3> QED  BY <2>2, <2>3, <2>4, <2>5, <2>6, <2>7, <3>1
  <2> QED  BY <2>8, <2>9
<1> QED  BY <1>1, HealthInvariant, PTL DEF Spec, StallIsTrue

(* A recording is published as not growing only if its next fragment is    *)
(* overdue, or has just been closed (healthProducer.cpp 198-224), where    *)
(* the threshold is no shorter than a fragment.                            *)
THEOREM NoGrowthIsTrue == NoGrowth >= Duration => (Spec => NoGrowthIsOverdue)
<1> SUFFICES ASSUME NoGrowth >= Duration PROVE Spec => NoGrowthIsOverdue
    OBVIOUS
<1>1. HealthInv /\ [Next]_vars =>
        [\A c \in Enabled : PublishObserve(c) /\ Recording(c) = "NO_GROWTH" =>
           file[c].age > Duration \/ file[c].age <= 2 * Lag]_vars
  <2> SUFFICES ASSUME HealthInv, NEW c \in Enabled, PublishObserve(c),
                      Recording(c) = "NO_GROWTH"
               PROVE  file[c].age > Duration \/ file[c].age <= 2 * Lag
      OBVIOUS
  <2>1. doc.pc = "observe" /\ Pending(c) /\ c \in Chan
        BY NextChannel, Constants DEF PublishObserve
  <2>2. doc.snap[c].seen /\ doc.snap[c].fragment > NoGrowth
    <3>1. doc.storage \in {"OK", "STORAGE_READ_ONLY", "STORAGE_FULL"}
          BY Times, HealthAssumption DEF Docs
    <3> QED  BY <3>1 DEF Recording
  <2>3. file[c].age > Duration \/ file[c].age <= Lag + doc.late
        BY <2>1, <2>2 DEF HealthInv, SnapIsOverdue
  <2>4. doc.late \in Nat /\ doc.late <= Lag /\ Lag \in Nat /\ file[c].age \in Nat
        BY <2>1, Times, Fields, Constants
  <2> QED  BY <2>3, <2>4
<1> QED  BY <1>1, HealthInvariant, PTL DEF Spec, NoGrowthIsOverdue

(* A channel is logged as without data only when its link has been up and  *)
(* no frame has come for all the strikes (encoderBin.cpp 634-670).         *)
THEOREM AccusesTheIdle == Spec => AccusedIsIdle
<1>1. HealthInv /\ [Next]_vars =>
        [Watch => \A c \in watch'.logged :
           watch'.up[c] >= Strikes /\ source[c].idle >= WatchPeriod * Strikes]_vars
  <2> SUFFICES ASSUME HealthInv, Watch, NEW c \in watch'.logged
               PROVE  watch'.up[c] >= Strikes /\ source[c].idle >= WatchPeriod * Strikes
      OBVIOUS
  <2>1. c \in Logged /\ due.watch <= 0
        BY DEF Watch
  <2>2. c \in Enabled /\ c \in Chan /\ Strike(c) > 0 /\ Strike(c) >= StrikeLimit
        BY <2>1, Constants DEF Logged
  <2>3. Strike(c) >= Strikes /\ Strike(c) \in Nat
        BY <2>2, OneStrike, Constants DEF StrikeLimit
  <2>4. c \in linked /\ ~source[c].unwatched /\ Strike(c) <= watch.strike[c] + 1
        BY <2>2, <2>3, OneStrike, Constants
  <2>5. watch.strike[c] \in Nat /\ watch.up[c] \in Nat
        BY <2>2 DEF HealthInv, HealthTypeOK, Watches
  <2>6. watch'.up[c] >= Strikes
    <3>1. watch'.up[c] = IF watch.up[c] < Strikes THEN watch.up[c] + 1 ELSE Strikes
          BY <2>2, <2>4 DEF Watch
    <3>2. watch.up[c] >= watch.strike[c] \/ watch.up[c] >= Strikes
          BY <2>2 DEF HealthInv, StrikesAreSilent
    <3> QED  BY <2>3, <2>4, <2>5, <3>1, <3>2, Constants, SMTT(30)
  <2>7. source[c].idle >= Silence(Strikes)
    <3>1. source[c].idle >= Silence(Silent(c) + 1)
          BY <2>1, <2>2, <2>4, StruckIsSilent
    <3>2. Silent(c) + 1 = Strikes
          BY <2>3, <2>4, <2>5, Constants DEF Silent
    <3> QED  BY <3>1, <3>2
  <2> QED  BY <2>6, <2>7 DEF Silence
<1> QED  BY <1>1, HealthInvariant, PTL DEF Spec, AccusedIsIdle
=============================================================================
