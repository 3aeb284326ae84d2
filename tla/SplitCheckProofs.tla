------------------------- MODULE SplitCheckProofs -------------------------
(***************************************************************************)
(* Proofs about SplitCheck, for any number of channels, any hour, period   *)
(* and tolerances: a target is passed only when its time has come          *)
(* (PassedInTime), and two fragments in a row do not get the same name     *)
(* (NamesDiffer), provided that the settings are in order.                 *)
(*                                                                         *)
(* The clock runs in a circle.  The time to the target is known modulo the *)
(* hour (Toward); what makes it the time that a difference of two clock    *)
(* readings shows is that it is bounded (Near, OnTime).  Of every channel  *)
(* is kept when its fragment was opened, and how far off the minute of its *)
(* name was (Kept).  A cut may give a name a second time only soon after a *)
(* target was passed; then nothing it ends is old (Harmless), because      *)
(* splitCheck() had judged all channels: Judged says what it knew of them. *)
(***************************************************************************)
EXTENDS SplitCheck, FiniteSetTheorems, SequenceTheorems, WellFoundedInduction, TLAPS

-----------------------------------------------------------------------------
(* Congruence *)

Congruent(n, a, b) == (a - b) % n = 0

LEMMA DivMod ==
  ASSUME NEW n \in Nat \ {0}, NEW a \in Int
  PROVE  /\ a \div n \in Int /\ a % n \in 0..(n - 1)
         /\ a = n * (a \div n) + (a % n)
OBVIOUS

LEMMA CongruentIs ==
  ASSUME NEW n \in Nat \ {0}, NEW a \in Int, NEW b \in Int
  PROVE  Congruent(n, a, b) <=> \E k \in Int : a - b = n * k
<1>1. ASSUME Congruent(n, a, b) PROVE \E k \in Int : a - b = n * k
  <2>1. a - b \in Int /\ (a - b) % n = 0
    BY <1>1 DEF Congruent
  <2>2. a - b = n * ((a - b) \div n) /\ (a - b) \div n \in Int
    BY <2>1, DivMod
  <2> QED
    BY <2>2
<1>2. ASSUME NEW k \in Int, a - b = n * k PROVE Congruent(n, a, b)
  <2>1. (n * k) % n = 0
    OBVIOUS
  <2> QED
    BY <2>1, <1>2 DEF Congruent
<1> QED
  BY <1>1, <1>2

LEMMA CongruentTrans ==
  ASSUME NEW n \in Nat \ {0}, NEW a \in Int, NEW b \in Int, NEW c \in Int,
         Congruent(n, a, b), Congruent(n, b, c)
  PROVE  Congruent(n, a, c)
<1>1. PICK j \in Int : a - b = n * j
  BY CongruentIs
<1>2. PICK k \in Int : b - c = n * k
  BY CongruentIs
<1>3. a - c = n * (j + k) /\ j + k \in Int
  <2>1. n * (j + k) = n * j + n * k
    OBVIOUS
  <2> QED
    BY <2>1, <1>1, <1>2
<1> QED
  BY <1>3, CongruentIs

LEMMA CongruentSym ==
  ASSUME NEW n \in Nat \ {0}, NEW a \in Int, NEW b \in Int, Congruent(n, a, b)
  PROVE  Congruent(n, b, a)
<1>1. PICK k \in Int : a - b = n * k
  BY CongruentIs
<1>2. b - a = n * (0 - k) /\ 0 - k \in Int
  <2>1. n * (0 - k) = 0 - n * k
    OBVIOUS
  <2> QED
    BY <1>1, <2>1
<1> QED
  BY <1>2, CongruentIs

(* Only the difference counts. *)
LEMMA CongruentShift ==
  ASSUME NEW n \in Nat \ {0}, NEW a \in Int, NEW b \in Int, NEW c \in Int, NEW d \in Int,
         Congruent(n, a, b), c - d = a - b
  PROVE  Congruent(n, c, d)
BY DEF Congruent

LEMMA CongruentMod ==
  ASSUME NEW n \in Nat \ {0}, NEW a \in Int
  PROVE  Congruent(n, a % n, a) /\ a % n \in 0..(n - 1)
<1>1. a \div n \in Int /\ a % n \in 0..(n - 1) /\ a = n * (a \div n) + (a % n)
  BY DivMod
<1>2. (a % n) - a = n * (0 - (a \div n)) /\ 0 - (a \div n) \in Int
  <2>1. n * (0 - (a \div n)) = 0 - n * (a \div n)
    BY <1>1
  <2> QED
    BY <1>1, <2>1
<1>3. a % n \in Int
  BY <1>1
<1> QED
  BY <1>1, <1>2, <1>3, CongruentIs

LEMMA CongruentClose ==
  ASSUME NEW n \in Nat \ {0}, NEW a \in Int, NEW b \in Int,
         Congruent(n, a, b), a - b < n, b - a < n
  PROVE  a = b
<1>1. PICK k \in Int : a - b = n * k
  BY CongruentIs
<1>2. k >= 1 => n * k >= n
  OBVIOUS
<1>3. k <= 0 - 1 => n * k <= 0 - n
  OBVIOUS
<1> QED
  BY <1>1, <1>2, <1>3

LEMMA CongruentDivides ==
  ASSUME NEW n \in Nat \ {0}, NEW m \in Nat \ {0}, NEW j \in Int, n = m * j,
         NEW a \in Int, NEW b \in Int, Congruent(n, a, b)
  PROVE  Congruent(m, a, b)
<1>1. PICK k \in Int : a - b = n * k
  BY CongruentIs
<1>2. n * k = m * (j * k) /\ j * k \in Int
  OBVIOUS
<1> QED
  BY <1>1, <1>2, CongruentIs

-----------------------------------------------------------------------------
(* The constants *)

LEMMA Sizes ==
  /\ Hour \in Nat \ {0} /\ Hour = Minute * HourMinutes
  /\ Full \in Nat \ {0} /\ Full >= Minute
  /\ Offset \in Nat /\ Offset < Minute
  /\ Lateness \in Nat /\ Furthest \in Nat
  /\ Minute \in Nat \ {0} /\ Second \in Nat \ {0} /\ HourMinutes \in Nat \ {0}
  /\ Duration \in Nat \ {0} /\ MaxLag \in Nat /\ Margin \in Nat /\ SplitMax \in Nat
  /\ SplitDiff \in Nat /\ MaxDrift \in Nat /\ MinInterval \in Nat /\ RecheckAt \in Nat
  /\ MaxSteps \in Nat /\ Grace \in Nat /\ StartSec \in Nat
<1>1. \A a, b \in Nat \ {0} : a * b \in Nat \ {0} /\ a * b = b * a /\ a * b >= b
  OBVIOUS
<1>2. \A a, b \in Nat : a * b \in Nat
  OBVIOUS
<1>3. Hour \in Nat \ {0} /\ Hour = Minute * HourMinutes /\ Full \in Nat \ {0} /\ Full >= Minute
  BY <1>1, SplitCheckAssumption DEF Hour, Full
<1>4. Offset \in Nat /\ Offset < Minute
  BY <1>2, SplitCheckAssumption DEF Offset
<1> QED
  BY <1>3, <1>4, SplitCheckAssumption DEF Lateness, Furthest

LEMMA LongestIs == Longest \in Nat /\ \A slip \in Slips : slip \in Nat /\ slip <= Longest
<1>1. \E x \in Slips : \A y \in Slips : y <= x
  BY SplitCheckAssumption
<1>2. Longest \in Slips /\ \A y \in Slips : y <= Longest
  BY <1>1 DEF Longest, MaxOf
<1> QED
  BY <1>2, SplitCheckAssumption

(* A minute is a whole number of seconds, and so is an hour. *)
LEMMA Wholes ==
  /\ \E k \in Int : Minute = Second * k
  /\ \E k \in Int : Offset = Second * k
  /\ \E k \in Int : Hour = Second * k
<1>1. PICK j \in Int : Minute = Second * j
  <2>1. Minute \in Int /\ Second \in Nat \ {0} /\ Minute % Second = 0
    BY Sizes, SplitCheckAssumption
  <2>2. /\ Minute \div Second \in Int
        /\ Minute = Second * (Minute \div Second) + (Minute % Second)
    BY <2>1, DivMod
  <2>3. Minute = Second * (Minute \div Second)
    BY <2>1, <2>2
  <2> QED
    BY <2>2, <2>3
<1>2. Offset = Second * StartSec /\ StartSec \in Int
  BY Sizes DEF Offset
<1>3. Hour = Second * (j * HourMinutes) /\ j * HourMinutes \in Int
  <2>1. HourMinutes \in Int /\ Second \in Int /\ Hour = Minute * HourMinutes
    BY Sizes
  <2>2. (Second * j) * HourMinutes = Second * (j * HourMinutes) /\ j * HourMinutes \in Int
    BY <2>1
  <2> QED
    BY <1>1, <2>1, <2>2
<1>4. /\ \E k \in Int : Minute = Second * k
      /\ \E k \in Int : Offset = Second * k
      /\ \E k \in Int : Hour = Second * k
  BY <1>1, <1>2, <1>3
<1> QED
  BY <1>4

-----------------------------------------------------------------------------
(* The clock *)

LEMMA WallIs ==
  ASSUME NEW t \in 0..(Hour - 1)
  PROVE  /\ Min(t) \in 0..(HourMinutes - 1) /\ Msec(t) \in 0..(Minute - 1)
         /\ t = Min(t) * Minute + Msec(t)
<1>1. Minute \in Nat \ {0} /\ HourMinutes \in Nat \ {0} /\ Hour = Minute * HourMinutes
  BY Sizes
<1>2. t \in Nat /\ t < Minute * HourMinutes
  BY <1>1
<1>3. /\ Min(t) \in Int /\ Msec(t) \in 0..(Minute - 1)
      /\ t = Minute * Min(t) + Msec(t)
  BY <1>1, <1>2, DivMod DEF Min, Msec
<1>4. \A q \in Int : q >= HourMinutes => Minute * q >= Minute * HourMinutes
  BY <1>1
<1>5. \A q \in Int : q <= 0 - 1 => Minute * q <= 0 - Minute
  BY <1>1
<1>6. \A q \in Int : Minute * q = q * Minute
  BY <1>1
<1> QED
  BY <1>1, <1>2, <1>3, <1>4, <1>5, <1>6

LEMMA SecIs ==
  ASSUME NEW t \in 0..(Hour - 1)
  PROVE  Sec(t) = StartSec <=> Offset <= Msec(t) /\ Msec(t) < Offset + Second
<1>1. Msec(t) \in Nat /\ Second \in Nat \ {0} /\ StartSec \in Nat
  BY WallIs, Sizes
<1>2. PICK m \in Nat : m = Msec(t)
  BY <1>1
<1>3. /\ m \div Second \in Int /\ m % Second \in 0..(Second - 1)
      /\ m = Second * (m \div Second) + (m % Second)
  BY <1>1
<1>4. PICK q \in Int, r \in Int : /\ q = m \div Second /\ r \in 0..(Second - 1)
                                 /\ m = Second * q + r
  BY <1>3
<1>5. Offset = Second * StartSec
  BY <1>1 DEF Offset
<1>6. q = StartSec <=> Offset <= m /\ m < Offset + Second
  <2>1. q >= StartSec + 1 => Second * q >= Second * StartSec + Second
    BY <1>1
  <2>2. q <= StartSec - 1 => Second * q <= Second * StartSec - Second
    BY <1>1
  <2>3. Second * q \in Int /\ Second * StartSec \in Int
    BY <1>1
  <2> QED
    BY <1>1, <1>4, <1>5, <2>1, <2>2, <2>3
<1> QED
  BY <1>2, <1>4, <1>6 DEF Sec

LEMMA TargetIs ==
  ASSUME NEW m \in 0..(HourMinutes - 1)
  PROVE  /\ TargetTime(m) \in 0..(Hour - 1)
         /\ Congruent(Minute, TargetTime(m), Offset)
         /\ Congruent(Second, TargetTime(m), 0)
<1>1. /\ Minute \in Nat \ {0} /\ Second \in Nat \ {0} /\ HourMinutes \in Nat \ {0}
      /\ Hour = Minute * HourMinutes /\ Offset \in Nat /\ Offset < Minute /\ m \in Nat
  BY Sizes
<1>2. TargetTime(m) = m * Minute + Offset /\ TargetTime(m) \in Int
  BY <1>1 DEF TargetTime, Offset
<1>3. m * Minute >= 0 /\ m * Minute <= Minute * HourMinutes - Minute
  <2>1. (HourMinutes - 1 - m) * Minute >= 0
    BY <1>1
  <2>2. (HourMinutes - 1 - m) * Minute = Minute * HourMinutes - Minute - m * Minute
    BY <1>1
  <2>3. m * Minute \in Nat /\ Minute * HourMinutes \in Nat
    BY <1>1
  <2> QED
    BY <2>1, <2>2, <2>3, <1>1
<1>4. TargetTime(m) \in 0..(Hour - 1)
  BY <1>1, <1>2, <1>3
<1>5. Congruent(Minute, TargetTime(m), Offset)
  <2>1. TargetTime(m) - Offset = Minute * m
    BY <1>1, <1>2
  <2>2. (Minute * m) % Minute = 0
    BY <1>1
  <2> QED
    BY <2>1, <2>2 DEF Congruent
<1>6. Congruent(Second, TargetTime(m), 0)
  <2>1. PICK i \in Int : Minute = Second * i
    BY Wholes
  <2>2. PICK j \in Int : Offset = Second * j
    BY Wholes
  <2>3. TargetTime(m) - 0 = Second * (m * i + j) /\ m * i + j \in Int
    <3>1. m * (Second * i) = Second * (m * i) /\ m * i \in Int
      BY <1>1
    <3>2. Second * (m * i + j) = Second * (m * i) + Second * j
      BY <1>1, <3>1
    <3> QED
      BY <3>1, <3>2, <2>1, <2>2, <1>1, <1>2
  <2>4. \A k \in Int : (Second * k) % Second = 0
    BY <1>1
  <2> QED
    BY <2>3, <2>4 DEF Congruent
<1> QED
  BY <1>4, <1>5, <1>6

(* A period on, or back. *)
LEMMA TargetShift ==
  ASSUME NEW m \in 0..(HourMinutes - 1)
  PROVE  /\ (m + Duration) % HourMinutes \in 0..(HourMinutes - 1)
         /\ (m - Duration) % HourMinutes \in 0..(HourMinutes - 1)
         /\ Congruent(Hour, TargetTime((m + Duration) % HourMinutes), TargetTime(m) + Full)
         /\ Congruent(Hour, TargetTime((m - Duration) % HourMinutes), TargetTime(m) - Full)
<1>1. /\ Minute \in Nat \ {0} /\ HourMinutes \in Nat \ {0} /\ Duration \in Nat \ {0}
      /\ Hour = Minute * HourMinutes /\ Hour \in Nat \ {0} /\ m \in Nat
      /\ Full = Duration * Minute /\ Full \in Nat
      /\ Offset \in Nat
  BY Sizes DEF Full
<1>2. \A t \in Int : TargetTime(t) = t * Minute + Offset /\ TargetTime(t) \in Int
  BY <1>1 DEF TargetTime, Offset
<1>3. ASSUME NEW n \in Int
      PROVE  /\ n % HourMinutes \in 0..(HourMinutes - 1)
             /\ Congruent(Hour, TargetTime(n % HourMinutes), TargetTime(n))
  <2> DEFINE q == n \div HourMinutes
             r == n % HourMinutes
  <2>1. q \in Int /\ r \in 0..(HourMinutes - 1) /\ n = HourMinutes * q + r
    BY <1>1, DivMod
  <2> HIDE DEF q, r
  <2>2. r * Minute - n * Minute = Hour * (0 - q)
    <3>1. (HourMinutes * q + r) * Minute = (Minute * HourMinutes) * q + r * Minute
      BY <1>1, <2>1
    <3>2. (Minute * HourMinutes) * (0 - q) = 0 - (Minute * HourMinutes) * q
      BY <1>1, <2>1
    <3>3. (Minute * HourMinutes) * q \in Int /\ r * Minute \in Int
      BY <1>1, <2>1
    <3> QED
      BY <3>1, <3>2, <3>3, <2>1, <1>1
  <2>3. r \in Int /\ r * Minute \in Int /\ n * Minute \in Int
    BY <2>1, <1>1
  <2>4. TargetTime(r) - TargetTime(n) = Hour * (0 - q)
    BY <1>1, <1>2, <2>2, <2>3
  <2>5. Congruent(Hour, TargetTime(r), TargetTime(n))
    <3>1. \A h \in Nat \ {0}, k \in Int : (h * k) % h = 0
      OBVIOUS
    <3>2. (Hour * (0 - q)) % Hour = 0
      <4>1. 0 - q \in Int /\ Hour \in Nat \ {0}
        BY <1>1, <2>1
      <4> QED
        BY <3>1, <4>1
    <3> QED
      BY <2>4, <3>2 DEF Congruent
  <2> QED
    BY <2>1, <2>5 DEF r
<1>4. TargetTime(m + Duration) = TargetTime(m) + Full
  <2>1. (m + Duration) * Minute = m * Minute + Duration * Minute
    BY <1>1
  <2> QED
    BY <2>1, <1>1, <1>2
<1>5. TargetTime(m - Duration) = TargetTime(m) - Full
  <2>1. (m - Duration) * Minute = m * Minute - Duration * Minute
    BY <1>1
  <2> QED
    BY <2>1, <1>1, <1>2
<1> QED
  BY <1>1, <1>3, <1>4, <1>5

(* The target before the next is this. *)
LEMMA TargetBack ==
  ASSUME NEW m \in 0..(HourMinutes - 1)
  PROVE  (((m + Duration) % HourMinutes) - Duration) % HourMinutes = m
<1>1. HourMinutes \in Nat \ {0} /\ Duration \in Int /\ m \in Int
  BY Sizes
<1>2. \A a \in Int : /\ a % HourMinutes \in 0..(HourMinutes - 1)
                     /\ Congruent(HourMinutes, a % HourMinutes, a)
  BY <1>1, CongruentMod
<1>3. PICK n \in Int : /\ n = (m + Duration) % HourMinutes
                       /\ Congruent(HourMinutes, n, m + Duration)
  <2>1. m + Duration \in Int
    BY <1>1
  <2> QED
    BY <1>2, <2>1
<1>4. PICK p \in 0..(HourMinutes - 1) : /\ p = (n - Duration) % HourMinutes
                                        /\ Congruent(HourMinutes, p, n - Duration)
  <2>1. n - Duration \in Int
    BY <1>1
  <2> QED
    BY <1>2, <2>1
<1>5. Congruent(HourMinutes, n - Duration, m)
  <2>1. (n - Duration) - m = n - (m + Duration)
    BY <1>1
  <2> QED
    BY <1>3, <2>1 DEF Congruent
<1>6. p \in Int /\ n - Duration \in Int /\ p - m < HourMinutes /\ m - p < HourMinutes
  BY <1>1
<1>7. Congruent(HourMinutes, p, m)
  BY <1>1, <1>4, <1>5, <1>6, CongruentTrans
<1>8. p = m
  BY <1>1, <1>6, <1>7, CongruentClose
<1> QED
  BY <1>3, <1>4, <1>8

(* The differences of clock readings, in integers: d is the difference of   *)
(* a clock w and a time t, in whole seconds; the clock is a before t.       *)
LEMMA WrappedIs ==
  ASSUME NEW w \in Int, NEW t \in Int, NEW a \in Int, NEW d \in Int, NEW e \in Int,
         0 <= w, w < Hour, 0 <= t, t < Hour, 0 <= e, e <= w, e < Second,
         d = w - e - t, Congruent(Hour, t, w + a),
         0 - (Hour \div 2) < a, a + Second <= Hour \div 2
  PROVE  Wrapped(d) = 0 - (a + e)
<1>0. PICK h \in Nat \ {0} : h = Hour
  BY Sizes
<1>1. PICK half \in Int : half = Hour \div 2 /\ 2 * half <= h /\ h <= 2 * half + 1
  BY <1>0
<1>2. PICK x \in Int : x = Wrapped(d)
  <2>1. Hour \in Int /\ d + Hour \in Int /\ d - Hour \in Int
    BY Sizes
  <2>2. Wrapped(d) = d \/ Wrapped(d) = d + Hour \/ Wrapped(d) = d - Hour
    BY DEF Wrapped
  <2> QED
    BY <2>1, <2>2
<1>3. /\ 0 - half <= x /\ x <= half
      /\ x = d \/ x = d + h \/ x = d - h
  BY <1>0, <1>1, <1>2 DEF Wrapped
<1>4. PICK k \in Int : t - (w + a) = h * k
  <2>1. PICK b \in Int : b = w + a
    OBVIOUS
  <2>2. Congruent(h, t, b)
    BY <1>0, <2>1
  <2>3. \E k \in Int : t - b = h * k
    BY <2>2, CongruentIs
  <2> QED
    BY <2>1, <2>3
<1>5. PICK p \in Int : p = h * k
  OBVIOUS
<1>6. d + a + e = 0 - p
  BY <1>4, <1>5
<1>7. PICK y \in Int : y = 0 - (a + e)
  OBVIOUS
<1>8. Congruent(h, x, y)
  <2>1. x - y = 0 - p \/ x - y = h - p \/ x - y = (0 - h) - p
    BY <1>3, <1>6, <1>7
  <2>2. 0 - p = h * (0 - k) /\ h - p = h * (1 - k) /\ (0 - h) - p = h * (0 - 1 - k)
    BY <1>5
  <2>3. 0 - k \in Int /\ 1 - k \in Int /\ 0 - 1 - k \in Int
    OBVIOUS
  <2>4. \E n \in Int : x - y = h * n
    BY <2>1, <2>2, <2>3
  <2> QED
    BY <2>4, CongruentIs
<1>9. x - y < h /\ y - x < h
  BY <1>0, <1>1, <1>3, <1>7, Sizes
<1>10. x = y
  BY <1>8, <1>9, CongruentClose
<1> QED
  BY <1>2, <1>7, <1>10

(* A whole number of seconds that is less than a second after an a that    *)
(* has come is not positive.                                               *)
LEMMA WholeSeconds ==
  ASSUME NEW w \in Int, NEW t \in Int, NEW a \in Int, NEW e \in Int,
         0 <= e, e < Second, Congruent(Second, e, w), Congruent(Second, t, 0),
         Congruent(Hour, t, w + a), a <= 0
  PROVE  a + e <= 0
<1>1. Second \in Nat \ {0} /\ Hour \in Nat \ {0}
  BY Sizes
<1>2. w + a \in Int /\ a + e \in Int /\ 0 \in Int
  OBVIOUS
<1>3. PICK k \in Int : t - (w + a) = Hour * k
  BY <1>1, <1>2, CongruentIs
<1>4. PICK j \in Int : Hour = Second * j
  BY Wholes
<1>5. PICK i \in Int : t - 0 = Second * i
  BY <1>1, <1>2, CongruentIs
<1>6. PICK n \in Int : e - w = Second * n
  BY <1>1, CongruentIs
<1>7. (Second * j) * k = Second * (j * k) /\ j * k \in Int
  BY <1>1
<1>8. (a + e) - 0 = Second * i + Second * n - Second * (j * k)
  BY <1>1, <1>3, <1>4, <1>5, <1>6, <1>7
<1>9. PICK m \in Int : m = j * k
  BY <1>7
<1>10. Second * i + Second * n - Second * m = Second * (i + n - m)
  BY <1>1
<1>11. (a + e) - 0 = Second * (i + n - m) /\ i + n - m \in Int
  BY <1>8, <1>9, <1>10
<1>12. Congruent(Second, a + e, 0)
  BY <1>1, <1>2, <1>11, CongruentIs
<1>13. SUFFICES ASSUME a + e > 0 PROVE FALSE
  BY <1>2
<1>14. (a + e) - 0 < Second /\ 0 - (a + e) < Second
  BY <1>1, <1>13
<1>15. a + e = 0
  BY <1>1, <1>2, <1>12, <1>14, CongruentClose
<1> QED
  BY <1>13, <1>15

(* A target a ticks away, as splitCheck() sees it: in whole seconds. *)
LEMMA DiffIs ==
  ASSUME NEW m \in 0..(HourMinutes - 1), NEW a \in Int, wall \in 0..(Hour - 1),
         Congruent(Hour, TargetTime(m), wall + a),
         0 - (Hour \div 2) < a, a + Second <= Hour \div 2
  PROVE  /\ Diff(m) = 0 - (a + (wall % Second))
         /\ wall % Second \in 0..(Second - 1)
         /\ Diff(m) < 0 <=> a > 0
<1>1. Hour \in Nat \ {0} /\ Second \in Nat \ {0} /\ wall \in Int
  BY Sizes
<1>2. PICK t \in Int : /\ t = TargetTime(m) /\ 0 <= t /\ t < Hour
                       /\ Congruent(Second, t, 0)
  BY <1>1, TargetIs
<1>3. PICK e \in Int : /\ e = wall % Second /\ Congruent(Second, e, wall)
                       /\ e <= wall /\ 0 <= e /\ e < Second
  <2>1. wall % Second \in 0..(Second - 1) /\ Congruent(Second, wall % Second, wall)
    BY <1>1, CongruentMod
  <2>2. wall % Second <= wall
    BY <1>1
  <2> QED
    BY <2>1, <2>2, <1>1
<1>4. PICK d \in Int : d = wall - e - t
  BY <1>1
<1>5. Wrapped(d) = 0 - (a + e)
  <2>1. PICK w \in Int : w = wall /\ 0 <= w /\ w < Hour
    BY <1>1
  <2>2. Congruent(Hour, t, w + a) /\ d = w - e - t /\ e <= w
    BY <1>2, <1>3, <1>4, <2>1
  <2>3. /\ 0 <= t /\ t < Hour /\ 0 <= e /\ e < Second
        /\ 0 - (Hour \div 2) < a /\ a + Second <= Hour \div 2
    BY <1>2, <1>3
  <2> QED
    BY <2>1, <2>2, <2>3, WrappedIs
<1>6. Diff(m) = 0 - (a + e)
  BY <1>2, <1>3, <1>4, <1>5 DEF Diff
<1>7. a <= 0 => a + e <= 0
  BY <1>1, <1>2, <1>3, WholeSeconds
<1> QED
  BY <1>1, <1>3, <1>6, <1>7

(* A time of the minute x ticks after the target second, or before it. *)
LEMMA SignedIs ==
  ASSUME NEW sm \in 0..(Minute - 1), NEW x \in Int, Congruent(Minute, sm, Offset + x),
         x <= MaxDrift, MaxDrift < Minute, MaxDrift - Minute < x
  PROVE  Signed(sm) = x
<1>1. /\ Minute \in Nat \ {0} /\ Offset \in Int /\ Offset < Minute
      /\ MaxDrift \in Int /\ MaxDrift >= 0
      /\ StartSec * Second = Offset /\ Offset >= 0
  BY Sizes DEF Offset
<1>2. PICK b \in Int : b = sm - Offset + Minute
  BY <1>1
<1>3. PICK r \in Int : /\ r = Rel(sm) /\ 0 <= r /\ r < Minute
                       /\ Congruent(Minute, r, b)
  <2>1. Rel(sm) = b % Minute
    BY <1>1, <1>2 DEF Rel
  <2>2. b % Minute \in 0..(Minute - 1) /\ Congruent(Minute, b % Minute, b)
    BY <1>1, CongruentMod
  <2> QED
    BY <1>1, <2>1, <2>2
<1>4. /\ Congruent(Minute, r, x)
      /\ Congruent(Minute, r, x + Minute)
  <2>1. sm \in Int /\ Offset + x \in Int /\ x + Minute \in Int
    BY <1>1
  <2>2. PICK k \in Int : sm - (Offset + x) = Minute * k
    BY <1>1, <2>1, CongruentIs
  <2>3. PICK n \in Int : r - b = Minute * n
    BY <1>1, <1>3, CongruentIs
  <2>4. /\ Minute * k + Minute * n + Minute = Minute * (k + n + 1)
        /\ Minute * k + Minute * n = Minute * (k + n)
    BY <1>1
  <2>5. /\ r - x = Minute * (k + n + 1) /\ k + n + 1 \in Int
        /\ r - (x + Minute) = Minute * (k + n) /\ k + n \in Int
    BY <1>1, <1>2, <2>2, <2>3, <2>4
  <2> QED
    BY <1>1, <2>1, <2>5, CongruentIs
<1>5. CASE x >= 0
  <2>1. r - x < Minute /\ x - r < Minute
    BY <1>1, <1>3, <1>5
  <2>2. r = x
    BY <1>1, <1>4, <2>1, CongruentClose
  <2> QED
    BY <1>1, <1>3, <1>5, <2>2 DEF Signed
<1>6. CASE x < 0
  <2>1. PICK y \in Int : y = x + Minute
    BY <1>1
  <2>2. r - y < Minute /\ y - r < Minute
    BY <1>1, <1>3, <1>6, <2>1
  <2>3. r = y
    BY <1>1, <1>4, <2>1, <2>2, CongruentClose
  <2> QED
    BY <1>1, <1>3, <1>6, <2>1, <2>3 DEF Signed
<1> QED
  BY <1>5, <1>6

-----------------------------------------------------------------------------
(* Times of the clock: t is the clock *)

(* The target second of minute m is u ticks away. *)
Away(t, m, u) == Congruent(Hour, TargetTime(m), t + u)

(* The time sm of the minute was o ticks ago. *)
Since(t, sm, o) == Congruent(Minute, sm, t - o)

LEMMA TargetInt == \A m \in 0..(HourMinutes - 1) : TargetTime(m) \in Int
<1>1. SUFFICES ASSUME NEW m \in 0..(HourMinutes - 1) PROVE TargetTime(m) \in Int
  OBVIOUS
<1>2. TargetTime(m) \in 0..(Hour - 1)
  BY TargetIs
<1> QED
  BY <1>2

(* The clock goes on, or is set. *)
LEMMA AwayMove ==
  ASSUME NEW t \in Int, NEW m \in 0..(HourMinutes - 1), NEW u \in Int,
         NEW d \in Int, Away(t, m, u)
  PROVE  Away((t + d) % Hour, m, u - d)
<1>1. PICK x \in Int : x = TargetTime(m)
  BY TargetInt
<1>2. Hour \in Nat \ {0}
  BY Sizes
<1>3. PICK s \in Int : s = (t + d) % Hour /\ Congruent(Hour, s, t + d)
  <2>1. PICK n \in Int : n = t + d
    OBVIOUS
  <2>2. Congruent(Hour, n % Hour, n) /\ n % Hour \in 0..(Hour - 1)
    BY <1>2, CongruentMod
  <2> QED
    BY <1>2, <2>1, <2>2
<1>4. PICK b \in Int, e \in Int : b = t + u /\ e = s + (u - d)
  BY <1>3
<1>5. Congruent(Hour, x, b)
  BY <1>1, <1>4 DEF Away
<1>6. Congruent(Hour, e, b)
  <2>1. e - b = s - (t + d)
    BY <1>4
  <2> QED
    BY <1>3, <2>1 DEF Congruent
<1>7. Congruent(Hour, b, e)
  BY <1>2, <1>6, CongruentSym
<1>8. Congruent(Hour, x, e)
  BY <1>2, <1>5, <1>7, CongruentTrans
<1> QED
  BY <1>1, <1>3, <1>4, <1>8 DEF Away

LEMMA AwayOnce ==
  ASSUME NEW t \in Int, NEW m \in 0..(HourMinutes - 1), NEW u \in Int, NEW v \in Int,
         Away(t, m, u), Away(t, m, v), u - v < Hour, v - u < Hour
  PROVE  u = v
<1>1. PICK x \in Int : x = TargetTime(m)
  BY TargetInt
<1>2. Hour \in Nat \ {0}
  BY Sizes
<1>3. PICK b \in Int, d \in Int : b = t + u /\ d = t + v
  OBVIOUS
<1>4. Congruent(Hour, x, b) /\ Congruent(Hour, x, d)
  BY <1>1, <1>3 DEF Away
<1>5. Congruent(Hour, b, x)
  BY <1>2, <1>4, CongruentSym
<1>6. Congruent(Hour, b, d)
  BY <1>2, <1>4, <1>5, CongruentTrans
<1>7. b - d < Hour /\ d - b < Hour
  BY <1>3
<1>8. b = d
  BY <1>2, <1>6, <1>7, CongruentClose
<1> QED
  BY <1>3, <1>8

(* The target after, and the one before. *)
LEMMA AwayShift ==
  ASSUME NEW t \in Int, NEW m \in 0..(HourMinutes - 1), NEW u \in Int, Away(t, m, u)
  PROVE  /\ (m + Duration) % HourMinutes \in 0..(HourMinutes - 1)
         /\ (m - Duration) % HourMinutes \in 0..(HourMinutes - 1)
         /\ Away(t, (m + Duration) % HourMinutes, u + Full)
         /\ Away(t, (m - Duration) % HourMinutes, u - Full)
<1>1. PICK x \in Int : x = TargetTime(m)
  BY TargetInt
<1>2. Hour \in Nat \ {0} /\ Full \in Int
  BY Sizes
<1>3. /\ (m + Duration) % HourMinutes \in 0..(HourMinutes - 1)
      /\ (m - Duration) % HourMinutes \in 0..(HourMinutes - 1)
      /\ Congruent(Hour, TargetTime((m + Duration) % HourMinutes), x + Full)
      /\ Congruent(Hour, TargetTime((m - Duration) % HourMinutes), x - Full)
  BY <1>1, TargetShift
<1>4. PICK n \in 0..(HourMinutes - 1), p \in 0..(HourMinutes - 1) :
        /\ n = (m + Duration) % HourMinutes /\ p = (m - Duration) % HourMinutes
  BY <1>3
<1>5. PICK y \in Int, z \in Int : y = TargetTime(n) /\ z = TargetTime(p)
  BY TargetInt
<1>6. PICK b \in Int : b = t + u
  OBVIOUS
<1>7. Congruent(Hour, x, b)
  BY <1>1, <1>6 DEF Away
<1>8. ASSUME NEW w \in Int, NEW f \in Int, Congruent(Hour, w, x + f)
      PROVE  Congruent(Hour, w, b + f)
  <2>1. PICK g \in Int, h \in Int : g = x + f /\ h = b + f
    OBVIOUS
  <2>2. Congruent(Hour, g, h)
    <3>1. g - h = x - b
      BY <2>1
    <3> QED
      BY <1>7, <3>1 DEF Congruent
  <2>3. Congruent(Hour, w, g)
    BY <1>8, <2>1
  <2>4. Congruent(Hour, w, h)
    BY <1>2, <2>2, <2>3, CongruentTrans
  <2> QED
    BY <2>1, <2>4
<1>9. Congruent(Hour, y, b + Full)
  BY <1>2, <1>3, <1>4, <1>5, <1>8
<1>10. Congruent(Hour, z, b - Full)
  <2>1. PICK f \in Int : f = 0 - Full
    BY <1>2
  <2>2. x + f = x - Full /\ b + f = b - Full
    BY <1>2, <2>1
  <2>3. Congruent(Hour, z, x + f)
    BY <1>3, <1>4, <1>5, <2>2
  <2>4. Congruent(Hour, z, b + f)
    BY <1>8, <2>3
  <2> QED
    BY <2>2, <2>4
<1>11. b + Full = t + (u + Full) /\ b - Full = t + (u - Full)
  BY <1>2, <1>6
<1> QED
  BY <1>3, <1>4, <1>5, <1>9, <1>10, <1>11 DEF Away

LEMMA SinceTick ==
  ASSUME NEW t \in Int, NEW sm \in Int, NEW o \in Int, Since(t, sm, o)
  PROVE  Since((t + 1) % Hour, sm, o + 1)
<1>1. Minute \in Nat \ {0} /\ Hour \in Nat \ {0} /\ HourMinutes \in Int
      /\ Hour = Minute * HourMinutes
  BY Sizes
<1>2. PICK n \in Int : n = t + 1
  OBVIOUS
<1>3. PICK s \in Int : s = n % Hour /\ Congruent(Hour, s, n)
  BY <1>1, CongruentMod
<1>4. Congruent(Minute, s, n)
  BY <1>1, <1>3, CongruentDivides
<1>5. PICK b \in Int, d \in Int : b = t - o /\ d = s - (o + 1)
  OBVIOUS
<1>6. Congruent(Minute, d, b)
  <2>1. d - b = s - n
    BY <1>2, <1>5
  <2> QED
    BY <1>4, <2>1 DEF Congruent
<1>7. Congruent(Minute, b, d)
  BY <1>1, <1>6, CongruentSym
<1>8. Congruent(Minute, sm, b)
  BY <1>5 DEF Since
<1>9. Congruent(Minute, sm, d)
  BY <1>1, <1>7, <1>8, CongruentTrans
<1> QED
  BY <1>2, <1>3, <1>5, <1>9 DEF Since

(* The error of a fragment opened o ticks ago, a ticks before a target. *)
LEMMA SignedSince ==
  ASSUME NEW t \in Int, NEW m \in 0..(HourMinutes - 1), NEW a \in Int, Away(t, m, a),
         NEW sm \in 0..(Minute - 1), NEW o \in Int, Since(t, sm, o),
         0 - (a + o) <= MaxDrift, MaxDrift < Minute, MaxDrift - Minute < 0 - (a + o)
  PROVE  Signed(sm) = 0 - (a + o)
<1>1. Minute \in Nat \ {0} /\ Hour \in Nat \ {0} /\ HourMinutes \in Int
      /\ Hour = Minute * HourMinutes /\ Offset \in Int
  BY Sizes
<1>2. PICK x \in Int : x = TargetTime(m) /\ Congruent(Minute, x, Offset)
  BY TargetInt, TargetIs
<1>3. PICK b \in Int : b = t + a
  OBVIOUS
<1>4. Congruent(Minute, x, b)
  <2>1. Congruent(Hour, x, b)
    BY <1>2, <1>3 DEF Away
  <2> QED
    BY <1>1, <2>1, CongruentDivides
<1>5. Congruent(Minute, b, Offset)
  <2>1. Congruent(Minute, b, x)
    BY <1>1, <1>4, CongruentSym
  <2> QED
    BY <1>1, <1>2, <2>1, CongruentTrans
<1>6. PICK y \in Int : y = 0 - (a + o)
  OBVIOUS
<1>7. PICK d \in Int, e \in Int : d = t - o /\ e = Offset + y
  BY <1>1
<1>8. Congruent(Minute, d, e)
  <2>1. d - e = b - Offset
    BY <1>1, <1>3, <1>6, <1>7
  <2> QED
    BY <1>5, <2>1 DEF Congruent
<1>9. sm \in Int /\ Congruent(Minute, sm, d)
  BY <1>1, <1>7 DEF Since
<1>10. Congruent(Minute, sm, e)
  BY <1>1, <1>8, <1>9, CongruentTrans
<1>11. Signed(sm) = y
  <2>1. Congruent(Minute, sm, Offset + y)
    BY <1>7, <1>10
  <2>2. y <= MaxDrift /\ MaxDrift - Minute < y
    BY <1>6
  <2> QED
    BY <2>1, <2>2, SignedIs
<1> QED
  BY <1>6, <1>11

-----------------------------------------------------------------------------
(* Types *)

Causes == {"first", "skew", "drift"}

(* Of a record. *)
ChannelType ==
  [started : BOOLEAN, age : Int, sm : Int, rt : Int, stale : BOOLEAN, cut : Int,
   msgs : Seq(0..MaxLag), name : Int, first : BOOLEAN, early : BOOLEAN,
   twin : {"no", "none", "roll"} \cup Causes, cause : {"none"} \cup Causes]

SchedType ==
  [start : BOOLEAN, need_first : BOOLEAN, target : 0..(HourMinutes - 1),
   since : 0..MinInterval, last_min : Int]

SplitTypeOK ==
  /\ wall \in 0..(Hour - 1)
  /\ chan \in [Channels -> ChannelType]
  /\ linked \subseteq Channels
  /\ sched \in SchedType
  /\ \/ round = Idle
     \/ \E cause \in Causes : round = [pc |-> "split", cause |-> cause]
  /\ epoch = NONE \/ epoch \in 0..(HourMinutes - 1)
  /\ checked \in BOOLEAN
  /\ recheck = NONE \/ recheck \in 0..RecheckAt
  /\ steps \in 0..MaxSteps
  /\ ahead \in Int

(* What is known of a channel: the last message tells of the last          *)
(* fragment, and once no message is on its way the running time is that of *)
(* the fragment.                                                           *)
Shape(r) ==
  /\ r.age = NONE \/ r.age \in 0..(Full + Longest + MaxLag)
  /\ r.age = NONE => r.sm = UNSET /\ r.msgs = <<>> /\ (r.cut = NONE \/ r.cut \in 0..Margin)
  /\ r.age # NONE => r.name \in 0..(HourMinutes - 1)
  /\ r.sm = UNSET \/ r.sm \in 0..(Minute - 1)
  /\ r.cut = NONE \/ (r.cut \in (0 - MaxLag)..Margin /\ r.cause \in Causes)
  /\ r.msgs # <<>> => r.age \in 0..MaxLag /\ r.msgs[Len(r.msgs)] = r.age
  /\ r.sm # UNSET /\ r.msgs = <<>> => ~r.stale /\ r.rt = r.age
  /\ r.sm # UNSET /\ r.msgs # <<>> /\ ~r.stale => r.rt \in 0..MaxLag

Settled == sched.start /\ ~sched.need_first

Scheduling ==
  /\ sched.start <=> epoch # NONE
  /\ sched.need_first => sched.start
  /\ round # Idle => Settled /\ checked
  /\ \A c \in Channels :
       chan[c].cut # NONE \/ (chan[c].age # NONE /\ chan[c].sm = UNSET) => Settled

(* The times have no number of their own. *)
LEMMA None == NONE = 0 - 1000 /\ UNSET = 0 - 1 /\ MaxLag <= 999
BY SplitCheckAssumption DEF NONE, UNSET

LEMMA RoundIs ==
  ASSUME SplitTypeOK
  PROVE  /\ round # Idle => round.pc = "split" /\ round.cause \in Causes
         /\ round.pc = "split" => round # Idle
BY DEF SplitTypeOK, Idle

LEMMA MinMod ==
  ASSUME NEW t \in Int
  PROVE  /\ Min(t % Hour) \in 0..(HourMinutes - 1)
         /\ t % Hour \in 0..(Hour - 1)
<1>1. Hour \in Nat \ {0}
  BY Sizes
<1>2. t % Hour \in 0..(Hour - 1)
  BY <1>1
<1> QED
  BY <1>2, WallIs

LEMMA MinuteMod ==
  ASSUME NEW m \in Int
  PROVE  m % HourMinutes \in 0..(HourMinutes - 1)
<1>1. HourMinutes \in Nat \ {0}
  BY Sizes
<1> QED
  BY <1>1

LEMMA NamedIs == ASSUME SplitTypeOK PROVE Named \in 0..(HourMinutes - 1)
<1>1. Min((wall + Second) % Hour) \in 0..(HourMinutes - 1)
  <2>1. wall + Second \in Int
    BY Sizes DEF SplitTypeOK
  <2> QED
    BY <2>1, MinMod
<1>2. epoch # NONE => /\ epoch \in 0..(HourMinutes - 1)
                      /\ (epoch - Duration) % HourMinutes \in 0..(HourMinutes - 1)
  <2>1. SUFFICES ASSUME epoch # NONE
                 PROVE  /\ epoch \in 0..(HourMinutes - 1)
                        /\ (epoch - Duration) % HourMinutes \in 0..(HourMinutes - 1)
    OBVIOUS
  <2>2. epoch \in 0..(HourMinutes - 1)
    BY <2>1 DEF SplitTypeOK
  <2>3. epoch - Duration \in Int
    BY <2>2, Sizes
  <2> QED
    BY <2>2, <2>3, MinuteMod
<1> QED
  BY <1>1, <1>2 DEF Named

(* A record after its fragment has been opened. *)
LEMMA OpenedIs ==
  ASSUME SplitTypeOK, NEW r \in ChannelType, Shape(r), NEW lag \in 0..MaxLag,
         NEW cut \in Int, NEW why \in {"no", "none", "roll"} \cup Causes,
         cut = NONE \/ cut = r.cut
  PROVE  /\ Opened(r, lag, cut, why) \in ChannelType
         /\ Shape(Opened(r, lag, cut, why))
         /\ Opened(r, lag, cut, why).age = lag
         /\ Opened(r, lag, cut, why).sm = Msec(wall)
         /\ Opened(r, lag, cut, why).cut = cut
         /\ Opened(r, lag, cut, why).name = Named
         /\ Opened(r, lag, cut, why).first = (r.age = NONE)
         /\ Opened(r, lag, cut, why).msgs # <<>>
         /\ Opened(r, lag, cut, why).cause = r.cause
         /\ Opened(r, lag, cut, why).early =
              (IF epoch = NONE THEN Named # Min(wall)
               ELSE Diff(epoch) < 0 /\ 0 - Diff(epoch) <= Full \div 2)
         /\ Opened(r, lag, cut, why).twin \in {"no", why}
         /\ \/ Opened(r, lag, cut, why).twin = "no"
            \/ /\ r.name = Named /\ epoch # NONE /\ ~r.first /\ ~r.early
               /\ r.age - lag > SplitMax /\ steps >= MaxSteps
<1> DEFINE o == Opened(r, lag, cut, why)
           soon == IF epoch = NONE THEN Named # Min(wall)
                   ELSE Diff(epoch) < 0 /\ 0 - Diff(epoch) <= Full \div 2
           twin == IF \/ r.name # Named \/ epoch = NONE \/ r.first \/ r.early
                      \/ r.age - lag <= SplitMax \/ steps < MaxSteps
                   THEN "no" ELSE why
           new == r.age = NONE
<1>1. Named \in 0..(HourMinutes - 1) /\ Msec(wall) \in 0..(Minute - 1)
  BY NamedIs, WallIs DEF SplitTypeOK
<1>2. /\ Append(r.msgs, lag) \in Seq(0..MaxLag) /\ Append(r.msgs, lag) # <<>>
      /\ Append(r.msgs, lag)[Len(Append(r.msgs, lag))] = lag
  <2>1. r.msgs \in Seq(0..MaxLag)
    BY DEF ChannelType
  <2>2. Append(r.msgs, lag) \in Seq(0..MaxLag) /\ Len(Append(r.msgs, lag)) = Len(r.msgs) + 1
        /\ Append(r.msgs, lag)[Len(r.msgs) + 1] = lag
    BY <2>1
  <2>3. Len(Append(r.msgs, lag)) # 0
    BY <2>1, <2>2
  <2> QED
    BY <2>2, <2>3
<1>3. o = [r EXCEPT !.age = lag, !.sm = Msec(wall), !.stale = TRUE, !.cut = cut,
                    !.msgs = Append(r.msgs, lag), !.name = Named, !.early = soon,
                    !.first = new, !.twin = twin]
  BY DEF Opened
<1>4. soon \in BOOLEAN /\ new \in BOOLEAN /\ twin \in {"no", "none", "roll"} \cup Causes /\ twin \in {"no", why}
  OBVIOUS
<1>5. \/ twin = "no"
      \/ /\ r.name = Named /\ epoch # NONE /\ ~r.first /\ ~r.early
         /\ r.age - lag > SplitMax /\ steps >= MaxSteps
  <2>1. /\ r.age \in Int /\ steps \in Int /\ MaxSteps \in Int /\ SplitMax \in Int
        /\ r.first \in BOOLEAN /\ r.early \in BOOLEAN
    BY Sizes DEF ChannelType, SplitTypeOK
  <2> QED
    BY <2>1
<1> HIDE DEF soon, twin, new
<1>6. lag \in Int /\ Msec(wall) \in Int /\ Named \in Int
  BY <1>1, Sizes
<1>7. o \in ChannelType
  <2> DEFINE p == [r EXCEPT !.age = lag, !.sm = Msec(wall), !.stale = TRUE]
             q == [p EXCEPT !.cut = cut, !.msgs = Append(r.msgs, lag), !.name = Named]
  <2>1. p \in ChannelType
    BY <1>6 DEF ChannelType
  <2> HIDE DEF p
  <2>2. q \in ChannelType
    BY <1>2, <1>6, <2>1 DEF ChannelType
  <2> HIDE DEF q
  <2>3. [q EXCEPT !.early = soon, !.first = new, !.twin = twin] \in ChannelType
    <3>1. ASSUME NEW b \in BOOLEAN, NEW d \in BOOLEAN,
                 NEW w \in {"no", "none", "roll"} \cup Causes
          PROVE  [q EXCEPT !.early = b, !.first = d, !.twin = w] \in ChannelType
      BY <2>2 DEF ChannelType
    <3>2. soon \in BOOLEAN
      BY <1>4
    <3>3. new \in BOOLEAN
      BY <1>4
    <3>4. twin \in {"no", "none", "roll"} \cup Causes
      BY <1>4
    <3> QED
      BY <3>1, <3>2, <3>3, <3>4, Zenon
  <2> QED
    BY <1>3, <2>3 DEF p, q
<1>8. /\ o.age = lag /\ o.sm = Msec(wall) /\ o.stale = TRUE /\ o.cut = cut
      /\ o.msgs = Append(r.msgs, lag) /\ o.name = Named /\ o.early = soon
      /\ o.first = new /\ o.twin = twin /\ o.cause = r.cause /\ o.rt = r.rt
  BY <1>3 DEF ChannelType
<1> HIDE DEF o
<1>9. Shape(o)
  <2>1. lag \in 0..(Full + Longest + MaxLag) /\ lag # NONE /\ Msec(wall) # UNSET
    BY <1>1, Sizes, LongestIs, None
  <2>2. cut = NONE \/ (cut \in (0 - MaxLag)..Margin /\ r.cause \in Causes)
    BY DEF Shape
  <2> QED
    BY <1>1, <1>2, <1>8, <2>1, <2>2 DEF Shape
<1> QED
  BY <1>2, <1>4, <1>5, <1>7, <1>8, <1>9 DEF o, soon, new

-----------------------------------------------------------------------------
(* What the actions do to the channels *)

Shapes == \A c \in Channels : Shape(chan[c])

LEMMA OneChannel ==
  ASSUME SplitTypeOK, NEW c \in Channels, NEW r \in ChannelType,
         chan' = [chan EXCEPT ![c] = r]
  PROVE  /\ chan' \in [Channels -> ChannelType] /\ chan'[c] = r
         /\ \A d \in Channels : d # c => chan'[d] = chan[d]
BY DEF SplitTypeOK

(* The three ways to open a fragment. *)
OpeningOf(c, lag, cut, why) ==
  \/ chan[c].age = NONE /\ lag = 0 /\ cut = chan[c].cut /\ why = "none"
  \/ /\ chan[c].age # NONE /\ chan[c].age - lag >= Full /\ why = "roll"
     /\ cut = chan[c].cut /\ (cut = NONE \/ chan[c].age + cut > Full)
  \/ /\ chan[c].age # NONE /\ chan[c].cut # NONE /\ chan[c].cut = 0 - lag
     /\ cut = NONE /\ why = chan[c].cause

Opens(c) == FirstFragment(c) \/ RollOver(c) \/ CutHere(c)

LEMMA OpensIs ==
  ASSUME SplitTypeOK, Shapes, NEW c \in Channels, Opens(c)
  PROVE  /\ \E lag \in 0..MaxLag, cut \in Int, why \in {"no", "none", "roll"} \cup Causes :
              /\ OpeningOf(c, lag, cut, why) /\ (cut = NONE \/ cut = chan[c].cut)
              /\ chan' = [chan EXCEPT ![c] = Opened(chan[c], lag, cut, why)]
         /\ UNCHANGED <<wall, linked, sched, round, epoch, checked, recheck, steps, ahead>>
<1>1. chan[c] \in ChannelType /\ Shape(chan[c])
  BY DEF SplitTypeOK, Shapes
<1>2. /\ chan[c].age \in Int /\ chan[c].cut \in Int /\ Full \in Nat /\ MaxLag \in Nat
      /\ chan[c].cause \in {"none"} \cup Causes
  BY <1>1, Sizes DEF ChannelType
<1>3. CASE FirstFragment(c)
  <2>1. OpeningOf(c, 0, chan[c].cut, "none") /\ 0 \in 0..MaxLag
    BY <1>2, <1>3 DEF FirstFragment, OpeningOf
  <2>2. chan' = [chan EXCEPT ![c] = Opened(chan[c], 0, chan[c].cut, "none")]
    BY <1>3 DEF FirstFragment
  <2> QED
    BY <1>2, <1>3, <2>1, <2>2 DEF FirstFragment
<1>4. CASE RollOver(c)
  <2>1. PICK slip \in Slips :
          /\ chan[c].age - Full - slip \in 0..MaxLag
          /\ chan[c].cut = NONE \/ slip + Full - chan[c].age < chan[c].cut
          /\ chan' = [chan EXCEPT ![c] = Opened(chan[c], chan[c].age - Full - slip, chan[c].cut, "roll")]
    BY <1>4 DEF RollOver
  <2>2. slip \in Nat
    BY LongestIs
  <2>3. PICK lag \in 0..MaxLag : lag = chan[c].age - Full - slip
    BY <2>1
  <2>4. OpeningOf(c, lag, chan[c].cut, "roll")
    <3>1. chan[c].age # NONE
      BY <1>2, <2>2, <2>3, None
    <3>2. chan[c].age - lag >= Full
      BY <1>2, <2>2, <2>3
    <3>3. chan[c].cut = NONE \/ chan[c].age + chan[c].cut > Full
      BY <1>2, <2>1, <2>2
    <3> QED
      BY <3>1, <3>2, <3>3 DEF OpeningOf
  <2>5. chan' = [chan EXCEPT ![c] = Opened(chan[c], lag, chan[c].cut, "roll")]
    BY <2>1, <2>3
  <2> QED
    BY <1>2, <1>4, <2>4, <2>5 DEF RollOver
<1>5. CASE CutHere(c)
  <2>1. /\ chan[c].age # NONE /\ chan[c].cut # NONE /\ chan[c].cut <= 0
        /\ chan' = [chan EXCEPT ![c] = Opened(chan[c], 0 - chan[c].cut, NONE, chan[c].cause)]
    BY <1>5 DEF CutHere
  <2>2. chan[c].cut \in (0 - MaxLag)..Margin /\ chan[c].cause \in Causes
    BY <1>1, <2>1 DEF Shape
  <2>3. PICK lag \in 0..MaxLag : lag = 0 - chan[c].cut
    BY <1>2, <2>1, <2>2
  <2>4. OpeningOf(c, lag, NONE, chan[c].cause)
    BY <1>2, <2>1, <2>3 DEF OpeningOf
  <2>5. chan' = [chan EXCEPT ![c] = Opened(chan[c], lag, NONE, chan[c].cause)] /\ NONE \in Int
    BY <2>1, <2>3, None
  <2> QED
    BY <1>5, <2>2, <2>4, <2>5 DEF CutHere
<1> QED
  BY <1>3, <1>4, <1>5 DEF Opens

(* A record after a tick. *)
LEMMA OlderIs ==
  ASSUME NEW r \in ChannelType, Shape(r), r.msgs = <<>>,
         r.age < Full + Longest + MaxLag,
         r.cut = NONE \/ r.age = NONE \/ r.cut > 0 - MaxLag
  PROVE  /\ OlderChannel(r) \in ChannelType /\ Shape(OlderChannel(r))
         /\ OlderChannel(r).age = (IF r.age = NONE THEN NONE ELSE r.age + 1)
         /\ OlderChannel(r).age = NONE <=> r.age = NONE
         /\ OlderChannel(r).cut = NONE <=> r.cut = NONE
         /\ r.age # NONE /\ r.cut # NONE => OlderChannel(r).cut = r.cut - 1
         /\ OlderChannel(r).sm = r.sm /\ OlderChannel(r).msgs = <<>>
         /\ OlderChannel(r).name = r.name /\ OlderChannel(r).first = r.first
         /\ OlderChannel(r).early = r.early /\ OlderChannel(r).cause = r.cause
         /\ OlderChannel(r).twin = r.twin /\ OlderChannel(r).started = r.started
<1> DEFINE cut == IF r.cut = NONE \/ (r.age = NONE /\ r.cut = 0) THEN r.cut ELSE r.cut - 1
           o == OlderChannel(r)
<1>1. /\ r.age \in Int /\ r.cut \in Int /\ r.rt \in Int /\ r.sm \in Int /\ r.stale \in BOOLEAN
      /\ r.age = NONE \/ r.age \in 0..(Full + Longest + MaxLag)
      /\ r.age = NONE => r.sm = UNSET /\ (r.cut = NONE \/ r.cut \in 0..Margin)
      /\ r.age # NONE => r.name \in 0..(HourMinutes - 1)
      /\ r.cut = NONE \/ (r.cut \in (0 - MaxLag)..Margin /\ r.cause \in Causes)
      /\ r.sm = UNSET \/ r.sm \in 0..(Minute - 1)
      /\ r.sm # UNSET => ~r.stale /\ r.rt = r.age
  BY DEF ChannelType, Shape
<1>2. /\ Full \in Nat /\ Longest \in Nat /\ MaxLag \in Nat /\ Margin \in Nat /\ MaxLag <= 999
      /\ NONE = 0 - 1000
  BY Sizes, LongestIs, None
<1>3. /\ Older(r.age) \in Int /\ Older(r.rt) \in Int /\ cut \in Int
      /\ Older(r.age) = (IF r.age = NONE THEN NONE ELSE r.age + 1)
      /\ Older(r.age) = NONE <=> r.age = NONE
      /\ Older(r.age) = NONE \/ Older(r.age) \in 0..(Full + Longest + MaxLag)
      /\ r.rt = r.age => Older(r.rt) = Older(r.age)
  BY <1>1, <1>2 DEF Older
<1>4. /\ cut = NONE <=> r.cut = NONE
      /\ r.age # NONE /\ r.cut # NONE => cut = r.cut - 1
      /\ r.age = NONE => cut = NONE \/ cut \in 0..Margin
      /\ cut = NONE \/ cut \in (0 - MaxLag)..Margin
  BY <1>1, <1>2
<1>5. [i \in DOMAIN r.msgs |-> Older(r.msgs[i])] = <<>>
  BY DEF ChannelType
<1>6. o = [r EXCEPT !.age = Older(r.age), !.rt = Older(r.rt), !.cut = cut, !.msgs = <<>>]
  BY <1>5 DEF OlderChannel
<1>7. <<>> \in Seq(0..MaxLag)
  OBVIOUS
<1> HIDE DEF cut
<1>8. o \in ChannelType
  <2> DEFINE p == [r EXCEPT !.age = Older(r.age), !.rt = Older(r.rt)]
  <2>1. p \in ChannelType
    BY <1>3 DEF ChannelType
  <2> HIDE DEF p
  <2>2. [p EXCEPT !.cut = cut, !.msgs = <<>>] \in ChannelType
    BY <1>3, <1>7, <2>1 DEF ChannelType
  <2> QED
    BY <1>6, <2>2 DEF p
<1>9. /\ o.age = Older(r.age) /\ o.rt = Older(r.rt) /\ o.cut = cut /\ o.msgs = <<>>
      /\ o.sm = r.sm /\ o.name = r.name /\ o.first = r.first /\ o.early = r.early
      /\ o.cause = r.cause /\ o.twin = r.twin /\ o.started = r.started /\ o.stale = r.stale
  BY <1>6 DEF ChannelType
<1> HIDE DEF o
<1>10. Shape(o)
  BY <1>1, <1>3, <1>4, <1>9 DEF Shape
<1> QED
  BY <1>3, <1>4, <1>8, <1>9, <1>10 DEF o

(* A record after a split has been requested. *)
Asked(r, when, why) ==
  Forget([r EXCEPT !.cut = IF @ = NONE THEN when ELSE @, !.cause = why])

LEMMA AskedIs ==
  ASSUME NEW r \in ChannelType, Shape(r), NEW when \in {0, Margin}, NEW why \in Causes
  PROVE  /\ Asked(r, when, why) \in ChannelType /\ Shape(Asked(r, when, why))
         /\ Asked(r, when, why).age = r.age
         /\ Asked(r, when, why).cut = (IF r.cut = NONE THEN when ELSE r.cut)
         /\ Asked(r, when, why).cause = why
         /\ Asked(r, when, why).sm = UNSET /\ Asked(r, when, why).msgs = r.msgs
         /\ Asked(r, when, why).name = r.name /\ Asked(r, when, why).first = r.first
         /\ Asked(r, when, why).early = r.early /\ Asked(r, when, why).twin = r.twin
<1> DEFINE cut == IF r.cut = NONE THEN when ELSE r.cut
           o == Asked(r, when, why)
<1>1. /\ r.age \in Int /\ r.cut \in Int
      /\ r.age = NONE \/ r.age \in 0..(Full + Longest + MaxLag)
      /\ r.age = NONE => r.msgs = <<>> /\ (r.cut = NONE \/ r.cut \in 0..Margin)
      /\ r.age # NONE => r.name \in 0..(HourMinutes - 1)
      /\ r.cut = NONE \/ r.cut \in (0 - MaxLag)..Margin
      /\ r.msgs # <<>> => r.age \in 0..MaxLag /\ r.msgs[Len(r.msgs)] = r.age
  BY DEF ChannelType, Shape
<1>2. MaxLag \in Nat /\ Margin \in Nat
  BY Sizes
<1>3. /\ cut \in Int /\ cut \in (0 - MaxLag)..Margin
      /\ r.age = NONE => cut \in 0..Margin
  BY <1>1, <1>2
<1> HIDE DEF cut
<1>4. o = [[r EXCEPT !.cut = cut, !.cause = why] EXCEPT !.sm = UNSET, !.rt = NONE, !.stale = TRUE]
  BY DEF Asked, Forget, cut
<1>5. o \in ChannelType
  <2> DEFINE p == [r EXCEPT !.cut = cut, !.cause = why]
  <2>1. p \in ChannelType
    BY <1>3 DEF ChannelType
  <2> HIDE DEF p
  <2>2. UNSET \in Int /\ NONE \in Int
    BY None
  <2>3. [p EXCEPT !.sm = UNSET, !.rt = NONE, !.stale = TRUE] \in ChannelType
    BY <2>1, <2>2 DEF ChannelType
  <2> QED
    BY <1>4, <2>3 DEF p
<1>6. /\ o.age = r.age /\ o.cut = cut /\ o.cause = why /\ o.sm = UNSET /\ o.msgs = r.msgs
      /\ o.name = r.name /\ o.first = r.first /\ o.early = r.early /\ o.twin = r.twin
  BY <1>4 DEF ChannelType
<1> HIDE DEF o
<1>7. Shape(o)
  BY <1>1, <1>3, <1>6 DEF Shape
<1> QED
  BY <1>5, <1>6, <1>7 DEF o, cut

(* A record after its oldest message has been taken. *)
Told(r) == [r EXCEPT !.rt = Head(r.msgs), !.stale = FALSE, !.msgs = Tail(r.msgs)]

LEMMA ToldIs ==
  ASSUME NEW r \in ChannelType, Shape(r), r.msgs # <<>>
  PROVE  /\ Told(r) \in ChannelType /\ Shape(Told(r))
         /\ Told(r).age = r.age /\ Told(r).sm = r.sm /\ Told(r).cut = r.cut /\ Told(r).name = r.name
         /\ Told(r).first = r.first /\ Told(r).early = r.early /\ Told(r).cause = r.cause /\ Told(r).twin = r.twin
<1> DEFINE o == Told(r)
<1>1. r.msgs \in Seq(0..MaxLag)
  BY DEF ChannelType
<1>2. PICK s \in Seq(0..MaxLag) : s = r.msgs /\ s # <<>>
  BY <1>1
<1>3. /\ Head(s) \in 0..MaxLag /\ Tail(s) \in Seq(0..MaxLag)
      /\ Len(Tail(s)) = Len(s) - 1 /\ Len(s) \in Nat
      /\ \A i \in 1..Len(Tail(s)) : Tail(s)[i] = s[i + 1]
      /\ Head(s) = s[1]
  <2>1. Len(s) \in Nat
    BY LenProperties
  <2>2. Head(s) = s[1]
    OBVIOUS
  <2> QED
    BY <1>2, <2>1, <2>2, HeadTailProperties
<1>4. /\ Tail(s) # <<>> => Tail(s)[Len(Tail(s))] = s[Len(s)]
      /\ Tail(s) = <<>> => Head(s) = s[Len(s)]
  <2>1. PICK t \in Seq(0..MaxLag) : t = Tail(s)
    BY <1>3
  <2>2. t # <<>> => Len(t) \in 1..Len(t)
    <3>1. t # <<>> => Len(t) \in Nat \ {0}
      BY EmptySeq
    <3> QED
      BY <3>1
  <2>3. t = <<>> => Len(s) = 1
    <3>1. t = <<>> => Len(t) = 0
      BY EmptySeq
    <3>2. Len(t) = Len(s) - 1 /\ Len(s) \in Nat
      BY <1>3, <2>1
    <3> QED
      BY <3>1, <3>2
  <2>4. t # <<>> => t[Len(t)] = s[Len(s)]
    BY <1>3, <2>1, <2>2
  <2> QED
    BY <1>3, <2>1, <2>3, <2>4
<1>5. Head(r.msgs) \in Int
  <2>1. \A x \in 0..MaxLag : x \in Int
    BY Sizes
  <2>2. Head(r.msgs) = Head(s) /\ Head(s) \in 0..MaxLag
    BY <1>2, <1>3, Zenon
  <2> QED
    BY <2>1, <2>2, Zenon
<1>6. o \in ChannelType
  BY <1>2, <1>3, <1>5 DEF ChannelType, Told
<1>7. /\ o.age = r.age /\ o.sm = r.sm /\ o.cut = r.cut /\ o.name = r.name
      /\ o.first = r.first /\ o.early = r.early /\ o.cause = r.cause /\ o.twin = r.twin
      /\ o.rt = Head(r.msgs) /\ o.stale = FALSE /\ o.msgs = Tail(r.msgs)
  BY DEF ChannelType, Told
<1> HIDE DEF o
<1>8. Shape(o)
  BY <1>2, <1>3, <1>4, <1>7 DEF Shape
<1> QED
  BY <1>6, <1>7, <1>8 DEF o

-----------------------------------------------------------------------------
(* What the checks do *)

LEMMA StartedIs ==
  ASSUME SplitTypeOK
  PROVE  /\ Started \in SchedType /\ Started.start
         /\ sched.start => Started = sched /\ Ahead(Started) = ahead
         /\ ~sched.start => Started.since = 0 /\ Started.last_min = Min(wall)
         /\ Ahead(Started) \in Int
         /\ ~sched.start =>
              /\ Started.need_first =>
                   Ahead(Started) = Offset - Msec(wall) + Minute
              /\ ~Started.need_first =>
                   Ahead(Started) = Offset - Msec(wall) /\ Sec(wall) = StartSec
              /\ Away(wall, Started.target, Ahead(Started))
<1>1. /\ Min(wall) \in 0..(HourMinutes - 1) /\ Msec(wall) \in 0..(Minute - 1)
      /\ wall = Min(wall) * Minute + Msec(wall)
  BY WallIs DEF SplitTypeOK
<1>2. /\ wall \in Int /\ HourMinutes \in Nat \ {0} /\ Minute \in Nat \ {0} /\ MinInterval \in Nat
      /\ Hour \in Nat \ {0} /\ Offset \in Nat /\ ahead \in Int
  BY Sizes DEF SplitTypeOK
<1>3. PICK m \in Int : m = Min(wall) /\ 0 <= m /\ m < HourMinutes
  BY <1>1, <1>2
<1>4. PICK x \in Int, p \in Int : x = Msec(wall) /\ p = m * Minute /\ wall = p + x
  <2>1. Msec(wall) \in Int /\ m * Minute \in Int
    BY <1>1, <1>2
  <2> QED
    BY <1>1, <1>3, <2>1
<1>5. TargetTime(m) = p + Offset
  BY <1>4 DEF TargetTime, Offset
<1>6. (m + 1) % HourMinutes \in 0..(HourMinutes - 1)
  <2>1. m + 1 \in Int
    OBVIOUS
  <2> QED
    BY <2>1, MinuteMod
<1>7. CASE sched.start
  BY <1>2, <1>7 DEF Started, Ahead, SplitTypeOK, SchedType
<1>8. CASE ~sched.start /\ Sec(wall) # StartSec
  <2>1. Started = [start |-> TRUE, need_first |-> TRUE, target |-> (m + 1) % HourMinutes,
                   since |-> 0, last_min |-> m]
    BY <1>3, <1>8 DEF Started
  <2>2. Started \in SchedType
    BY <1>2, <1>3, <1>6, <2>1 DEF SchedType
  <2>3. Ahead(Started) = TargetTime(m) + Minute - wall
    BY <1>3, <1>8, <2>1 DEF Ahead
  <2>4. Ahead(Started) = Offset - x + Minute
    BY <1>2, <1>4, <1>5, <2>3
  <2>5. Away(wall, (m + 1) % HourMinutes, Offset - x + Minute)
    <3> DEFINE n == (m + 1) % HourMinutes
    <3>0. PICK k \in Int : k = m + 1
      OBVIOUS
    <3>1. PICK q \in Int : n \in 0..(HourMinutes - 1) /\ k = HourMinutes * q + n
      <4>1. k \div HourMinutes \in Int /\ k % HourMinutes \in 0..(HourMinutes - 1)
            /\ k = HourMinutes * (k \div HourMinutes) + (k % HourMinutes)
        BY <1>2, DivMod
      <4> QED
        BY <3>0, <4>1
    <3> HIDE DEF n
    <3>3. PICK g \in Int : n \in Int /\ g = n * Minute /\ TargetTime(n) = g + Offset
      BY <1>2, <3>1 DEF TargetTime, Offset
    <3>4. PICK v \in Int : v = Hour * q /\ (HourMinutes * q + n) * Minute = v + g
      <4>1. (HourMinutes * q + n) * Minute = (Minute * HourMinutes) * q + n * Minute
        BY <1>2, <3>3
      <4>2. Hour * q \in Int /\ Hour = Minute * HourMinutes
        BY <1>2, Sizes
      <4> QED
        BY <3>3, <4>1, <4>2
    <3>5. (m + 1) * Minute = p + Minute
      BY <1>2, <1>4
    <3>6. v + g = p + Minute
      BY <3>0, <3>1, <3>4, <3>5
    <3>7. PICK b \in Int : b = wall + (Offset - x + Minute)
      BY <1>2
    <3>8. b = p + Minute + Offset
      <4>1. wall = p + x
        BY <1>4
      <4> QED
        BY <1>2, <3>7, <4>1
    <3>9. PICK y \in Int : y = TargetTime(n) /\ y = g + Offset
      BY <1>2, <3>3
    <3>10. y - b = Hour * (0 - q)
      <4>1. Hour * (0 - q) = 0 - v
        BY <1>2, <3>4
      <4> QED
        BY <1>2, <3>6, <3>8, <3>9, <4>1
    <3>11. Congruent(Hour, y, b)
      <4>1. 0 - q \in Int
        OBVIOUS
      <4> QED
        BY <1>2, <3>10, <4>1, CongruentIs
    <3> QED
      BY <3>7, <3>9, <3>11 DEF Away, n
  <2>6. Started.need_first /\ Started.start /\ Started.target = (m + 1) % HourMinutes
        /\ Started.since = 0 /\ Started.last_min = m
    BY <2>1
  <2>7. Ahead(Started) = Offset - Msec(wall) + Minute /\ Ahead(Started) \in Int
    <3>1. x = Msec(wall)
      BY <1>4
    <3>2. Offset - x + Minute \in Int
      BY <1>2
    <3> QED
      BY <2>4, <3>1, <3>2, Zenon
  <2>8. Away(wall, Started.target, Ahead(Started))
    BY <2>4, <2>5, <2>6, Zenon
  <2>9. Started.last_min = Min(wall)
    BY <1>3, <2>6
  <2> QED
    BY <1>8, <2>2, <2>6, <2>7, <2>8, <2>9, Zenon
<1>9. CASE ~sched.start /\ Sec(wall) = StartSec
  <2>1. Started = [start |-> TRUE, need_first |-> FALSE, target |-> m,
                   since |-> 0, last_min |-> m]
    BY <1>3, <1>9 DEF Started
  <2>2. Started \in SchedType
    BY <1>2, <1>3, <2>1 DEF SchedType
  <2>3. Ahead(Started) = TargetTime(m) - wall
    <3>1. Ahead(Started) = TargetTime(m) + 0 - wall
      BY <1>3, <1>9, <2>1 DEF Ahead
    <3> QED
      BY <1>2, <1>5, <3>1
  <2>4. Ahead(Started) = Offset - x
    BY <1>2, <1>4, <1>5, <2>3
  <2>5. Away(wall, m, Offset - x)
    <3>1. PICK b \in Int : b = wall + (Offset - x)
      BY <1>2
    <3>2. PICK y \in Int : y = TargetTime(m)
      BY <1>2, <1>5
    <3>3. y - b = Hour * 0
      <4>1. wall = p + x
        BY <1>4
      <4>2. y - b = 0
        BY <1>2, <1>5, <3>1, <3>2, <4>1
      <4>3. Hour * 0 = 0
        BY <1>2
      <4> QED
        BY <4>2, <4>3
    <3>4. Congruent(Hour, y, b)
      <4>1. 0 \in Int
        OBVIOUS
      <4> QED
        BY <1>2, <3>3, <4>1, CongruentIs
    <3> QED
      BY <3>1, <3>2, <3>4 DEF Away
  <2>6. ~Started.need_first /\ Started.start /\ Started.target = m
        /\ Started.since = 0 /\ Started.last_min = m
    BY <2>1
  <2>7. Ahead(Started) = Offset - Msec(wall) /\ Ahead(Started) \in Int
    <3>1. x = Msec(wall)
      BY <1>4
    <3>2. Offset - x \in Int
      BY <1>2
    <3> QED
      BY <2>4, <3>1, <3>2, Zenon
  <2>8. Away(wall, Started.target, Ahead(Started))
    BY <2>4, <2>5, <2>6, Zenon
  <2>9. Started.last_min = Min(wall)
    BY <1>3, <2>6
  <2> QED
    BY <1>9, <2>2, <2>6, <2>7, <2>8, <2>9, Zenon
<1> QED
  BY <1>7, <1>8, <1>9

LEMMA PassedIs ==
  ASSUME SplitTypeOK, NEW s \in SchedType
  PROVE  /\ Passed(s) \in SchedType /\ Consumed(s) \in SchedType
         /\ [Passed(s) EXCEPT !.need_first = FALSE] = Consumed(s)
         /\ Consumed(s).start = s.start /\ ~Consumed(s).need_first
         /\ Consumed(s).since = 0
         /\ Consumed(s).target = (s.target + Duration) % HourMinutes
<1>1. Min(wall) \in Int
  <2>1. Min(wall) \in 0..(HourMinutes - 1)
    BY WallIs DEF SplitTypeOK
  <2> QED
    BY <2>1, Sizes
<1>2. (s.target + Duration) % HourMinutes \in 0..(HourMinutes - 1)
  <2>1. s.target \in 0..(HourMinutes - 1)
    BY DEF SchedType
  <2>2. s.target + Duration \in Int
    BY <2>1, Sizes
  <2> QED
    BY <2>2, MinuteMod
<1>3. 0 \in 0..MinInterval
  BY Sizes
<1>4. /\ Passed(s) \in SchedType /\ Passed(s).start = s.start /\ Passed(s).since = 0
      /\ Passed(s).target = (s.target + Duration) % HourMinutes
  BY <1>1, <1>2, <1>3 DEF Passed, SchedType
<1>5. /\ Consumed(s) \in SchedType /\ Consumed(s).start = Passed(s).start
      /\ ~Consumed(s).need_first /\ Consumed(s).since = Passed(s).since
      /\ Consumed(s).target = Passed(s).target
  BY <1>4 DEF Consumed, SchedType
<1> QED
  BY <1>4, <1>5 DEF Consumed

(* A check that does not wait for the streams leaves the target, or passes *)
(* it.                                                                     *)
Stays ==
  /\ sched' = Started /\ ahead' = Ahead(Started) /\ round' = round
  /\ epoch' = Started.target
  /\ \/ Diff(Started.target) < 0
     \/ /\ Diff(Started.target) >= 0 /\ (~InTime \/ Skewed)
        /\ Graced(Diff(Started.target)) \/ Protected(Started)

Passes ==
  /\ sched' = Consumed(Started) /\ ahead' = Ahead(Started) + Full
  /\ epoch' = Started.target /\ Diff(Started.target) >= 0
  /\ \/ round' = Idle
     \/ round' = [pc |-> "split", cause |-> "first"] /\ Started.need_first /\ InTime /\ ~Skewed
     \/ round' = [pc |-> "split", cause |-> "drift"] /\ ~InTime /\ ~Skewed
     \/ round' = [pc |-> "split", cause |-> "skew"]

LEMMA CheckIs ==
  ASSUME SplitTypeOK, Check
  PROVE  /\ round = Idle /\ ~checked /\ checked' = TRUE
         /\ UNCHANGED <<wall, chan, linked, recheck, steps>>
         /\ \/ ~sched.start /\ UNCHANGED <<sched, round, epoch, ahead>>
            \/ Stays
            \/ Passes
<1>1. Started \in SchedType
  BY StartedIs
<1>2. [Passed(Started) EXCEPT !.need_first = FALSE] = Consumed(Started)
  BY <1>1, PassedIs
<1>3. CASE CheckWaits
  BY <1>3 DEF CheckWaits, Waiting
<1>4. CASE TooEarly
  BY <1>4 DEF TooEarly, Checking, Stays
<1>5. CASE Aligned
  BY <1>2, <1>5 DEF Aligned, Checking, Passes
<1>6. CASE Withheld
  BY <1>6 DEF Withheld, Checking, Stays
<1>7. CASE Forced
  BY <1>7 DEF Forced, Checking, Passes
<1> QED
  BY <1>3, <1>4, <1>5, <1>6, <1>7 DEF Check

-----------------------------------------------------------------------------
(* The invariant that needs no condition *)

Base == SplitTypeOK /\ Shapes /\ Scheduling

LEMMA BaseInit == Init => Base
<1>1. SUFFICES ASSUME Init PROVE Base
  OBVIOUS
<1>2. /\ NONE \in Int /\ UNSET \in Int /\ <<>> \in Seq(0..MaxLag)
      /\ MinInterval \in 0..MinInterval /\ 0 \in 0..(HourMinutes - 1)
      /\ RecheckAt \in 0..RecheckAt /\ MaxSteps \in 0..MaxSteps
  BY Sizes, None
<1>3. Fresh \in ChannelType /\ Shape(Fresh)
  BY <1>2 DEF Fresh, ChannelType, Shape
<1>4. wall \in 0..(Hour - 1)
  <2>1. /\ Minute \in Nat \ {0} /\ HourMinutes \in Nat \ {0}
        /\ Hour \in Nat /\ Hour = Minute * HourMinutes
    BY Sizes
  <2>2. Minute * HourMinutes >= Minute
    BY <2>1
  <2>3. Hour >= Minute /\ wall \in 0..(Minute - 1)
    BY <1>1, <2>1, <2>2 DEF Init
  <2> QED
    BY <2>1, <2>3
<1>5. sched \in SchedType /\ ~sched.start /\ ~sched.need_first
  BY <1>1, <1>2 DEF Init, SchedType
<1>6. \A c \in Channels : chan[c] = Fresh
  BY <1>1 DEF Init
<1>7. SplitTypeOK
  <2>1. chan \in [Channels -> ChannelType] /\ linked \subseteq Channels
    BY <1>1, <1>3 DEF Init
  <2>2. round = Idle /\ epoch = NONE /\ checked = FALSE /\ ahead = 0
    BY <1>1 DEF Init
  <2>3. recheck \in 0..RecheckAt /\ steps \in 0..MaxSteps
    BY <1>1, <1>2 DEF Init
  <2>4. checked \in BOOLEAN
    BY <2>2
  <2>5. ahead \in Int
    BY <2>2
  <2> QED
    BY <1>4, <1>5, <2>1, <2>2, <2>3, <2>4, <2>5 DEF SplitTypeOK
<1>8. Shapes
  BY <1>3, <1>6 DEF Shapes
<1>9. Scheduling
  <2>1. \A c \in Channels : chan[c].cut = NONE /\ chan[c].age = NONE
    BY <1>6 DEF Fresh
  <2>2. round = Idle /\ epoch = NONE
    BY <1>1 DEF Init
  <2> QED
    BY <1>5, <2>1, <2>2 DEF Scheduling
<1> QED
  BY <1>7, <1>8, <1>9 DEF Base

LEMMA BaseOpens ==
  ASSUME Base, NEW c \in Channels, Opens(c)
  PROVE  Base'
<1>1. SplitTypeOK /\ Shapes /\ Scheduling /\ chan[c] \in ChannelType /\ Shape(chan[c])
  BY DEF Base, SplitTypeOK, Shapes
<1>2. PICK lag \in 0..MaxLag, cut \in Int, why \in {"no", "none", "roll"} \cup Causes :
        /\ cut = NONE \/ cut = chan[c].cut
        /\ chan' = [chan EXCEPT ![c] = Opened(chan[c], lag, cut, why)]
  BY <1>1, OpensIs
<1>3. UNCHANGED <<wall, linked, sched, round, epoch, checked, recheck, steps, ahead>>
  BY <1>1, OpensIs
<1>4. PICK r : r = Opened(chan[c], lag, cut, why)
  OBVIOUS
<1>5. r \in ChannelType /\ Shape(r) /\ r.cut = cut /\ r.sm # UNSET
  <2>1. Msec(wall) # UNSET
    <3>1. Msec(wall) \in 0..(Minute - 1)
      BY <1>1, WallIs DEF SplitTypeOK
    <3> QED
      BY <3>1, None
  <2> QED
    BY <1>1, <1>2, <1>4, <2>1, OpenedIs
<1>6. /\ chan' \in [Channels -> ChannelType] /\ chan'[c] = r
      /\ \A d \in Channels : d # c => chan'[d] = chan[d]
  BY <1>1, <1>2, <1>4, <1>5, OneChannel
<1>7. SplitTypeOK'
  BY <1>1, <1>3, <1>6 DEF SplitTypeOK
<1>8. Shapes'
  BY <1>1, <1>5, <1>6 DEF Shapes
<1>9. Scheduling'
  <2>1. ASSUME NEW d \in Channels,
               chan'[d].cut # NONE \/ (chan'[d].age # NONE /\ chan'[d].sm = UNSET)
        PROVE  Settled
    BY <1>1, <1>2, <1>5, <1>6, <2>1 DEF Scheduling
  <2> QED
    BY <1>1, <1>3, <2>1 DEF Scheduling, Settled
<1> QED
  BY <1>7, <1>8, <1>9 DEF Base

LEMMA BaseTold ==
  ASSUME Base, NEW c \in Channels, FragmentOpened(c)
  PROVE  Base'
<1>1. SplitTypeOK /\ Shapes /\ Scheduling /\ chan[c] \in ChannelType /\ Shape(chan[c])
  BY DEF Base, SplitTypeOK, Shapes
<1>2. PICK r : r = Told(chan[c])
  OBVIOUS
<1>3. chan[c].msgs # <<>> /\ chan' = [chan EXCEPT ![c] = r]
  BY <1>1, <1>2 DEF FragmentOpened, SplitTypeOK, Told
<1>4. UNCHANGED <<wall, linked, sched, round, epoch, checked, recheck, steps, ahead>>
  BY DEF FragmentOpened
<1>5. r \in ChannelType /\ Shape(r) /\ r.cut = chan[c].cut /\ r.sm = chan[c].sm
      /\ r.age = chan[c].age
  BY <1>1, <1>2, <1>3, ToldIs
<1>6. /\ chan' \in [Channels -> ChannelType] /\ chan'[c] = r
      /\ \A d \in Channels : d # c => chan'[d] = chan[d]
  BY <1>1, <1>3, <1>5, OneChannel
<1>7. SplitTypeOK'
  BY <1>1, <1>4, <1>6 DEF SplitTypeOK
<1>8. Shapes'
  BY <1>1, <1>5, <1>6 DEF Shapes
<1>9. Scheduling'
  <2>1. ASSUME NEW d \in Channels,
               chan'[d].cut # NONE \/ (chan'[d].age # NONE /\ chan'[d].sm = UNSET)
        PROVE  Settled
    BY <1>1, <1>5, <1>6, <2>1 DEF Scheduling
  <2> QED
    BY <1>1, <1>4, <2>1 DEF Scheduling, Settled
<1> QED
  BY <1>7, <1>8, <1>9 DEF Base

LEMMA BaseStream ==
  ASSUME Base, NEW c \in Channels, StreamStart(c)
  PROVE  Base'
<1>1. SplitTypeOK /\ Shapes /\ Scheduling /\ chan[c] \in ChannelType /\ Shape(chan[c])
  BY DEF Base, SplitTypeOK, Shapes
<1>2. PICK r : r = [chan[c] EXCEPT !.started = TRUE]
  OBVIOUS
<1>3. chan' = [chan EXCEPT ![c] = r]
  BY <1>1, <1>2 DEF StreamStart, SplitTypeOK
<1>4. UNCHANGED <<wall, linked, sched, round, epoch, checked, recheck, steps, ahead>>
  BY DEF StreamStart
<1>5. /\ r \in ChannelType /\ r.cut = chan[c].cut /\ r.sm = chan[c].sm
      /\ r.age = chan[c].age /\ r.msgs = chan[c].msgs /\ r.name = chan[c].name
      /\ r.rt = chan[c].rt /\ r.stale = chan[c].stale /\ r.cause = chan[c].cause
  BY <1>1, <1>2 DEF ChannelType
<1>6. Shape(r)
  BY <1>1, <1>5 DEF Shape
<1>7. /\ chan' \in [Channels -> ChannelType] /\ chan'[c] = r
      /\ \A d \in Channels : d # c => chan'[d] = chan[d]
  BY <1>1, <1>3, <1>5, OneChannel
<1>8. SplitTypeOK'
  BY <1>1, <1>4, <1>7 DEF SplitTypeOK
<1>9. Shapes'
  BY <1>1, <1>6, <1>7 DEF Shapes
<1>10. Scheduling'
  <2>1. ASSUME NEW d \in Channels,
               chan'[d].cut # NONE \/ (chan'[d].age # NONE /\ chan'[d].sm = UNSET)
        PROVE  Settled
    BY <1>1, <1>5, <1>7, <2>1 DEF Scheduling
  <2> QED
    BY <1>1, <1>4, <2>1 DEF Scheduling, Settled
<1> QED
  BY <1>8, <1>9, <1>10 DEF Base

LEMMA BaseCheck == ASSUME Base, Check PROVE Base'
<1>1. SplitTypeOK /\ Shapes /\ Scheduling
  BY DEF Base
<1>2. /\ round = Idle /\ checked' = TRUE
      /\ UNCHANGED <<wall, chan, linked, recheck, steps>>
      /\ \/ ~sched.start /\ UNCHANGED <<sched, round, epoch, ahead>>
         \/ Stays
         \/ Passes
  BY <1>1, CheckIs
<1>3. Shapes'
  BY <1>1, <1>2 DEF Shapes
<1>4. /\ Started \in SchedType /\ Started.start /\ Ahead(Started) \in Int
      /\ sched.start => Started = sched
  BY <1>1, StartedIs
<1>5. Started.target \in 0..(HourMinutes - 1) /\ Started.target # NONE
  BY <1>4, None DEF SchedType
<1>6. /\ Consumed(Started) \in SchedType /\ Consumed(Started).start
      /\ ~Consumed(Started).need_first
  BY <1>1, <1>4, PassedIs
<1>7. CASE ~sched.start /\ UNCHANGED <<sched, round, epoch, ahead>>
  BY <1>1, <1>2, <1>3, <1>7 DEF Base, SplitTypeOK, Scheduling, Settled
<1>8. CASE Stays
  <2>1. SplitTypeOK'
    BY <1>1, <1>2, <1>4, <1>5, <1>8 DEF Stays, SplitTypeOK
  <2>2. Scheduling'
    BY <1>1, <1>2, <1>4, <1>5, <1>8 DEF Stays, Scheduling, Settled
  <2> QED
    BY <1>3, <2>1, <2>2 DEF Base
<1>9. CASE Passes
  <2>1. SplitTypeOK'
    <3>1. ahead' \in Int
      BY <1>4, <1>9, Sizes DEF Passes
    <3>2. \/ round' = Idle
          \/ \E cause \in Causes : round' = [pc |-> "split", cause |-> cause]
      BY <1>9 DEF Passes, Causes
    <3> QED
      BY <1>1, <1>2, <1>5, <1>6, <1>9, <3>1, <3>2 DEF Passes, SplitTypeOK
  <2>2. Scheduling'
    BY <1>1, <1>2, <1>5, <1>6, <1>9 DEF Passes, Scheduling, Settled
  <2> QED
    BY <1>3, <2>1, <2>2 DEF Base
<1> QED
  BY <1>2, <1>7, <1>8, <1>9

(* What a request does. *)
LEMMA RequestIs ==
  ASSUME SplitTypeOK, RequestSplits
  PROVE  /\ round # Idle /\ round.cause \in Causes /\ round' = Idle
         /\ UNCHANGED <<wall, linked, sched, epoch, checked, recheck, steps, ahead>>
         /\ chan' = [c \in Channels |-> chan'[c]]
         /\ \E when \in {0, Margin} :
              \A c \in Channels : chan'[c] = IF c \in linked THEN Asked(chan[c], when, round.cause)
                                             ELSE chan[c]
<1>1. round.pc = "split" /\ round' = Idle
  BY DEF RequestSplits
<1>2. UNCHANGED <<wall, linked, sched, epoch, checked, recheck, steps, ahead>>
  BY DEF RequestSplits
<1>3. round # Idle /\ round.cause \in Causes
  BY <1>1, RoundIs
<1>4. PICK when \in {Margin} \cup (IF Prerolled THEN {} ELSE {0}) :
        chan' = [c \in Channels |->
                  IF c \in linked THEN Asked(chan[c], when, round.cause) ELSE chan[c]]
  BY DEF RequestSplits, Asked
<1>5. when \in {0, Margin}
  BY <1>4
<1>6. chan' = [c \in Channels |-> chan'[c]]
  BY <1>4, Zenon
<1>7. \A c \in Channels : chan'[c] = IF c \in linked THEN Asked(chan[c], when, round.cause)
                                      ELSE chan[c]
  BY <1>4
<1> QED
  BY <1>1, <1>2, <1>3, <1>5, <1>6, <1>7

LEMMA BaseRequest == ASSUME Base, RequestSplits PROVE Base'
<1>1. SplitTypeOK /\ Shapes /\ Scheduling
  BY DEF Base
<1>2. /\ round # Idle /\ round.cause \in Causes /\ round' = Idle
      /\ UNCHANGED <<wall, linked, sched, epoch, checked, recheck, steps, ahead>>
  BY <1>1, RequestIs
<1>3. PICK when \in {0, Margin} :
        \A c \in Channels : chan'[c] = IF c \in linked THEN Asked(chan[c], when, round.cause)
                                       ELSE chan[c]
  BY <1>1, RequestIs
<1>4. chan' = [c \in Channels |-> chan'[c]]
  BY <1>1, RequestIs
<1>5. \A c \in Channels : chan'[c] \in ChannelType /\ Shape(chan'[c])
  <2>1. SUFFICES ASSUME NEW c \in Channels PROVE chan'[c] \in ChannelType /\ Shape(chan'[c])
    OBVIOUS
  <2>2. chan[c] \in ChannelType /\ Shape(chan[c])
    BY <1>1 DEF SplitTypeOK, Shapes
  <2>3. CASE c \in linked
    BY <1>2, <1>3, <2>2, <2>3, AskedIs
  <2>4. CASE c \notin linked
    BY <1>3, <2>2, <2>4
  <2> QED
    BY <2>3, <2>4
<1>6. chan' \in [Channels -> ChannelType]
  BY <1>4, <1>5
<1>7. SplitTypeOK'
  BY <1>1, <1>2, <1>6 DEF SplitTypeOK
<1>8. Shapes'
  BY <1>5 DEF Shapes
<1>9. Scheduling'
  BY <1>1, <1>2 DEF Scheduling, Settled
<1> QED
  BY <1>7, <1>8, <1>9 DEF Base

LEMMA BaseRecheck == ASSUME Base, RecheckLinks PROVE Base'
<1>1. SplitTypeOK /\ Shapes /\ Scheduling
  BY DEF Base
<1>2. /\ UNCHANGED <<wall, chan, sched, round, epoch, checked, steps, ahead>>
      /\ recheck' = NONE /\ linked' \subseteq Channels
  BY <1>1 DEF RecheckLinks, SplitTypeOK
<1>3. SplitTypeOK'
  BY <1>1, <1>2 DEF SplitTypeOK
<1>4. Shapes' /\ Scheduling'
  BY <1>1, <1>2 DEF Shapes, Scheduling, Settled
<1> QED
  BY <1>3, <1>4 DEF Base

(* What a tick does. *)
LEMMA TickIs ==
  ASSUME Base, Tick
  PROVE  /\ checked /\ ~checked' /\ round = Idle
         /\ UNCHANGED <<linked, round, epoch, steps>>
         /\ wall' = (wall + 1) % Hour /\ ahead' = IF sched.start THEN ahead - 1 ELSE 0
         /\ sched' \in SchedType /\ sched'.start = sched.start
         /\ sched'.need_first = sched.need_first /\ sched'.target = sched.target
         /\ sched'.since = IF sched.since < MinInterval THEN sched.since + 1 ELSE sched.since
         /\ recheck # 0 /\ recheck' = IF recheck = NONE THEN NONE ELSE recheck - 1
         /\ chan' = [c \in Channels |-> OlderChannel(chan[c])]
         /\ \A c \in Channels :
              /\ chan[c] \in ChannelType /\ Shape(chan[c]) /\ chan[c].msgs = <<>>
              /\ chan[c].age < Full + Longest + MaxLag
              /\ chan[c].cut = NONE \/ chan[c].age = NONE \/ chan[c].cut > 0 - MaxLag
              /\ chan'[c] = OlderChannel(chan[c])
<1>1. SplitTypeOK /\ Shapes
  BY DEF Base
<1>2. sched \in SchedType /\ sched.since \in 0..MinInterval /\ MinInterval \in Nat
  BY <1>1, Sizes DEF SplitTypeOK, SchedType
<1>3. PICK n \in 0..MinInterval :
        n = IF sched.since < MinInterval THEN sched.since + 1 ELSE sched.since
  BY <1>2
<1>4. sched' = [sched EXCEPT !.since = n]
  BY <1>3 DEF Tick
<1>5. /\ sched' \in SchedType /\ sched'.start = sched.start
      /\ sched'.need_first = sched.need_first /\ sched'.target = sched.target
      /\ sched'.since = n
  BY <1>2, <1>4 DEF SchedType
<1>6. \A c \in Channels :
              /\ chan[c] \in ChannelType /\ Shape(chan[c]) /\ chan[c].msgs = <<>>
              /\ chan[c].age < Full + Longest + MaxLag
              /\ chan[c].cut = NONE \/ chan[c].age = NONE \/ chan[c].cut > 0 - MaxLag
              /\ chan'[c] = OlderChannel(chan[c])
  BY <1>1 DEF Tick, Longest, Shapes, SplitTypeOK
<1> QED
  BY <1>3, <1>5, <1>6 DEF Tick

LEMMA BaseTick == ASSUME Base, Tick PROVE Base'
<1>1. SplitTypeOK /\ Shapes /\ Scheduling
  BY DEF Base
<1>2. /\ round = Idle
      /\ UNCHANGED <<linked, round, epoch, steps>>
      /\ wall' = (wall + 1) % Hour /\ ahead' = IF sched.start THEN ahead - 1 ELSE 0
      /\ sched' \in SchedType /\ sched'.start = sched.start
      /\ sched'.need_first = sched.need_first
      /\ recheck # 0 /\ recheck' = IF recheck = NONE THEN NONE ELSE recheck - 1
      /\ chan' = [c \in Channels |-> chan'[c]] /\ ~checked'
  BY TickIs DEF Tick
<1>3. \A c \in Channels :
        /\ chan'[c] \in ChannelType /\ Shape(chan'[c])
        /\ chan'[c].age = NONE <=> chan[c].age = NONE
        /\ chan'[c].cut = NONE <=> chan[c].cut = NONE
        /\ chan'[c].sm = chan[c].sm
  <2>1. SUFFICES ASSUME NEW c \in Channels
                 PROVE  /\ chan'[c] \in ChannelType /\ Shape(chan'[c])
                        /\ chan'[c].age = NONE <=> chan[c].age = NONE
                        /\ chan'[c].cut = NONE <=> chan[c].cut = NONE
                        /\ chan'[c].sm = chan[c].sm
    OBVIOUS
  <2>2. /\ chan[c] \in ChannelType /\ Shape(chan[c]) /\ chan[c].msgs = <<>>
        /\ chan[c].age < Full + Longest + MaxLag
        /\ chan[c].cut = NONE \/ chan[c].age = NONE \/ chan[c].cut > 0 - MaxLag
        /\ chan'[c] = OlderChannel(chan[c])
    BY TickIs
  <2> QED
    BY <2>2, OlderIs
<1>4. SplitTypeOK'
  <2>1. wall' \in 0..(Hour - 1) /\ ahead' \in Int
    <3>1. wall + 1 \in Int /\ ahead \in Int
      BY <1>1, Sizes DEF SplitTypeOK
    <3> QED
      BY <1>2, <3>1, MinMod
  <2>2. recheck' = NONE \/ recheck' \in 0..RecheckAt
    BY <1>1, <1>2, Sizes DEF SplitTypeOK
  <2>3. chan' \in [Channels -> ChannelType]
    BY <1>2, <1>3
  <2>4. /\ linked' \subseteq Channels /\ steps' \in 0..MaxSteps
        /\ epoch' = NONE \/ epoch' \in 0..(HourMinutes - 1)
    BY <1>1, <1>2 DEF SplitTypeOK
  <2>5. round' = Idle /\ sched' \in SchedType
    BY <1>2
  <2>6. checked' \in BOOLEAN
    BY DEF Tick
  <2> QED
    BY <2>1, <2>2, <2>3, <2>4, <2>5, <2>6 DEF SplitTypeOK
<1>5. Shapes'
  BY <1>3 DEF Shapes
<1>6. Scheduling'
  BY <1>1, <1>2, <1>3 DEF Scheduling, Settled
<1> QED
  BY <1>4, <1>5, <1>6 DEF Base

LEMMA BaseClock == ASSUME Base, NEW d \in Steps, SetClock(d) PROVE Base'
<1>1. SplitTypeOK /\ Shapes /\ Scheduling
  BY DEF Base
<1>2. /\ wall' = (wall + d) % Hour /\ ahead' = (IF sched.start THEN ahead - d ELSE 0)
      /\ steps > 0 /\ steps' = steps - 1
      /\ UNCHANGED <<chan, linked, sched, round, epoch, checked, recheck>>
  BY DEF SetClock
<1>3. d \in Int /\ wall \in Int /\ ahead \in Int /\ steps \in 0..MaxSteps /\ MaxSteps \in Nat
  BY <1>1, Sizes, SplitCheckAssumption DEF SplitTypeOK
<1>4. wall' \in 0..(Hour - 1) /\ ahead' \in Int /\ steps' \in 0..MaxSteps
  <2>1. wall + d \in Int
    BY <1>3
  <2> QED
    BY <1>2, <1>3, <2>1, MinMod
<1>5. SplitTypeOK'
  BY <1>1, <1>2, <1>4 DEF SplitTypeOK
<1>6. Shapes' /\ Scheduling'
  BY <1>1, <1>2 DEF Shapes, Scheduling, Settled
<1> QED
  BY <1>5, <1>6 DEF Base

LEMMA BaseStutter == ASSUME Base, UNCHANGED vars PROVE Base'
BY DEF Base, SplitTypeOK, Shapes, Scheduling, Settled, vars

LEMMA BaseStep == Base /\ [Next]_vars => Base'
<1>1. SUFFICES ASSUME Base, [Next]_vars PROVE Base'
  OBVIOUS
<1>2. CASE UNCHANGED vars
  BY <1>1, <1>2, BaseStutter
<1>3. ASSUME NEW c \in Channels, Opens(c) PROVE Base'
  BY <1>1, <1>3, BaseOpens
<1>4. ASSUME NEW c \in Channels, StreamStart(c) PROVE Base'
  BY <1>1, <1>4, BaseStream
<1>5. ASSUME NEW c \in Channels, FragmentOpened(c) PROVE Base'
  BY <1>1, <1>5, BaseTold
<1>6. ASSUME NEW d \in Steps, SetClock(d) PROVE Base'
  BY <1>1, <1>6, BaseClock
<1>7. Check \/ RequestSplits \/ RecheckLinks \/ Tick => Base'
  BY <1>1, BaseCheck, BaseRequest, BaseRecheck, BaseTick
<1> QED
  BY <1>1, <1>2, <1>3, <1>4, <1>5, <1>6, <1>7 DEF Next, Opens

(* The types are right, the tests of splitCheck() are about channels that  *)
(* have a fragment, and nothing is asked of a channel before the first     *)
(* target.                                                                 *)
THEOREM BaseCorrect == Spec => []Base
<1>1. Init => Base
  BY BaseInit
<1>2. Base /\ [Next]_vars => Base'
  BY BaseStep
<1> QED
  BY <1>1, <1>2, PTL DEF Spec

-----------------------------------------------------------------------------
(* A target is passed when its time has come *)

Toward == sched.start => Away(wall, sched.target, ahead)

Near(back) == sched.start => ahead <= Furthest + (MaxSteps - steps) * back

LEMMA TargetAway ==
  ASSUME Base, Toward
  PROVE  /\ Started.target \in 0..(HourMinutes - 1)
         /\ Ahead(Started) \in Int
         /\ Away(wall, Started.target, Ahead(Started))
<1>1. SplitTypeOK
  BY DEF Base
<1>2. Started \in SchedType
  BY <1>1, StartedIs
<1>3. Started.target \in 0..(HourMinutes - 1)
  BY <1>2 DEF SchedType
<1>4. Away(wall, Started.target, Ahead(Started))
  BY <1>1, StartedIs DEF Toward
<1> QED
  BY <1>1, <1>3, <1>4, StartedIs

LEMMA SeenIs ==
  ASSUME Base, NEW m \in 0..(HourMinutes - 1), NEW a \in Int, Away(wall, m, a),
         0 - (Hour \div 2) < a, a + Second <= Hour \div 2
  PROVE  /\ Diff(m) = 0 - (a + (wall % Second))
         /\ wall % Second \in 0..(Second - 1)
         /\ Diff(m) < 0 <=> a > 0
         /\ Diff(m) \in Int
<1>1. wall \in 0..(Hour - 1)
  BY DEF Base, SplitTypeOK
<1>2. Congruent(Hour, TargetTime(m), wall + a)
  BY DEF Away
<1>3. /\ Diff(m) = 0 - (a + (wall % Second))
      /\ wall % Second \in 0..(Second - 1)
      /\ Diff(m) < 0 <=> a > 0
  BY <1>1, <1>2, DiffIs
<1>4. PICK e \in Int : e = wall % Second
  BY <1>3, Sizes
<1>5. Diff(m) \in Int
  BY <1>3, <1>4
<1> QED
  BY <1>3, <1>5

LEMMA PassedLate ==
  ASSUME Base, Toward, NEW back \in Nat, Near(back), ReachIs(back),
         Diff(Started.target) >= 0
  PROVE  Ahead(Started) <= 0
<1>1. SplitTypeOK
  BY DEF Base
<1>2. /\ Started.target \in 0..(HourMinutes - 1) /\ Ahead(Started) \in Int
      /\ Away(wall, Started.target, Ahead(Started))
  BY TargetAway
<1>3. PICK m \in 0..(HourMinutes - 1), a \in Int :
        m = Started.target /\ a = Ahead(Started) /\ Away(wall, m, a)
  BY <1>2
<1>4. /\ MaxSteps \in Nat /\ steps \in 0..MaxSteps /\ Furthest \in Nat /\ Minute \in Nat \ {0}
      /\ Second \in Nat \ {0} /\ Offset \in Nat /\ Hour \in Nat \ {0} /\ Full \in Nat
  BY <1>1, Sizes DEF SplitTypeOK
<1>5. PICK far \in Nat : far = MaxSteps * back
  BY <1>4
<1>6. (MaxSteps - steps) * back <= far /\ (MaxSteps - steps) * back \in Int
  <2>1. (MaxSteps - steps) * back = far - steps * back
    BY <1>4, <1>5
  <2>2. steps * back \in Nat
    BY <1>4
  <2> QED
    BY <1>5, <2>1, <2>2
<1>7. a <= Furthest + far
  <2>1. CASE sched.start
    <3>1. a = ahead /\ ahead <= Furthest + (MaxSteps - steps) * back
      BY <1>1, <1>3, <2>1, StartedIs DEF Near
    <3> QED
      BY <1>4, <1>6, <3>1
  <2>2. CASE ~sched.start
    <3>1. Msec(wall) \in 0..(Minute - 1)
      BY <1>1, WallIs DEF SplitTypeOK
    <3>2. a = Offset - Msec(wall) + Minute \/ a = Offset - Msec(wall)
      BY <1>1, <1>3, <2>2, StartedIs
    <3>3. Furthest >= Minute + Offset
      BY <1>4 DEF Furthest
    <3> QED
      BY <1>4, <1>5, <3>1, <3>2, <3>3
  <2> QED
    BY <2>1, <2>2
<1>8. SUFFICES ASSUME a > 0 PROVE FALSE
  BY <1>3
<1>9. Furthest + far + Second <= Hour \div 2
  BY <1>5 DEF ReachIs
<1>10. 0 - (Hour \div 2) < a /\ a + Second <= Hour \div 2
  BY <1>4, <1>5, <1>7, <1>8, <1>9
<1>11. Diff(m) < 0 /\ Diff(m) \in Int
  BY <1>3, <1>8, <1>10, SeenIs
<1> QED
  BY <1>3, <1>11

LEMMA TowardStep ==
  ASSUME Base, Toward, [Next]_vars
  PROVE  Toward'
<1>1. SplitTypeOK
  BY DEF Base
<1>2. wall \in Int /\ ahead \in Int /\ sched.target \in 0..(HourMinutes - 1)
  BY <1>1, Sizes DEF SplitTypeOK, SchedType
<1>3. ASSUME UNCHANGED <<wall, sched, ahead>> PROVE Toward'
  BY <1>3 DEF Toward
<1>4. ASSUME NEW c \in Channels, Opens(c) \/ StreamStart(c) \/ FragmentOpened(c)
      PROVE  Toward'
  BY <1>3, <1>4 DEF Opens, FirstFragment, RollOver, CutHere, StreamStart, FragmentOpened
<1>5. RequestSplits \/ RecheckLinks \/ UNCHANGED vars => Toward'
  BY <1>3 DEF RequestSplits, RecheckLinks, vars
<1>6. ASSUME NEW d \in Int, sched'.start => sched.start, sched'.target = sched.target,
             wall' = (wall + d) % Hour, sched.start => ahead' = ahead - d
      PROVE  Toward'
  <2>1. SUFFICES ASSUME sched.start PROVE Away(wall', sched'.target, ahead')
    BY <1>6 DEF Toward
  <2>2. Away((wall + d) % Hour, sched.target, ahead - d)
    BY <1>2, <2>1, AwayMove DEF Toward
  <2> QED
    BY <1>6, <2>1, <2>2
<1>7. CASE Tick
  <2>1. /\ wall' = (wall + 1) % Hour /\ ahead' = (IF sched.start THEN ahead - 1 ELSE 0)
        /\ sched'.start = sched.start /\ sched'.target = sched.target
    BY <1>7, TickIs
  <2> QED
    BY <1>6, <2>1
<1>8. ASSUME NEW d \in Steps, SetClock(d) PROVE Toward'
  <2>1. d \in Int
    BY SplitCheckAssumption
  <2> QED
    BY <1>6, <1>8, <2>1 DEF SetClock
<1>9. CASE Check
  <2>1. /\ Started.target \in 0..(HourMinutes - 1) /\ Ahead(Started) \in Int
        /\ Away(wall, Started.target, Ahead(Started))
    BY TargetAway
  <2>2. wall' = wall /\ ((~sched.start /\ UNCHANGED <<sched, round, epoch, ahead>>) \/ Stays \/ Passes)
    BY <1>1, <1>9, CheckIs
  <2>3. CASE ~sched.start /\ UNCHANGED <<sched, round, epoch, ahead>>
    BY <2>3 DEF Toward
  <2>4. CASE Stays
    BY <2>1, <2>2, <2>4 DEF Stays, Toward
  <2>5. CASE Passes
    <3>1. Consumed(Started).target = (Started.target + Duration) % HourMinutes
      BY <1>1, StartedIs, PassedIs
    <3>2. Away(wall, (Started.target + Duration) % HourMinutes, Ahead(Started) + Full)
      BY <1>2, <2>1, AwayShift
    <3> QED
      BY <2>2, <2>5, <3>1, <3>2 DEF Passes, Toward
  <2> QED
    BY <2>2, <2>3, <2>4, <2>5
<1> QED
  BY <1>4, <1>5, <1>7, <1>8, <1>9 DEF Next, Opens

LEMMA NearStep ==
  ASSUME Base, Toward, NEW back \in Nat, Near(back), ReachIs(back), [Next]_vars
  PROVE  Near(back)'
<1>1. SplitTypeOK
  BY DEF Base
<1>2. /\ steps \in 0..MaxSteps /\ MaxSteps \in Nat /\ ahead \in Int /\ Furthest \in Nat
      /\ Full \in Nat /\ Furthest >= Full /\ Furthest >= Minute + Offset
      /\ Minute \in Nat \ {0} /\ Offset \in Nat
  BY <1>1, Sizes DEF SplitTypeOK, Furthest
<1>3. PICK far \in Nat : far = (MaxSteps - steps) * back
  BY <1>2
<1>4. ASSUME steps' = steps, sched'.start => ahead' <= Furthest + far PROVE Near(back)'
  BY <1>3, <1>4 DEF Near
<1>5. ASSUME UNCHANGED <<steps, sched, ahead>> PROVE Near(back)'
  BY <1>5 DEF Near
<1>6. ASSUME NEW c \in Channels, Opens(c) \/ StreamStart(c) \/ FragmentOpened(c)
      PROVE  Near(back)'
  BY <1>5, <1>6 DEF Opens, FirstFragment, RollOver, CutHere, StreamStart, FragmentOpened
<1>7. RequestSplits \/ RecheckLinks \/ UNCHANGED vars => Near(back)'
  BY <1>5 DEF RequestSplits, RecheckLinks, vars
<1>8. CASE Tick
  <2>1. /\ steps' = steps /\ ahead' = (IF sched.start THEN ahead - 1 ELSE 0)
        /\ sched'.start = sched.start
    BY <1>8, TickIs
  <2>2. sched.start => ahead <= Furthest + far
    BY <1>3 DEF Near
  <2> QED
    BY <1>2, <1>4, <2>1, <2>2
<1>9. ASSUME NEW d \in Steps, SetClock(d) PROVE Near(back)'
  <2>1. d \in Int /\ 0 - d <= back
    BY SplitCheckAssumption DEF ReachIs
  <2>2. steps' = steps - 1 /\ ahead' = (IF sched.start THEN ahead - d ELSE 0) /\ sched' = sched
    BY <1>9 DEF SetClock
  <2>3. (MaxSteps - steps') * back = far + back
    <3>1. MaxSteps - steps' = (MaxSteps - steps) + 1
      BY <1>2, <2>2
    <3>2. \A k \in Int : (k + 1) * back = k * back + back
      OBVIOUS
    <3>3. MaxSteps - steps \in Int
      BY <1>2
    <3> QED
      BY <1>3, <3>1, <3>2, <3>3
  <2>4. sched.start => ahead - d <= Furthest + (far + back)
    <3>1. sched.start => ahead <= Furthest + far
      BY <1>3 DEF Near
    <3> QED
      BY <1>2, <2>1, <3>1
  <2> QED
    BY <2>2, <2>3, <2>4 DEF Near
<1>10. CASE Check
  <2>1. steps' = steps /\ ((~sched.start /\ UNCHANGED <<sched, round, epoch, ahead>>) \/ Stays \/ Passes)
    BY <1>1, <1>10, CheckIs
  <2>2. Ahead(Started) \in Int /\ Ahead(Started) <= Furthest + far
    <3>1. CASE sched.start
      BY <1>1, <1>2, <1>3, <3>1, StartedIs DEF Near
    <3>2. CASE ~sched.start
      <4>1. Msec(wall) \in 0..(Minute - 1)
        BY <1>1, WallIs DEF SplitTypeOK
      <4>2. \/ Ahead(Started) = Offset - Msec(wall) + Minute
            \/ Ahead(Started) = Offset - Msec(wall)
        BY <1>1, <3>2, StartedIs
      <4> QED
        BY <1>2, <4>1, <4>2
    <3> QED
      BY <3>1, <3>2
  <2>3. CASE ~sched.start /\ UNCHANGED <<sched, round, epoch, ahead>>
    BY <2>1, <2>3, <1>4
  <2>4. CASE Stays
    BY <2>1, <2>2, <2>4, <1>4 DEF Stays
  <2>5. CASE Passes
    <3>1. Ahead(Started) <= 0
      BY <2>5, PassedLate DEF Passes
    <3> QED
      BY <1>2, <1>4, <2>1, <2>2, <2>5, <3>1 DEF Passes
  <2> QED
    BY <2>1, <2>3, <2>4, <2>5
<1> QED
  BY <1>6, <1>7, <1>8, <1>9, <1>10 DEF Next, Opens

LEMMA PassedInTimeStep ==
  ASSUME Base, Toward, NEW back \in Nat, Near(back), ReachIs(back), [Next]_vars,
         sched.start, sched'.target # sched.target
  PROVE  ahead <= 0
<1>1. SplitTypeOK
  BY DEF Base
<1>2. sched' # sched
  OBVIOUS
<1>3. Check \/ Tick
  BY <1>2 DEF Next, vars, FirstFragment, RollOver, CutHere, StreamStart, FragmentOpened,
              RequestSplits, RecheckLinks, SetClock
<1>4. ~Tick
  BY TickIs
<1>5. Stays \/ Passes
  BY <1>1, <1>3, <1>4, CheckIs
<1>6. Started = sched /\ Ahead(Started) = ahead
  BY <1>1, StartedIs
<1>7. Passes
  BY <1>5, <1>6 DEF Stays
<1> QED
  BY <1>6, <1>7, PassedLate DEF Passes

LEMMA PassedInTimeReach ==
  ASSUME NEW back \in Nat, ReachIs(back)
  PROVE  Spec => PassedInTime
<1> DEFINE I == Base /\ Toward /\ Near(back)
<1>1. Init => I
  <2>1. Init => ~sched.start
    BY DEF Init
  <2> QED
    BY <2>1, BaseInit DEF Toward, Near
<1>2. I /\ [Next]_vars => I'
  BY BaseStep, TowardStep, NearStep
<1>3. I /\ [Next]_vars => [sched.start /\ sched'.target # sched.target => ahead <= 0]_vars
  BY PassedInTimeStep
<1> HIDE DEF I
<1> QED
  BY <1>1, <1>2, <1>3, PTL DEF Spec, PassedInTime

(* A target is passed only when the clock has reached it, provided that    *)
(* the clock may not be set so far back that the target seems to be in the *)
(* other half of the hour: splitCheck() of main.cpp takes the difference   *)
(* of two times of the hour to be within half an hour.                     *)
THEOREM PassedInTimeHolds == HourSuffices => (Spec => PassedInTime)
<1>1. SUFFICES ASSUME HourSuffices PROVE Spec => PassedInTime
  OBVIOUS
<1>2. PICK back \in Nat : ReachIs(back)
  BY <1>1 DEF HourSuffices
<1> QED
  BY <1>2, PassedInTimeReach

-----------------------------------------------------------------------------
(* Splitting in time *)

(* Once the clock has not been set, the target is this close, and format_  *)
(* location() names the fragments after it or after the one before.        *)
OnTime ==
  /\ ahead <= Furthest /\ 0 - Lateness <= ahead /\ (checked => 0 - Lateness < ahead)
  /\ sched.since < MinInterval => ahead + sched.since > 0 - Second
  /\ \/ epoch = sched.target
     \/ /\ epoch = (sched.target - Duration) % HourMinutes
        /\ Full - Lateness - (IF checked THEN 0 ELSE 1) <= ahead /\ ahead <= Full
  /\ round # Idle => Full - Lateness <= ahead /\ ahead <= Full

Timely == sched.start => OnTime

LEMMA Numbers ==
  /\ Hour \in Nat \ {0} /\ Full \in Nat \ {0} /\ Minute \in Nat \ {0} /\ Second \in Nat \ {0}
  /\ Offset \in Nat /\ Lateness \in Nat /\ Furthest \in Nat /\ Longest \in Nat
  /\ MaxLag \in Nat /\ Margin \in Nat /\ SplitMax \in Nat /\ SplitDiff \in Nat
  /\ MaxDrift \in Nat /\ MinInterval \in Nat /\ RecheckAt \in Nat
  /\ Full >= Minute /\ Offset < Minute
  /\ Furthest >= Full /\ Furthest >= Minute + Offset /\ Furthest - Full <= Offset
  /\ Lateness >= Second - 1 + SplitMax /\ Lateness >= Second - 1 + MinInterval
<1>1. /\ Hour \in Nat \ {0} /\ Full \in Nat \ {0} /\ Minute \in Nat \ {0} /\ Second \in Nat \ {0}
      /\ Offset \in Nat /\ Lateness \in Nat /\ Furthest \in Nat
      /\ MaxLag \in Nat /\ Margin \in Nat /\ SplitMax \in Nat /\ SplitDiff \in Nat
      /\ MaxDrift \in Nat /\ MinInterval \in Nat /\ RecheckAt \in Nat
      /\ Full >= Minute /\ Offset < Minute
  BY Sizes
<1>2. Furthest >= Full /\ Furthest >= Minute + Offset /\ Furthest - Full <= Offset
  BY <1>1 DEF Furthest
<1>3. Lateness >= Second - 1 + SplitMax /\ Lateness >= Second - 1 + MinInterval
  BY <1>1 DEF Lateness
<1> QED
  BY <1>1, <1>2, <1>3, LongestIs

LEMMA StartedOnTime ==
  ASSUME Base, Toward, Timely, Punctual
  PROVE  /\ 0 - Lateness <= Ahead(Started) /\ Ahead(Started) <= Furthest
         /\ Started.since < MinInterval => Ahead(Started) + Started.since > 0 - Second
         /\ Diff(Started.target) = 0 - (Ahead(Started) + (wall % Second))
         /\ wall % Second \in 0..(Second - 1) /\ Diff(Started.target) \in Int
         /\ Diff(Started.target) < 0 <=> Ahead(Started) > 0
         /\ ~sched.start /\ Started.need_first => Ahead(Started) > 0
<1>1. SplitTypeOK
  BY DEF Base
<1>2. PICK m \in 0..(HourMinutes - 1), a \in Int :
        m = Started.target /\ a = Ahead(Started) /\ Away(wall, m, a)
  BY TargetAway
<1>3. /\ 0 - Lateness <= a /\ a <= Furthest
      /\ Started.since < MinInterval => a + Started.since > 0 - Second
      /\ ~sched.start /\ Started.need_first => a > 0
  <2>1. CASE sched.start
    BY <1>1, <1>2, <2>1, StartedIs DEF Timely, OnTime
  <2>2. CASE ~sched.start /\ Started.need_first
    <3>1. Msec(wall) \in 0..(Minute - 1)
      BY <1>1, WallIs DEF SplitTypeOK
    <3>2. a = Offset - Msec(wall) + Minute /\ Started.since = 0
      BY <1>1, <1>2, <2>2, StartedIs
    <3> QED
      BY <2>2, <3>1, <3>2, Numbers
  <2>3. CASE ~sched.start /\ ~Started.need_first
    <3>1. Msec(wall) \in 0..(Minute - 1)
      BY <1>1, WallIs DEF SplitTypeOK
    <3>2. a = Offset - Msec(wall) /\ Sec(wall) = StartSec /\ Started.since = 0
      BY <1>1, <1>2, <2>3, StartedIs
    <3>3. Offset <= Msec(wall) /\ Msec(wall) < Offset + Second
      BY <1>1, <3>2, SecIs DEF SplitTypeOK
    <3> QED
      BY <2>3, <3>1, <3>2, <3>3, Numbers
  <2> QED
    BY <2>1, <2>2, <2>3
<1>4. 0 - (Hour \div 2) < a /\ a + Second <= Hour \div 2
  BY <1>3, Numbers DEF Punctual
<1>5. /\ Diff(m) = 0 - (a + (wall % Second))
      /\ wall % Second \in 0..(Second - 1)
      /\ Diff(m) < 0 <=> a > 0
      /\ Diff(m) \in Int
  BY <1>2, <1>4, SeenIs
<1> QED
  BY <1>2, <1>3, <1>5

(* What is not passed is not late yet. *)
LEMMA StaysOnTime ==
  ASSUME Base, Toward, Timely, Punctual, Stays
  PROVE  0 - Lateness < Ahead(Started)
<1>1. PICK a \in Int, e \in Int, d \in Int, n \in Int :
        /\ a = Ahead(Started) /\ e = wall % Second /\ d = Diff(Started.target)
        /\ n = Started.since
  <2>1. Started.since \in 0..MinInterval
    BY StartedIs DEF Base, SchedType
  <2>2. Started.since \in Int /\ wall % Second \in Int
    BY <2>1, StartedOnTime, Numbers
  <2> QED
    BY <2>2, TargetAway, StartedOnTime
<1>2. /\ n < MinInterval => a + n > 0 - Second
      /\ d = 0 - (a + e) /\ e >= 0 /\ e < Second
      /\ d < 0 <=> a > 0
  BY <1>1, StartedOnTime, Numbers
<1>3. \/ d < 0
      \/ d < SplitMax
      \/ n < MinInterval
  BY <1>1 DEF Stays, Graced, Protected
<1> QED
  BY <1>1, <1>2, <1>3, Numbers

LEMMA TimelyStep ==
  ASSUME Base, Toward, Timely, Punctual, [Next]_vars, steps' = steps
  PROVE  Timely'
<1>1. SplitTypeOK /\ Scheduling
  BY DEF Base
<1>2. ASSUME UNCHANGED <<sched, ahead, checked, epoch>>, round' = round \/ round' = Idle
      PROVE  Timely'
  BY <1>2 DEF Timely, OnTime
<1>3. ASSUME NEW c \in Channels, Opens(c) \/ StreamStart(c) \/ FragmentOpened(c)
      PROVE  Timely'
  BY <1>2, <1>3 DEF Opens, FirstFragment, RollOver, CutHere, StreamStart, FragmentOpened
<1>4. RequestSplits \/ RecheckLinks \/ UNCHANGED vars => Timely'
  BY <1>2 DEF RequestSplits, RecheckLinks, vars
<1>5. CASE Tick
  <2>1. /\ checked /\ ~checked' /\ round = Idle /\ round' = round /\ epoch' = epoch
        /\ ahead' = (IF sched.start THEN ahead - 1 ELSE 0)
        /\ sched'.start = sched.start /\ sched'.target = sched.target
        /\ sched'.since = IF sched.since < MinInterval THEN sched.since + 1 ELSE sched.since
    BY <1>5, TickIs
  <2>2. SUFFICES ASSUME sched.start PROVE OnTime'
    BY <2>1 DEF Timely
  <2>3. ahead \in Int /\ sched.since \in Int
    BY <1>1, Numbers DEF SplitTypeOK, SchedType
  <2>4. OnTime
    BY <2>2 DEF Timely
  <2>5. ahead' = ahead - 1
    BY <2>1, <2>2
  <2>6. ahead' <= Furthest /\ 0 - Lateness <= ahead'
    BY <2>1, <2>3, <2>4, <2>5, Numbers DEF OnTime
  <2>7. sched'.since < MinInterval => ahead' + sched'.since > 0 - Second
    <3>1. sched'.since < MinInterval => sched.since < MinInterval
      BY <2>1
    <3>2. sched.since < MinInterval =>
            ahead + sched.since > 0 - Second /\ sched'.since = sched.since + 1
      BY <2>1, <2>4 DEF OnTime
    <3> QED
      BY <2>3, <2>5, <3>1, <3>2, Numbers
  <2>8. \/ epoch' = sched'.target
        \/ /\ epoch' = (sched'.target - Duration) % HourMinutes
           /\ Full - Lateness - 1 <= ahead' /\ ahead' <= Full
    <3>1. \/ epoch = sched.target
          \/ /\ epoch = (sched.target - Duration) % HourMinutes
             /\ Full - Lateness - 0 <= ahead /\ ahead <= Full
      BY <2>1, <2>4 DEF OnTime
    <3>2. /\ Full - Lateness - 0 <= ahead => Full - Lateness - 1 <= ahead'
          /\ ahead <= Full => ahead' <= Full
      BY <2>3, <2>5, Numbers
    <3> QED
      BY <2>1, <3>1, <3>2
  <2> QED
    BY <2>1, <2>6, <2>7, <2>8 DEF OnTime
<1>6. CASE Check
  <2>1. /\ round = Idle /\ checked' = TRUE
        /\ ((~sched.start /\ UNCHANGED <<sched, round, epoch, ahead>>) \/ Stays \/ Passes)
    BY <1>1, <1>6, CheckIs
  <2>2. /\ Ahead(Started) \in Int
        /\ Started.target \in 0..(HourMinutes - 1)
    BY TargetAway
  <2>3. /\ 0 - Lateness <= Ahead(Started) /\ Ahead(Started) <= Furthest
        /\ Started.since < MinInterval => Ahead(Started) + Started.since > 0 - Second
        /\ Diff(Started.target) < 0 <=> Ahead(Started) > 0
        /\ Diff(Started.target) \in Int
    BY StartedOnTime
  <2>4. CASE ~sched.start /\ UNCHANGED <<sched, round, epoch, ahead>>
    BY <2>4 DEF Timely
  <2>5. CASE Stays
    <3>1. 0 - Lateness < Ahead(Started)
      BY <2>5, StaysOnTime
    <3>2. sched' = Started /\ ahead' = Ahead(Started) /\ round' = Idle /\ epoch' = Started.target
      BY <2>1, <2>5 DEF Stays
    <3>3. OnTime'
      BY <2>1, <2>3, <3>1, <3>2 DEF OnTime
    <3> QED
      BY <3>3 DEF Timely
  <2>6. CASE Passes
    <3>1. /\ sched' = Consumed(Started) /\ ahead' = Ahead(Started) + Full
          /\ epoch' = Started.target
      BY <2>6 DEF Passes
    <3>2. /\ sched'.since = 0
          /\ sched'.target = (Started.target + Duration) % HourMinutes
      BY <1>1, <3>1, StartedIs, PassedIs
    <3>3. epoch' = (sched'.target - Duration) % HourMinutes
      BY <2>2, <3>1, <3>2, TargetBack
    <3>4. Ahead(Started) <= 0
      BY <2>2, <2>3, <2>6 DEF Passes
    <3>5. Full - Lateness <= ahead' /\ ahead' <= Full
      BY <2>2, <2>3, <3>1, <3>4, Numbers
    <3>6. /\ ahead' <= Furthest /\ 0 - Lateness < ahead' /\ 0 - Lateness <= ahead'
          /\ ahead' + 0 > 0 - Second /\ Full - Lateness - 0 <= ahead'
      <4>1. PICK b \in Int : b = ahead'
        BY <2>2, <3>1, Numbers
      <4>2. Lateness < Full
        BY Numbers DEF Punctual
      <4>3. Full - Lateness <= b /\ b <= Full
        BY <3>5, <4>1
      <4>4. b > 0
        BY <4>2, <4>3, Numbers
      <4>5. /\ b <= Furthest /\ 0 - Lateness < b /\ 0 - Lateness <= b
            /\ b + 0 > 0 - Second /\ Full - Lateness - 0 <= b
        BY <4>3, <4>4, Numbers
      <4> QED
        BY <4>1, <4>5
    <3>7. OnTime'
      BY <2>1, <3>2, <3>3, <3>5, <3>6 DEF OnTime
    <3> QED
      BY <3>7 DEF Timely
  <2> QED
    BY <2>1, <2>4, <2>5, <2>6
<1>7. ASSUME NEW d \in Steps, SetClock(d) PROVE FALSE
  <2>1. steps' = steps - 1 /\ steps \in Int
    BY <1>1, <1>7, Sizes DEF SetClock, SplitTypeOK
  <2> QED
    BY <2>1
<1> QED
  BY <1>3, <1>4, <1>5, <1>6, <1>7 DEF Next, Opens

-----------------------------------------------------------------------------
(* What is kept of a fragment *)

(* The target before. *)
LastOf(target) == (target - Duration) % HourMinutes

(* A fragment opened o ticks ago: its first content is as old as it is, at *)
(* most a lag older; split_msec tells when; and if it was not named early, *)
(* the minute it is named after had come, or would within the target       *)
(* second, and not a period ago.                                           *)
KeptAt(r, t, o) ==
  /\ 0 <= o /\ o <= r.age /\ r.age - MaxLag <= o
  /\ r.msgs # <<>> => o = 0
  /\ r.sm # UNSET => Since(t, r.sm, o)
  /\ r.early \/ \E u \in Int : 0 - Full - o <= u /\ u <= Offset - o /\ Away(t, r.name, u)

Kept(r, t) == \E o \in Int : KeptAt(r, t, o)

AllKept == \A c \in Channels : chan[c].age # NONE => Kept(chan[c], wall)

Early ==
  IF epoch = NONE THEN Named # Min(wall)
  ELSE Diff(epoch) < 0 /\ 0 - Diff(epoch) <= Full \div 2

(* The name of a fragment opened now, once there is a target. *)
LEMMA NamedOnTime ==
  ASSUME Base, Toward, Timely, Punctual, epoch # NONE
  PROVE  \E u \in Int :
           /\ Away(wall, Named, u) /\ Offset + MaxLag - Full < u /\ u <= Full \div 2
           /\ Early \/ u <= Offset
           /\ \/ Named = sched.target /\ u = ahead
              \/ Named = LastOf(sched.target)
<1>1. SplitTypeOK /\ sched.start
  BY DEF Base, Scheduling
<1>2. /\ epoch \in 0..(HourMinutes - 1) /\ sched.target \in 0..(HourMinutes - 1)
      /\ ahead \in Int /\ wall \in Int
  BY <1>1, Numbers DEF SplitTypeOK, SchedType
<1>3. PICK last \in 0..(HourMinutes - 1) :
        last = LastOf(sched.target) /\ Away(wall, last, ahead - Full)
  BY <1>1, <1>2, AwayShift DEF Toward, LastOf
<1>4. PICK b \in Int :
        /\ Away(wall, epoch, b)
        /\ 0 - Lateness - 1 <= b /\ b <= Furthest
        /\ \/ epoch = sched.target /\ b = ahead
           \/ epoch = last /\ b <= 0
  <2>1. CASE epoch = sched.target
    BY <1>1, <1>2, <2>1, Numbers DEF Timely, OnTime, Toward
  <2>2. CASE epoch # sched.target
    <3>1. /\ epoch = last /\ Full - Lateness - (IF checked THEN 0 ELSE 1) <= ahead
          /\ ahead <= Full
      BY <1>1, <1>3, <2>2 DEF Timely, OnTime, LastOf
    <3>2. PICK b \in Int : b = ahead - Full
      BY <1>2, Numbers
    <3>3. 0 - Lateness - 1 <= b /\ b <= 0 /\ b <= Furthest
      BY <1>2, <3>1, <3>2, Numbers
    <3> QED
      BY <1>3, <3>1, <3>2, <3>3
  <2> QED
    BY <2>1, <2>2
<1>5. PICK e \in Int, d \in Int :
        /\ d = Diff(epoch) /\ d = 0 - (b + e) /\ 0 <= e /\ e < Second
        /\ d < 0 <=> b > 0
  <2>1. 0 - (Hour \div 2) < b /\ b + Second <= Hour \div 2
    BY <1>4, Numbers DEF Punctual
  <2>2. /\ Diff(epoch) = 0 - (b + (wall % Second))
        /\ wall % Second \in 0..(Second - 1)
        /\ Diff(epoch) < 0 <=> b > 0
        /\ Diff(epoch) \in Int
    BY <1>2, <1>4, <2>1, SeenIs
  <2> QED
    BY <2>2, Numbers
<1>6. PICK half \in Int : half = Full \div 2 /\ 2 * half <= Full /\ Full <= 2 * half + 1
  BY Numbers
<1>7. /\ Offset + MaxLag + Second <= half + 1
      /\ Lateness + Offset + Margin + MaxLag + 1 < Full
  BY <1>6 DEF Punctual
<1>8. CASE 0 - d > half
  <2>1. Named = LastOf(epoch)
    BY <1>5, <1>6, <1>8 DEF Named, LastOf
  <2>2. epoch = sched.target
    BY <1>4, <1>5, <1>7, <1>8, Numbers
  <2>3. Away(wall, LastOf(epoch), b - Full)
    BY <1>2, <1>4, AwayShift DEF LastOf
  <2>4. PICK u \in Int : u = b - Full
    BY Numbers
  <2>5. Offset + MaxLag - Full < u /\ u <= half /\ u <= Offset
    BY <1>4, <1>5, <1>6, <1>7, <1>8, <2>4, Numbers
  <2> QED
    BY <1>6, <2>1, <2>2, <2>3, <2>4, <2>5
<1>9. CASE ~(0 - d > half)
  <2>1. Named = epoch
    BY <1>5, <1>6, <1>9 DEF Named
  <2>2. Offset + MaxLag - Full < b /\ b <= half
    BY <1>4, <1>5, <1>7, <1>9, Numbers
  <2>3. Early \/ b <= Offset
    <3>1. d < 0 => Early
      BY <1>5, <1>6, <1>9 DEF Early
    <3> QED
      BY <1>5, <3>1, Numbers
  <2>4. (Named = sched.target /\ b = ahead) \/ Named = LastOf(sched.target)
    BY <1>3, <1>4, <2>1
  <2> QED
    BY <1>4, <1>6, <2>1, <2>2, <2>3, <2>4
<1> QED
  BY <1>8, <1>9

LEMMA KeptOpened ==
  ASSUME Base, Toward, Timely, Punctual,
         NEW r, r.age \in 0..MaxLag, r.sm = Msec(wall), r.name = Named, r.early = Early
  PROVE  Kept(r, wall)
<1>1. SplitTypeOK /\ wall \in 0..(Hour - 1) /\ wall \in Int
  BY Numbers DEF Base, SplitTypeOK
<1>2. Since(wall, Msec(wall), 0)
  <2>1. Congruent(Minute, wall % Minute, wall)
    BY <1>1, Numbers, CongruentMod
  <2>2. wall - 0 = wall
    BY <1>1
  <2> QED
    BY <2>1, <2>2 DEF Since, Msec
<1>3. Early \/ \E u \in Int : 0 - Full - 0 <= u /\ u <= Offset - 0 /\ Away(wall, Named, u)
  <2>1. CASE epoch = NONE
    <3>1. CASE Named = Min(wall)
      <4>1. PICK p \in Int, x \in Int :
              /\ p = Min(wall) * Minute /\ x = Msec(wall) /\ wall = p + x
              /\ 0 <= x /\ x < Minute
        <5>1. /\ Min(wall) \in Int /\ Msec(wall) \in Int /\ Msec(wall) \in 0..(Minute - 1)
              /\ wall = Min(wall) * Minute + Msec(wall) /\ Minute \in Int
          BY <1>1, WallIs, Numbers, Sizes
        <5>2. Min(wall) * Minute \in Int
          BY <5>1
        <5> QED
          BY <5>1, <5>2
      <4>2. PICK u \in Int, b \in Int : u = Offset - x /\ b = wall + u
        BY <1>1, Numbers
      <4>3. TargetTime(Min(wall)) = p + Offset
        BY <4>1 DEF TargetTime, Offset
      <4>4. p + Offset = b
        <5>1. wall = p + x
          BY <4>1
        <5> QED
          BY <1>1, <4>2, <5>1, Numbers
      <4>5. Congruent(Hour, b, b)
        <5>1. b - b = Hour * 0
          BY Numbers
        <5>2. \E k \in Int : b - b = Hour * k
          BY <5>1
        <5> QED
          BY <5>2, Numbers, CongruentIs
      <4>6. Away(wall, Named, u)
        BY <3>1, <4>2, <4>3, <4>4, <4>5 DEF Away
      <4>7. 0 - Full - 0 <= u /\ u <= Offset - 0
        <5>1. 0 <= x /\ x < Minute /\ u = Offset - x
          BY <4>1, <4>2
        <5> QED
          BY <5>1, Numbers
      <4> QED
        BY <4>6, <4>7
    <3>2. CASE Named # Min(wall)
      BY <2>1, <3>2 DEF Early
    <3> QED
      BY <3>1, <3>2
  <2>2. CASE epoch # NONE
    <3>1. PICK u \in Int : /\ Away(wall, Named, u) /\ Offset + MaxLag - Full < u
                           /\ Early \/ u <= Offset
      BY <2>2, NamedOnTime
    <3>2. 0 - Full - 0 <= u
      BY <3>1, Numbers
    <3>3. u <= Offset => u <= Offset - 0
      BY Numbers
    <3> QED
      BY <3>1, <3>2, <3>3
  <2> QED
    BY <2>1, <2>2
<1>4. KeptAt(r, wall, 0)
  <2>1. 0 <= r.age /\ r.age - MaxLag <= 0
    BY Numbers
  <2> QED
    BY <1>2, <1>3, <2>1 DEF KeptAt
<1> QED
  BY <1>4 DEF Kept

LEMMA KeptOlder ==
  ASSUME NEW t \in Int, NEW r, NEW o, r.age \in Int, r.name \in 0..(HourMinutes - 1),
         r.sm = UNSET \/ r.sm \in 0..(Minute - 1),
         o.age = r.age + 1, o.msgs = <<>>, o.sm = r.sm, o.early = r.early, o.name = r.name,
         Kept(r, t)
  PROVE  Kept(o, (t + 1) % Hour)
<1>1. PICK k \in Int : KeptAt(r, t, k)
  BY DEF Kept
<1>2. 0 <= k + 1 /\ k + 1 <= o.age /\ o.age - MaxLag <= k + 1
  <2>1. 0 <= k /\ k <= r.age /\ r.age - MaxLag <= k
    BY <1>1 DEF KeptAt
  <2> QED
    BY <2>1, Numbers
<1>3. o.sm # UNSET => Since((t + 1) % Hour, o.sm, k + 1)
  <2>1. SUFFICES ASSUME r.sm # UNSET PROVE Since((t + 1) % Hour, r.sm, k + 1)
    OBVIOUS
  <2>2. Since(t, r.sm, k) /\ r.sm \in Int
    BY <1>1, <2>1, Numbers DEF KeptAt
  <2> QED
    BY <2>2, SinceTick
<1>4. r.early \/ \E u \in Int : /\ 0 - Full - (k + 1) <= u /\ u <= Offset - (k + 1)
                                /\ Away((t + 1) % Hour, r.name, u)
  <2>1. SUFFICES ASSUME ~r.early
                 PROVE  \E u \in Int : /\ 0 - Full - (k + 1) <= u /\ u <= Offset - (k + 1)
                                       /\ Away((t + 1) % Hour, r.name, u)
    OBVIOUS
  <2>2. PICK u \in Int : 0 - Full - k <= u /\ u <= Offset - k /\ Away(t, r.name, u)
    BY <1>1, <2>1 DEF KeptAt
  <2>3. Away((t + 1) % Hour, r.name, u - 1)
    <3>1. PICK m \in 0..(HourMinutes - 1) : m = r.name /\ Away(t, m, u)
      BY <2>2
    <3>2. \A d \in Int : Away((t + d) % Hour, m, u - d)
      BY <3>1, AwayMove
    <3> QED
      BY <3>1, <3>2
  <2>4. 0 - Full - (k + 1) <= u - 1 /\ u - 1 <= Offset - (k + 1) /\ u - 1 \in Int
    BY <2>2, Numbers
  <2> QED
    BY <2>3, <2>4
<1>5. KeptAt(o, (t + 1) % Hour, k + 1)
  BY <1>2, <1>3, <1>4 DEF KeptAt
<1> QED
  BY <1>5 DEF Kept

(* Kept is about these fields only. *)
LEMMA KeptSame ==
  ASSUME NEW t, NEW r, NEW o, Kept(r, t), o.age = r.age, o.early = r.early, o.name = r.name,
         o.sm = r.sm \/ o.sm = UNSET, o.msgs # <<>> => r.msgs # <<>>
  PROVE  Kept(o, t)
BY DEF Kept, KeptAt

-----------------------------------------------------------------------------
(* The actions, as far as the invariants are concerned *)

LEMMA OpensTo ==
  ASSUME Base, NEW c \in Channels, Opens(c)
  PROVE  /\ \A d \in Channels : d # c => chan'[d] = chan[d]
         /\ UNCHANGED <<wall, linked, sched, round, epoch, checked, recheck, steps, ahead>>
         /\ chan'[c].sm = Msec(wall) /\ chan'[c].sm # UNSET
         /\ chan'[c].name = Named /\ chan'[c].early = Early
         /\ chan'[c].first = (chan[c].age = NONE) /\ chan'[c].cause = chan[c].cause
         /\ chan'[c].age \in 0..MaxLag
         /\ \E why \in {"no", "none", "roll"} \cup Causes :
              /\ OpeningOf(c, chan'[c].age, chan'[c].cut, why)
              /\ chan'[c].twin \in {"no", why}
              /\ \/ chan'[c].twin = "no"
                 \/ /\ chan[c].name = Named /\ epoch # NONE /\ ~chan[c].first /\ ~chan[c].early
                    /\ chan[c].age - chan'[c].age > SplitMax /\ steps >= MaxSteps
<1>1. SplitTypeOK /\ Shapes /\ chan[c] \in ChannelType /\ Shape(chan[c])
  BY DEF Base, SplitTypeOK, Shapes
<1>2. PICK lag \in 0..MaxLag, cut \in Int, why \in {"no", "none", "roll"} \cup Causes :
        /\ OpeningOf(c, lag, cut, why) /\ (cut = NONE \/ cut = chan[c].cut)
        /\ chan' = [chan EXCEPT ![c] = Opened(chan[c], lag, cut, why)]
  BY <1>1, OpensIs
<1>3. UNCHANGED <<wall, linked, sched, round, epoch, checked, recheck, steps, ahead>>
  BY <1>1, OpensIs
<1>4. PICK r : r = Opened(chan[c], lag, cut, why)
  OBVIOUS
<1>5. /\ r \in ChannelType /\ r.age = lag /\ r.sm = Msec(wall) /\ r.cut = cut /\ r.name = Named
      /\ r.first = (chan[c].age = NONE) /\ r.cause = chan[c].cause /\ r.early = Early
      /\ r.twin \in {"no", why}
      /\ \/ r.twin = "no"
         \/ /\ chan[c].name = Named /\ epoch # NONE /\ ~chan[c].first /\ ~chan[c].early
            /\ chan[c].age - lag > SplitMax /\ steps >= MaxSteps
  BY <1>1, <1>2, <1>4, OpenedIs DEF Early
<1>6. /\ chan'[c] = r /\ \A d \in Channels : d # c => chan'[d] = chan[d]
  BY <1>1, <1>2, <1>4, <1>5, OneChannel
<1>7. Msec(wall) # UNSET
  <2>1. Msec(wall) \in 0..(Minute - 1)
    BY <1>1, WallIs DEF SplitTypeOK
  <2> QED
    BY <2>1, None
<1>8. chan'[c].age = lag /\ chan'[c].cut = cut /\ chan'[c].twin = r.twin
  BY <1>5, <1>6
<1>9. \E w \in {"no", "none", "roll"} \cup Causes :
              /\ OpeningOf(c, chan'[c].age, chan'[c].cut, w)
              /\ chan'[c].twin \in {"no", w}
              /\ \/ chan'[c].twin = "no"
                 \/ /\ chan[c].name = Named /\ epoch # NONE /\ ~chan[c].first /\ ~chan[c].early
                    /\ chan[c].age - chan'[c].age > SplitMax /\ steps >= MaxSteps
  BY <1>2, <1>5, <1>8, Zenon
<1> QED
  BY <1>3, <1>5, <1>6, <1>7, <1>8, <1>9

(* A stream starts, or a message is taken. *)
Quiet(c) == StreamStart(c) \/ FragmentOpened(c)

LEMMA QuietTo ==
  ASSUME Base, NEW c \in Channels, Quiet(c)
  PROVE  /\ UNCHANGED <<wall, linked, sched, round, epoch, checked, recheck, steps, ahead>>
         /\ \A d \in Channels :
              /\ chan'[d].age = chan[d].age /\ chan'[d].sm = chan[d].sm
              /\ chan'[d].cut = chan[d].cut /\ chan'[d].name = chan[d].name
              /\ chan'[d].first = chan[d].first /\ chan'[d].early = chan[d].early
              /\ chan'[d].cause = chan[d].cause /\ chan'[d].twin = chan[d].twin
              /\ chan'[d].msgs # <<>> => chan[d].msgs # <<>>
<1>1. SplitTypeOK /\ Shapes /\ chan[c] \in ChannelType /\ Shape(chan[c])
  BY DEF Base, SplitTypeOK, Shapes
<1>2. UNCHANGED <<wall, linked, sched, round, epoch, checked, recheck, steps, ahead>>
  BY DEF Quiet, StreamStart, FragmentOpened
<1>3. PICK r \in ChannelType :
        /\ chan' = [chan EXCEPT ![c] = r]
        /\ r.age = chan[c].age /\ r.sm = chan[c].sm /\ r.cut = chan[c].cut
        /\ r.name = chan[c].name /\ r.first = chan[c].first /\ r.early = chan[c].early
        /\ r.cause = chan[c].cause /\ r.twin = chan[c].twin
        /\ r.msgs # <<>> => chan[c].msgs # <<>>
  <2>1. CASE FragmentOpened(c)
    <3>1. chan[c].msgs # <<>>
      BY <2>1 DEF FragmentOpened
    <3>2. chan' = [chan EXCEPT ![c] = Told(chan[c])]
      BY <1>1, <2>1 DEF FragmentOpened, Told, SplitTypeOK
    <3> QED
      BY <1>1, <3>1, <3>2, ToldIs
  <2>2. CASE StreamStart(c)
    <3>1. PICK r : r = [chan[c] EXCEPT !.started = TRUE]
      OBVIOUS
    <3>2. chan' = [chan EXCEPT ![c] = r]
      BY <1>1, <2>2, <3>1 DEF StreamStart, SplitTypeOK
    <3>3. /\ r \in ChannelType
          /\ r.age = chan[c].age /\ r.sm = chan[c].sm /\ r.cut = chan[c].cut
          /\ r.name = chan[c].name /\ r.first = chan[c].first /\ r.early = chan[c].early
          /\ r.cause = chan[c].cause /\ r.twin = chan[c].twin /\ r.msgs = chan[c].msgs
      BY <1>1, <3>1 DEF ChannelType
    <3> QED
      BY <3>2, <3>3
  <2> QED
    BY <2>1, <2>2 DEF Quiet
<1>4. chan'[c] = r /\ \A d \in Channels : d # c => chan'[d] = chan[d]
  BY <1>1, <1>3, OneChannel
<1> QED
  BY <1>2, <1>3, <1>4

(* Splits are asked of the linked channels. *)
LEMMA RequestTo ==
  ASSUME Base, RequestSplits
  PROVE  /\ round # Idle /\ round.cause \in Causes /\ round' = Idle
         /\ UNCHANGED <<wall, linked, sched, epoch, checked, recheck, steps, ahead>>
         /\ \A d \in Channels :
              /\ chan'[d].age = chan[d].age /\ chan'[d].name = chan[d].name
              /\ chan'[d].first = chan[d].first /\ chan'[d].early = chan[d].early
              /\ chan'[d].twin = chan[d].twin /\ chan'[d].msgs = chan[d].msgs
              /\ chan'[d].sm = chan[d].sm \/ chan'[d].sm = UNSET
              /\ \/ chan'[d].cut = chan[d].cut
                 \/ chan[d].cut = NONE /\ chan'[d].cut \in 0..Margin
              /\ d \notin linked => chan'[d] = chan[d]
              /\ d \in linked => chan'[d].cause = round.cause
<1>1. SplitTypeOK /\ Shapes
  BY DEF Base
<1>2. PICK when \in {0, Margin} :
        \A c \in Channels : chan'[c] = IF c \in linked THEN Asked(chan[c], when, round.cause)
                                       ELSE chan[c]
  BY <1>1, RequestIs
<1>3. when \in 0..Margin
  BY Numbers
<1>4. /\ round # Idle /\ round.cause \in Causes /\ round' = Idle
      /\ UNCHANGED <<wall, linked, sched, epoch, checked, recheck, steps, ahead>>
  BY <1>1, RequestIs
<1>5. ASSUME NEW d \in Channels
      PROVE   /\ chan'[d].age = chan[d].age /\ chan'[d].name = chan[d].name
              /\ chan'[d].first = chan[d].first /\ chan'[d].early = chan[d].early
              /\ chan'[d].twin = chan[d].twin /\ chan'[d].msgs = chan[d].msgs
              /\ chan'[d].sm = chan[d].sm \/ chan'[d].sm = UNSET
              /\ \/ chan'[d].cut = chan[d].cut
                 \/ chan[d].cut = NONE /\ chan'[d].cut \in 0..Margin
              /\ d \notin linked => chan'[d] = chan[d]
              /\ d \in linked => chan'[d].cause = round.cause
  <2>1. CASE d \notin linked
    BY <1>2, <2>1
  <2>2. CASE d \in linked
    <3>1. chan'[d] = Asked(chan[d], when, round.cause) /\ chan[d] \in ChannelType /\ Shape(chan[d])
      BY <1>1, <1>2, <2>2 DEF SplitTypeOK, Shapes
    <3>2. PICK r : r = chan[d]
      OBVIOUS
    <3> QED
      BY <1>3, <1>4, <2>2, <3>1, AskedIs
  <2> QED
    BY <2>1, <2>2
<1> QED
  BY <1>4, <1>5

LEMMA TickTo ==
  ASSUME Base, Tick, NEW d \in Channels
  PROVE  /\ chan[d].msgs = <<>> /\ chan'[d].msgs = <<>>
         /\ chan[d].age # NONE <=> chan'[d].age # NONE
         /\ chan[d].age # NONE => chan'[d].age = chan[d].age + 1 /\ chan[d].age >= 0
         /\ chan[d].cut # NONE <=> chan'[d].cut # NONE
         /\ chan[d].age # NONE /\ chan[d].cut # NONE => chan'[d].cut = chan[d].cut - 1
         /\ chan'[d].sm = chan[d].sm /\ chan'[d].name = chan[d].name
         /\ chan'[d].first = chan[d].first /\ chan'[d].early = chan[d].early
         /\ chan'[d].cause = chan[d].cause /\ chan'[d].twin = chan[d].twin
<1>1. /\ chan[d] \in ChannelType /\ Shape(chan[d]) /\ chan[d].msgs = <<>>
      /\ chan[d].age < Full + Longest + MaxLag
      /\ chan[d].cut = NONE \/ chan[d].age = NONE \/ chan[d].cut > 0 - MaxLag
      /\ chan'[d] = OlderChannel(chan[d])
  BY TickIs
<1>2. chan[d].age # NONE => chan[d].age >= 0
  BY <1>1, Numbers DEF Shape
<1> QED
  BY <1>1, <1>2, OlderIs

LEMMA AllKeptStep ==
  ASSUME Base, Toward, Timely, Punctual, [Next]_vars, steps' = steps, AllKept
  PROVE  AllKept'
<1>1. SplitTypeOK /\ Shapes
  BY DEF Base
<1>2. SUFFICES ASSUME NEW d \in Channels, chan'[d].age # NONE
               PROVE  Kept(chan'[d], wall')
  BY DEF AllKept
<1>3. ASSUME UNCHANGED <<chan, wall>> PROVE Kept(chan'[d], wall')
  BY <1>2, <1>3 DEF AllKept
<1>4. ASSUME wall' = wall, chan'[d].age = chan[d].age, chan'[d].early = chan[d].early,
             chan'[d].name = chan[d].name, chan'[d].sm = chan[d].sm \/ chan'[d].sm = UNSET,
             chan'[d].msgs # <<>> => chan[d].msgs # <<>>
      PROVE  Kept(chan'[d], wall')
  <2>1. Kept(chan[d], wall)
    BY <1>2, <1>4 DEF AllKept
  <2>2. Kept(chan'[d], wall)
    BY <1>4, <2>1, KeptSame
  <2> QED
    BY <1>4, <2>2
<1>5. ASSUME NEW c \in Channels, Opens(c) PROVE Kept(chan'[d], wall')
  <2>1. CASE d = c
    <3>1. /\ chan'[d].age \in 0..MaxLag /\ chan'[d].sm = Msec(wall) /\ chan'[d].name = Named
          /\ chan'[d].early = Early /\ wall' = wall
      BY <1>5, <2>1, OpensTo
    <3>2. PICK r : r = chan'[d]
      OBVIOUS
    <3>3. Kept(r, wall)
      BY <3>1, <3>2, KeptOpened
    <3> QED
      BY <3>1, <3>2, <3>3
  <2>2. CASE d # c
    BY <1>4, <1>5, <2>2, OpensTo
  <2> QED
    BY <2>1, <2>2
<1>6. ASSUME NEW c \in Channels, Quiet(c) PROVE Kept(chan'[d], wall')
  BY <1>4, <1>6, QuietTo
<1>7. CASE RequestSplits
  BY <1>4, <1>7, RequestTo
<1>8. CASE RecheckLinks \/ UNCHANGED vars
  BY <1>3, <1>8 DEF RecheckLinks, vars
<1>9. CASE Check
  BY <1>1, <1>3, <1>9, CheckIs
<1>10. CASE Tick
  <2>1. /\ chan[d].age # NONE /\ chan'[d].age = chan[d].age + 1 /\ chan'[d].msgs = <<>>
        /\ chan'[d].sm = chan[d].sm /\ chan'[d].name = chan[d].name
        /\ chan'[d].early = chan[d].early
    BY <1>2, <1>10, TickTo
  <2>2. wall' = (wall + 1) % Hour /\ wall \in Int
    BY <1>1, <1>10, TickIs, Numbers DEF SplitTypeOK
  <2>3. /\ chan[d].age \in Int /\ chan[d].name \in 0..(HourMinutes - 1)
        /\ chan[d].sm = UNSET \/ chan[d].sm \in 0..(Minute - 1)
    BY <1>1, <2>1 DEF SplitTypeOK, ChannelType, Shapes, Shape
  <2>4. Kept(chan[d], wall)
    BY <2>1 DEF AllKept
  <2>5. PICK r, o : r = chan[d] /\ o = chan'[d]
    OBVIOUS
  <2>6. Kept(o, (wall + 1) % Hour)
    BY <2>1, <2>2, <2>3, <2>4, <2>5, KeptOlder
  <2> QED
    BY <2>2, <2>5, <2>6
<1>11. ASSUME NEW s \in Steps, SetClock(s) PROVE FALSE
  <2>1. steps' = steps - 1 /\ steps \in Int
    BY <1>1, <1>11, Sizes DEF SetClock, SplitTypeOK
  <2> QED
    BY <2>1
<1> QED
  BY <1>5, <1>6, <1>7, <1>8, <1>9, <1>10, <1>11 DEF Next, Opens, Quiet

-----------------------------------------------------------------------------
(* What splitCheck() measures *)

(* A non-empty set of naturals has a least element. *)
LEMMA LeastNatural ==
  ASSUME NEW T, T \subseteq Nat, T # {}
  PROVE  \E x \in T : \A y \in T : x <= y
<1> DEFINE R == {p \in Nat \X Nat : p[1] < p[2]}
<1>1. IsWellFoundedOn(R, Nat)
  BY NatLessThanWellFounded DEF OpToRel
<1>2. \E x \in T : \A y \in T : ~(<<y, x>> \in R)
  <2> HIDE DEF R
  <2> QED
    BY <1>1, WFMin
<1>3. \A x, y \in T : ~(<<y, x>> \in R) => x <= y
  OBVIOUS
<1> QED
  BY <1>2, <1>3

LEMMA SpreadIs ==
  ASSUME NEW lo \in Int, NEW hi \in Int, NEW S, S \subseteq lo..hi, S # {}
  PROVE  /\ \E x, y \in S : Spread(S) = x - y
         /\ \A x, y \in S : x - y <= Spread(S)
<1>1. \E x \in S : \A y \in S : x <= y
  <2> DEFINE T == {x - lo : x \in S}
  <2>1. T \subseteq Nat /\ T # {}
    <3>1. \A x \in S : x - lo \in Nat
      OBVIOUS
    <3>2. PICK x \in S : x \in S
      OBVIOUS
    <3>3. x - lo \in T
      BY <3>2
    <3> QED
      BY <3>1, <3>3
  <2> HIDE DEF T
  <2>2. PICK t \in T : \A s \in T : t <= s
    BY <2>1, LeastNatural
  <2>3. PICK x \in S : t = x - lo
    BY DEF T
  <2>4. \A y \in S : y - lo \in T
    BY DEF T
  <2>5. \A y \in S : x <= y
    <3>1. SUFFICES ASSUME NEW y \in S PROVE x <= y
      OBVIOUS
    <3>2. x - lo <= y - lo
      BY <2>2, <2>3, <2>4
    <3>3. x \in Int /\ y \in Int
      OBVIOUS
    <3> QED
      BY <3>2, <3>3
  <2> QED
    BY <2>5
<1>2. \E x \in S : \A y \in S : y <= x
  <2> DEFINE T == {hi - x : x \in S}
  <2>1. T \subseteq Nat /\ T # {}
    <3>1. \A x \in S : hi - x \in Nat
      OBVIOUS
    <3>2. PICK x \in S : x \in S
      OBVIOUS
    <3>3. hi - x \in T
      BY <3>2
    <3> QED
      BY <3>1, <3>3
  <2> HIDE DEF T
  <2>2. PICK t \in T : \A s \in T : t <= s
    BY <2>1, LeastNatural
  <2>3. PICK x \in S : t = hi - x
    BY DEF T
  <2>4. \A y \in S : hi - y \in T
    BY DEF T
  <2>5. \A y \in S : y <= x
    <3>1. SUFFICES ASSUME NEW y \in S PROVE y <= x
      OBVIOUS
    <3>2. hi - x <= hi - y
      BY <2>2, <2>3, <2>4
    <3>3. x \in Int /\ y \in Int
      OBVIOUS
    <3> QED
      BY <3>2, <3>3
  <2> QED
    BY <2>5
<1>3. MinOf(S) \in S /\ \A y \in S : MinOf(S) <= y
  BY <1>1 DEF MinOf
<1>4. MaxOf(S) \in S /\ \A y \in S : y <= MaxOf(S)
  BY <1>2 DEF MaxOf
<1>5. PICK p \in S, q \in S : p = MaxOf(S) /\ q = MinOf(S)
  BY <1>3, <1>4
<1>6. Spread(S) = p - q
  BY <1>5 DEF Spread
<1>7. \A x, y \in S : x - y <= p - q
  <2>1. SUFFICES ASSUME NEW x \in S, NEW y \in S PROVE x - y <= p - q
    OBVIOUS
  <2>2. x <= p /\ q <= y
    BY <1>3, <1>4, <1>5
  <2>3. x \in Int /\ y \in Int /\ p \in Int /\ q \in Int
    OBVIOUS
  <2> QED
    BY <2>2, <2>3
<1> QED
  BY <1>6, <1>7

(* A channel that takes part. *)
LEMMA MeasuredIs ==
  ASSUME Base, NEW c \in Measured
  PROVE  /\ c \in Channels /\ c \in linked /\ chan[c].age \in 0..(Full + Longest + MaxLag)
         /\ chan[c].age # NONE
         /\ chan[c].sm \in 0..(Minute - 1) /\ chan[c].sm # UNSET
         /\ Signed(chan[c].sm) \in (0 - Minute)..Minute
         /\ chan[c].msgs # <<>> => chan[c].age \in 0..MaxLag
         /\ chan[c].msgs = <<>> => ~chan[c].stale /\ chan[c].rt = chan[c].age
         /\ chan[c].msgs # <<>> /\ ~chan[c].stale => chan[c].rt \in 0..MaxLag
<1>1. c \in linked /\ c \in Channels /\ chan[c].sm # UNSET
  BY DEF Measured, Base, SplitTypeOK
<1>2. Shape(chan[c])
  BY <1>1 DEF Base, Shapes
<1>3. chan[c].age # NONE /\ chan[c].age \in 0..(Full + Longest + MaxLag)
      /\ chan[c].sm \in 0..(Minute - 1)
  BY <1>1, <1>2 DEF Shape
<1>4. Signed(chan[c].sm) \in (0 - Minute)..Minute
  <2>1. PICK b \in Int : b = chan[c].sm - StartSec * Second + Minute
    BY <1>3, Sizes
  <2>2. PICK r \in 0..(Minute - 1) : r = Rel(chan[c].sm)
    <3>1. b % Minute \in 0..(Minute - 1)
      BY Numbers
    <3> QED
      BY <2>1, <3>1 DEF Rel
  <2>3. Signed(chan[c].sm) = r \/ Signed(chan[c].sm) = r - Minute
    BY <2>2 DEF Signed
  <2> QED
    BY <2>2, <2>3, Numbers
<1>5. /\ chan[c].msgs # <<>> => chan[c].age \in 0..MaxLag
      /\ chan[c].msgs = <<>> => ~chan[c].stale /\ chan[c].rt = chan[c].age
      /\ chan[c].msgs # <<>> /\ ~chan[c].stale => chan[c].rt \in 0..MaxLag
  BY <1>1, <1>2 DEF Shape
<1> QED
  BY <1>1, <1>3, <1>4, <1>5

LEMMA RunningTimes ==
  ASSUME Base, Usable, NEW c \in Measured
  PROVE  /\ chan[c].rt \in 0..(Full + Longest + MaxLag)
         /\ chan[c].msgs = <<>> => chan[c].rt = chan[c].age
         /\ chan[c].msgs # <<>> => chan[c].rt <= MaxLag /\ chan[c].age <= MaxLag
<1>1. ~chan[c].stale
  BY DEF Usable
<1> QED
  BY <1>1, MeasuredIs, Numbers

(* If the channels do not seem skewed, the times that were compared are close. *)
LEMMA NotSkewed ==
  ASSUME Base, ~Skewed, NEW c \in Measured, NEW d \in Measured, SplitDiff >= 1
  PROVE  /\ Usable => chan[c].rt - chan[d].rt < SplitDiff
         /\ ~Usable => Signed(chan[c].sm) - Signed(chan[d].sm) < SplitDiff
<1>1. CASE c = d
  <2>1. Usable => chan[c].rt - chan[c].rt = 0
    <3>1. Usable => chan[c].rt \in Int
      BY RunningTimes, Numbers
    <3> QED
      BY <3>1
  <2>2. Signed(chan[c].sm) - Signed(chan[c].sm) = 0
    <3>1. Signed(chan[c].sm) \in Int
      BY MeasuredIs, Numbers
    <3> QED
      BY <3>1
  <2> QED
    BY <1>1, <2>1, <2>2, Numbers
<1>2. CASE c # d
  <2>1. IsFiniteSet(Measured) /\ Cardinality(Measured) \in Nat
    <3>1. Measured \in SUBSET Channels
      BY DEF Base, SplitTypeOK, Measured
    <3>2. IsFiniteSet(Measured)
      BY <3>1, SplitCheckAssumption, FS_Subset
    <3> QED
      BY <3>2, FS_CardinalityType
  <2>2. Cardinality(Measured) > 1
    <3>1. Cardinality(Measured) # 0
      BY <2>1, FS_EmptySet
    <3>2. Cardinality(Measured) # 1
      BY <1>2, <2>1, FS_Singleton
    <3> QED
      BY <2>1, <3>1, <3>2
  <2>3. ~(Skew >= SplitDiff)
    BY <2>2 DEF Skewed
  <2>4. CASE Usable
    <3> DEFINE S == {chan[x].rt : x \in Measured}
    <3>1. S \subseteq 0..(Full + Longest + MaxLag)
      BY <2>4, RunningTimes
    <3>2. chan[c].rt \in S /\ chan[d].rt \in S
      OBVIOUS
    <3> HIDE DEF S
    <3> DEFINE top == Full + Longest + MaxLag
    <3>0. 0 \in Int /\ top \in Int /\ S \subseteq 0..top
      BY <3>1, Numbers
    <3> HIDE DEF top
    <3>8. \A x \in S : x \in Int
      BY <3>0
    <3>9. S # {}
      BY <3>2
    <3>3. /\ \E x, y \in S : Spread(S) = x - y
          /\ \A x, y \in S : x - y <= Spread(S)
      BY <3>0, <3>9, SpreadIs
    <3>4. Spread(S) \in Int
      BY <3>8, <3>3
    <3>5. Spread(S) < SplitDiff
      BY <2>3, <2>4, <3>4, Numbers DEF Skew, S
    <3>6. chan[c].rt - chan[d].rt <= Spread(S)
      BY <3>2, <3>3
    <3>7. chan[c].rt \in Int /\ chan[d].rt \in Int
      BY <3>2, <3>8
    <3> QED
      BY <2>4, <3>4, <3>5, <3>6, <3>7, Numbers
  <2>5. CASE ~Usable
    <3> DEFINE S == {Signed(chan[x].sm) : x \in Measured}
    <3>1. S \subseteq (0 - Minute)..Minute
      BY MeasuredIs
    <3>2. Signed(chan[c].sm) \in S /\ Signed(chan[d].sm) \in S
      OBVIOUS
    <3> HIDE DEF S
    <3> DEFINE low == 0 - Minute
    <3>0. low \in Int /\ Minute \in Int /\ S \subseteq low..Minute
      BY <3>1, Numbers
    <3> HIDE DEF low
    <3>8. \A x \in S : x \in Int
      BY <3>0
    <3>9. S # {}
      BY <3>2
    <3>3. /\ \E x, y \in S : Spread(S) = x - y
          /\ \A x, y \in S : x - y <= Spread(S)
      BY <3>0, <3>9, SpreadIs
    <3>4. Spread(S) \in Int
      BY <3>8, <3>3
    <3>5. Spread(S) < SplitDiff
      BY <2>3, <2>5, <3>4, Numbers DEF Skew, S
    <3>6. Signed(chan[c].sm) - Signed(chan[d].sm) <= Spread(S)
      BY <3>2, <3>3
    <3>7. Signed(chan[c].sm) \in Int /\ Signed(chan[d].sm) \in Int
      BY <3>2, <3>8
    <3> QED
      BY <2>5, <3>4, <3>5, <3>6, <3>7, Numbers
  <2> QED
    BY <2>4, <2>5
<1> QED
  BY <1>1, <1>2

(* If they do, a fragment has just opened, or the fragments are not of an  *)
(* age.                                                                    *)
LEMMA SkewedIs ==
  ASSUME Base, Skewed
  PROVE  \/ \E c \in Measured : chan[c].age <= MaxLag
         \/ \E c, d \in Measured : chan[c].age - chan[d].age >= SplitDiff
<1>1. SUFFICES ASSUME \A c \in Measured : ~(chan[c].age <= MaxLag)
               PROVE  \E c, d \in Measured : chan[c].age - chan[d].age >= SplitDiff
  OBVIOUS
<1>2. \A c \in Measured : chan[c].msgs = <<>>
  BY <1>1, MeasuredIs, Numbers
<1>3. \A c \in Measured : /\ ~chan[c].stale /\ chan[c].rt = chan[c].age /\ chan[c].age # NONE
                          /\ chan[c].age \in 0..(Full + Longest + MaxLag)
  BY <1>2, MeasuredIs
<1>4. Usable
  BY <1>3 DEF Usable
<1>5. Cardinality(Measured) > 1 /\ Skew >= SplitDiff
  BY DEF Skewed
<1> DEFINE S == {chan[x].rt : x \in Measured}
<1>6. S \subseteq 0..(Full + Longest + MaxLag)
  BY <1>3
<1>7. S # {}
  <2>1. Measured # {}
    BY <1>5, FS_EmptySet
  <2> QED
    BY <2>1
<1>8. Skew = Spread(S)
  BY <1>4 DEF Skew
<1>9. \A x \in S : \E c \in Measured : x = chan[c].age
  BY <1>3
<1> HIDE DEF S
<1> DEFINE top == Full + Longest + MaxLag
<1>10. 0 \in Int /\ top \in Int /\ S \subseteq 0..top
  BY <1>6, Numbers
<1> HIDE DEF top
<1>11. \E x, y \in S : Spread(S) = x - y
  BY <1>7, <1>10, SpreadIs
<1>12. PICK x \in S, y \in S : Spread(S) = x - y
  BY <1>11
<1> QED
  BY <1>5, <1>8, <1>9, <1>12

-----------------------------------------------------------------------------
(* Cuts that are still to come *)

(* A cut is of the target passed last, unless it was asked before the      *)
(* channel's first fragment; and what was forgotten is of no fragment      *)
(* opened since.                                                           *)
Cutting(r, rd, a) ==
  r.cut # NONE =>
    \/ rd = Idle /\ a - r.cut >= Full - Lateness - Margin
    \/ r.first /\ r.age + r.cut <= Margin

Forgotten(r, a) == r.sm = UNSET => a + r.age >= Full - Lateness

Cuts ==
  \A c \in Channels :
    chan[c].age # NONE => Cutting(chan[c], round, ahead) /\ Forgotten(chan[c], ahead)

(* What has been asked of a channel has been asked after a first target. *)
LEMMA AskedSettled ==
  ASSUME Base, NEW c \in Channels,
         chan[c].cut # NONE \/ (chan[c].age # NONE /\ chan[c].sm = UNSET)
  PROVE  sched.start /\ ~sched.need_first /\ Started = sched /\ Ahead(Started) = ahead
<1>1. sched.start /\ ~sched.need_first
  BY DEF Base, Scheduling, Settled
<1> QED
  BY <1>1, StartedIs DEF Base

LEMMA ChannelIs ==
  ASSUME Base, NEW c \in Channels
  PROVE  /\ chan[c].age \in Int /\ chan[c].cut \in Int /\ ahead \in Int
         /\ chan[c].first \in BOOLEAN /\ chan[c].early \in BOOLEAN
         /\ chan[c].age # NONE => /\ 0 <= chan[c].age /\ chan[c].age <= Full + Longest + MaxLag
                                  /\ chan[c].name \in 0..(HourMinutes - 1)
         /\ chan[c].cut # NONE => 0 - MaxLag <= chan[c].cut /\ chan[c].cut <= Margin
         /\ chan[c].cut # NONE /\ chan[c].age = NONE => 0 <= chan[c].cut
<1>1. chan[c] \in ChannelType /\ Shape(chan[c]) /\ ahead \in Int
  BY DEF Base, SplitTypeOK, Shapes
<1> QED
  BY <1>1, Numbers DEF ChannelType, Shape

LEMMA CutsStep ==
  ASSUME Base, Toward, Timely, Punctual, [Next]_vars, steps' = steps, Cuts
  PROVE  Cuts'
<1>1. SplitTypeOK /\ Shapes /\ Scheduling
  BY DEF Base
<1>2. SUFFICES ASSUME NEW d \in Channels, chan'[d].age # NONE
               PROVE  Cutting(chan'[d], round', ahead') /\ Forgotten(chan'[d], ahead')
  BY DEF Cuts
<1>3. ASSUME UNCHANGED <<round, ahead>>, chan'[d].age = chan[d].age,
             chan'[d].cut = chan[d].cut, chan'[d].first = chan[d].first,
             chan'[d].sm = chan[d].sm
      PROVE  Cutting(chan'[d], round', ahead') /\ Forgotten(chan'[d], ahead')
  BY <1>2, <1>3 DEF Cuts, Cutting, Forgotten
<1>4. PICK age \in Int, cut \in Int, a \in Int :
        /\ age = chan[d].age /\ cut = chan[d].cut /\ a = ahead
        /\ age # NONE => 0 <= age
        /\ cut # NONE => 0 - MaxLag <= cut /\ cut <= Margin
        /\ cut # NONE /\ age = NONE => 0 <= cut
  BY ChannelIs
<1>5. /\ age # NONE /\ cut # NONE =>
           \/ round = Idle /\ a - cut >= Full - Lateness - Margin
           \/ chan[d].first /\ age + cut <= Margin
      /\ age # NONE /\ chan[d].sm = UNSET => a + age >= Full - Lateness
  BY <1>4 DEF Cuts, Cutting, Forgotten
<1>6. ASSUME NEW c \in Channels, Opens(c)
      PROVE  Cutting(chan'[d], round', ahead') /\ Forgotten(chan'[d], ahead')
  <2>1. CASE d # c
    BY <1>3, <1>6, <2>1, OpensTo
  <2>2. CASE d = c
    <3>1. /\ UNCHANGED <<round, ahead>> /\ chan'[d].sm # UNSET
          /\ chan'[d].first = (chan[d].age = NONE) /\ chan'[d].age \in 0..MaxLag
      BY <1>6, <2>2, OpensTo
    <3>2. PICK why : OpeningOf(d, chan'[d].age, chan'[d].cut, why)
      BY <1>6, <2>2, OpensTo
    <3>3. CASE chan[d].age = NONE /\ chan'[d].age = 0 /\ chan'[d].cut = cut
      <4>1. cut # NONE => 0 + cut <= Margin
        BY <1>4, <3>3
      <4> QED
        BY <3>1, <3>3, <4>1 DEF Cutting, Forgotten
    <3>4. CASE /\ age # NONE /\ chan'[d].cut = cut
               /\ cut = NONE \/ age + cut > Full
      <4>1. cut # NONE => ~(age + cut <= Margin)
        BY <3>4, Numbers DEF Punctual
      <4> QED
        BY <1>4, <1>5, <3>1, <3>4, <4>1 DEF Cutting, Forgotten
    <3>5. CASE chan'[d].cut = NONE
      BY <3>1, <3>5 DEF Cutting, Forgotten
    <3> QED
      BY <1>4, <3>2, <3>3, <3>4, <3>5 DEF OpeningOf
  <2> QED
    BY <2>1, <2>2
<1>7. ASSUME NEW c \in Channels, Quiet(c)
      PROVE  Cutting(chan'[d], round', ahead') /\ Forgotten(chan'[d], ahead')
  BY <1>3, <1>7, QuietTo
<1>8. CASE RequestSplits
  <2>1. /\ round # Idle /\ round' = Idle /\ ahead' = ahead
        /\ chan'[d].age = chan[d].age /\ chan'[d].first = chan[d].first
        /\ chan'[d].cut = chan[d].cut \/ (chan[d].cut = NONE /\ chan'[d].cut \in 0..Margin)
    BY <1>8, RequestTo
  <2>2. Full - Lateness <= a
    BY <1>1, <1>4, <2>1 DEF Scheduling, Settled, Timely, OnTime
  <2>3. Forgotten(chan'[d], ahead')
    BY <1>2, <1>4, <2>1, <2>2, Numbers DEF Forgotten
  <2>4. CASE chan'[d].cut = chan[d].cut
    BY <1>2, <1>4, <1>5, <2>1, <2>3, <2>4 DEF Cutting
  <2>5. CASE chan'[d].cut \in 0..Margin
    <3>1. PICK k \in 0..Margin : k = chan'[d].cut
      BY <2>5
    <3>2. a - k >= Full - Lateness - Margin
      BY <2>2, Numbers
    <3> QED
      BY <1>4, <2>1, <2>3, <3>1, <3>2 DEF Cutting
  <2> QED
    BY <2>1, <2>4, <2>5
<1>9. CASE RecheckLinks \/ UNCHANGED vars
  BY <1>3, <1>9 DEF RecheckLinks, vars
<1>10. CASE Tick
  <2>1. /\ round = Idle /\ round' = Idle /\ ahead' = (IF sched.start THEN a - 1 ELSE 0)
    BY <1>4, <1>10, TickIs
  <2>2. /\ age # NONE /\ chan'[d].age = age + 1 /\ chan'[d].first = chan[d].first
        /\ chan'[d].sm = chan[d].sm
        /\ cut # NONE <=> chan'[d].cut # NONE
        /\ cut # NONE => chan'[d].cut = cut - 1
    BY <1>2, <1>4, <1>10, TickTo
  <2>3. Forgotten(chan'[d], ahead')
    <3>1. SUFFICES ASSUME chan[d].sm = UNSET PROVE ahead' + chan'[d].age >= Full - Lateness
      BY <2>2 DEF Forgotten
    <3>2. ahead' = a - 1
      BY <1>4, <2>1, <2>2, <3>1, AskedSettled
    <3> QED
      BY <1>4, <1>5, <2>2, <3>1, <3>2, Numbers
  <2>4. Cutting(chan'[d], round', ahead')
    <3>1. SUFFICES ASSUME cut # NONE
                   PROVE  \/ ahead' - chan'[d].cut >= Full - Lateness - Margin
                          \/ chan[d].first /\ chan'[d].age + chan'[d].cut <= Margin
      BY <2>1, <2>2 DEF Cutting
    <3>2. ahead' = a - 1
      BY <1>4, <2>1, <3>1, AskedSettled
    <3>3. chan'[d].age = age + 1 /\ chan'[d].cut = cut - 1
      BY <2>2, <3>1
    <3>4. /\ (a - 1) - (cut - 1) = a - cut
          /\ (age + 1) + (cut - 1) = age + cut
      OBVIOUS
    <3> QED
      BY <1>5, <2>2, <3>1, <3>2, <3>3, <3>4
  <2> QED
    BY <2>3, <2>4
<1>11. CASE Check
  <2>1. chan' = chan /\ ((~sched.start /\ UNCHANGED <<sched, round, epoch, ahead>>) \/ Stays \/ Passes)
    BY <1>1, <1>11, CheckIs
  <2>2. CASE UNCHANGED <<sched, round, epoch, ahead>>
    BY <1>3, <2>1, <2>2
  <2>3. SUFFICES ASSUME cut # NONE \/ chan[d].sm = UNSET, Stays \/ Passes
                 PROVE  Cutting(chan[d], round', ahead') /\ Forgotten(chan[d], ahead')
    BY <1>4, <2>1, <2>2 DEF Cutting, Forgotten
  <2>4. Ahead(Started) = a
    BY <1>2, <1>4, <2>1, <2>3, AskedSettled
  <2>5. CASE Stays
    BY <1>3, <1>4, <2>1, <2>4, <2>5 DEF Stays
  <2>6. CASE Passes
    <3>1. ahead' = a + Full
      BY <2>4, <2>6 DEF Passes
    <3>2. a <= 0
      <4>1. Diff(Started.target) \in Int /\ ~(Diff(Started.target) < 0)
        BY <2>6, StartedOnTime DEF Passes
      <4> QED
        BY <2>4, <4>1, StartedOnTime
    <3>3. cut # NONE => ~(a - cut >= Full - Lateness - Margin)
      BY <1>4, <3>2, Numbers DEF Punctual
    <3>4. Cutting(chan[d], round', ahead')
      BY <1>2, <1>4, <1>5, <2>1, <3>3 DEF Cutting
    <3>5. Forgotten(chan[d], ahead')
      <4>1. a + Full + age >= Full - Lateness \/ chan[d].sm # UNSET
        BY <1>2, <1>4, <1>5, <2>1, Numbers
      <4> QED
        BY <1>4, <3>1, <4>1 DEF Forgotten
    <3> QED
      BY <3>4, <3>5
  <2> QED
    BY <2>3, <2>5, <2>6
<1>12. ASSUME NEW s \in Steps, SetClock(s) PROVE FALSE
  <2>1. steps' = steps - 1 /\ steps \in Int
    BY <1>1, <1>12, Sizes DEF SetClock, SplitTypeOK
  <2> QED
    BY <2>1
<1> QED
  BY <1>6, <1>7, <1>8, <1>9, <1>10, <1>11, <1>12 DEF Next, Opens, Quiet

-----------------------------------------------------------------------------
(* Before the first target has been passed *)

(* Until the links are read again, every fragment is its channel's first.  *)
LinksFirst ==
  ~sched.start \/ sched.need_first =>
    \A c \in Channels :
      chan[c].age # NONE /\ recheck # NONE => chan[c].first /\ chan[c].age <= RecheckAt - recheck

LEMMA LinksFirstStep ==
  ASSUME Base, LinksFirst, RecheckAt < Full, [Next]_vars
  PROVE  LinksFirst'
<1>1. SplitTypeOK /\ Shapes /\ Scheduling
  BY DEF Base
<1>2. recheck = NONE \/ recheck \in 0..RecheckAt
  BY <1>1 DEF SplitTypeOK
<1>3. SUFFICES ASSUME ~sched'.start \/ sched'.need_first, NEW d \in Channels,
                      chan'[d].age # NONE, recheck' # NONE
               PROVE  chan'[d].first /\ chan'[d].age <= RecheckAt - recheck'
  BY DEF LinksFirst
<1>4. ASSUME UNCHANGED <<sched, recheck>>, chan'[d].age = chan[d].age,
             chan'[d].first = chan[d].first
      PROVE  chan'[d].first /\ chan'[d].age <= RecheckAt - recheck'
  BY <1>3, <1>4 DEF LinksFirst
<1>5. ASSUME NEW c \in Channels, Opens(c)
      PROVE  chan'[d].first /\ chan'[d].age <= RecheckAt - recheck'
  <2>1. CASE d # c
    BY <1>4, <1>5, <2>1, OpensTo
  <2>2. CASE d = c
    <3>1. /\ UNCHANGED <<sched, recheck>> /\ chan'[d].age \in 0..MaxLag
          /\ chan'[d].first = (chan[d].age = NONE)
      BY <1>5, <2>2, OpensTo
    <3>2. PICK why : OpeningOf(d, chan'[d].age, chan'[d].cut, why)
      BY <1>5, <2>2, OpensTo
    <3>3. recheck \in 0..RecheckAt
      BY <1>2, <1>3, <3>1
    <3>4. CASE chan[d].age = NONE /\ chan'[d].age = 0
      <4>1. chan'[d].first
        BY <3>1, <3>4, Zenon
      <4>2. PICK k \in 0..RecheckAt : k = recheck'
        BY <3>1, <3>3
      <4>3. 0 <= RecheckAt - k
        BY Numbers
      <4> QED
        BY <3>4, <4>1, <4>2, <4>3
    <3>5. CASE chan[d].age # NONE /\ chan[d].age - chan'[d].age >= Full
      <4>1. chan[d].age <= RecheckAt - recheck /\ chan[d].age \in Int
        BY <1>3, <3>1, <3>5, ChannelIs DEF LinksFirst
      <4> QED
        BY <3>1, <3>3, <3>5, <4>1, Numbers
    <3>6. CASE chan[d].cut # NONE
      BY <1>3, <3>1, <3>6, AskedSettled
    <3> QED
      BY <3>2, <3>4, <3>5, <3>6 DEF OpeningOf
  <2> QED
    BY <2>1, <2>2
<1>6. ASSUME NEW c \in Channels, Quiet(c)
      PROVE  chan'[d].first /\ chan'[d].age <= RecheckAt - recheck'
  BY <1>4, <1>6, QuietTo
<1>7. CASE RequestSplits
  BY <1>4, <1>7, RequestTo
<1>8. CASE RecheckLinks
  BY <1>3, <1>8 DEF RecheckLinks
<1>9. CASE UNCHANGED vars
  BY <1>4, <1>9 DEF vars
<1>10. CASE Tick
  <2>1. /\ sched'.start = sched.start /\ sched'.need_first = sched.need_first
        /\ recheck # 0 /\ recheck' = IF recheck = NONE THEN NONE ELSE recheck - 1
    BY <1>10, TickIs
  <2>2. /\ chan[d].age # NONE /\ chan'[d].age = chan[d].age + 1
        /\ chan'[d].first = chan[d].first
    BY <1>3, <1>10, TickTo
  <2>3. chan[d].first /\ chan[d].age <= RecheckAt - recheck /\ recheck # NONE /\ chan[d].age \in Int
    BY <1>3, <2>1, <2>2, ChannelIs DEF LinksFirst
  <2>4. recheck \in Int /\ recheck' = recheck - 1
    BY <1>2, <2>1, <2>3, Numbers
  <2> QED
    BY <2>2, <2>3, <2>4, Numbers
<1>11. CASE Check
  <2>1. /\ UNCHANGED <<chan, recheck>>
        /\ ((~sched.start /\ UNCHANGED <<sched, round, epoch, ahead>>) \/ Stays \/ Passes)
    BY <1>1, <1>11, CheckIs
  <2>2. CASE UNCHANGED sched
    BY <1>4, <2>1, <2>2
  <2>3. CASE Stays
    <3>1. ~sched.start \/ sched.need_first
      BY <1>1, <1>3, <2>3, StartedIs DEF Stays
    <3> QED
      BY <1>3, <2>1, <3>1 DEF LinksFirst
  <2>4. CASE Passes
    BY <1>1, <1>3, <2>4, StartedIs, PassedIs DEF Passes
  <2> QED
    BY <2>1, <2>2, <2>3, <2>4
<1>12. ASSUME NEW s \in Steps, SetClock(s)
       PROVE  chan'[d].first /\ chan'[d].age <= RecheckAt - recheck'
  BY <1>4, <1>12 DEF SetClock
<1> QED
  BY <1>5, <1>6, <1>7, <1>8, <1>9, <1>10, <1>11, <1>12 DEF Next, Opens, Quiet

(* Of the channels of li, a fragment has just opened, or is not in time, or *)
(* two are not of an age.                                                  *)
Disturbed(ch, li, late) ==
  \/ \E c \in li : ch[c].sm # UNSET /\ ch[c].age <= MaxLag + late
  \/ \E c \in li : ch[c].sm # UNSET /\ Drift(ch[c].sm) >= SplitMax
  \/ \E c, d \in li : /\ ch[c].sm # UNSET /\ ch[d].sm # UNSET
                      /\ ch[c].age - ch[d].age >= SplitDiff

(* A first target that is not passed when its time has come, although a    *)
(* channel has gone on to another fragment, has been withheld.             *)
Memory ==
  /\ sched.need_first /\ (ahead < 0 \/ (ahead = 0 /\ checked))
  /\ \E c \in linked : chan[c].age # NONE /\ ~chan[c].first
  => Disturbed(chan, linked, IF checked THEN 0 ELSE 1)

(* What is disturbed still is if the measurements stay, and in a tick.     *)
LEMMA DisturbedStill ==
  ASSUME NEW ch, NEW new, NEW li, NEW late \in Int, NEW on \in Int,
         \A c \in li : ch[c].age \in Int,
         \A c \in li : ch[c].sm # UNSET =>
                          new[c].sm = ch[c].sm /\ new[c].age = ch[c].age + on,
         Disturbed(ch, li, late)
  PROVE  Disturbed(new, li, late + on)
<1>1. CASE \E c \in li : ch[c].sm # UNSET /\ ch[c].age <= MaxLag + late
  <2>1. PICK c \in li : ch[c].sm # UNSET /\ ch[c].age <= MaxLag + late
    BY <1>1
  <2>2. new[c].sm # UNSET /\ new[c].age <= MaxLag + (late + on)
    BY <2>1, Numbers
  <2> QED
    BY <2>2 DEF Disturbed
<1>2. CASE \E c \in li : ch[c].sm # UNSET /\ Drift(ch[c].sm) >= SplitMax
  BY <1>2 DEF Disturbed
<1>3. CASE \E c, d \in li : /\ ch[c].sm # UNSET /\ ch[d].sm # UNSET
                            /\ ch[c].age - ch[d].age >= SplitDiff
  <2>1. PICK c \in li, d \in li : /\ ch[c].sm # UNSET /\ ch[d].sm # UNSET
                                  /\ ch[c].age - ch[d].age >= SplitDiff
    BY <1>3
  <2>2. /\ new[c].sm # UNSET /\ new[d].sm # UNSET
        /\ new[c].age - new[d].age >= SplitDiff
    BY <2>1, Numbers
  <2> QED
    BY <2>2 DEF Disturbed
<1> QED
  BY <1>1, <1>2, <1>3 DEF Disturbed

LEMMA MemoryStep ==
  ASSUME Base, Toward, Timely, Punctual, LinksFirst, [Next]_vars, steps' = steps, Memory
  PROVE  Memory'
<1>1. SplitTypeOK /\ Shapes /\ Scheduling
  BY DEF Base
<1>2. linked \subseteq Channels /\ checked \in BOOLEAN /\ ahead \in Int
  BY <1>1 DEF SplitTypeOK
<1>3. \A c \in linked : chan[c].age \in Int
  BY <1>2, ChannelIs
<1> DEFINE late == IF checked THEN 0 ELSE 1
<1>4. late \in Int /\ late >= 0
  BY <1>2
<1>5. ASSUME UNCHANGED <<sched, ahead, checked, linked>>,
             \A d \in linked : /\ chan'[d].age = chan[d].age /\ chan'[d].sm = chan[d].sm
                               /\ chan'[d].first = chan[d].first
      PROVE  Memory'
  <2>1. SUFFICES ASSUME /\ sched.need_first /\ (ahead < 0 \/ (ahead = 0 /\ checked))
                        /\ \E c \in linked : chan'[c].age # NONE /\ ~chan'[c].first
                 PROVE  Disturbed(chan', linked, late)
    BY <1>5 DEF Memory
  <2>2. Disturbed(chan, linked, late)
    BY <1>5, <2>1 DEF Memory
  <2>3. PICK ch, new : ch = chan /\ new = chan'
    OBVIOUS
  <2>4. \A d \in linked : new[d].sm = ch[d].sm /\ new[d].age = ch[d].age
    BY <1>5, <2>3
  <2> HIDE DEF late
  <2>5. Disturbed(new, linked, late)
    BY <2>2, <2>3, <2>4 DEF Disturbed
  <2> QED
    BY <2>3, <2>5
<1>6. ASSUME NEW c \in Channels, Opens(c) PROVE Memory'
  <2>1. /\ \A d \in Channels : d # c => chan'[d] = chan[d]
        /\ UNCHANGED <<sched, ahead, checked, linked>>
        /\ chan'[c].sm # UNSET /\ chan'[c].age \in 0..MaxLag
    BY <1>6, OpensTo
  <2>2. CASE c \in linked
    <3>1. chan'[c].age <= MaxLag + late
      BY <1>4, <2>1, Numbers
    <3>2. Disturbed(chan', linked', late)
      BY <2>1, <2>2, <3>1 DEF Disturbed
    <3> QED
      BY <2>1, <3>2 DEF Memory
  <2>3. CASE c \notin linked
    BY <1>2, <1>5, <2>1, <2>3
  <2> QED
    BY <2>2, <2>3
<1>7. ASSUME NEW c \in Channels, Quiet(c) PROVE Memory'
  BY <1>2, <1>5, <1>7, QuietTo
<1>8. CASE RequestSplits
  <2>1. round # Idle /\ sched' = sched
    BY <1>8, RequestTo
  <2>2. ~sched.need_first
    BY <1>1, <2>1 DEF Scheduling, Settled
  <2> QED
    BY <2>1, <2>2 DEF Memory
<1>9. CASE RecheckLinks
  <2>1. /\ recheck = 0 /\ UNCHANGED <<sched, chan>> /\ linked' \subseteq Channels
    BY <1>2, <1>9 DEF RecheckLinks
  <2>2. SUFFICES ASSUME sched.need_first, NEW c \in Channels, chan[c].age # NONE, ~chan[c].first
                 PROVE  FALSE
    BY <2>1 DEF Memory
  <2> QED
    BY <2>1, <2>2, None DEF LinksFirst
<1>10. CASE UNCHANGED vars
  BY <1>5, <1>10 DEF vars
<1>11. CASE Tick
  <2>1. /\ checked /\ ~checked' /\ linked' = linked
        /\ ahead' = (IF sched.start THEN ahead - 1 ELSE 0)
        /\ sched'.need_first = sched.need_first
    BY <1>11, TickIs
  <2>2. \A d \in linked : /\ chan[d].age # NONE <=> chan'[d].age # NONE
                          /\ chan[d].age # NONE => chan'[d].age = chan[d].age + 1
                          /\ chan'[d].sm = chan[d].sm /\ chan'[d].first = chan[d].first
    BY <1>2, <1>11, TickTo
  <2>3. SUFFICES ASSUME sched.need_first, ahead' < 0 \/ (ahead' = 0 /\ checked'),
                        \E c \in linked : chan'[c].age # NONE /\ ~chan'[c].first
                 PROVE  Disturbed(chan', linked, 1)
    BY <2>1 DEF Memory
  <2>4. ahead < 0 \/ (ahead = 0 /\ checked)
    <3>1. ahead' = ahead - 1
      BY <1>1, <2>1, <2>3 DEF Scheduling
    <3> QED
      BY <1>2, <2>1, <2>3, <3>1
  <2>5. \E c \in linked : chan[c].age # NONE /\ ~chan[c].first
    BY <2>2, <2>3
  <2>6. Disturbed(chan, linked, 0)
    BY <2>1, <2>3, <2>4, <2>5 DEF Memory
  <2>7. \A d \in linked : chan[d].sm # UNSET => chan[d].age # NONE
    BY <1>1, <1>2 DEF Shapes, Shape
  <2>8. PICK ch, new : ch = chan /\ new = chan'
    OBVIOUS
  <2>9. \A c \in linked : ch[c].age \in Int
    BY <1>3, <2>8
  <2>10. \A c \in linked : ch[c].sm # UNSET =>
                          new[c].sm = ch[c].sm /\ new[c].age = ch[c].age + 1
    BY <2>2, <2>7, <2>8
  <2>11. Disturbed(ch, linked, 0) /\ 0 \in Int /\ 1 \in Int
    BY <2>6, <2>8
  <2>12. Disturbed(new, linked, 0 + 1)
    BY <2>9, <2>10, <2>11, DisturbedStill
  <2> QED
    BY <2>8, <2>12
<1>12. CASE Check
  <2>1. /\ UNCHANGED <<chan, linked>> /\ checked' = TRUE
        /\ ((~sched.start /\ UNCHANGED <<sched, round, epoch, ahead>>) \/ Stays \/ Passes)
    BY <1>1, <1>12, CheckIs
  <2>2. CASE ~sched.start /\ UNCHANGED sched
    BY <1>1, <2>2 DEF Memory, Scheduling
  <2>3. CASE Stays
    <3>1. sched' = Started /\ ahead' = Ahead(Started)
      BY <2>3 DEF Stays
    <3>2. SUFFICES ASSUME Started.need_first, Ahead(Started) < 0 \/ Ahead(Started) = 0
                   PROVE  Disturbed(chan, linked, 0)
      BY <2>1, <3>1 DEF Memory
    <3>3. Diff(Started.target) >= 0
      <4>1. Ahead(Started) \in Int /\ Diff(Started.target) \in Int
        BY TargetAway, StartedOnTime
      <4>2. ~(Diff(Started.target) < 0)
        BY <3>2, <4>1, StartedOnTime
      <4> QED
        BY <4>1, <4>2
    <3>4. ~InTime \/ Skewed
      <4>1. Diff(Started.target) \in Int
        BY StartedOnTime
      <4> QED
        BY <2>3, <3>3, <4>1 DEF Stays
    <3>5. CASE ~InTime
      <4>1. PICK c \in Measured : ~(Drift(chan[c].sm) < SplitMax)
        BY <3>5 DEF InTime
      <4>2. Drift(chan[c].sm) \in Int
        BY <4>1, MeasuredIs, Numbers DEF Drift
      <4>3. Drift(chan[c].sm) >= SplitMax
        BY <4>1, <4>2, Numbers
      <4> QED
        BY <4>1, <4>3, MeasuredIs DEF Disturbed
    <3>6. CASE Skewed
      <4>1. CASE \E c \in Measured : chan[c].age <= MaxLag
        <5>1. PICK c \in Measured : chan[c].age <= MaxLag
          BY <4>1
        <5>2. chan[c].age <= MaxLag + 0 /\ c \in linked /\ chan[c].sm # UNSET
          BY <5>1, MeasuredIs, Numbers
        <5> QED
          BY <5>2 DEF Disturbed
      <4>2. CASE \E c, d \in Measured : chan[c].age - chan[d].age >= SplitDiff
        <5>1. PICK c \in Measured, d \in Measured : chan[c].age - chan[d].age >= SplitDiff
          BY <4>2
        <5>2. c \in linked /\ chan[c].sm # UNSET /\ d \in linked /\ chan[d].sm # UNSET
          BY MeasuredIs
        <5> QED
          BY <5>1, <5>2 DEF Disturbed
      <4> QED
        BY <3>6, <4>1, <4>2, SkewedIs
    <3> QED
      BY <3>4, <3>5, <3>6
  <2>4. CASE Passes
    <3>1. ~sched'.need_first
      BY <1>1, <2>4, StartedIs, PassedIs DEF Passes
    <3> QED
      BY <3>1 DEF Memory
  <2> QED
    BY <2>1, <2>2, <2>3, <2>4
<1>13. ASSUME NEW s \in Steps, SetClock(s) PROVE FALSE
  <2>1. steps' = steps - 1 /\ steps \in Int
    BY <1>1, <1>13, Sizes DEF SetClock, SplitTypeOK
  <2> QED
    BY <2>1
<1> QED
  BY <1>6, <1>7, <1>8, <1>9, <1>10, <1>11, <1>12, <1>13 DEF Next, Opens, Quiet

-----------------------------------------------------------------------------
(* What splitCheck() knows when it passes a target *)

(* A fragment opened before this one would destroy it, if it got the same  *)
(* name, that of minute m.                                                 *)
Again(r, m) == ~r.first /\ ~r.early /\ r.name = m

Passing == Base /\ Toward /\ Timely /\ AllKept /\ Diff(Started.target) >= 0

LEMMA PassingIs ==
  ASSUME Passing, Punctual
  PROVE  \E m \in 0..(HourMinutes - 1), a \in Int :
           /\ m = Started.target /\ a = Ahead(Started) /\ Away(wall, m, a)
           /\ 0 - Lateness <= a /\ a <= 0
<1>1. PICK m \in 0..(HourMinutes - 1), a \in Int :
        m = Started.target /\ a = Ahead(Started) /\ Away(wall, m, a)
  BY TargetAway DEF Passing
<1>2. 0 - Lateness <= a
  BY <1>1, StartedOnTime DEF Passing
<1>3. a <= 0
  <2>1. Diff(Started.target) \in Int /\ ~(Diff(Started.target) < 0)
    BY StartedOnTime DEF Passing
  <2> QED
    BY <1>1, <2>1, StartedOnTime DEF Passing
<1> QED
  BY <1>1, <1>2, <1>3

(* The error that is measured. *)
LEMMA PassingSigned ==
  ASSUME Passing, Punctual, NEW d \in Measured, NEW o \in Int, KeptAt(chan[d], wall, o),
         Ahead(Started) + o < Minute - MaxDrift
  PROVE  Signed(chan[d].sm) = 0 - (Ahead(Started) + o)
<1>1. PICK m \in 0..(HourMinutes - 1), a \in Int :
        /\ m = Started.target /\ a = Ahead(Started) /\ Away(wall, m, a)
        /\ 0 - Lateness <= a /\ a <= 0
  BY PassingIs
<1>2. PICK sm \in 0..(Minute - 1) : sm = chan[d].sm /\ Since(wall, sm, o) /\ 0 <= o
  <2>1. chan[d].sm \in 0..(Minute - 1) /\ chan[d].sm # UNSET
    BY MeasuredIs DEF Passing
  <2> QED
    BY <2>1 DEF KeptAt
<1>3. wall \in Int
  BY Numbers DEF Passing, Base, SplitTypeOK
<1>4. /\ 0 - (a + o) <= MaxDrift /\ MaxDrift < Minute
      /\ MaxDrift - Minute < 0 - (a + o)
  <2>1. Lateness <= MaxDrift /\ MaxDrift + SplitMax <= Minute /\ 1 <= SplitMax
    BY Numbers DEF Punctual
  <2> QED
    BY <1>1, <1>2, <2>1, Numbers
<1>5. Signed(sm) = 0 - (a + o)
  BY <1>1, <1>2, <1>3, <1>4, SignedSince
<1> QED
  BY <1>1, <1>2, <1>5

(* A fragment that would be destroyed, and is not the least of all, was    *)
(* opened before the target second of its name, o ticks ago, and takes     *)
(* part.                                                                   *)
OldAt(c, o) ==
  /\ c \in Measured /\ KeptAt(chan[c], wall, o) /\ chan[c].msgs = <<>>
  /\ chan[c].age + Margin > SplitMax
  /\ Ahead(Started) <= Offset - o
  /\ o >= Offset + SplitDiff + 1

LEMMA OldIs ==
  ASSUME Passing, Punctual, Cuts, NEW c \in linked, chan[c].age # NONE,
         Again(chan[c], Started.target), chan[c].age + Margin > SplitMax
  PROVE  \E o \in Int : OldAt(c, o)
<1>1. PICK m \in 0..(HourMinutes - 1), a \in Int :
        /\ m = Started.target /\ a = Ahead(Started) /\ Away(wall, m, a)
        /\ 0 - Lateness <= a /\ a <= 0
  BY PassingIs
<1>2. c \in Channels /\ wall \in Int
  BY Numbers DEF Passing, Base, SplitTypeOK
<1>3. PICK age \in Int : age = chan[c].age /\ 0 <= age /\ age <= Full + Longest + MaxLag
  BY <1>2, ChannelIs DEF Passing
<1>4. PICK o \in Int : KeptAt(chan[c], wall, o)
  BY <1>2 DEF Passing, AllKept, Kept
<1>5. 0 <= o /\ o <= age /\ age - MaxLag <= o
  BY <1>3, <1>4 DEF KeptAt
<1>6. PICK u \in Int : 0 - Full - o <= u /\ u <= Offset - o /\ Away(wall, m, u)
  BY <1>1, <1>4 DEF KeptAt, Again
<1>7. u = a
  <2>1. u - a < Hour
    <3>1. Lateness + Offset < Full /\ Full < Hour
      BY Numbers DEF Punctual
    <3> QED
      BY <1>1, <1>5, <1>6, <3>1, Numbers
  <2>2. a - u < Hour
    <3>1. 2 * Full + Longest + MaxLag < Hour
      <4>1. PICK half \in Int : half = Full \div 2 /\ half >= 0
        BY Numbers
      <4> QED
        BY <4>1, Numbers DEF Punctual
    <3>2. a - u <= Full + o
      BY <1>1, <1>6, Numbers
    <3> QED
      BY <1>3, <1>5, <3>1, <3>2, Numbers
  <2> QED
    BY <1>1, <1>2, <1>6, <2>1, <2>2, AwayOnce
<1>8. a <= Offset - o
  BY <1>6, <1>7
<1>9. o >= Offset + SplitDiff + 1
  <2>1. Offset + MaxLag + Margin + SplitDiff <= SplitMax /\ age + Margin > SplitMax
    BY <1>3 DEF Punctual
  <2> QED
    BY <1>3, <1>5, <2>1, Numbers
<1>10. chan[c].msgs = <<>>
  BY <1>4, <1>9, Numbers DEF KeptAt
<1>11. c \in Measured
  <2>1. SUFFICES ASSUME chan[c].sm = UNSET PROVE FALSE
    BY DEF Measured
  <2>2. a = ahead
    BY <1>1, <1>2, <2>1, AskedSettled DEF Passing
  <2>3. a + age >= Full - Lateness
    BY <1>2, <1>3, <2>1, <2>2 DEF Cuts, Forgotten
  <2>4. Lateness + Offset + Margin + MaxLag + 1 < Full
    BY DEF Punctual
  <2> QED
    BY <1>3, <1>5, <1>8, <2>3, <2>4, Numbers
<1> QED
  BY <1>1, <1>3, <1>4, <1>8, <1>9, <1>10, <1>11 DEF OldAt

(* If then the channels do not seem skewed, no fragment has just opened,   *)
(* and all are of an age.                                                  *)
LEMMA AgesClose ==
  ASSUME Passing, Punctual, ~Skewed, NEW c, NEW o \in Int, OldAt(c, o)
  PROVE  \A d, e \in Measured :
           chan[d].msgs = <<>> /\ chan[d].age - chan[e].age < SplitDiff
<1>1. PICK m \in 0..(HourMinutes - 1), a \in Int :
        /\ m = Started.target /\ a = Ahead(Started) /\ Away(wall, m, a)
        /\ 0 - Lateness <= a /\ a <= 0
  BY PassingIs
<1>2. /\ c \in Measured /\ KeptAt(chan[c], wall, o) /\ chan[c].msgs = <<>>
      /\ chan[c].age + Margin > SplitMax /\ a <= Offset - o /\ o >= Offset + SplitDiff + 1
  BY <1>1 DEF OldAt
<1>3. Base /\ SplitDiff >= 1
  BY DEF Passing, Punctual
<1>4. PICK age \in Int : age = chan[c].age /\ 0 <= age
  BY <1>2, <1>3, MeasuredIs, Numbers
<1>5. Usable
  <2>1. SUFFICES ASSUME ~Usable PROVE FALSE
    OBVIOUS
  <2>2. PICK d \in Measured : ~(~chan[d].stale /\ chan[d].rt # NONE)
    BY <2>1 DEF Usable
  <2>3. chan[d].msgs # <<>>
    BY <1>3, <2>2, MeasuredIs
  <2>4. KeptAt(chan[d], wall, 0)
    <3>1. d \in Channels /\ chan[d].age # NONE
      BY <1>3, MeasuredIs
    <3>2. PICK k \in Int : KeptAt(chan[d], wall, k)
      BY <3>1 DEF Passing, AllKept, Kept
    <3>3. k = 0
      BY <2>3, <3>2 DEF KeptAt
    <3> QED
      BY <3>2, <3>3
  <2>5. /\ a + 0 < Minute - MaxDrift /\ a + o < Minute - MaxDrift
    <3>1. MaxDrift + SplitMax <= Minute /\ Offset < SplitMax
      BY Numbers DEF Punctual
    <3>2. a <= 0 /\ a + o <= Offset
      BY <1>1, <1>2, Numbers
    <3> QED
      BY <3>1, <3>2, Numbers
  <2>6. Signed(chan[d].sm) = 0 - (a + 0)
    <3>1. 0 \in Int
      OBVIOUS
    <3> QED
      BY <1>1, <2>4, <2>5, <3>1, PassingSigned
  <2>7. Signed(chan[c].sm) = 0 - (a + o)
    BY <1>1, <1>2, <2>5, PassingSigned
  <2>8. Signed(chan[d].sm) - Signed(chan[c].sm) < SplitDiff
    BY <1>2, <1>3, <2>1, NotSkewed
  <2>9. o < SplitDiff
    BY <2>6, <2>7, <2>8, Numbers
  <2> QED
    BY <1>2, <2>9, Numbers
<1>6. ASSUME NEW d \in Measured
      PROVE  chan[d].msgs = <<>> /\ chan[d].rt = chan[d].age
  <2>1. chan[c].rt = age
    BY <1>2, <1>3, <1>4, <1>5, RunningTimes
  <2>2. age - chan[d].rt < SplitDiff
    BY <1>2, <1>3, <1>5, <2>1, NotSkewed
  <2>3. chan[d].rt \in Int
    BY <1>3, <1>5, RunningTimes, Numbers
  <2>4. chan[d].rt > MaxLag
    <3>1. Offset + MaxLag + Margin + SplitDiff <= SplitMax /\ age + Margin > SplitMax
      BY <1>2, <1>4 DEF Punctual
    <3> QED
      BY <2>2, <2>3, <3>1, Numbers
  <2>5. ~(chan[d].rt <= MaxLag)
    BY <2>3, <2>4, Numbers
  <2> QED
    BY <1>3, <1>5, <2>5, RunningTimes
<1>7. \A d, e \in Measured : chan[d].rt - chan[e].rt < SplitDiff
  BY <1>3, <1>5, NotSkewed
<1> QED
  BY <1>6, <1>7

(* And they all seem to be in time. *)
LEMMA AllInTime ==
  ASSUME Passing, Punctual, ~Skewed, NEW c, NEW o \in Int, OldAt(c, o), NEW d \in Measured
  PROVE  Drift(chan[d].sm) < SplitMax /\ chan[d].age > MaxLag + 1
<1>1. PICK m \in 0..(HourMinutes - 1), a \in Int :
        /\ m = Started.target /\ a = Ahead(Started) /\ Away(wall, m, a)
        /\ 0 - Lateness <= a /\ a <= 0
  BY PassingIs
<1>2. /\ c \in Measured /\ KeptAt(chan[c], wall, o)
      /\ chan[c].age + Margin > SplitMax /\ a <= Offset - o
  BY <1>1 DEF OldAt
<1>3. Base
  BY DEF Passing
<1>4. PICK age \in Int, old \in Int : age = chan[c].age /\ old = chan[d].age
  BY <1>2, <1>3, MeasuredIs, Numbers
<1>5. old - age < SplitDiff /\ age - old < SplitDiff
  BY <1>2, <1>4, AgesClose
<1>6. PICK k \in Int : KeptAt(chan[d], wall, k)
  <2>1. d \in Channels /\ chan[d].age # NONE
    BY <1>3, MeasuredIs
  <2> QED
    BY <2>1 DEF Passing, AllKept, Kept
<1>7. 0 <= k /\ k <= old /\ old - MaxLag <= k
  BY <1>4, <1>6 DEF KeptAt
<1>8. age - MaxLag <= o
  BY <1>2, <1>4 DEF KeptAt
<1>9. /\ Offset + MaxLag + Margin + SplitDiff <= SplitMax /\ age + Margin > SplitMax
      /\ Lateness + Margin + SplitDiff + MaxLag <= 2 * SplitMax + 1
      /\ MaxDrift + SplitMax <= Minute
  BY <1>2, <1>4 DEF Punctual
<1>10. a + k < SplitMax
  BY <1>2, <1>5, <1>7, <1>8, <1>9, Numbers
<1>11. 0 - SplitMax < a + k
  <2>1. age > SplitMax - Margin /\ old > age - SplitDiff /\ k >= old - MaxLag
    BY <1>5, <1>7, <1>9, Numbers
  <2>2. k >= SplitMax - Margin + 2 - SplitDiff - MaxLag
    BY <2>1, Numbers
  <2>3. a + k >= 0 - Lateness + (SplitMax - Margin + 2 - SplitDiff - MaxLag)
    BY <1>1, <2>2, Numbers
  <2> QED
    BY <1>9, <2>3, Numbers
<1>12. a + k < Minute - MaxDrift
  BY <1>9, <1>10, Numbers
<1>13. Signed(chan[d].sm) = 0 - (a + k)
  BY <1>1, <1>6, <1>12, PassingSigned
<1>14. PICK x \in Int : x = 0 - (a + k) /\ x < SplitMax /\ 0 - x < SplitMax
  BY <1>10, <1>11, Numbers
<1>15. Drift(chan[d].sm) < SplitMax
  BY <1>13, <1>14 DEF Drift
<1>16. old > MaxLag + 1
  BY <1>5, <1>9, Numbers
<1> QED
  BY <1>4, <1>15, <1>16

(* Nothing that is still to come destroys such a fragment, unless the      *)
(* channels were skewed: splitCheck() asks for no split then.              *)
LEMMA Judged ==
  ASSUME Passing, Punctual, Cuts, Memory, Passes, ~checked, round' # Idle,
         round'.cause # "skew",
         NEW c \in linked, chan[c].age # NONE, Again(chan[c], Started.target)
  PROVE  chan[c].age + Margin <= SplitMax
<1>1. SUFFICES ASSUME chan[c].age + Margin > SplitMax PROVE FALSE
  <2>1. c \in Channels
    BY DEF Passing, Base, SplitTypeOK
  <2>2. chan[c].age \in Int
    BY <2>1, ChannelIs DEF Passing
  <2> QED
    BY <1>1, <2>2, Numbers
<1>2. PICK o \in Int : OldAt(c, o)
  BY <1>1, OldIs
<1>3. /\ ~Skewed
      /\ ~InTime \/ Started.need_first
  BY DEF Passes
<1>4. \A d \in Measured : Drift(chan[d].sm) < SplitMax /\ chan[d].age > MaxLag + 1
  BY <1>2, <1>3, AllInTime
<1>5. InTime
  BY <1>4 DEF InTime
<1>6. PICK m \in 0..(HourMinutes - 1), a \in Int :
        /\ m = Started.target /\ a = Ahead(Started) /\ Away(wall, m, a)
        /\ 0 - Lateness <= a /\ a <= 0
  BY PassingIs
<1>7. a < 0
  <2>1. a <= Offset - o /\ o >= Offset + SplitDiff + 1
    BY <1>2, <1>6 DEF OldAt
  <2> QED
    BY <2>1, Numbers
<1>8. sched.need_first /\ ahead < 0
  <2>1. Started.need_first
    BY <1>3, <1>5
  <2>2. sched.start
    BY <1>6, <2>1, StartedOnTime DEF Passing
  <2> QED
    BY <1>6, <1>7, <2>1, <2>2, StartedIs DEF Passing, Base
<1>9. Disturbed(chan, linked, 1)
  BY <1>8 DEF Memory, Again
<1>10. \A d \in linked : chan[d].sm # UNSET => d \in Measured
  BY DEF Measured
<1>11. \A d \in Measured : ~(chan[d].age <= MaxLag + 1) /\ ~(Drift(chan[d].sm) >= SplitMax)
  <2>1. SUFFICES ASSUME NEW d \in Measured
                 PROVE  ~(chan[d].age <= MaxLag + 1) /\ ~(Drift(chan[d].sm) >= SplitMax)
    OBVIOUS
  <2>2. chan[d].age \in Int /\ Signed(chan[d].sm) \in Int
    BY MeasuredIs, Numbers DEF Passing
  <2>3. Drift(chan[d].sm) \in Int
    BY <2>2 DEF Drift
  <2> QED
    BY <1>4, <2>2, <2>3, Numbers
<1>12. \A d, e \in Measured : ~(chan[d].age - chan[e].age >= SplitDiff)
  <2>1. SUFFICES ASSUME NEW d \in Measured, NEW e \in Measured
                 PROVE  ~(chan[d].age - chan[e].age >= SplitDiff)
    OBVIOUS
  <2>2. chan[d].age \in Int /\ chan[e].age \in Int
    BY MeasuredIs, Numbers DEF Passing
  <2>3. chan[d].age - chan[e].age < SplitDiff
    BY <1>2, <1>3, AgesClose
  <2> QED
    BY <2>2, <2>3, Numbers
<1> QED
  BY <1>9, <1>10, <1>11, <1>12 DEF Disturbed

-----------------------------------------------------------------------------
(* Names *)

(* Of the fragments named after the target passed last, those that a round *)
(* asks to end are hardly older than the split is to come.                 *)
Soon ==
  round # Idle /\ round.cause # "skew" =>
    \A c \in linked :
      chan[c].age # NONE /\ Again(chan[c], LastOf(sched.target)) =>
        chan[c].age + Margin <= SplitMax

(* And when a cut ends it, such a fragment has not outlasted the error.    *)
Harmless(r, last) ==
  r.cut # NONE /\ r.cause # "skew" /\ Again(r, last) => r.age + r.cut <= SplitMax

AllHarmless ==
  \A c \in Channels : chan[c].age # NONE => Harmless(chan[c], LastOf(sched.target))

LEMMA SoonStep ==
  ASSUME Base, Toward, Timely, Punctual, AllKept, Cuts, Memory, [Next]_vars,
         steps' = steps, Soon
  PROVE  Soon'
<1>1. SplitTypeOK /\ linked \subseteq Channels
  BY DEF Base, SplitTypeOK
<1>2. SUFFICES ASSUME round' # Idle, round'.cause # "skew", NEW d \in linked',
                      chan'[d].age # NONE, Again(chan'[d], LastOf(sched'.target))
               PROVE  chan'[d].age + Margin <= SplitMax
  BY DEF Soon
<1>3. ASSUME UNCHANGED <<round, sched, linked>>, chan'[d].age = chan[d].age,
             chan'[d].first = chan[d].first, chan'[d].early = chan[d].early,
             chan'[d].name = chan[d].name
      PROVE  chan'[d].age + Margin <= SplitMax
  BY <1>2, <1>3 DEF Soon, Again
<1>4. ASSUME NEW c \in Channels, Opens(c) PROVE chan'[d].age + Margin <= SplitMax
  <2>1. CASE d # c
    <3>1. d \in Channels /\ linked' = linked
      BY <1>1, <1>2, <1>4, OpensTo
    <3> QED
      BY <1>3, <1>4, <2>1, <3>1, OpensTo
  <2>2. CASE d = c
    <3>1. chan'[d].age \in 0..MaxLag
      BY <1>4, <2>2, OpensTo
    <3> QED
      BY <3>1, Numbers DEF Punctual
  <2> QED
    BY <2>1, <2>2
<1>5. ASSUME NEW c \in Channels, Quiet(c) PROVE chan'[d].age + Margin <= SplitMax
  <2>1. d \in Channels
    BY <1>1, <1>2, <1>5, QuietTo
  <2> QED
    BY <1>3, <1>5, <2>1, QuietTo
<1>6. CASE RequestSplits
  BY <1>2, <1>6, RequestTo
<1>7. CASE RecheckLinks
  BY <1>2, <1>7 DEF RecheckLinks
<1>8. CASE UNCHANGED vars
  BY <1>3, <1>8 DEF vars
<1>9. CASE Tick
  BY <1>2, <1>9, TickIs
<1>10. CASE Check
  <2>1. /\ round = Idle /\ ~checked /\ UNCHANGED <<chan, linked>>
        /\ ((~sched.start /\ UNCHANGED <<sched, round, epoch, ahead>>) \/ Stays \/ Passes)
    BY <1>1, <1>10, CheckIs
  <2>2. Passes
    BY <1>2, <2>1 DEF Stays
  <2>3. Passing
    BY <2>2 DEF Passing, Passes
  <2>4. Started.target \in 0..(HourMinutes - 1) /\ Started \in SchedType
    BY <1>1, TargetAway, StartedIs
  <2>5. LastOf(sched'.target) = Started.target
    BY <1>1, <2>2, <2>4, PassedIs, TargetBack DEF Passes, LastOf
  <2>6. d \in linked /\ chan[d].age # NONE /\ Again(chan[d], Started.target)
    BY <1>2, <2>1, <2>5
  <2>7. chan[d].age + Margin <= SplitMax
    BY <1>2, <2>1, <2>2, <2>3, <2>6, Judged
  <2> QED
    BY <2>1, <2>7
<1>11. ASSUME NEW s \in Steps, SetClock(s) PROVE FALSE
  <2>1. steps' = steps - 1 /\ steps \in Int
    BY <1>1, <1>11, Sizes DEF SetClock, SplitTypeOK
  <2> QED
    BY <2>1
<1> QED
  BY <1>4, <1>5, <1>6, <1>7, <1>8, <1>9, <1>10, <1>11 DEF Next, Opens, Quiet

(* A request that is still to be met when a target is passed, or that      *)
(* another round finds, was made before the channel's first fragment.      *)
LEMMA LeftIsFirst ==
  ASSUME Base, Toward, Timely, Punctual, Cuts, NEW c \in Channels, chan[c].age # NONE,
         chan[c].cut # NONE, round # Idle \/ Diff(Started.target) >= 0
  PROVE  chan[c].first
<1>1. PICK cut \in Int, a \in Int :
        cut = chan[c].cut /\ a = ahead /\ 0 - MaxLag <= cut
  BY ChannelIs
<1>2. \/ round = Idle /\ a - cut >= Full - Lateness - Margin
      \/ chan[c].first
  BY <1>1 DEF Cuts, Cutting
<1>3. CASE round # Idle
  BY <1>2, <1>3
<1>4. CASE Diff(Started.target) >= 0
  <2>1. Ahead(Started) = a
    BY <1>1, AskedSettled
  <2>2. a <= 0
    <3>1. Diff(Started.target) \in Int /\ ~(Diff(Started.target) < 0)
      BY <1>4, StartedOnTime
    <3> QED
      BY <2>1, <3>1, StartedOnTime
  <2>3. Lateness + Offset + Margin + MaxLag + 1 < Full
    BY DEF Punctual
  <2>4. a - cut < Full - Lateness - Margin
    BY <1>1, <2>2, <2>3, Numbers
  <2> QED
    BY <1>2, <2>4, Numbers
<1> QED
  BY <1>3, <1>4

LEMMA HarmlessStep ==
  ASSUME Base, Toward, Timely, Punctual, Cuts, Soon, [Next]_vars,
         steps' = steps, AllHarmless
  PROVE  AllHarmless'
<1>1. SplitTypeOK
  BY DEF Base
<1>2. SUFFICES ASSUME NEW d \in Channels, chan'[d].age # NONE, chan'[d].cut # NONE,
                      chan'[d].cause # "skew", Again(chan'[d], LastOf(sched'.target))
               PROVE  chan'[d].age + chan'[d].cut <= SplitMax
  BY DEF AllHarmless, Harmless
<1>3. ASSUME sched'.target = sched.target, chan'[d].age = chan[d].age,
             chan'[d].cut = chan[d].cut, chan'[d].cause = chan[d].cause,
             chan'[d].first = chan[d].first, chan'[d].early = chan[d].early,
             chan'[d].name = chan[d].name
      PROVE  chan'[d].age + chan'[d].cut <= SplitMax
  BY <1>2, <1>3 DEF AllHarmless, Harmless, Again
<1>4. ASSUME NEW c \in Channels, Opens(c)
      PROVE  chan'[d].age + chan'[d].cut <= SplitMax
  <2>1. CASE d # c
    BY <1>3, <1>4, <2>1, OpensTo
  <2>2. CASE d = c
    <3>1. chan'[d].first = (chan[d].age = NONE) /\ chan'[d].age \in 0..MaxLag
      BY <1>4, <2>2, OpensTo
    <3>2. chan[d].age # NONE
      BY <1>2, <3>1, Zenon DEF Again
    <3>3. PICK why : OpeningOf(d, chan'[d].age, chan'[d].cut, why)
      BY <1>4, <2>2, OpensTo
    <3>4. chan'[d].cut = chan[d].cut
      BY <1>2, <3>2, <3>3 DEF OpeningOf
    <3>5. chan[d].cut \in Int /\ chan[d].cut <= Margin
      BY <1>2, <3>4, ChannelIs
    <3>6. MaxLag + Margin <= SplitMax
      BY Numbers DEF Punctual
    <3> QED
      BY <3>1, <3>4, <3>5, <3>6, Numbers
  <2> QED
    BY <2>1, <2>2
<1>5. ASSUME NEW c \in Channels, Quiet(c)
      PROVE  chan'[d].age + chan'[d].cut <= SplitMax
  BY <1>3, <1>5, QuietTo
<1>6. CASE RequestSplits
  <2>1. /\ round # Idle /\ sched' = sched
        /\ chan'[d].age = chan[d].age /\ chan'[d].name = chan[d].name
        /\ chan'[d].first = chan[d].first /\ chan'[d].early = chan[d].early
        /\ \/ chan'[d].cut = chan[d].cut
           \/ chan[d].cut = NONE /\ chan'[d].cut \in 0..Margin
        /\ d \notin linked => chan'[d] = chan[d]
        /\ d \in linked => chan'[d].cause = round.cause
    BY <1>6, RequestTo
  <2>2. Again(chan[d], LastOf(sched.target)) /\ chan[d].age # NONE
    BY <1>2, <2>1 DEF Again
  <2>3. CASE d \notin linked
    BY <1>3, <2>1, <2>3
  <2>4. CASE chan[d].cut # NONE
    BY <2>1, <2>2, <2>4, LeftIsFirst DEF Again
  <2>5. CASE d \in linked /\ chan[d].cut = NONE
    <3>1. chan[d].age + Margin <= SplitMax
      BY <1>2, <2>1, <2>2, <2>5 DEF Soon
    <3>2. PICK k \in 0..Margin, age \in Int : k = chan'[d].cut /\ age = chan[d].age
      BY <1>2, <2>1, <2>5, ChannelIs
    <3>3. age + k <= SplitMax
      BY <3>1, <3>2, Numbers
    <3> QED
      BY <2>1, <3>2, <3>3
  <2> QED
    BY <2>3, <2>4, <2>5
<1>7. CASE RecheckLinks \/ UNCHANGED vars
  BY <1>3, <1>7 DEF RecheckLinks, vars
<1>8. CASE Tick
  <2>1. sched'.target = sched.target
    BY <1>8, TickIs
  <2>2. /\ chan[d].age # NONE /\ chan'[d].age = chan[d].age + 1
        /\ chan[d].cut # NONE /\ chan'[d].cut = chan[d].cut - 1
        /\ chan'[d].name = chan[d].name /\ chan'[d].first = chan[d].first
        /\ chan'[d].early = chan[d].early /\ chan'[d].cause = chan[d].cause
    BY <1>2, <1>8, TickTo
  <2>3. chan[d].age + chan[d].cut <= SplitMax
    BY <1>2, <2>1, <2>2 DEF AllHarmless, Harmless, Again
  <2>4. PICK age \in Int, cut \in Int : age = chan[d].age /\ cut = chan[d].cut
    BY ChannelIs
  <2>5. (age + 1) + (cut - 1) = age + cut
    OBVIOUS
  <2> QED
    BY <2>2, <2>3, <2>4, <2>5
<1>9. CASE Check
  <2>1. /\ chan' = chan
        /\ ((~sched.start /\ UNCHANGED <<sched, round, epoch, ahead>>) \/ Stays \/ Passes)
    BY <1>1, <1>9, CheckIs
  <2>2. CASE UNCHANGED <<sched, round, epoch, ahead>>
    BY <1>3, <2>1, <2>2
  <2>3. CASE Stays
    <3>1. Started = sched
      BY <1>2, <2>1, AskedSettled
    <3> QED
      BY <1>3, <2>1, <2>3, <3>1 DEF Stays
  <2>4. CASE Passes
    <3>1. Diff(Started.target) >= 0
      BY <2>4 DEF Passes
    <3> QED
      BY <1>2, <2>1, <3>1, LeftIsFirst DEF Again
  <2> QED
    BY <2>1, <2>2, <2>3, <2>4
<1>10. ASSUME NEW s \in Steps, SetClock(s) PROVE FALSE
  <2>1. steps' = steps - 1 /\ steps \in Int
    BY <1>1, <1>10, Sizes DEF SetClock, SplitTypeOK
  <2> QED
    BY <2>1
<1> QED
  BY <1>4, <1>5, <1>6, <1>7, <1>8, <1>9, <1>10 DEF Next, Opens, Quiet

(* A fragment that rolls over has outlasted its name's minute. *)
LEMMA RollIsNew ==
  ASSUME Base, Toward, Timely, Punctual, AllKept, epoch # NONE, NEW c \in Channels,
         chan[c].age # NONE, ~chan[c].early, chan[c].name = Named,
         NEW lag \in 0..MaxLag, chan[c].age - lag >= Full
  PROVE  FALSE
<1>1. PICK age \in Int, name \in 0..(HourMinutes - 1) :
        /\ age = chan[c].age /\ name = Named
        /\ 0 <= age /\ age <= Full + Longest + MaxLag
  BY ChannelIs
<1>2. PICK o \in Int : KeptAt(chan[c], wall, o)
  BY DEF AllKept, Kept
<1>3. 0 <= o /\ o <= age /\ age - MaxLag <= o
  BY <1>1, <1>2 DEF KeptAt
<1>4. PICK u \in Int : 0 - Full - o <= u /\ u <= Offset - o /\ Away(wall, name, u)
  BY <1>1, <1>2 DEF KeptAt
<1>5. PICK v \in Int : /\ Away(wall, name, v) /\ Offset + MaxLag - Full < v
                       /\ v <= Full \div 2
  BY <1>1, NamedOnTime
<1>6. PICK half \in Int : half = Full \div 2 /\ half >= 0
  BY Numbers
<1>7. 2 * Full + half + Longest + MaxLag < Hour
  BY <1>6 DEF Punctual
<1>8. u = v
  <2>1. u - v < Hour /\ v - u < Hour
    <3>1. u - v < Full /\ Full < Hour
      BY <1>3, <1>4, <1>5, <1>6, <1>7, Numbers
    <3>2. v - u <= half + Full + o
      BY <1>4, <1>5, <1>6, Numbers
    <3> QED
      BY <1>1, <1>3, <1>7, <3>1, <3>2, Numbers
  <2>2. wall \in Int
    BY Numbers DEF Base, SplitTypeOK
  <2> QED
    BY <1>4, <1>5, <2>1, <2>2, AwayOnce
<1>9. age - lag >= Full
  BY <1>1
<1> QED
  BY <1>3, <1>4, <1>5, <1>8, <1>9, Numbers

(* Nor does a cut destroy a fragment. *)
LEMMA CutIsNew ==
  ASSUME Base, Toward, Timely, Punctual, AllKept, Cuts, AllHarmless,
         epoch # NONE, NEW c \in Channels,
         chan[c].age # NONE, ~chan[c].first, ~chan[c].early, chan[c].name = Named,
         chan[c].cause # "skew", chan[c].cut # NONE, chan[c].age + chan[c].cut > SplitMax
  PROVE  FALSE
<1>1. PICK age \in Int, cut \in Int, a \in Int, name \in 0..(HourMinutes - 1) :
        /\ age = chan[c].age /\ cut = chan[c].cut /\ a = ahead /\ name = Named
        /\ 0 <= age /\ age <= Full + Longest + MaxLag
        /\ 0 - MaxLag <= cut
  BY ChannelIs
<1>2. PICK o \in Int : KeptAt(chan[c], wall, o)
  BY DEF AllKept, Kept
<1>3. 0 <= o /\ o <= age /\ age - MaxLag <= o
  BY <1>1, <1>2 DEF KeptAt
<1>4. PICK u \in Int : 0 - Full - o <= u /\ u <= Offset - o /\ Away(wall, name, u)
  BY <1>1, <1>2 DEF KeptAt
<1>5. PICK v \in Int : /\ Away(wall, name, v) /\ Offset + MaxLag - Full < v
                       /\ v <= Full \div 2
                       /\ \/ name = sched.target /\ v = a
                          \/ name = LastOf(sched.target)
  BY <1>1, NamedOnTime
<1>6. a - cut >= Full - Lateness - Margin
  BY <1>1 DEF Cuts, Cutting
<1>7. a > Offset
  <2>1. Lateness + Offset + Margin + MaxLag + 1 < Full
    BY DEF Punctual
  <2> QED
    BY <1>1, <1>6, <2>1, Numbers
<1>8. CASE name = LastOf(sched.target)
  <2>1. age + cut <= SplitMax
    BY <1>1, <1>8 DEF AllHarmless, Harmless, Again
  <2> QED
    BY <1>1, <2>1, Numbers
<1>9. CASE v = a
  <2>1. PICK half \in Int : half = Full \div 2 /\ half >= 0
    BY Numbers
  <2>2. 2 * Full + half + Longest + MaxLag < Hour
    BY <2>1 DEF Punctual
  <2>3. u - v < Hour /\ v - u < Hour
    <3>1. u - v < Full /\ Full < Hour
      BY <1>3, <1>4, <1>5, <2>1, <2>2, Numbers
    <3>2. v - u <= half + Full + o
      BY <1>4, <1>5, <2>1, Numbers
    <3> QED
      BY <1>1, <1>3, <2>2, <3>1, <3>2, Numbers
  <2>4. wall \in Int
    BY Numbers DEF Base, SplitTypeOK
  <2>5. u = v
    BY <1>4, <1>5, <2>3, <2>4, AwayOnce
  <2> QED
    BY <1>3, <1>4, <1>7, <1>9, <2>5, Numbers
<1> QED
  BY <1>5, <1>8, <1>9

(* What holds as long as the clock has not been set. *)
Undisturbed ==
  /\ Timely /\ AllKept /\ Cuts
  /\ Memory /\ Soon /\ AllHarmless

LEMMA UndisturbedStep ==
  ASSUME Base, Toward, Punctual, LinksFirst, Undisturbed, [Next]_vars, steps' = steps
  PROVE  Undisturbed'
<1>1. Timely' /\ AllKept' /\ Cuts'
  BY TimelyStep, AllKeptStep, CutsStep DEF Undisturbed
<1>2. Memory' /\ Soon' /\ AllHarmless'
  BY MemoryStep, SoonStep, HarmlessStep DEF Undisturbed
<1> QED
  BY <1>1, <1>2 DEF Undisturbed

LEMMA NamesStep ==
  ASSUME Base, Toward, Punctual, steps = MaxSteps => Undisturbed, NamesDiffer, [Next]_vars
  PROVE  NamesDiffer'
<1>1. SplitTypeOK
  BY DEF Base
<1>2. SUFFICES ASSUME NEW d \in Channels PROVE chan'[d].twin \in {"no", "skew"}
  BY DEF NamesDiffer
<1>3. ASSUME chan'[d].twin = chan[d].twin PROVE chan'[d].twin \in {"no", "skew"}
  BY <1>3 DEF NamesDiffer
<1>4. ASSUME NEW c \in Channels, Opens(c) PROVE chan'[d].twin \in {"no", "skew"}
  <2>1. CASE d # c
    BY <1>3, <1>4, <2>1, OpensTo
  <2>2. CASE d = c
    <3>1. PICK why \in {"no", "none", "roll"} \cup Causes :
              /\ OpeningOf(d, chan'[d].age, chan'[d].cut, why)
              /\ chan'[d].twin \in {"no", why}
              /\ \/ chan'[d].twin = "no"
                 \/ /\ chan[d].name = Named /\ epoch # NONE /\ ~chan[d].first /\ ~chan[d].early
                    /\ chan[d].age - chan'[d].age > SplitMax /\ steps >= MaxSteps
      BY <1>4, <2>2, OpensTo
    <3>2. SUFFICES ASSUME chan'[d].twin \notin {"no", "skew"} PROVE FALSE
      OBVIOUS
    <3>3. /\ chan[d].name = Named /\ epoch # NONE /\ ~chan[d].first /\ ~chan[d].early
          /\ chan[d].age - chan'[d].age > SplitMax /\ steps >= MaxSteps /\ why # "skew"
      BY <3>1, <3>2
    <3>4. Undisturbed
      <4>1. steps \in 0..MaxSteps /\ MaxSteps \in Nat
        BY <1>1, Sizes DEF SplitTypeOK
      <4>2. steps = MaxSteps
        BY <3>3, <4>1
      <4> QED
        BY <4>2
    <3>5. PICK lag \in 0..MaxLag, age \in Int : lag = chan'[d].age /\ age = chan[d].age
      BY <1>4, <2>2, OpensTo, ChannelIs
    <3>6. CASE age = NONE
      BY <3>3, <3>5, <3>6, Numbers, None
    <3>7. CASE age # NONE /\ age - lag >= Full
      BY <3>3, <3>4, <3>5, <3>7, RollIsNew DEF Undisturbed
    <3>8. CASE age # NONE /\ chan[d].cut # NONE /\ chan[d].cut = 0 - lag /\ why = chan[d].cause
      <4>1. chan[d].age + chan[d].cut > SplitMax
        <5>1. age + (0 - lag) = age - lag
          OBVIOUS
        <5> QED
          BY <3>3, <3>5, <3>8, <5>1
      <4> QED
        BY <3>3, <3>4, <3>5, <3>8, <4>1, CutIsNew DEF Undisturbed
    <3> QED
      BY <3>1, <3>5, <3>6, <3>7, <3>8 DEF OpeningOf
  <2> QED
    BY <2>1, <2>2
<1>5. ASSUME NEW c \in Channels, Quiet(c) PROVE chan'[d].twin \in {"no", "skew"}
  BY <1>3, <1>5, QuietTo
<1>6. CASE RequestSplits
  BY <1>3, <1>6, RequestTo
<1>7. CASE RecheckLinks \/ UNCHANGED vars
  BY <1>3, <1>7 DEF RecheckLinks, vars
<1>8. CASE Tick
  BY <1>3, <1>8, TickTo
<1>9. CASE Check
  BY <1>1, <1>3, <1>9, CheckIs
<1>10. ASSUME NEW s \in Steps, SetClock(s) PROVE chan'[d].twin \in {"no", "skew"}
  BY <1>3, <1>10 DEF SetClock
<1> QED
  BY <1>4, <1>5, <1>6, <1>7, <1>8, <1>9, <1>10 DEF Next, Opens, Quiet

(* Once there is a target, two fragments of a channel in a row have the    *)
(* same name only as NamesDiffer allows: what splitCheck() of main.cpp and *)
(* format_location() of muxSinkBin.cpp do about it suffices, provided that *)
(* the settings are in order.                                              *)
THEOREM NamesDifferHolds == Punctual => (Spec => []NamesDiffer)
<1>1. SUFFICES ASSUME Punctual PROVE Spec => []NamesDiffer
  OBVIOUS
<1> DEFINE I == /\ Base /\ Toward /\ LinksFirst /\ NamesDiffer
                /\ steps = MaxSteps => Undisturbed
<1>2. Init => I
  <2>1. SUFFICES ASSUME Init PROVE I
    OBVIOUS
  <2>2. Base
    BY <2>1, BaseInit
  <2>3. ~sched.start /\ ~sched.need_first /\ round = Idle /\ \A c \in Channels : chan[c] = Fresh
    BY <2>1 DEF Init
  <2>4. \A c \in Channels : chan[c].age = NONE /\ chan[c].twin = "no"
    BY <2>3 DEF Fresh
  <2>5. Toward /\ LinksFirst /\ NamesDiffer
    BY <2>3, <2>4 DEF Toward, LinksFirst, NamesDiffer
  <2>6. Undisturbed
    BY <2>3, <2>4 DEF Undisturbed, Timely, AllKept, Cuts, Memory, Soon, AllHarmless
  <2> QED
    BY <2>2, <2>5, <2>6
<1>3. I /\ [Next]_vars => I'
  <2>1. SUFFICES ASSUME I, [Next]_vars PROVE I'
    OBVIOUS
  <2>2. Base' /\ Toward' /\ LinksFirst'
    BY <1>1, <2>1, BaseStep, TowardStep, LinksFirstStep DEF Punctual
  <2>3. NamesDiffer'
    BY <1>1, <2>1, NamesStep
  <2>4. steps' = MaxSteps => steps' = steps /\ steps = MaxSteps
    <3>1. steps' = steps \/ \E s \in Steps : SetClock(s)
      BY <2>1 DEF Next, vars, FirstFragment, RollOver, CutHere, StreamStart, FragmentOpened,
                  Check, CheckWaits, TooEarly, Aligned, Withheld, Forced, RequestSplits,
                  RecheckLinks, Tick
    <3>2. (\E s \in Steps : SetClock(s)) => steps' = steps - 1
      BY DEF SetClock
    <3>3. steps \in 0..MaxSteps /\ MaxSteps \in Nat
      BY <2>1, Sizes DEF Base, SplitTypeOK
    <3> QED
      BY <3>1, <3>2, <3>3
  <2>5. steps' = MaxSteps => Undisturbed'
    BY <1>1, <2>1, <2>4, UndisturbedStep
  <2> QED
    BY <2>2, <2>3, <2>5
<1>4. I => NamesDiffer
  OBVIOUS
<1> HIDE DEF I
<1> QED
  BY <1>2, <1>3, <1>4, PTL DEF Spec

=============================================================================
