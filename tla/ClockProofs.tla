----------------------------- MODULE ClockProofs -----------------------------
(***************************************************************************)
(* How close the clocks are measured: the TSC against the PIT in           *)
(* PitCalibrate, the processor against HPET and ACPI timer in TickMeasure, *)
(* for every speed of the counters and every delay that is short enough.   *)
(***************************************************************************)
EXTENDS TickMeasure, NatInduction

\* What a quotient and a remainder are.
LEMMA Divided ==
  ASSUME NEW t \in Nat, NEW p \in Nat, p > 0
  PROVE  t \div p \in Nat /\ t = p * (t \div p) + (t % p) /\ t % p \in 0..(p - 1)
  OBVIOUS

-----------------------------------------------------------------------------
(* The PIT.  Byte k of its counter is there from At(k) to At(k + 1).       *)

At(k) == Period * k

\* The period of a byte is some time.
LEMMA PeriodType == Period \in Nat /\ Period > 0 /\ ByteValues \in Nat /\ MaxIterations \in Nat /\ MaxIterations + 2 <= ByteValues
<1>1. \A a, b \in Nat : a > 0 /\ b > 0 => a * b \in Nat /\ a * b > 0
  <2> SUFFICES ASSUME NEW a \in Nat, NEW b \in Nat, a > 0, b > 0 PROVE a * b \in Nat /\ a * b > 0
    OBVIOUS
  <2>1. a * b = (a - 1) * b + b /\ (a - 1) * b \in Nat
    OBVIOUS
  <2> QED BY <2>1
<1> QED BY <1>1, PitAssumption, LoopAssumption DEF Period

\* One byte after the other.
LEMMA AtNext ==
  ASSUME NEW k \in Int
  PROVE  At(k) \in Int /\ At(k + 1) = At(k) + Period /\ At(0) = 0
  BY PeriodType DEF At

\* Time in which byte k may be seen, from the byte before it to the one before it comes back.
LEMMA MsbIs ==
  ASSUME NEW t \in Nat, NEW k \in 0..Top, ~stuck,
         At(k) <= t + Period, t < At(k) + Period * ByteValues
  PROVE  Msb(t) = Expected(k) <=> At(k) <= t /\ t < At(k) + Period
<1> DEFINE b == t \div Period
           r == t % Period
<1>1. b \in Nat /\ r \in 0..(Period - 1) /\ t = Period * b + r
  BY PeriodType, Divided
<1> HIDE DEF b, r
<1>2. \A p, c, d \in Int : p > 0 /\ c >= d => p * c >= p * d
  <2> SUFFICES ASSUME NEW p \in Int, NEW c \in Int, NEW d \in Int, p > 0, c >= d PROVE p * c >= p * d
    OBVIOUS
  <2>1. p * c = p * d + p * (c - d) /\ p * (c - d) >= 0
    OBVIOUS
  <2> QED BY <2>1
<1>3. \A p, c, d \in Int : p * (c + d) = p * c + p * d
  OBVIOUS
<1>4. k \in Int /\ ByteValues \in Int /\ Period \in Int /\ Period > 0
  BY PeriodType DEF Top
<1>5. b >= k - 1
  <2> SUFFICES ASSUME b <= k - 2 PROVE FALSE
    BY <1>1, <1>4
  <2>1. Period * (k + (-2)) >= Period * b /\ Period * (k + (-2)) = Period * k + Period * (-2)
    BY <1>1, <1>2, <1>3, <1>4
  <2>2. Period * (-2) = (0 - Period) - Period /\ Period * k \in Int /\ Period * b \in Int
    BY <1>1, <1>4
  <2> QED BY <1>1, <1>4, <2>1, <2>2 DEF At
<1>6. b < k + ByteValues
  <2> SUFFICES ASSUME b >= k + ByteValues PROVE FALSE
    BY <1>1, <1>4
  <2>1. Period * b >= Period * (k + ByteValues) /\ Period * (k + ByteValues) = Period * k + Period * ByteValues
    BY <1>1, <1>2, <1>3, <1>4
  <2>2. Period * k \in Int /\ Period * b \in Int /\ Period * ByteValues \in Int
    BY <1>1, <1>4
  <2> QED BY <1>1, <1>4, <2>1, <2>2 DEF At
<1>7. b = k <=> At(k) <= t /\ t < At(k) + Period
  <2>1. CASE b = k
    BY <1>1, <1>4, <2>1 DEF At
  <2>2. CASE b = k - 1
    <3>1. Period * (k + (-1)) = Period * k + Period * (-1) /\ Period * (-1) = 0 - Period /\ Period * k \in Int
      BY <1>3, <1>4
    <3>2. Period * b = Period * k - Period
      BY <1>4, <2>2, <3>1
    <3> QED BY <1>1, <1>4, <2>2, <3>1, <3>2 DEF At
  <2>3. CASE b >= k + 1
    <3>1. Period * b >= Period * (k + 1) /\ Period * (k + 1) = Period * k + Period * 1 /\ Period * 1 = Period
      BY <1>1, <1>2, <1>3, <1>4, <2>3
    <3>2. Period * k \in Int /\ Period * b \in Int
      BY <1>1, <1>4
    <3> QED BY <1>1, <1>4, <2>3, <3>1, <3>2 DEF At
  <2> QED BY <1>1, <1>4, <1>5, <2>1, <2>2, <2>3
<1>8. \A n \in Nat, c \in Int : n > 0 /\ c \in 0..(n - 1) => c % n = c /\ (c - n) % n = c
  OBVIOUS
<1>9. Msb(t) = (Top - b) % ByteValues
  BY DEF Msb, b
<1>10. CASE b <= Top
  <2>1. Top - b \in 0..(ByteValues - 1) /\ ByteValues \in Nat /\ ByteValues > 0
    BY <1>1, <1>4, <1>10, PeriodType DEF Top
  <2>2. Msb(t) = Top - b
    BY <1>8, <1>9, <2>1
  <2> QED BY <1>1, <1>4, <1>7, <2>2, PeriodType DEF Expected, Top
<1>11. CASE b > Top
  <2>1. Top - b + ByteValues \in 0..(ByteValues - 1) /\ ByteValues \in Nat /\ ByteValues > 0
    BY <1>1, <1>4, <1>6, <1>11, PeriodType DEF Top
  <2>2. ((Top - b + ByteValues) - ByteValues) % ByteValues = Top - b + ByteValues
    BY <1>8, <2>1
  <2>3. Msb(t) = Top - b + ByteValues
    <3>1. (Top - b + ByteValues) - ByteValues = Top - b
      BY <1>1, <1>4, PeriodType DEF Top
    <3> QED BY <1>9, <2>2, <3>1
  <2> QED BY <1>1, <1>4, <1>6, <1>7, <1>11, <2>3, PeriodType DEF Expected, Top
<1> QED BY <1>1, <1>4, <1>10, <1>11, PeriodType DEF Top

\* The shortest delay, if there is any.
least == CHOOSE d \in Delays : \A e \in Delays : d <= e

\* Every delay is at least that, and no quarter of the PIT's round.
LEMMA LeastDelay ==
  ASSUME NEW d \in Delays
  PROVE  /\ d \in Nat /\ least \in Delays /\ least \in Nat /\ least <= d
         /\ 4 * d <= Period * ByteValues /\ Period <= 2 * (MaxCount - 1) * least
<1>1. Delays \in SUBSET Nat /\ Delays # {}
  BY DelayAssumption
<1>2. \E m \in Delays : \A e \in Delays : m <= e
  BY <1>1, LeastNatural
<1>3. least \in Delays /\ \A e \in Delays : least <= e
  BY <1>2 DEF least
<1>4. ByteValues * Period = Period * ByteValues
  BY PeriodType
<1> QED BY <1>1, <1>3, <1>4, StallAssumption

-----------------------------------------------------------------------------
(* The byte that is looked for was seen a few delays ago.                  *)

Seen(k, r) == r \in Nat /\ At(k) <= r /\ r < At(k) + Period
Later(r)   == \E d, e, f \in Delays : now = r + d + e + f
Judged     == {"next", "judge", "verify", "success"}

PitTypes ==
  /\ now \in Nat /\ stuck \in BOOLEAN /\ i \in 0..MaxIterations /\ count \in 0..MaxCount
  /\ tsc \in Int /\ tsc0 \in Int /\ d1 \in Int /\ delta \in Int /\ d2 \in Int

\* A PIT that does not count is given up at its second byte.
StuckInv ==
  stuck => /\ pitPc \notin {"judge", "verify", "success"}
           /\ pitPc = "next" => i = 0
           /\ pitPc = "expect" /\ i # 0 => count = 0

\* When the byte of this round, or that of the one before, was seen last.
ReadInv ==
  ~stuck =>
    /\ pitPc = "expect" /\ count = 0 /\ i = 0 => now \in Delays
    /\ pitPc = "expect" /\ count = 0 /\ i # 0 => At(i) <= now /\ \E r : Seen(i - 1, r) /\ Later(r)
    /\ pitPc = "expect" /\ count # 0 =>
         tsc = now /\ \E r : Seen(i, r) /\ now - r \in Delays /\ At(i) + 2 * (count - 1) * least <= r
    /\ pitPc \in {"next", "judge", "verify"} => At(i) + Period <= now /\ \E r : Seen(i, r) /\ Later(r)

\* The end of the first byte lies between tsc0 and tsc0 + d1, but no byte later.
FirstInv ==
  ~stuck /\ (pitPc \in Judged \/ (pitPc = "expect" /\ i # 0)) =>
    /\ tsc0 >= 0 /\ d1 >= 0 /\ Period <= tsc0 + d1 /\ tsc0 + d1 <= now
    /\ i # 0 /\ ~(i = 1 /\ pitPc = "expect" /\ count = 0) => tsc0 + d1 < Period + Period

\* The end of byte i lies between tsc0 + delta and tsc0 + delta + d2.
LastInv ==
  /\ pitPc \in {"judge", "verify", "success"} => i # 0
  /\ ~stuck /\ i # 0 /\ pitPc \in Judged =>
       /\ At(i) <= tsc0 + delta /\ d2 >= 0
       /\ At(i) + Period <= tsc0 + delta + d2 /\ tsc0 + delta + d2 <= now
  /\ pitPc = "success" => now < At(i) + Period + Period

PitInv == PitTypes /\ StuckInv /\ ReadInv /\ FirstInv /\ LastInv

\* Where nothing is measured there is nothing to show.
LEMMA PitOutside ==
  ASSUME PitTypes', pitPc' \in {"calibrate", "start", "done", "failed"}
  PROVE  PitInv'
  BY DEF PitInv, StuckInv, ReadInv, FirstInv, LastInv, Judged

\* The times of the bytes, without products.
LEMMA AtFacts ==
  ASSUME PitTypes
  PROVE  /\ At(i) \in Int /\ At(i + 1) = At(i) + Period /\ At(0) = 0
         /\ i # 0 => At(i - 1) + Period = At(i) /\ At(i - 1) \in Int
         /\ i \in 0..Top /\ i + 1 \in 0..Top
         /\ Period * ByteValues \in Nat /\ Period + Period <= Period * ByteValues
<1>1. i \in Int /\ At(i) \in Int /\ At(i + 1) = At(i) + Period /\ At(0) = 0
  BY AtNext, PeriodType DEF PitTypes
<1>2. i - 1 \in Int /\ (i - 1) + 1 = i
  BY <1>1
<1>3. At(i - 1) + Period = At(i) /\ At(i - 1) \in Int
  BY <1>2, AtNext
<1>4. i \in 0..Top /\ i + 1 \in 0..Top
  BY PeriodType DEF PitTypes, Top
<1>5. \A p, n \in Nat : n >= 2 => p * n \in Nat /\ p + p <= p * n
  <2> SUFFICES ASSUME NEW p \in Nat, NEW n \in Nat, n >= 2 PROVE p * n \in Nat /\ p + p <= p * n
    OBVIOUS
  <2>1. p * n = p + p + p * (n - 2) /\ p * (n - 2) \in Nat
    OBVIOUS
  <2> QED BY <2>1
<1>6. Period * ByteValues \in Nat /\ Period + Period <= Period * ByteValues
  BY <1>5, PeriodType
<1> QED BY <1>1, <1>3, <1>4, <1>6

\* A read that sees the byte, of a PIT that counts.
LEMMA SeeByteCounting ==
  ASSUME PitInv, ~stuck, pitPc = "expect", count < MaxCount, NEW read \in Delays, NEW stamp \in Delays,
         Msb(now + read) = Expected(i)
  PROVE  /\ Seen(i, now + read)
         /\ At(i) + 2 * count * least <= now + read
         /\ i = 1 /\ count = 0 => tsc0 + d1 < Period + Period
<1> DEFINE t == now + read
           W == Period * ByteValues
<1>1. /\ read \in Nat /\ least \in Nat /\ least <= read /\ 4 * read <= W
  BY LeastDelay
<1>2. t \in Nat /\ i \in Nat /\ count \in Nat /\ now \in Nat
  BY <1>1, PeriodType, LoopAssumption DEF PitInv, PitTypes
<1>3. PitTypes /\ ReadInv /\ FirstInv
  BY DEF PitInv
<1> HIDE DEF W
<1>4. /\ At(i) \in Int /\ At(0) = 0 /\ i \in 0..Top /\ W \in Nat /\ Period + Period <= W
      /\ i # 0 => At(i - 1) + Period = At(i) /\ At(i - 1) \in Int
      /\ Period \in Nat /\ Period > 0
  BY <1>3, AtFacts, PeriodType DEF W
<1>5. ASSUME At(i) <= t + Period, t < At(i) + W
      PROVE  Seen(i, t)
  <2>1. At(i) <= t /\ t < At(i) + Period
    BY <1>2, <1>4, <1>5, MsbIs DEF W
  <2> QED BY <1>2, <2>1 DEF Seen
<1>6. CASE count = 0 /\ i = 0
  <2>1. now \in Delays
    BY <1>3, <1>6 DEF ReadInv
  <2>2. 4 * now <= W
    BY <2>1, LeastDelay DEF W
  <2>3. At(i) <= t + Period /\ t < At(i) + W
    BY <1>1, <1>2, <1>4, <1>6, <2>2
  <2>4. 2 * count * least = 0
    BY <1>1, <1>6
  <2> HIDE DEF t
  <2>5. Seen(i, t)
    BY <1>5, <2>3
  <2>6. At(i) + 2 * count * least <= t
    BY <1>4, <2>4, <2>5 DEF Seen
  <2> QED BY <1>6, <2>5, <2>6 DEF t
<1>7. CASE count = 0 /\ i # 0
  <2>1. At(i) <= now /\ \E r : Seen(i - 1, r) /\ Later(r)
    BY <1>3, <1>7 DEF ReadInv
  <2>0. PICK r : Seen(i - 1, r) /\ Later(r)
    BY <2>1
  <2>2. PICK d \in Delays, e \in Delays, f \in Delays : now = r + d + e + f
    BY <2>0 DEF Later
  <2>3. /\ d \in Nat /\ e \in Nat /\ f \in Nat /\ 4 * d <= W /\ 4 * e <= W /\ 4 * f <= W
    BY LeastDelay DEF W
  <2>4. r \in Nat /\ r < At(i)
    BY <1>4, <1>7, <2>0 DEF Seen
  <2>5. At(i) <= t + Period /\ t < At(i) + W
    BY <1>1, <1>2, <1>4, <2>1, <2>2, <2>3, <2>4
  <2>6. 2 * count * least = 0
    BY <1>1, <1>7
  <2>7. At(i) <= t /\ now <= t
    BY <1>1, <1>2, <1>4, <2>1
  <2> HIDE DEF t
  <2>8. Seen(i, t)
    BY <1>5, <2>5
  <2>9. At(i) + 2 * count * least <= t
    BY <1>4, <2>6, <2>7
  <2>10. ASSUME i = 1
         PROVE  tsc0 + d1 < Period + Period
    <3>1. tsc0 + d1 <= now /\ tsc0 + d1 \in Int
      BY <1>3, <2>10 DEF FirstInv, PitTypes
    <3>2. At(1) = Period
      BY AtNext, PeriodType
    <3>3. t < Period + Period
      BY <2>8, <2>10, <3>2 DEF Seen
    <3> QED BY <1>2, <1>4, <2>7, <3>1, <3>3
  <2> QED BY <2>8, <2>9, <2>10 DEF t
<1>8. CASE count # 0
  <2>1. PICK r : Seen(i, r) /\ now - r \in Delays /\ At(i) + 2 * (count - 1) * least <= r
    BY <1>3, <1>8 DEF ReadInv
  <2>2. now - r \in Nat /\ least <= now - r /\ 4 * (now - r) <= W
    BY <2>1, LeastDelay DEF W
  <2>3. r \in Nat /\ At(i) <= r /\ r < At(i) + Period
    BY <2>1 DEF Seen
  <2>4. At(i) <= t + Period /\ t < At(i) + W
    BY <1>1, <1>2, <1>4, <2>2, <2>3
  <2>5. 2 * count * least = 2 * (count - 1) * least + least + least /\ 2 * (count - 1) * least \in Int
    BY <1>1, <1>2
  <2> DEFINE x == 2 * (count - 1) * least
             y == 2 * count * least
  <2>6. At(i) + x <= r /\ y = x + least + least /\ x \in Int
    BY <2>1, <2>5
  <2> HIDE DEF x, y
  <2>7. At(i) + y <= t
    BY <1>1, <1>2, <1>4, <2>2, <2>3, <2>6
  <2> HIDE DEF t
  <2>8. Seen(i, t)
    BY <1>5, <2>4
  <2> QED BY <1>8, <2>7, <2>8 DEF t, y
<1> QED BY <1>6, <1>7, <1>8

\* A read that no longer sees the byte, of a PIT that counts.
LEMMA MissByteCounting ==
  ASSUME PitInv, ~stuck, pitPc = "expect", count # 0, NEW read \in Delays, NEW stamp \in Delays,
         count < MaxCount => Msb(now + read) # Expected(i),
         now' = IF count < MaxCount THEN now + read + stamp ELSE now + stamp
  PROVE  /\ tsc = now /\ At(i) <= now /\ now <= now' /\ now' \in Nat /\ At(i) + Period <= now'
         /\ \E r : Seen(i, r) /\ \E d, e, f \in Delays : now' = r + d + e + f
<1> DEFINE t == now + read
           W == Period * ByteValues
<1>1. /\ read \in Nat /\ least \in Nat /\ least <= read /\ 4 * read <= W /\ stamp \in Nat
      /\ Period <= 2 * (MaxCount - 1) * least
  BY LeastDelay
<1>2. i \in Nat /\ count \in Nat /\ now \in Nat /\ count <= MaxCount /\ MaxCount \in Nat
  BY LoopAssumption, PeriodType DEF PitInv, PitTypes
<1>3. PitTypes /\ ReadInv
  BY DEF PitInv
<1> HIDE DEF W
<1>4. /\ At(i) \in Int /\ i \in 0..Top /\ W \in Nat /\ Period + Period <= W
      /\ Period \in Nat /\ Period > 0
  BY <1>3, AtFacts, PeriodType DEF W
<1>5. PICK r : Seen(i, r) /\ now - r \in Delays /\ At(i) + 2 * (count - 1) * least <= r
  BY <1>3 DEF ReadInv
<1>6. now - r \in Nat /\ 4 * (now - r) <= W
  BY <1>5, LeastDelay DEF W
<1>7. r \in Nat /\ At(i) <= r /\ r < At(i) + Period
  BY <1>5 DEF Seen
<1>8. count < MaxCount
  <2> SUFFICES ASSUME count = MaxCount PROVE FALSE
    BY <1>2
  <2> DEFINE x == 2 * (MaxCount - 1) * least
  <2>1. x \in Int /\ Period <= x /\ At(i) + x <= r
    BY <1>1, <1>2, <1>5
  <2> HIDE DEF x
  <2> QED BY <1>4, <1>7, <2>1
<1>9. t \in Nat /\ At(i) <= t + Period /\ t < At(i) + W
  BY <1>1, <1>2, <1>4, <1>6, <1>7
<1>10. ~(At(i) <= t /\ t < At(i) + Period)
  <2> HIDE DEF t
  <2>1. Msb(t) = Expected(i) <=> At(i) <= t /\ t < At(i) + Period
    BY <1>4, <1>9, MsbIs DEF W
  <2>2. Msb(t) # Expected(i)
    BY <1>8 DEF t
  <2> QED BY <2>1, <2>2
<1>11. now' = now + read + stamp
  BY <1>8
<1>12. At(i) + Period <= now' /\ At(i) <= now /\ now <= now' /\ now' \in Nat
  BY <1>1, <1>2, <1>4, <1>6, <1>7, <1>10, <1>11
<1>13. tsc = now
  BY <1>3 DEF ReadInv
<1>14. now' = r + (now - r) + read + stamp
  BY <1>1, <1>2, <1>6, <1>7, <1>11
<1> QED BY <1>5, <1>12, <1>13, <1>14

-----------------------------------------------------------------------------
(* The steps.                                                              *)

\* The measurement begins with a PIT that counts, or does not.
LEMMA PitStarts == PitInit => PitInv
<1> SUFFICES ASSUME PitInit PROVE PitInv
  OBVIOUS
<1>1. PitTypes
  <2>1. 0 \in 0..MaxIterations /\ 0 \in 0..MaxCount
    BY PeriodType, LoopAssumption
  <2>2. stuck \in BOOLEAN
    BY Zenon DEF PitInit
  <2> QED BY <2>1, <2>2 DEF PitInit, PitTypes
<1> QED BY <1>1 DEF PitInv, PitInit, StuckInv, ReadInv, FirstInv, LastInv, Judged

\* The PIT is set, and begins to count or does not.
LEMMA StartPitStep == ASSUME PitInv, StartPit PROVE PitInv'
<1>1. PitTypes'
  <2>1. now' \in Nat
    BY DelayAssumption DEF StartPit
  <2> QED BY <2>1, PeriodType, LoopAssumption DEF StartPit, PitInv, PitTypes, results
<1> QED BY <1>1 DEF PitInv, StartPit, StuckInv, ReadInv, FirstInv, LastInv, Judged

\* pit_expect_msb() sees the byte once more.
LEMMA SeeByteStep == ASSUME PitInv, SeeByte PROVE PitInv'
<1>1. PICK read \in Delays, stamp \in Delays : Msb(now + read) = Expected(i) /\ now' = After(now + read + stamp)
  BY DEF SeeByte
<1>2. read \in Nat /\ stamp \in Nat
  BY LeastDelay
<1>3. /\ pitPc = "expect" /\ pitPc' = "expect" /\ count < MaxCount /\ count' = count + 1 /\ tsc' = now'
      /\ stuck' = stuck /\ i' = i /\ UNCHANGED results
  BY DEF SeeByte, Counted
<1>4. PitTypes /\ i \in Nat /\ count \in Nat /\ now \in Nat
  BY LoopAssumption, PeriodType DEF PitInv, PitTypes
<1>5. PitTypes'
  <2>1. now' \in Nat
    BY <1>1, <1>2, <1>4 DEF After
  <2>2. count' \in 0..MaxCount
    BY <1>3, <1>4, LoopAssumption
  <2> QED BY <1>3, <1>4, <2>1, <2>2 DEF PitTypes, results
<1>6. count' # 0
  BY <1>3, <1>4
<1>7. CASE stuck
  <2>1. i = 0
    BY <1>1, <1>4, <1>7, PeriodType DEF Msb, Expected, Top
  <2> QED BY <1>3, <1>5, <1>7, <2>1 DEF PitInv, StuckInv, ReadInv, FirstInv, LastInv, Judged
<1>8. CASE ~stuck
  <2>1. now' = (now + read) + stamp
    BY <1>1, <1>8 DEF After
  <2>2. /\ Seen(i, now + read) /\ At(i) + 2 * count * least <= now + read
        /\ i = 1 /\ count = 0 => tsc0 + d1 < Period + Period
    BY <1>1, <1>3, <1>8, SeeByteCounting
  <2>3. now' - (now + read) = stamp /\ now <= now' /\ (count + 1) - 1 = count
    BY <1>2, <1>4, <2>1
  <2>4. ReadInv'
    <3>1. At(i') + 2 * (count' - 1) * least <= now + read
      BY <1>3, <2>2, <2>3
    <3> QED BY <1>3, <1>6, <2>2, <2>3, <3>1 DEF ReadInv, Seen
  <2>5. FirstInv'
    <3>1. i # 0 => /\ tsc0 >= 0 /\ d1 >= 0 /\ Period <= tsc0 + d1 /\ tsc0 + d1 <= now
                   /\ ~(i = 1 /\ count = 0) => tsc0 + d1 < Period + Period
      BY <1>3, <1>8 DEF PitInv, FirstInv
    <3>2. tsc0' = tsc0 /\ d1' = d1 /\ tsc0 \in Int /\ d1 \in Int
      BY <1>3, <1>4 DEF results, PitTypes
    <3>3. i # 0 => tsc0 + d1 <= now'
      BY <1>4, <2>3, <3>1, <3>2, <1>5 DEF PitTypes
    <3> QED BY <1>3, <2>2, <3>1, <3>2, <3>3 DEF FirstInv, Judged
  <2>6. StuckInv' /\ LastInv'
    BY <1>3, <1>8 DEF StuckInv, LastInv, Judged
  <2> QED BY <1>5, <2>4, <2>5, <2>6 DEF PitInv
<1> QED BY <1>7, <1>8

\* pit_expect_msb() ends: the byte is over, or was looked for too often.
LEMMA MissByteStep == ASSUME PitInv, MissByte PROVE PitInv'
<1>1. PICK read \in Delays, stamp \in Delays :
        /\ count < MaxCount => Msb(now + read) # Expected(i)
        /\ now' = After(IF count < MaxCount THEN now + read + stamp ELSE now + stamp)
  BY DEF MissByte
<1>2. read \in Nat /\ stamp \in Nat
  BY LeastDelay
<1>3. /\ pitPc = "expect" /\ stuck' = stuck /\ i' = i /\ count' = count /\ tsc' = tsc
      /\ pitPc' = IF Enough(count + 1) THEN IF i = 0 THEN "next" ELSE "judge" ELSE "failed"
  BY DEF MissByte, expecting
<1>4. IF i = 0 THEN tsc0' = tsc /\ d1' = now' - tsc /\ delta' = delta /\ d2' = d2
      ELSE delta' = tsc - tsc0 /\ d2' = now' - tsc /\ tsc0' = tsc0 /\ d1' = d1
  BY DEF MissByte, Uncertainty
<1>5. PitTypes /\ i \in Nat /\ count \in Nat /\ now \in Nat
  BY LoopAssumption, PeriodType DEF PitInv, PitTypes
<1>6. PitTypes'
  <2>1. now' \in Nat
    BY <1>1, <1>2, <1>5 DEF After
  <2> QED BY <1>3, <1>4, <1>5, <2>1 DEF PitTypes
<1>7. CASE ~Enough(count + 1)
  BY <1>3, <1>6, <1>7, PitOutside
<1>8. CASE Enough(count + 1)
  <2>1. count # 0
    BY <1>5, <1>8, LoopAssumption DEF Enough
  <2>2. pitPc' = IF i = 0 THEN "next" ELSE "judge"
    BY <1>3, <1>8
  <2>3. CASE stuck
    <3>1. i = 0
      BY <1>3, <2>1, <2>3 DEF PitInv, StuckInv
    <3> QED BY <1>3, <1>6, <2>2, <2>3, <3>1 DEF PitInv, StuckInv, ReadInv, FirstInv, LastInv
  <2>4. CASE ~stuck
    <3>1. now' = IF count < MaxCount THEN now + read + stamp ELSE now + stamp
      BY <1>1, <2>4 DEF After
    <3>2. /\ tsc = now /\ At(i) <= now /\ now <= now' /\ now' \in Nat /\ At(i) + Period <= now'
          /\ \E r : Seen(i, r) /\ \E d, e, f \in Delays : now' = r + d + e + f
      BY <1>1, <1>3, <2>1, <2>4, <3>1, MissByteCounting
    <3>3. At(i) \in Int /\ At(0) = 0 /\ Period \in Nat
      BY <1>5, AtFacts, PeriodType
    <3>4. ReadInv'
      <4>1. \E r : Seen(i, r) /\ Later(r)'
        BY <3>2 DEF Later
      <4>2. At(i') + Period <= now' /\ \E r : Seen(i', r) /\ Later(r)'
        BY <1>3, <3>2, <4>1
      <4>3. pitPc' # "expect"
        BY <2>2
      <4> QED BY <4>2, <4>3 DEF ReadInv, Seen, Later
    <3>5. CASE i = 0
      <4>1. tsc0' = now /\ d1' = now' - now
        BY <1>4, <3>2, <3>5
      <4>2. tsc0' >= 0 /\ d1' >= 0 /\ Period <= tsc0' + d1' /\ tsc0' + d1' <= now'
        BY <1>5, <3>2, <3>3, <3>5, <4>1
      <4> QED BY <1>3, <1>6, <2>2, <2>4, <3>4, <3>5, <4>2 DEF PitInv, StuckInv, FirstInv, LastInv
    <3>6. CASE i # 0
      <4>1. /\ tsc0 >= 0 /\ d1 >= 0 /\ Period <= tsc0 + d1 /\ tsc0 + d1 <= now
            /\ tsc0 + d1 < Period + Period
        BY <1>3, <2>1, <2>4, <3>6 DEF PitInv, FirstInv
      <4>2. delta' = now - tsc0 /\ d2' = now' - now /\ tsc0' = tsc0 /\ d1' = d1
        BY <1>4, <3>2, <3>6
      <4>3. tsc0 \in Int /\ d1 \in Int
        BY <1>5 DEF PitTypes
      <4>4. At(i) <= tsc0' + delta' /\ d2' >= 0 /\ At(i) + Period <= tsc0' + delta' + d2' /\ tsc0' + delta' + d2' <= now'
        BY <1>5, <3>2, <3>3, <4>2, <4>3
      <4>5. tsc0' + d1' <= now'
        BY <1>5, <3>2, <4>1, <4>2, <4>3
      <4>6. FirstInv' /\ StuckInv'
        BY <1>3, <2>2, <2>4, <3>6, <4>1, <4>2, <4>5 DEF FirstInv, StuckInv
      <4>7. LastInv'
        BY <1>3, <2>2, <3>6, <4>4 DEF LastInv
      <4> QED BY <1>6, <3>4, <4>6, <4>7 DEF PitInv
    <3> QED BY <3>5, <3>6
  <2> QED BY <2>3, <2>4
<1> QED BY <1>7, <1>8

\* The next byte is looked for, which has begun already.
LEMMA NextByteStep == ASSUME PitInv, NextByte PROVE PitInv'
<1>1. /\ pitPc = "next" /\ pitPc' = "expect" /\ i < MaxIterations /\ i' = i + 1 /\ count' = 0 /\ tsc' = 0
      /\ now' = now /\ stuck' = stuck /\ tsc0' = tsc0 /\ d1' = d1 /\ delta' = delta /\ d2' = d2
  BY DEF NextByte, results
<1>2. PitTypes /\ i \in Nat /\ (i + 1) - 1 = i /\ i + 1 # 0
  BY PeriodType DEF PitInv, PitTypes
<1>3. PitTypes'
  BY <1>1, <1>2, PeriodType, LoopAssumption DEF PitTypes
<1>4. At(i + 1) = At(i) + Period
  BY <1>2, AtFacts
<1>5. StuckInv' /\ LastInv'
  BY <1>1 DEF StuckInv, LastInv, Judged
<1>6. ReadInv'
  <2> SUFFICES ASSUME ~stuck
               PROVE  At(i') <= now' /\ \E r : Seen(i' - 1, r) /\ Later(r)'
    BY <1>1, <1>2 DEF ReadInv, Seen, Later
  <2>1. At(i) + Period <= now /\ \E r : Seen(i, r) /\ Later(r)
    BY <1>1 DEF PitInv, ReadInv
  <2>2. \A r : Later(r) => Later(r)'
    BY <1>1 DEF Later
  <2> QED BY <1>1, <1>2, <1>4, <2>1, <2>2
<1>7. FirstInv'
  <2>1. ~stuck => /\ tsc0 >= 0 /\ d1 >= 0 /\ Period <= tsc0 + d1 /\ tsc0 + d1 <= now
                  /\ i # 0 => tsc0 + d1 < Period + Period
    BY <1>1 DEF PitInv, FirstInv, Judged
  <2>2. i' = 1 <=> i = 0
    BY <1>1, <1>2
  <2> QED BY <1>1, <2>1, <2>2 DEF FirstInv, Judged
<1> QED BY <1>3, <1>5, <1>6, <1>7 DEF PitInv

\* The error is small enough, or the loop goes on.
LEMMA JudgeErrorStep == ASSUME PitInv, JudgeError PROVE PitInv'
<1>1. /\ pitPc = "judge" /\ pitPc' \in {"verify", "next"} /\ now' = now /\ stuck' = stuck /\ i' = i
      /\ count' = count /\ tsc' = tsc /\ tsc0' = tsc0 /\ d1' = d1 /\ delta' = delta /\ d2' = d2
  BY DEF JudgeError, expecting, results
<1>2. ~stuck /\ i # 0
  BY <1>1 DEF PitInv, StuckInv, LastInv
<1>3. PitTypes'
  BY <1>1 DEF PitInv, PitTypes
<1>4. StuckInv' /\ FirstInv' /\ LastInv'
  BY <1>1, <1>2 DEF PitInv, StuckInv, FirstInv, LastInv, Judged
<1>5. ReadInv'
  BY <1>1, <1>2 DEF PitInv, ReadInv, Later, Seen
<1> QED BY <1>3, <1>4, <1>5 DEF PitInv

\* It is the next byte that is seen at last, so that none has been passed over.
LEMMA VerifyByteStep == ASSUME PitInv, VerifyByte PROVE PitInv'
<1>1. /\ pitPc = "verify" /\ pitPc' = IF Verified(now') THEN "success" ELSE "failed"
      /\ stuck' = stuck /\ i' = i /\ count' = count /\ tsc' = tsc
      /\ tsc0' = tsc0 /\ d1' = d1 /\ delta' = delta /\ d2' = d2
  BY DEF VerifyByte, expecting, results
<1>2. ~stuck /\ i # 0
  BY <1>1 DEF PitInv, StuckInv, LastInv
<1>3. PICK g \in Delays : now' = now + g
  BY <1>2 DEF VerifyByte, After
<1>4. PitTypes /\ now \in Nat /\ g \in Nat /\ i \in Nat
  BY LeastDelay, PeriodType DEF PitInv, PitTypes
<1>5. PitTypes'
  BY <1>1, <1>3, <1>4 DEF PitTypes
<1>6. CASE pitPc' = "failed"
  BY <1>5, <1>6, PitOutside
<1>7. CASE Verified(now') /\ pitPc' = "success"
  <2> DEFINE W == Period * ByteValues
             t == now'
  <2>1. At(i) + Period <= now /\ \E r : Seen(i, r) /\ Later(r)
    BY <1>1, <1>2 DEF PitInv, ReadInv
  <2>2. PICK r : Seen(i, r) /\ Later(r)
    BY <2>1
  <2>3. PICK d \in Delays, e \in Delays, f \in Delays : now = r + d + e + f
    BY <2>2 DEF Later
  <2>4. /\ d \in Nat /\ e \in Nat /\ f \in Nat
        /\ 4 * d <= W /\ 4 * e <= W /\ 4 * f <= W /\ 4 * g <= W
    BY LeastDelay
  <2>5. r \in Nat /\ r < At(i) + Period
    BY <2>2 DEF Seen
  <2>6. At(i) \in Int /\ At(i + 1) = At(i) + Period /\ i + 1 \in 0..Top /\ W \in Nat /\ Period \in Nat
    BY <1>4, AtFacts, PeriodType
  <2>7. t \in Nat /\ now <= t
    BY <1>3, <1>4
  <2>8. t < At(i + 1) + W
    BY <1>3, <1>4, <2>3, <2>4, <2>5, <2>6
  <2>9. At(i + 1) <= t + Period
    BY <1>4, <2>1, <2>6, <2>7
  <2>10. Msb(t) = Expected(i + 1)
    <3>1. ~stuck'
      BY <1>1, <1>2
    <3>2. Msb(t) = Top - 1 - i
      BY <1>7 DEF Verified
    <3>3. Top - 1 - i = Top - (i + 1)
      BY <1>4, PeriodType DEF Top
    <3> QED BY <3>2, <3>3 DEF Expected
  <2> HIDE DEF t, W
  <2>11. t < At(i + 1) + Period
    BY <1>2, <2>6, <2>7, <2>8, <2>9, <2>10, MsbIs DEF W
  <2>12. now' < At(i) + Period + Period
    BY <2>6, <2>11 DEF t
  <2>13. /\ tsc0 >= 0 /\ d1 >= 0 /\ Period <= tsc0 + d1 /\ tsc0 + d1 <= now /\ tsc0 + d1 < Period + Period
         /\ At(i) <= tsc0 + delta /\ d2 >= 0
         /\ At(i) + Period <= tsc0 + delta + d2 /\ tsc0 + delta + d2 <= now
    BY <1>1, <1>2 DEF PitInv, FirstInv, LastInv, Judged
  <2>14. tsc0 \in Int /\ d1 \in Int /\ delta \in Int /\ d2 \in Int
    BY <1>4 DEF PitTypes
  <2>15. tsc0 + d1 <= now' /\ tsc0 + delta + d2 <= now'
    BY <1>3, <1>4, <2>13, <2>14
  <2>16. StuckInv' /\ ReadInv'
    BY <1>1, <1>2, <1>7 DEF StuckInv, ReadInv
  <2>17. FirstInv' /\ LastInv'
    BY <1>1, <1>2, <1>7, <2>12, <2>13, <2>15 DEF FirstInv, LastInv
  <2> QED BY <1>5, <2>16, <2>17 DEF PitInv
<1> QED BY <1>1, <1>6, <1>7

\* The steps that begin and end a measurement keep nothing of it.
LEMMA OutsideSteps ==
  ASSUME PitInv, Calibrate \/ TakeDefault \/ LoopEnds \/ Failed \/ Success
  PROVE  PitInv'
<1>1. PitTypes
  BY DEF PitInv
<1>2. CASE Failed
  <2>1. PitTypes'
    <3>1. 0 \in 0..MaxIterations /\ 0 \in 0..MaxCount
      BY PeriodType, LoopAssumption
    <3>2. stuck' \in BOOLEAN
      BY <1>2, Zenon DEF Failed
    <3> QED BY <1>2, <3>1, <3>2 DEF Failed, PitTypes
  <2> QED BY <1>2, <2>1, PitOutside DEF Failed
<1>3. CASE Calibrate \/ TakeDefault \/ LoopEnds \/ Success
  <2>1. PitTypes' /\ pitPc' \in {"calibrate", "start", "done", "failed"}
    BY <1>1, <1>3 DEF Calibrate, TakeDefault, LoopEnds, Success, PitTypes, expecting, results
  <2> QED BY <2>1, PitOutside
<1> QED BY <1>2, <1>3

\* Every step keeps what is known of the times.
LEMMA PitStep == PitInv /\ [PitNext]_pitVars => PitInv'
<1> SUFFICES ASSUME PitInv, [PitNext]_pitVars PROVE PitInv'
  OBVIOUS
<1>1. CASE UNCHANGED pitVars
  <2>1. /\ now' = now /\ stuck' = stuck /\ pitPc' = pitPc /\ i' = i /\ count' = count /\ tsc' = tsc
        /\ tsc0' = tsc0 /\ d1' = d1 /\ delta' = delta /\ d2' = d2
    BY <1>1 DEF pitVars, expecting, results
  <2> QED BY <2>1 DEF PitInv, PitTypes, StuckInv, ReadInv, FirstInv, LastInv, Seen, Later
<1> QED BY <1>1, StartPitStep, SeeByteStep, MissByteStep, NextByteStep, JudgeErrorStep, VerifyByteStep,
           OutsideSteps DEF PitNext

\* A measurement is wrong by less than a byte on top of its error.
LEMMA PitClose == PitInv => WithinOneByte
<1> SUFFICES ASSUME PitInv, pitPc = "success"
             PROVE  Distance(delta, i * Period) < Period + d1 + d2
  BY DEF WithinOneByte
<1>1. ~stuck /\ i # 0
  BY DEF PitInv, StuckInv, LastInv
<1>2. /\ tsc0 >= 0 /\ d1 >= 0 /\ Period <= tsc0 + d1 /\ tsc0 + d1 <= now /\ tsc0 + d1 < Period + Period
      /\ At(i) <= tsc0 + delta /\ d2 >= 0
      /\ At(i) + Period <= tsc0 + delta + d2 /\ tsc0 + delta + d2 <= now
      /\ now < At(i) + Period + Period
  BY <1>1 DEF PitInv, FirstInv, LastInv, Judged
<1>3. /\ tsc0 \in Int /\ d1 \in Int /\ delta \in Int /\ d2 \in Int /\ now \in Int /\ At(i) \in Int
      /\ Period \in Int
  BY AtFacts, PeriodType DEF PitInv, PitTypes
<1>4. i * Period = At(i)
  BY PeriodType DEF At, PitInv, PitTypes
<1> QED BY <1>2, <1>3, <1>4 DEF Distance

-----------------------------------------------------------------------------
(* The other clocks.  A count is right, or one short where the counter     *)
(* wrapped around; or, with an HPET, far more than there were cycles.      *)

Elapsed == ticks - first
Close   == Elapsed - measured \in {0, 1}
Beyond  == timer = "hpet" /\ measured > Elapsed * Cycles * Freq

TickTypes ==
  /\ tmPc \in {"idle", "loop", "done"} /\ <<timer, last>> \in Counters
  /\ first \in 0..last /\ ticks \in Nat /\ first <= ticks /\ measured \in Nat
  /\ cpu_freq_of \in [{"hpet", "pm"} -> Nat]

TickInv ==
  /\ TickTypes
  /\ tmPc = "loop" => Close /\ measured < Duration
  /\ tmPc = "done" => measured > 0 /\ (Close \/ Beyond)
  /\ tmPc = "idle" /\ cpu_freq_of[timer] # 0 => Close

\* The sizes of the counters, and of what is counted.
LEMMA TickSizes ==
  /\ Duration \in Nat /\ Duration > 0 /\ Freq \in Nat /\ Freq > 0 /\ Cycles \in Nat /\ Cycles > 0
  /\ UINT64_MAX \in Nat /\ UINT32_MAX \in Nat /\ UINT24_MAX \in Nat
  /\ UINT24_MAX <= UINT32_MAX /\ UINT32_MAX <= UINT64_MAX
<1>1. \A f \in Nat : f >= 10 => f \div 10 \in Nat /\ f \div 10 > 0
  OBVIOUS
<1> QED BY <1>1, WidthAssumption, FreqAssumption DEF Duration

\* A counter that was not yet at its end is read once more.
LEMMA CountedOn ==
  ASSUME NEW m \in {UINT64_MAX, UINT32_MAX, UINT24_MAX}, last = m, NEW f \in 0..m, NEW t \in Nat, f <= t, t - f <= m
  PROVE  Reading(f) = f /\ Reading(t) = IF t <= m THEN t ELSE t - (m + 1)
<1>1. m \in Nat
  BY TickSizes
<1>2. \A n, x \in Nat : n > 0 => (x < n => x % n = x) /\ (n <= x /\ x < n + n => x % n = x - n)
  <2> SUFFICES ASSUME NEW n \in Nat, NEW x \in Nat, n > 0
               PROVE  (x < n => x % n = x) /\ (n <= x /\ x < n + n => x % n = x - n)
    OBVIOUS
  <2> DEFINE q == x \div n
             r == x % n
  <2>1. q \in Nat /\ r \in 0..(n - 1) /\ x = n * q + r
    BY Divided
  <2> HIDE DEF q, r
  <2>2. q = 0 => x = r
    BY <2>1
  <2>3. q = 1 => x = n + r
    BY <2>1
  <2>4. q >= 2 => x >= n + n
    <3> SUFFICES ASSUME q >= 2 PROVE x >= n + n
      OBVIOUS
    <3>1. n * q = n + n + n * (q - 2) /\ n * (q - 2) \in Nat
      BY <2>1
    <3> QED BY <2>1, <3>1
  <2>5. q >= 1 => x >= n
    <3> SUFFICES ASSUME q >= 1 PROVE x >= n
      OBVIOUS
    <3>1. n * q = n + n * (q - 1) /\ n * (q - 1) \in Nat
      BY <2>1
    <3> QED BY <2>1, <3>1
  <2> QED BY <2>1, <2>2, <2>3, <2>4, <2>5 DEF r
<1>3. f \in Nat /\ f < m + 1 /\ m + 1 \in Nat /\ m + 1 > 0 /\ t < (m + 1) + (m + 1)
  BY <1>1
<1>4. f % (m + 1) = f
  BY <1>2, <1>3
<1>5. t <= m => t % (m + 1) = t
  BY <1>1, <1>2, <1>3
<1>6. ~(t <= m) => t % (m + 1) = t - (m + 1)
  BY <1>1, <1>2, <1>3
<1> QED BY <1>4, <1>5, <1>6 DEF Reading

\* A measurement begins.
LEMMA MeasureStep == ASSUME TickInv, Measure PROVE TickInv'
<1>1. PICK c \in Counters, e \in Early : /\ timer' = c[1] /\ last' = c[2] /\ first' = c[2] - e /\ ticks' = c[2] - e
  BY DEF Measure
<1>2. measured' = 0 /\ tmPc' = "loop" /\ cpu_freq_of' = cpu_freq_of
  BY DEF Measure
<1>3. c = <<c[1], c[2]>> /\ c[2] \in Nat /\ UINT24_MAX <= c[2]
  BY TickSizes DEF Counters
<1>4. e \in Nat /\ e <= c[2]
  BY <1>3, ReadAssumption, TickSizes
<1>5. TickTypes'
  <2>1. first' \in 0..last' /\ ticks' \in Nat /\ first' <= ticks'
    BY <1>1, <1>3, <1>4
  <2>2. <<timer', last'>> \in Counters
    BY <1>1, <1>3
  <2> QED BY <1>2, <2>1, <2>2 DEF TickInv, TickTypes
<1>6. Close'
  BY <1>1, <1>2, <1>3, <1>4 DEF Close, Elapsed
<1> QED BY <1>2, <1>5, <1>6, TickSizes DEF TickInv

\* What the difference of two readings says.
LEMMA DeltaIs ==
  ASSUME TickInv, tmPc = "loop", NEW a \in Advances, NEW d, d = Delta(Reading(first), Reading(ticks + a))
  PROVE  /\ d \in Nat
         /\ \/ ((ticks + a) - first) - d \in {0, 1}
            \/ timer = "hpet" /\ d > ((ticks + a) - first) * Cycles * Freq /\ d >= Duration
<1> DEFINE t == ticks + a
           el == t - first
           m == last
<1>1. /\ <<timer, m>> \in Counters /\ first \in 0..m /\ ticks \in Nat /\ first <= ticks /\ m \in Nat
      /\ measured \in Nat /\ measured < Duration /\ (ticks - first) - measured \in {0, 1} /\ UINT24_MAX <= m
  BY TickSizes DEF TickInv, TickTypes, Close, Elapsed, Counters
<1>2. /\ a \in Nat /\ Duration + a <= UINT24_MAX /\ Duration + a + UINT24_MAX <= UINT32_MAX
      /\ (Duration + a) * Cycles * Freq < UINT64_MAX - UINT32_MAX
  BY ReadAssumption, TurnAssumption
<1>3. t \in Nat /\ first <= t /\ el \in Nat /\ el <= Duration + a /\ el <= m /\ first \in Nat
  BY <1>1, <1>2, TickSizes
<1>4. m \in {UINT64_MAX, UINT32_MAX, UINT24_MAX} /\ timer \in {"hpet", "pm"}
  BY <1>1 DEF Counters
<1>5. el * Cycles * Freq < UINT64_MAX - UINT32_MAX /\ el * Cycles * Freq \in Nat
  <2>1. \A x, y, c, f \in Nat : x <= y => x * c * f <= y * c * f /\ x * c * f \in Nat /\ y * c * f \in Nat
    <3> SUFFICES ASSUME NEW x \in Nat, NEW y \in Nat, NEW c \in Nat, NEW f \in Nat, x <= y
                 PROVE  x * c * f <= y * c * f /\ x * c * f \in Nat /\ y * c * f \in Nat
      OBVIOUS
    <3>1. y * c * f = x * c * f + (y - x) * c * f /\ (y - x) * c * f \in Nat /\ x * c * f \in Nat
      OBVIOUS
    <3> QED BY <3>1
  <2>2. el \in Nat /\ Duration + a \in Nat /\ Cycles \in Nat /\ Freq \in Nat
    BY <1>2, <1>3, TickSizes
  <2> HIDE DEF el
  <2>3. el * Cycles * Freq <= (Duration + a) * Cycles * Freq /\ el * Cycles * Freq \in Nat /\ (Duration + a) * Cycles * Freq \in Nat
    BY <1>3, <2>1, <2>2
  <2> QED BY <1>2, <2>3, TickSizes
<1>6. Reading(first) = first /\ Reading(t) = IF t <= m THEN t ELSE t - (m + 1)
  <2> HIDE DEF t
  <2>1. t - first <= m
    BY <1>3
  <2> QED BY <1>1, <1>3, <1>4, <2>1, CountedOn
<1>7. d = Delta(first, IF t <= m THEN t ELSE t - (m + 1))
  BY <1>6
<1>8. Duration < UINT64_MAX - UINT32_MAX
  <2>1. \A x, y, z \in Nat : y > 0 /\ z > 0 => x <= x * y * z
    <3> SUFFICES ASSUME NEW x \in Nat, NEW y \in Nat, NEW z \in Nat, y > 0, z > 0 PROVE x <= x * y * z
      OBVIOUS
    <3>1. x * y = x + x * (y - 1) /\ x * (y - 1) \in Nat /\ x * y \in Nat
      OBVIOUS
    <3>2. x * y * z = x * y + x * y * (z - 1) /\ x * y * (z - 1) \in Nat
      BY <3>1
    <3> QED BY <3>1, <3>2
  <2>2. Duration + a \in Nat /\ Duration <= Duration + a
    BY <1>2, TickSizes
  <2>3. Duration + a <= (Duration + a) * Cycles * Freq /\ (Duration + a) * Cycles * Freq \in Int
    BY <2>1, <2>2, TickSizes
  <2> QED BY <1>2, <2>2, <2>3, TickSizes
<1> HIDE DEF t, m
<1>9. CASE timer = "pm"
  <2>1. m = UINT32_MAX \/ m = UINT24_MAX
    BY <1>1, <1>9 DEF Counters
  <2>2. d = PmDelta(first, IF t <= m THEN t ELSE t - (m + 1))
    BY <1>7, <1>9 DEF Delta
  <2>3. CASE t <= m
    <3>1. d = t - first
      BY <1>3, <2>2, <2>3 DEF PmDelta
    <3> QED BY <1>3, <3>1 DEF t
  <2>4. CASE ~(t <= m)
    <3> DEFINE u == t - (m + 1)
    <3>1. u \in Nat /\ u < first /\ first - u = (m + 1) - el /\ t \in Nat
      BY <1>1, <1>3, <2>4
    <3>2. d = IF IsTurn24(first, u) THEN UINT24_MAX - first + u ELSE UINT32_MAX - first + u
      BY <1>3, <2>2, <2>4, <3>1 DEF PmDelta
    <3>3. IsTurn24(first, u) <=> m = UINT24_MAX
      <4>1. el > 0
        BY <1>1, <1>3, <3>1
      <4>2. m = UINT24_MAX => (m + 1) - el <= UINT24_MAX
        BY <1>1, <1>3, <4>1
      <4>3. m = UINT32_MAX => ~((m + 1) - el <= UINT24_MAX)
        BY <1>1, <1>2, <1>3, TickSizes
      <4>4. IsTurn24(first, u) <=> (m + 1) - el <= UINT24_MAX
        BY <3>1 DEF IsTurn24
      <4> HIDE DEF u, el
      <4> QED BY <2>1, <4>2, <4>3, <4>4
    <3>4. d = m - first + u
      BY <2>1, <3>2, <3>3
    <3>5. m - first + u = el - 1 /\ el > 0
      BY <1>1, <1>3, <3>1
    <3>6. d = el - 1
      BY <3>4, <3>5
    <3> QED BY <1>3, <3>5, <3>6 DEF t
  <2> QED BY <2>3, <2>4
<1>10. CASE timer = "hpet"
  <2>1. m = UINT64_MAX \/ m = UINT32_MAX
    BY <1>1, <1>10 DEF Counters
  <2>2. d = HpetDelta(first, IF t <= m THEN t ELSE t - (m + 1))
    BY <1>7, <1>10 DEF Delta
  <2>3. \A x, n \in Nat : x <= n => x % (n + 1) = x
    OBVIOUS
  <2>4. CASE t <= m /\ first < t
    <3>1. d = t - first
      BY <1>3, <2>2, <2>4 DEF HpetDelta
    <3> QED BY <1>3, <3>1 DEF t
  <2>5. CASE t <= m /\ ~(first < t)
    <3>1. t = first /\ el = 0
      BY <1>3, <2>5
    <3>2. d = (UINT64_MAX - first + first) % (UINT64_MAX + 1)
      BY <2>2, <2>5, <3>1 DEF HpetDelta
    <3>3. UINT64_MAX - first + first = UINT64_MAX
      BY <1>3, TickSizes
    <3>4. d = UINT64_MAX
      BY <2>3, <3>2, <3>3, TickSizes
    <3>5. el * Cycles * Freq = 0
      BY <3>1, TickSizes
    <3>6. UINT64_MAX > 0 /\ UINT64_MAX >= Duration
      BY <1>5, <1>8, <3>5, TickSizes
    <3> QED BY <1>10, <3>4, <3>5, <3>6, TickSizes DEF t
  <2>6. CASE ~(t <= m)
    <3> DEFINE u == t - (m + 1)
    <3>1. u \in Nat /\ u < first /\ first - u = (m + 1) - el /\ el > 0
      BY <1>1, <1>3, <2>6
    <3>2. d = (UINT64_MAX - first + u) % (UINT64_MAX + 1)
      BY <1>3, <2>2, <2>6, <3>1 DEF HpetDelta
    <3>3. UINT64_MAX - first + u = UINT64_MAX - ((m + 1) - el) /\ UINT64_MAX - first + u \in Nat /\ UINT64_MAX - first + u <= UINT64_MAX
      BY <1>1, <1>3, <2>1, <3>1, TickSizes
    <3>4. d = UINT64_MAX - ((m + 1) - el)
      <4> HIDE DEF u, el
      <4> QED BY <2>3, <3>2, <3>3, TickSizes
    <3>5. CASE m = UINT64_MAX
      <4>1. d = el - 1
        BY <1>1, <1>3, <3>4, <3>5
      <4> QED BY <1>3, <3>1, <4>1 DEF t
    <3>6. CASE m = UINT32_MAX
      <4>1. d >= UINT64_MAX - UINT32_MAX /\ d \in Nat
        BY <1>3, <3>1, <3>4, <3>6, TickSizes
      <4> DEFINE z == el * Cycles * Freq
      <4>2. z \in Nat /\ z < UINT64_MAX - UINT32_MAX
        BY <1>5
      <4> HIDE DEF z
      <4>3. d > z /\ d >= Duration
        BY <1>8, <4>1, <4>2, TickSizes
      <4> QED BY <1>10, <4>1, <4>3 DEF z, t
    <3> QED BY <2>1, <3>5, <3>6
  <2> QED BY <2>4, <2>5, <2>6
<1> QED BY <1>4, <1>9, <1>10

\* The counter is read again.
LEMMA ReadOnStep == ASSUME TickInv, ReadOn PROVE TickInv'
<1>1. PICK a \in Advances : LET t == ticks + a
                                d == Delta(Reading(first), Reading(t))
                            IN  ticks' = t /\ measured' = d /\ tmPc' = IF d < Duration THEN "loop" ELSE "done"
  BY DEF ReadOn
<1>2. tmPc = "loop" /\ timer' = timer /\ last' = last /\ first' = first /\ cpu_freq_of' = cpu_freq_of
  BY DEF ReadOn
<1>3. a \in Nat /\ ticks \in Nat /\ first \in Nat /\ first <= ticks
  BY ReadAssumption, TickSizes DEF TickInv, TickTypes, Counters
<1>4. /\ measured' \in Nat
      /\ \/ (ticks' - first) - measured' \in {0, 1}
         \/ timer = "hpet" /\ measured' > (ticks' - first) * Cycles * Freq /\ measured' >= Duration
  BY <1>1, <1>2, DeltaIs
<1>5. TickTypes'
  <2>1. ticks' \in Nat /\ first <= ticks'
    BY <1>1, <1>3
  <2> QED BY <1>1, <1>2, <1>4, <2>1 DEF TickInv, TickTypes
<1>6. Close' \/ (Beyond' /\ measured' >= Duration)
  BY <1>2, <1>4 DEF Close, Beyond, Elapsed
<1>7. IF measured' < Duration THEN tmPc' = "loop" ELSE tmPc' = "done"
  BY <1>1
<1>8. CASE measured' < Duration
  BY <1>4, <1>5, <1>6, <1>7, <1>8, TickSizes DEF TickInv
<1>9. CASE ~(measured' < Duration)
  BY <1>4, <1>5, <1>6, <1>7, <1>9, TickSizes DEF TickInv
<1> QED BY <1>8, <1>9

\* A count beyond the cycles there were makes a frequency of 0.
LEMMA FinishStep == ASSUME TickInv, Finish PROVE TickInv'
<1> DEFINE freq == (Elapsed * Cycles * Freq) \div measured
<1>1. /\ tmPc = "done" /\ tmPc' = "idle" /\ cpu_freq_of' = [cpu_freq_of EXCEPT ![timer] = freq]
      /\ timer' = timer /\ last' = last /\ ticks' = ticks /\ first' = first /\ measured' = measured
  BY DEF Finish, Elapsed
<1>2. TickTypes /\ measured \in Nat /\ measured > 0 /\ Elapsed \in Nat /\ timer \in {"hpet", "pm"}
  BY <1>1, TickSizes DEF TickInv, TickTypes, Elapsed, Counters
<1>3. Elapsed * Cycles * Freq \in Nat
  BY <1>2, TickSizes
<1>4. \A x, y \in Nat : y > 0 => x \div y \in Nat /\ (x < y => x \div y = 0)
  OBVIOUS
<1>5. freq \in Nat /\ (Elapsed * Cycles * Freq < measured => freq = 0)
  BY <1>2, <1>3, <1>4
<1> HIDE DEF freq
<1>6. cpu_freq_of' \in [{"hpet", "pm"} -> Nat] /\ cpu_freq_of'[timer] = freq
  BY <1>1, <1>2, <1>5 DEF TickTypes
<1>7. TickTypes'
  BY <1>1, <1>2, <1>6 DEF TickTypes
<1>8. freq # 0 => Close
  BY <1>1, <1>2, <1>3, <1>5 DEF TickInv, Beyond
<1>9. cpu_freq_of'[timer'] # 0 => Close'
  BY <1>1, <1>6, <1>8 DEF Close, Elapsed
<1> QED BY <1>1, <1>7, <1>9 DEF TickInv

\* Nothing has been measured yet.
LEMMA TickStarts == TickMeasureInit => TickInv
<1> SUFFICES ASSUME TickMeasureInit PROVE TickInv
  OBVIOUS
<1>1. TickTypes
  <2>1. <<timer, last>> \in Counters
    BY DEF TickMeasureInit, Counters
  <2> QED BY <2>1, TickSizes DEF TickMeasureInit, TickTypes
<1>2. cpu_freq_of[timer] = 0 /\ tmPc = "idle"
  BY DEF TickMeasureInit
<1> QED BY <1>1, <1>2 DEF TickInv

\* Every step keeps the count close, or far beyond.
LEMMA TickStep == TickInv /\ [TickMeasureNext]_tmVars => TickInv'
<1> SUFFICES ASSUME TickInv, [TickMeasureNext]_tmVars PROVE TickInv'
  OBVIOUS
<1>1. CASE UNCHANGED tmVars
  BY <1>1 DEF tmVars, TickInv, TickTypes, Close, Beyond, Elapsed
<1> QED BY <1>1, MeasureStep, ReadOnStep, FinishStep DEF TickMeasureNext

\* The invariant has the properties of TickMeasure.
LEMMA TickClose == TickInv => KeptIsClose /\ PmIsClose
<1>1. TickInv /\ timer = "pm" => ~Beyond
  BY DEF Beyond
<1> QED BY <1>1 DEF TickInv, KeptIsClose, PmIsClose, Close, Elapsed

-----------------------------------------------------------------------------

\* As long as no stall is a quarter of the PIT's round and no measurement a turn of
\* its counter, what quick_pit_calibrate() accepts is less than a byte off, beyond its
\* error, and what hpet_measure_ticks() and AsmMeasureTicks() count is right, or one
\* short, whenever a frequency made of it is kept.
THEOREM ClocksMeasured == PitSpec /\ TickMeasureSpec => []ClocksClose
<1>1. PitSpec => []PitInv
  BY PitStarts, PitStep, PTL DEF PitSpec
<1>2. TickMeasureSpec => []TickInv
  BY TickStarts, TickStep, PTL DEF TickMeasureSpec
<1>3. PitInv /\ TickInv => ClocksClose
  BY PitClose, TickClose DEF ClocksClose
<1> QED BY <1>1, <1>2, <1>3, PTL
==============================================================================
