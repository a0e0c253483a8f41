----------------------------- MODULE PitCalibrate -----------------------------
(***************************************************************************)
(* quick_pit_calibrate() and tsc_calibrate() of kern/tsc.c: how fast the   *)
(* time stamp counter runs, measured against the PIT.                      *)
(*                                                                         *)
(* The PIT counts down from its largest value, one tick every TickCycles   *)
(* cycles of the processor, and of its counter only the upper byte is      *)
(* looked at, which changes every ByteTicks ticks.  A port read, or         *)
(* whatever happens between two instructions, takes any of Delays cycles:  *)
(* nothing keeps the firmware or a hypervisor from stalling the processor. *)
(***************************************************************************)
EXTENDS Integers

CONSTANTS
  TickCycles,   \* cycles of the processor in one tick of the PIT
  ByteTicks,    \* ticks between two values of the upper byte: 256
  ByteValues,   \* values of the upper byte: 256
  MinCount,     \* pit_expect_msb() wants its count above this: 6
  MaxCount,     \* and gives up after this many reads: 50000
  Precision,    \* the error may be 1/Precision of the time measured: 2048
  MaxIterations,\* MAX_QUICK_PIT_ITERATIONS
  TIMES,        \* attempts before the default is taken
  Delays        \* cycles that pass between two instructions

ASSUME PitAssumption   == {TickCycles, ByteTicks, ByteValues, Precision} \subseteq Nat \ {0}
ASSUME LoopAssumption  == /\ MaxCount \in Nat /\ {MinCount, TIMES, MaxIterations} \subseteq Nat \ {0}
                          /\ MaxIterations + 2 <= ByteValues
ASSUME DelayAssumption == Delays \subseteq Nat \ {0}

Top    == ByteValues - 1
Period == ByteTicks * TickCycles

\* No stall is a quarter of the time in which the PIT counts down once: after a longer
\* one the same byte may be back.  MaxCount reads, 50000 of a microsecond, take longer
\* than a byte lasts, 215 microseconds, so that they run out only if the PIT is stuck.
ASSUME StallAssumption == \A d \in Delays : /\ 4 * d <= ByteValues * Period
                                            /\ Period <= 2 * (MaxCount - 1) * d

VARIABLES
  now,     \* cycles since the PIT began to count
  stuck,   \* the PIT does not count at all
  pitPc,   \* where quick_pit_calibrate() is
  i,       \* which byte it waits to see the end of: Top - i
  count, tsc,  \* the variables of pit_expect_msb()
  tsc0, d1,    \* what the first call of it returned
  delta, d2,   \* what the last call returned, delta less tsc0
  tries,       \* the loop of tsc_calibrate(), counting down
  cpu_freq     \* "unknown", "measured" or "default"

expecting == <<count, tsc>>
results   == <<tsc0, d1, delta, d2>>
pitVars   == <<now, stuck, pitPc, i, expecting, results, tries, cpu_freq>>

\* The upper byte of the counter at time t: external.
Msb(t) == IF stuck THEN Top ELSE (Top - (t \div Period)) % ByteValues

\* Time goes by, as far as a PIT that counts can tell.
After(t) == IF stuck THEN now ELSE t

PitInit ==
  /\ now = 0 /\ stuck = FALSE /\ pitPc = "calibrate" /\ i = 0 /\ count = 0 /\ tsc = 0
  /\ tsc0 = 0 /\ d1 = 0 /\ delta = 0 /\ d2 = 0
  /\ tries = TIMES /\ cpu_freq = "unknown"

\* tsc_calibrate() tries again, one time less than TIMES says.
Calibrate ==
  /\ pitPc = "calibrate" /\ tries > 1
  /\ tries' = tries - 1
  /\ pitPc' = "start"
  /\ UNCHANGED <<now, stuck, i, expecting, results, cpu_freq>>

TakeDefault ==
  /\ pitPc = "calibrate" /\ tries = 1
  /\ tries' = 0 /\ cpu_freq' = "default" /\ pitPc' = "done"
  /\ UNCHANGED <<now, stuck, i, expecting, results>>

\* The PIT is set to its largest value, and read once to let it start.
StartPit ==
  /\ pitPc = "start"
  /\ now' \in Delays /\ stuck' \in BOOLEAN
  /\ i' = 0 /\ count' = 0 /\ tsc' = 0
  /\ pitPc' = "expect"
  /\ UNCHANGED <<results, tries, cpu_freq>>

Expected(k) == Top - k

Counted(n) == n + 1

\* pit_expect_msb(): one more read that still sees the byte, ...
SeeByte ==
  /\ pitPc = "expect" /\ count < MaxCount
  /\ \E read \in Delays, stamp \in Delays :
       /\ Msb(now + read) = Expected(i)
       /\ now' = After(now + read + stamp)
  /\ count' = Counted(count) /\ tsc' = now'
  /\ UNCHANGED <<stuck, pitPc, i, results, tries, cpu_freq>>

Enough(n) == n > MinCount

\* The time between the last two readings of the time stamp counter.
Uncertainty == now' - tsc

\* ... and the read that no longer does.  Its count has gone up as well.
MissByte ==
  /\ pitPc = "expect"
  /\ \E read \in Delays, stamp \in Delays :
       /\ count < MaxCount => Msb(now + read) # Expected(i)
       /\ now' = After(IF count < MaxCount THEN now + read + stamp ELSE now + stamp)
  /\ IF i = 0 THEN tsc0' = tsc /\ d1' = Uncertainty /\ UNCHANGED <<delta, d2>>
              ELSE delta' = tsc - tsc0 /\ d2' = Uncertainty /\ UNCHANGED <<tsc0, d1>>
  /\ pitPc' = IF Enough(count + 1) THEN IF i = 0 THEN "next" ELSE "judge" ELSE "failed"
  /\ UNCHANGED <<stuck, i, expecting, tries, cpu_freq>>

\* The loop of quick_pit_calibrate() goes on to the next byte, ...
NextByte ==
  /\ pitPc = "next" /\ i < MaxIterations
  /\ i' = i + 1 /\ count' = 0 /\ tsc' = 0
  /\ pitPc' = "expect"
  /\ UNCHANGED <<now, stuck, results, tries, cpu_freq>>

LoopEnds ==
  /\ pitPc = "next" /\ i = MaxIterations
  /\ pitPc' = "failed"
  /\ UNCHANGED <<now, stuck, i, expecting, results, tries, cpu_freq>>

\* ... as long as the error is too large.
SmallError == d1 + d2 < delta \div Precision

JudgeError ==
  /\ pitPc = "judge"
  /\ pitPc' = IF SmallError THEN "verify" ELSE "next"
  /\ UNCHANGED <<now, stuck, i, expecting, results, tries, cpu_freq>>

MutantUnverified(t) == TRUE
Verified(t) == Msb(t) = Top - 1 - i

\* `Check the PIT one more time'
VerifyByte ==
  /\ pitPc = "verify"
  /\ now' \in {After(now + d) : d \in Delays}
  /\ pitPc' = IF Verified(now') THEN "success" ELSE "failed"
  /\ UNCHANGED <<stuck, i, expecting, results, tries, cpu_freq>>

Failed ==
  /\ pitPc = "failed"
  /\ pitPc' = "calibrate"
  /\ now' = 0 /\ stuck' = FALSE /\ i' = 0 /\ count' = 0 /\ tsc' = 0 /\ tsc0' = 0 /\ d1' = 0 /\ delta' = 0 /\ d2' = 0
  /\ UNCHANGED <<tries, cpu_freq>>

Success ==
  /\ pitPc = "success"
  /\ cpu_freq' = "measured" /\ pitPc' = "done"
  /\ UNCHANGED <<now, stuck, i, expecting, results, tries>>

PitNext == \/ Calibrate \/ TakeDefault \/ StartPit \/ SeeByte \/ MissByte \/ NextByte
           \/ LoopEnds \/ JudgeError \/ VerifyByte \/ Failed \/ Success

\* The kernel does nothing else meanwhile.
PitSpec == PitInit /\ [][PitNext]_pitVars /\ WF_pitVars(PitNext)

-----------------------------------------------------------------------------
(* Properties.                                                             *)

Distance(a, b) == IF a < b THEN b - a ELSE a - b

\* `the TSC reads are reliable (within the error)' (kern/tsc.c:145).
WithinError ==
  pitPc = "success" => Distance(delta, i * Period) <= d1 + d2

\* However the reads are delayed, a measurement that is accepted is about i
\* values of the upper byte: it is wrong by less than one of them on top of its
\* error.  A stall of a whole period of the PIT would go unnoticed.
WithinOneByte ==
  pitPc = "success" => Distance(delta, i * Period) < Period + d1 + d2

\* The calibration ends, with a frequency, whatever the PIT does.
CalibrationEnds == (pitPc # "calibrate") ~> (cpu_freq \in {"measured", "default"})
=============================================================================
