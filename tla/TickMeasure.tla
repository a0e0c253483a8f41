------------------------------ MODULE TickMeasure ------------------------------
(***************************************************************************)
(* hpet_cpu_frequency() with hpet_measure_ticks(), and                     *)
(* pmtimer_cpu_frequency() with AsmMeasureTicks(), of kern/timer.c: the    *)
(* time stamp counter against a counter that wraps around, the HPET's of   *)
(* 64 or 32 bits or the ACPI timer's of 32 or 24 bits.  The three widths   *)
(* are kept apart, and are smaller.  What PitCalibrate says of the PIT is  *)
(* the other way to measure the same.                                      *)
(***************************************************************************)
EXTENDS PitCalibrate

CONSTANTS
  UINT64_MAX, UINT32_MAX, UINT24_MAX,
  Freq,       \* ticks in a second: hpetFreq, PM_FREQ
  Cycles,     \* cycles of the processor in a tick
  Advances,   \* ticks between two readings
  Early       \* how long before the counter wraps the measurement may begin

ASSUME WidthAssumption == /\ {UINT64_MAX, UINT32_MAX, UINT24_MAX} \subseteq Nat
                          /\ UINT24_MAX <= UINT32_MAX /\ UINT32_MAX <= UINT64_MAX
ASSUME FreqAssumption  == Freq \in Nat /\ Freq >= 10 /\ Cycles \in Nat \ {0}
ASSUME ReadAssumption  == Advances \subseteq Nat /\ Early \subseteq 0..UINT24_MAX

VARIABLES
  tmPc,                 \* "idle", "loop", "done"
  timer,                \* "hpet" or "pm"
  last,                 \* the largest value of its counter
  ticks,                \* the ticks there have been, counted without end
  first,                \* ticks when the measurement began
  measured,             \* hpet_current_delta, AcpiCurrentDelta
  cpu_freq_of           \* cpu_freq of either function

tmVars == <<tmPc, timer, last, ticks, first, measured, cpu_freq_of>>

Counters == {<<"hpet", UINT64_MAX>>, <<"hpet", UINT32_MAX>>, <<"pm", UINT32_MAX>>, <<"pm", UINT24_MAX>>}

TickMeasureInit ==
  /\ tmPc = "idle" /\ timer = "pm" /\ last = UINT24_MAX
  /\ ticks = 0 /\ first = 0 /\ measured = 0
  /\ cpu_freq_of = [t \in {"hpet", "pm"} |-> 0]

Duration == Freq \div 10

\* A tenth of a second and one more reading are no turn of any counter, and do
\* not make a step back of the wider ACPI timer look like one of the narrower;
\* and the cycles in it are far fewer than a turn of 64 bits.
ASSUME TurnAssumption == \A a \in Advances : /\ Duration + a <= UINT24_MAX
                                             /\ Duration + a + UINT24_MAX <= UINT32_MAX
                                             /\ (Duration + a) * Cycles * Freq < UINT64_MAX - UINT32_MAX

\* The counter as a read returns it.
Reading(t) == t % (last + 1)

\* hpet_measure_ticks(): equal readings count as a whole turn.
HpetDelta(t0, t1) ==
  IF t0 < t1 THEN t1 - t0 ELSE (UINT64_MAX - t0 + t1) % (UINT64_MAX + 1)

IsTurn24(t0, t1) == t0 - t1 <= UINT24_MAX

\* AsmMeasureTicks(): the size of the step back tells how wide the timer is.
PmDelta(t0, t1) ==
  IF t0 <= t1 THEN t1 - t0
  ELSE IF IsTurn24(t0, t1) THEN UINT24_MAX - t0 + t1
  ELSE UINT32_MAX - t0 + t1

Delta(t0, t1) == IF timer = "hpet" THEN HpetDelta(t0, t1) ELSE PmDelta(t0, t1)

\* The first reading; a frequency that is known is returned as it is.
Measure ==
  /\ tmPc = "idle"
  /\ \E c \in Counters, e \in Early :
       /\ cpu_freq_of[c[1]] = 0
       /\ timer' = c[1] /\ last' = c[2]
       /\ first' = c[2] - e /\ ticks' = c[2] - e
  /\ measured' = 0 /\ tmPc' = "loop"
  /\ UNCHANGED cpu_freq_of

ReadOn ==
  /\ tmPc = "loop"
  /\ \E a \in Advances :
       LET t == ticks + a
           d == Delta(Reading(first), Reading(t)) IN
       /\ ticks' = t /\ measured' = d
       /\ tmPc' = IF d < Duration THEN "loop" ELSE "done"
  /\ UNCHANGED <<timer, last, first, cpu_freq_of>>

\* The time stamp counter, which does not wrap, is read once more.
Finish ==
  /\ tmPc = "done"
  /\ cpu_freq_of' = [cpu_freq_of EXCEPT ![timer] = ((ticks - first) * Cycles * Freq) \div measured]
  /\ tmPc' = "idle"
  /\ UNCHANGED <<timer, last, ticks, first, measured>>

TickMeasureNext == Measure \/ ReadOn \/ Finish
TickMeasureSpec == TickMeasureInit /\ [][TickMeasureNext]_tmVars

-----------------------------------------------------------------------------
(* Properties.                                                             *)

\* A frequency that is kept comes from a count of ticks that is right, or one
\* short where the counter wrapped around.  A reading equal to the first, or
\* an HPET of 32 bits that wraps, makes hpet_measure_ticks() see a whole turn
\* of 64 bits: the frequency is 0 then, which is not kept and not to be used.
KeptIsClose ==
  tmPc = "idle" /\ cpu_freq_of[timer] # 0 => ticks - first - measured \in {0, 1}

\* The ACPI timer, 24 or 32 bits wide, is never taken for the other.
PmIsClose ==
  tmPc = "done" /\ timer = "pm" => ticks - first - measured \in {0, 1}

\* What is measured of a clock is as close to the truth as the measurement
\* allows: the TSC against the PIT, and the processor against HPET and ACPI timer.
ClocksClose == WithinOneByte /\ KeptIsClose /\ PmIsClose
=============================================================================
