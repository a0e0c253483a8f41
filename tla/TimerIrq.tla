------------------------------- MODULE TimerIrq -------------------------------
(***************************************************************************)
(* The interrupts that drive the scheduler: pic_init() to pic_send_eoi()   *)
(* of kern/picirq.c, timers_init() and timers_schedule() of kern/init.c,   *)
(* the timers of kern/kclock.c and kern/timer.c, and trap_dispatch() of    *)
(* kern/trap.c.  The two 8259As, the RTC and the HPET are the machine's.   *)
(*                                                                         *)
(* Interrupts are off in the kernel (trap() asserts it) and on in an       *)
(* environment, which is interrupted over and over.                        *)
(***************************************************************************)
EXTENDS Integers

CONSTANT Scheduled  \* the names timers_schedule() may be called with

IRQ_TIMER == 0
IRQ_KBD   == 1
IRQ_SLAVE == 2
IRQ_CLOCK == 8
Irqs      == {IRQ_TIMER, IRQ_KBD, IRQ_SLAVE, IRQ_CLOCK}

VARIABLES
  irqPc,               \* where the kernel is, "env" while an environment runs
  irq_mask_8259A, pic_initilalized,
  timer_for_schedule,
  trapno,              \* the irq of the trap being handled
  imr, irr, isr,       \* masked, requested and in service: the two 8259As
  rtc,                 \* the RTC: its periodic interrupt enabled, register C read
  hpet                 \* the HPET: in LegacyReplacement mode, its timers that interrupt

kernelVars == <<irq_mask_8259A, pic_initilalized, timer_for_schedule, trapno>>
picVars    == <<imr, irr, isr>>
irqVars    == <<irqPc, kernelVars, picVars, rtc, hpet>>

TimerIrqInit ==
  /\ irqPc = "pic_init"
  /\ irq_mask_8259A = Irqs \ {IRQ_SLAVE} /\ pic_initilalized = FALSE
  /\ timer_for_schedule = "none" /\ trapno = IRQ_TIMER
  /\ imr = {} /\ irr = {} /\ isr = {}
  /\ rtc = [enabled |-> FALSE, read |-> TRUE]
  /\ hpet = [legacy |-> FALSE, timers |-> {}]

-----------------------------------------------------------------------------
(* The machine.                                                            *)

\* A rising edge is remembered, also by a line that is masked.
Raise(irq) == irr' = irr \cup {irq}

\* The line of the RTC stays high until register C is read: no edge till then.
RtcTick ==
  /\ rtc.enabled /\ ~hpet.legacy
  /\ IF rtc.read THEN Raise(IRQ_CLOCK) ELSE UNCHANGED irr
  /\ rtc' = [rtc EXCEPT !.read = FALSE]
  /\ UNCHANGED <<irqPc, kernelVars, imr, isr, hpet>>

\* In LegacyReplacement mode the first two timers have the lines of PIT and RTC.
HpetTick ==
  /\ hpet.legacy
  /\ \E t \in hpet.timers : Raise(IF t = 0 THEN IRQ_TIMER ELSE IRQ_CLOCK)
  /\ UNCHANGED <<irqPc, kernelVars, imr, isr, rtc, hpet>>

KeyPress ==
  /\ irr' = irr \cup {IRQ_KBD}
  /\ UNCHANGED <<irqPc, kernelVars, imr, isr, rtc, hpet>>

\* The slave's requests go through the master's third line.
Level(irq) == IF irq = IRQ_CLOCK THEN IRQ_SLAVE ELSE irq

Deliverable(irq) ==
  /\ irq \in irr \ imr /\ Level(irq) \notin imr /\ irq \notin isr
  /\ \A j \in isr : Level(irq) < Level(j)

Deliver ==
  /\ irqPc = "env"
  /\ \E irq \in Irqs :
       /\ Deliverable(irq)
       /\ \A j \in Irqs : Deliverable(j) => Level(irq) <= Level(j)
       /\ trapno' = irq
       /\ irr' = irr \ {irq}
       /\ isr' = isr \cup {irq, Level(irq)}
  /\ irqPc' = "trap"
  /\ UNCHANGED <<irq_mask_8259A, pic_initilalized, timer_for_schedule, imr, rtc, hpet>>

\* The end of the interrupt of the highest priority: the command names none.
MasterEoi(s) == LET m == s \ {IRQ_CLOCK} IN s \ {irq \in m : \A j \in m : irq <= j}
SlaveEoi(s)  == s \ {IRQ_CLOCK}

-----------------------------------------------------------------------------
(* The kernel boots.                                                       *)

\* The initialization words make the 8259As forget what was requested.
PicInitialize ==
  /\ irqPc = "pic_init"
  /\ pic_initilalized' = TRUE
  /\ imr' = irq_mask_8259A /\ irr' = {} /\ isr' = {}
  /\ irqPc' = "rtc_timer_init"
  /\ UNCHANGED <<irq_mask_8259A, timer_for_schedule, trapno, rtc, hpet>>

\* rtc_timer_init() enables the periodic interrupt, ...
RtcEnable ==
  /\ irqPc = "rtc_timer_init"
  /\ rtc' = [rtc EXCEPT !.enabled = TRUE]
  /\ irqPc' = "rtc_check_status"
  /\ UNCHANGED <<kernelVars, picVars, hpet>>

MutantNotRead(r) == r
\* rtc_check_status() reads register C.
StatusRead(r) == [r EXCEPT !.read = TRUE]

\* ... and reads what was pending.  acpi_enable() and hpet_init() follow.
RtcStatusRead ==
  /\ irqPc = "rtc_check_status"
  /\ rtc' = StatusRead(rtc)
  /\ irqPc' = "timers_schedule"
  /\ UNCHANGED <<kernelVars, picVars, hpet>>

\* pic_irq_unmask()
Unmasked(mask, irq) == mask \ {irq}

pic_irq_unmask(irq) ==
  /\ irq_mask_8259A' = Unmasked(irq_mask_8259A, irq)
  /\ imr' = IF pic_initilalized THEN irq_mask_8259A' ELSE imr

HasInterrupts == {"rtc", "hpet0", "hpet1"}
IrqOf         == [rtc |-> IRQ_CLOCK, hpet0 |-> IRQ_TIMER, hpet1 |-> IRQ_CLOCK]

\* timers_schedule() and the timer's enable_interrupts().
TimersSchedule(name) ==
  /\ irqPc = "timers_schedule" /\ name \in HasInterrupts
  /\ timer_for_schedule' = name
  /\ hpet' = CASE name = "rtc"   -> hpet
               [] name = "hpet0" -> [legacy |-> TRUE, timers |-> hpet.timers \cup {0}]
               [] name = "hpet1" -> [legacy |-> TRUE, timers |-> hpet.timers \cup {1}]
  /\ pic_irq_unmask(IrqOf[name])
  /\ irqPc' = "env"
  /\ UNCHANGED <<pic_initilalized, trapno, irr, isr, rtc>>

\* A timer that has no interrupts, like the pit, or that does not exist.
NoSuchTimer(name) ==
  /\ irqPc = "timers_schedule" /\ name \notin HasInterrupts
  /\ irqPc' = "panic"
  /\ UNCHANGED <<kernelVars, picVars, rtc, hpet>>

-----------------------------------------------------------------------------
(* A trap.                                                                 *)

\* trap_dispatch(): both lines are for the one timer that was scheduled.
Dispatch ==
  /\ irqPc = "trap" /\ trapno \in {IRQ_CLOCK, IRQ_TIMER}
  /\ irqPc' = IF timer_for_schedule = "rtc" THEN "status" ELSE "eoi"
  /\ UNCHANGED <<kernelVars, picVars, rtc, hpet>>

\* rtc_timer_pic_handle() reads register C and a tick may come before the ...
HandleStatus ==
  /\ irqPc = "status"
  /\ rtc' = StatusRead(rtc)
  /\ irqPc' = "eoi"
  /\ UNCHANGED <<kernelVars, picVars, hpet>>

MutantEoi(s, irq) == MasterEoi(s)
\* pic_send_eoi()
pic_send_eoi(s, irq) == MasterEoi(IF irq > 7 THEN SlaveEoi(s) ELSE s)

\* ... end of the interrupt.  env_run() goes on with the environment.
HandleEoi ==
  /\ irqPc = "eoi"
  /\ isr' = pic_send_eoi(isr, IrqOf[timer_for_schedule])
  /\ irqPc' = "env"
  /\ UNCHANGED <<kernelVars, imr, irr, rtc, hpet>>

Boot   == \/ PicInitialize \/ RtcEnable \/ RtcStatusRead
          \/ \E name \in Scheduled : TimersSchedule(name) \/ NoSuchTimer(name)
Handle == Dispatch \/ HandleStatus \/ HandleEoi
Ticks  == RtcTick \/ HpetTick

TimerIrqNext == Boot \/ Deliver \/ Handle \/ Ticks \/ KeyPress

\* The timers go on ticking and the processor goes on.
TimerIrqFairness == WF_irqVars(Boot) /\ WF_irqVars(Deliver) /\ WF_irqVars(Handle) /\ WF_irqVars(Ticks)
TimerIrqSpec     == TimerIrqInit /\ [][TimerIrqNext]_irqVars /\ TimerIrqFairness

-----------------------------------------------------------------------------
(* Properties.                                                             *)

\* An environment never runs with an interrupt still in service: the line would
\* be dead, and with it all lines of lower priority (picirq.c:94, trap.c:221).
NothingInService == irqPc = "env" => isr = {}

\* Only the two interrupts trap_init() made gates for are delivered; any other
\* would be a fault without a handler (trap.c:98).
OnlyGated == irqPc = "trap" => trapno \in {IRQ_CLOCK, IRQ_TIMER}

\* An environment is always interrupted again: neither a tick that comes before
\* its line is unmasked, nor one in the middle of the handler, is the last one.
TicksGoOn == (irqPc = "env") ~> (irqPc = "trap")

\* The 8259As serve the timer, and only it: no line is left in service when a
\* program runs, and the only interrupts are those the IDT has a gate for.
InterruptsServed == NothingInService /\ OnlyGated
=============================================================================
