------------------------------- MODULE EnvSched -------------------------------
(***************************************************************************)
(* Environments of kern/env.c and their scheduling: sched_yield() and      *)
(* sched_halt() of kern/sched.c, trap() of kern/trap.c, and sys_yield and  *)
(* sys_exit of kern/entry.S, as built with CONFIG_KSPACE.                  *)
(*                                                                         *)
(* There is one processor, and the kernel runs with interrupts off from    *)
(* the `cli' of sys_yield and sys_exit, or from an interrupt gate, to the  *)
(* `iretq' of env_pop_tf().  So a call of the kernel is one or two steps:  *)
(* what it does to the caller, and the choice of sched_yield().  What an   *)
(* environment computes between two calls is a position in its program.    *)
(***************************************************************************)
EXTENDS Integers, Sequences, FiniteSets

CONSTANTS
  NENV,     \* the number of environments
  Period,   \* the number of positions of a program; it loops
  None      \* curenv = NULL

Envs == 0..(NENV - 1)
Pos  == 0..(Period - 1)

ASSUME EnvAssumption == NENV \in Nat \ {0} /\ Period \in Nat \ {0}
ASSUME NoneAssumption == None \notin Envs

VARIABLES
  (* kern/env.c *)
  env_status,     \* envs[i].env_status
  env_tf,         \* where envs[i].env_tf resumes
  env_free_list,  \* the environments chained from env_free_list
  curenv,
  (* the processor *)
  pc,     \* "boot", "run" an environment, "sched"uling, "halt"ed, in the
          \* "monitor" for good, or in "panic"
  cpu,    \* the position it is executing at, when it runs an environment
  (* the programs *)
  at,     \* how far each program has come
  bypass  \* history: how often sched_yield() has switched to another
          \* environment since this one could run

vars == <<env_status, env_tf, env_free_list, curenv, pc, cpu, at, bypass>>

-----------------------------------------------------------------------------
(* kern/env.c                                                              *)

\* env_init(): the first allocation returns envs[0].
InitialFreeList    == [i \in 1..NENV |-> i - 1]

Init ==
  /\ env_status = [e \in Envs |-> "FREE"]
  /\ env_tf = [e \in Envs |-> 0]
  /\ env_free_list = InitialFreeList
  /\ curenv = None /\ pc = "boot" /\ cpu = 0
  /\ at = [e \in Envs |-> 0] /\ bypass = [e \in Envs |-> 0]

\* env_alloc(), with a fresh frame that starts at the entry of the program.
EnvAlloc ==
  LET e == Head(env_free_list)
  IN  /\ env_status'    = [env_status EXCEPT ![e] = "RUNNABLE"]
      /\ env_tf'        = [env_tf EXCEPT ![e] = 0]
      /\ at'            = [at EXCEPT ![e] = 0]
      /\ env_free_list' = Tail(env_free_list)

\* env_create(), while the kernel initializes.
EnvCreate ==
  /\ pc = "boot" /\ env_free_list # <<>>
  /\ EnvAlloc
  /\ UNCHANGED <<curenv, pc, cpu, bypass>>

\* Without a free environment load_icode() gets NULL; it may also reject the
\* binary, after env_alloc().  Either way the assertion in env_create() fails.
EnvCreateFails ==
  /\ pc = "boot"
  /\ IF env_free_list # <<>> THEN EnvAlloc
     ELSE UNCHANGED <<env_status, env_tf, at, env_free_list>>
  /\ pc' = "panic"
  /\ UNCHANGED <<curenv, cpu, bypass>>

\* The first call of sched_yield() ends the initialization.
BootDone ==
  /\ pc = "boot"
  /\ pc' = "sched"
  /\ UNCHANGED <<env_status, env_tf, env_free_list, curenv, cpu, at, bypass>>

MutantDropsRest(e) == <<e>>
Freed(e) == <<e>> \o env_free_list

MutantAlwaysRunnable ==
  IF curenv = None THEN env_status ELSE [env_status EXCEPT ![curenv] = "RUNNABLE"]
\* env_run() sets the environment that ran before back to runnable.
Stopped ==
  IF curenv # None /\ env_status[curenv] = "RUNNING"
  THEN [env_status EXCEPT ![curenv] = "RUNNABLE"] ELSE env_status

EnvRun(e) ==
  /\ env_status' = [Stopped EXCEPT ![e] = "RUNNING"]
  /\ curenv' = e
  /\ cpu' = env_tf[e] /\ pc' = "run"
  /\ UNCHANGED <<env_tf, env_free_list, at>>

-----------------------------------------------------------------------------
(* An environment runs.                                                    *)

Running == pc = "run"

\* Its program goes on: external.
Compute ==
  /\ Running
  /\ cpu' = (cpu + 1) % Period
  /\ at'  = [at EXCEPT ![curenv] = (@ + 1) % Period]
  /\ UNCHANGED <<env_status, env_tf, env_free_list, curenv, pc, bypass>>

MutantOldFrame == env_tf
\* save_trapframe, then the copy into curenv->env_tf.
SavedFrame == [env_tf EXCEPT ![curenv] = cpu]

\* sys_yield, csys_yield()
SysYield ==
  /\ Running
  /\ env_tf' = SavedFrame
  /\ pc' = "sched"
  /\ UNCHANGED <<env_status, env_free_list, curenv, cpu, at, bypass>>

\* sys_exit, csys_exit(), env_destroy(), env_free()
SysExit ==
  /\ Running
  /\ env_status'    = [env_status EXCEPT ![curenv] = "FREE"]
  /\ env_free_list' = Freed(curenv)
  /\ bypass' = [bypass EXCEPT ![curenv] = 0]
  /\ pc' = "sched"
  /\ UNCHANGED <<env_tf, curenv, cpu, at>>

StillRunning == curenv # None /\ env_status[curenv] = "RUNNING"

\* The timer interrupts an environment, or the halted processor: trap()
\* asserts that there is a current environment, saves its frame, lets the
\* timer acknowledge the interrupt and returns to the same environment.
TimerInterrupt ==
  /\ pc \in {"run", "halt"}
  /\ pc' = IF curenv = None THEN "panic" ELSE IF StillRunning THEN "run" ELSE "sched"
  /\ env_tf' = IF curenv = None THEN env_tf ELSE SavedFrame
  /\ cpu' = IF StillRunning THEN env_tf'[curenv] ELSE cpu
  /\ UNCHANGED <<env_status, env_free_list, curenv, at, bypass>>

-----------------------------------------------------------------------------
(* kern/sched.c                                                            *)

MutantFromZero == 0
\* The search starts just behind the current environment ...
Num == IF curenv = None THEN 0 ELSE curenv + 1
\* ... and goes round once.
Order(i) == IF i >= Num THEN i - Num ELSE i - Num + NENV

Candidates   == {e \in Envs : env_status[e] = "RUNNABLE" /\ e # curenv}

\* The history counts up to NENV, one more than it should ever reach.
Counted(n) == IF n < NENV THEN n + 1 ELSE n

\* sched_yield() switches to the first candidate.
SwitchEnv ==
  /\ pc = "sched"
  /\ \E e \in Candidates :
       /\ \A d \in Candidates : Order(e) <= Order(d)
       /\ EnvRun(e)
       /\ bypass' = [d \in Envs |-> IF d # e /\ env_status'[d] = "RUNNABLE"
                                    THEN Counted(bypass[d]) ELSE 0]

\* Nobody else can run: the environment that yielded goes on.
ContinueEnv ==
  /\ pc = "sched" /\ Candidates = {} /\ StillRunning
  /\ EnvRun(curenv)
  /\ UNCHANGED bypass

\* sched_halt(): into the monitor if nothing is left to run; otherwise the
\* processor waits for an interrupt without a current environment.
SchedHalt ==
  /\ pc = "sched" /\ Candidates = {} /\ ~StillRunning
  /\ IF \E e \in Envs : env_status[e] \in {"RUNNABLE", "RUNNING"}
     THEN pc' = "halt" /\ curenv' = None
     ELSE pc' = "monitor" /\ UNCHANGED curenv
  /\ UNCHANGED <<env_status, env_tf, env_free_list, cpu, at, bypass>>

-----------------------------------------------------------------------------
SchedYield == SwitchEnv \/ ContinueEnv \/ SchedHalt

Next ==
  \/ EnvCreate \/ EnvCreateFails \/ BootDone
  \/ Compute \/ SysYield \/ SysExit \/ TimerInterrupt
  \/ SchedYield

Spec == Init /\ [][Next]_vars

\* Programs that yield or exit time and again, like prog/test1.c to test3.c:
\* nothing takes the processor from one that does not.
CoopSpec == Spec /\ WF_vars(SchedYield) /\ WF_vars(SysYield \/ SysExit)

-----------------------------------------------------------------------------
(* Properties.                                                             *)

\* Every variable keeps its type.
TypeOK ==
  /\ env_status \in [Envs -> {"FREE", "RUNNABLE", "RUNNING"}]
  /\ env_tf \in [Envs -> Pos] /\ at \in [Envs -> Pos] /\ cpu \in Pos
  /\ env_free_list \in Seq(Envs)
  /\ curenv \in Envs \cup {None}
  /\ pc \in {"boot", "run", "sched", "halt", "monitor", "panic"}
  /\ bypass \in [Envs -> 0..NENV]

\* The environment that runs is the current one, and at any time no other one
\* has the status of a running environment.
OneRunning ==
  /\ \A e \in Envs : env_status[e] = "RUNNING" => e = curenv
  /\ pc = "run" => curenv # None /\ env_status[curenv] = "RUNNING"

\* The free list holds exactly the free environments, each of them once:
\* env_alloc() never hands out one that is in use, and none is lost.
FreeListExact ==
  /\ \A i, j \in DOMAIN env_free_list : env_free_list[i] = env_free_list[j] => i = j
  /\ \A e \in Envs :
       env_status[e] = "FREE" <=> \E i \in DOMAIN env_free_list : env_free_list[i] = e

\* An environment that has exited never runs again, although curenv goes on
\* pointing to it until the next one is chosen.
ExitIsFinal ==
  [][\A e \in Envs : pc # "boot" /\ env_status[e] = "FREE" => env_status'[e] = "FREE"]_vars

\* Whatever interrupts, yields and exits come in between, an environment
\* resumes where it was stopped: no part of its program is skipped or repeated.
ResumesWhereStopped ==
  /\ pc = "run" => cpu = at[curenv]
  /\ \A e \in Envs : env_status[e] = "RUNNABLE" \/ (pc = "sched" /\ env_status[e] = "RUNNING")
                       => env_tf[e] = at[e]

\* sched_yield() gives up only when nothing can run: the kernel enters the
\* monitor for good when every environment has exited, and never sleeps without
\* a current environment, which the next interrupt would turn into a panic.
NeverHalts ==
  /\ pc # "halt"
  /\ pc = "monitor" => \A e \in Envs : env_status[e] = "FREE"

\* `Simple round-robin scheduling': an environment that can run is passed over
\* at most NENV - 1 times, however the others yield and exit.
BoundedBypass == \A e \in Envs : bypass[e] <= NENV - 1

\* With programs that yield or exit time and again, everyone who can run does.
NoStarvation ==
  \A e \in Envs : env_status[e] = "RUNNABLE" /\ pc = "sched" ~> pc = "run" /\ curenv = e

\* The status of the environments, the free list and curenv agree.
EnvsAccounted == TypeOK /\ OneRunning /\ FreeListExact

\* sched_yield() finds whoever can run, and soon enough.
SchedulerFair == NeverHalts /\ BoundedBypass
=============================================================================
