----------------------------- MODULE KernelProofs -----------------------------
(***************************************************************************)
(* The running kernel: the environments and the order in which they run,   *)
(* for any number of them and any programs; and the allocator that they    *)
(* share through the lock, for any number of callers and any size of the   *)
(* arena.                                                                  *)
(***************************************************************************)
EXTENDS EnvSched, KAlloc, SequenceTheorems, TLAPS

-----------------------------------------------------------------------------
(* The environments.  The inductive invariant is IInv.  The bound on how   *)
(* often one is passed over rests on one inequality, BypassInv: the times  *)
(* it was passed over and the places the search of sched_yield() has still *)
(* to go to reach it add up to less than NENV.                             *)

\* curenv points to no environment while the kernel initializes, and later to
\* one that runs or has exited.
CurenvInv ==
  /\ pc = "boot" => curenv = None
  /\ curenv # None => env_status[curenv] \in {"RUNNING", "FREE"}

BypassInv == \A e \in Envs : bypass[e] + Order(e) < NENV

IInv == /\ TypeOK /\ OneRunning /\ FreeListExact /\ ResumesWhereStopped /\ NeverHalts
        /\ CurenvInv /\ BypassInv

-----------------------------------------------------------------------------
\* The search of sched_yield() visits every environment once, in NENV places.
LEMMA OrderType ==
  ASSUME curenv \in Envs \cup {None}, NEW e \in Envs
  PROVE  Order(e) \in 0..(NENV - 1)
BY EnvAssumption, NoneAssumption DEF Order, Num, Envs

\* Once the search has moved on to e, every environment it would have reached
\* later comes that much earlier, and the current one comes last but one.
LEMMA OrderMoves ==
  ASSUME curenv \in Envs \cup {None}, NEW e \in Envs, NEW d \in Envs, d # e, curenv' = e
  PROVE  /\ Order(d)' \in Int /\ Order(d)' < NENV - 1
         /\ Order(e) <= Order(d) => Order(d)' = Order(d) - Order(e) - 1
         /\ Order(e)' = NENV - 1
<1>1. CASE curenv = None
  BY <1>1, EnvAssumption, NoneAssumption DEF Order, Num, Envs
<1>2. CASE curenv \in Envs
  BY <1>2, EnvAssumption, NoneAssumption DEF Order, Num, Envs
<1> QED
  BY <1>1, <1>2

\* env_init() and the static initialization of kern/env.c.
LEMMA InitInv == Init => IInv
<1> SUFFICES ASSUME Init PROVE IInv
  OBVIOUS
<1>1. InitialFreeList \in Seq(Envs) /\ DOMAIN InitialFreeList = 1..NENV
  BY EnvAssumption DEF InitialFreeList, Envs
<1>2. TypeOK
  BY <1>1, EnvAssumption DEF Init, TypeOK, Pos
<1>3. FreeListExact
  <2>1. \A e \in Envs : e + 1 \in 1..NENV /\ InitialFreeList[e + 1] = e
    BY EnvAssumption DEF InitialFreeList, Envs
  <2>2. \A i, j \in 1..NENV : InitialFreeList[i] = InitialFreeList[j] => i = j
    BY EnvAssumption DEF InitialFreeList
  <2> QED
    BY <1>1, <2>1, <2>2 DEF FreeListExact, Init
<1>4. BypassInv
  BY OrderType, EnvAssumption DEF BypassInv, Init, Envs
<1> QED
  BY <1>2, <1>3, <1>4 DEF IInv, Init, OneRunning, ResumesWhereStopped, NeverHalts, CurenvInv

-----------------------------------------------------------------------------
(* The steps.                                                              *)

\* env_alloc() takes the first environment off the free list, and it is free.
LEMMA AllocKeeps ==
  ASSUME IInv, pc = "boot", env_free_list # <<>>, EnvAlloc,
         UNCHANGED <<curenv, cpu, bypass>>, pc' \in {"boot", "panic"}
  PROVE  IInv'
<1> DEFINE e == Head(env_free_list)
<1> USE DEF IInv
<1>1. e \in Envs /\ env_free_list' \in Seq(Envs) /\ e = env_free_list[1]
      /\ Len(env_free_list) \in Nat \ {0} /\ DOMAIN env_free_list = 1..Len(env_free_list)
  BY DEF TypeOK, EnvAlloc
<1>2. /\ DOMAIN env_free_list' = 1..(Len(env_free_list) - 1)
      /\ \A i \in 1..(Len(env_free_list) - 1) : env_free_list'[i] = env_free_list[i + 1]
  <2>1. env_free_list \in Seq(Envs) /\ env_free_list # <<>>
    BY DEF TypeOK
  <2>2. /\ Len(Tail(env_free_list)) = Len(env_free_list) - 1
        /\ \A i \in 1..(Len(env_free_list) - 1) : Tail(env_free_list)[i] = env_free_list[i + 1]
    BY <2>1, HeadTailProperties
  <2>3. env_free_list' = Tail(env_free_list) /\ DOMAIN env_free_list' = 1..Len(env_free_list')
    BY <1>1 DEF EnvAlloc
  <2> QED
    BY <2>2, <2>3
<1>3. env_status[e] = "FREE" /\ curenv = None
  BY <1>1 DEF FreeListExact, CurenvInv
<1>4. TypeOK'
  <2>1. 0 \in Pos
    BY EnvAssumption DEF Pos
  <2>2. /\ env_status' = [env_status EXCEPT ![e] = "RUNNABLE"]
        /\ env_tf' = [env_tf EXCEPT ![e] = 0] /\ at' = [at EXCEPT ![e] = 0]
    BY DEF EnvAlloc
  <2>3. /\ env_status' \in [Envs -> {"FREE", "RUNNABLE", "RUNNING"}]
        /\ env_tf' \in [Envs -> Pos] /\ at' \in [Envs -> Pos]
    BY <1>1, <2>1, <2>2 DEF TypeOK
  <2> QED
    BY <1>1, <2>3 DEF TypeOK
<1>5. FreeListExact'
  <2>1. \A i, j \in DOMAIN env_free_list' : env_free_list'[i] = env_free_list'[j] => i = j
    <3> SUFFICES ASSUME NEW i \in DOMAIN env_free_list', NEW j \in DOMAIN env_free_list',
                        env_free_list'[i] = env_free_list'[j]
                 PROVE  i = j
      OBVIOUS
    <3>1. i \in 1..(Len(env_free_list) - 1) /\ j \in 1..(Len(env_free_list) - 1)
      BY <1>2
    <3>2. i + 1 \in DOMAIN env_free_list /\ j + 1 \in DOMAIN env_free_list
      BY <3>1, <1>1
    <3>3. env_free_list[i + 1] = env_free_list[j + 1]
      BY <3>1, <1>2
    <3>4. \A a, b \in DOMAIN env_free_list : env_free_list[a] = env_free_list[b] => a = b
      BY DEF FreeListExact
    <3>5. i + 1 = j + 1
      BY <3>2, <3>3, <3>4
    <3> QED
      BY <3>1, <3>5
  <2>2. ASSUME NEW d \in Envs, env_status'[d] = "FREE"
        PROVE  \E i \in DOMAIN env_free_list' : env_free_list'[i] = d
    <3>1. d # e /\ env_status[d] = "FREE"
      BY <2>2, <1>1 DEF EnvAlloc, TypeOK
    <3>2. PICK i \in DOMAIN env_free_list : env_free_list[i] = d
      BY <3>1 DEF FreeListExact
    <3>3. i # 1
      BY <3>1, <3>2, <1>1
    <3>4. i - 1 \in 1..(Len(env_free_list) - 1) /\ (i - 1) + 1 = i
      BY <3>2, <3>3, <1>1
    <3> QED
      BY <3>2, <3>4, <1>2
  <2>3. ASSUME NEW d \in Envs, NEW i \in DOMAIN env_free_list', env_free_list'[i] = d
        PROVE  env_status'[d] = "FREE"
    <3>1. i + 1 \in DOMAIN env_free_list /\ env_free_list[i + 1] = d /\ i + 1 # 1
      BY <2>3, <1>1, <1>2
    <3>2. d # e
      BY <3>1, <1>1 DEF FreeListExact
    <3>3. env_status[d] = "FREE"
      BY <3>1 DEF FreeListExact
    <3> QED
      BY <3>2, <3>3 DEF EnvAlloc, TypeOK
  <2> QED
    BY <2>1, <2>2, <2>3 DEF FreeListExact
<1>6. BypassInv'
  BY DEF BypassInv, Order, Num
<1>7. OneRunning' /\ ResumesWhereStopped' /\ NeverHalts' /\ CurenvInv'
  BY <1>1, <1>3 DEF OneRunning, ResumesWhereStopped, NeverHalts, CurenvInv, EnvAlloc, TypeOK
<1> QED
  BY <1>4, <1>5, <1>6, <1>7

\* An environment that exits goes to the head of the free list.
LEMMA ExitKeeps == IInv /\ SysExit => IInv'
<1> SUFFICES ASSUME IInv, SysExit PROVE IInv'
  OBVIOUS
<1> USE DEF IInv
<1>1. curenv \in Envs /\ env_status[curenv] = "RUNNING" /\ pc = "run"
  BY DEF SysExit, Running, OneRunning, TypeOK
<1>2. /\ env_free_list' \in Seq(Envs) /\ Len(env_free_list) \in Nat
      /\ DOMAIN env_free_list = 1..Len(env_free_list)
      /\ DOMAIN env_free_list' = 1..(Len(env_free_list) + 1)
      /\ env_free_list'[1] = curenv
      /\ \A i \in 1..Len(env_free_list) : env_free_list'[i + 1] = env_free_list[i]
  BY <1>1 DEF TypeOK, SysExit, Freed
<1>3. TypeOK'
  BY <1>1, <1>2, EnvAssumption DEF TypeOK, SysExit
<1>4. FreeListExact'
  <2>1. \A i \in DOMAIN env_free_list : env_free_list[i] # curenv
    BY <1>1 DEF FreeListExact
  <2>2. ASSUME NEW i \in DOMAIN env_free_list', i # 1
        PROVE  i - 1 \in DOMAIN env_free_list /\ env_free_list'[i] = env_free_list[i - 1]
    <3>1. i - 1 \in 1..Len(env_free_list) /\ (i - 1) + 1 = i
      BY <1>2, <2>2
    <3> QED
      BY <3>1, <1>2
  <2>3. \A i, j \in DOMAIN env_free_list' : env_free_list'[i] = env_free_list'[j] => i = j
    <3>1. ASSUME NEW i \in DOMAIN env_free_list', NEW j \in DOMAIN env_free_list',
                 env_free_list'[i] = env_free_list'[j]
          PROVE  i = j
      <4>1. CASE i = 1 \/ j = 1
        BY <4>1, <3>1, <2>1, <2>2, <1>2
      <4>2. CASE i # 1 /\ j # 1
        <5>1. i - 1 = j - 1
          BY <4>2, <3>1, <2>2 DEF FreeListExact
        <5> QED
          BY <5>1, <1>2
      <4> QED
        BY <4>1, <4>2
    <3> QED
      BY <3>1
  <2>4. ASSUME NEW d \in Envs, env_status'[d] = "FREE"
        PROVE  \E i \in DOMAIN env_free_list' : env_free_list'[i] = d
    <3>1. CASE d = curenv
      BY <3>1, <1>2
    <3>2. CASE d # curenv
      <4>1. PICK i \in DOMAIN env_free_list : env_free_list[i] = d
        BY <3>2, <2>4 DEF SysExit, TypeOK, FreeListExact
      <4>2. i + 1 \in DOMAIN env_free_list' /\ env_free_list'[i + 1] = d
        BY <4>1, <1>2
      <4> QED
        BY <4>2
    <3> QED
      BY <3>1, <3>2
  <2>5. ASSUME NEW d \in Envs, NEW i \in DOMAIN env_free_list', env_free_list'[i] = d
        PROVE  env_status'[d] = "FREE"
    <3>1. CASE i = 1
      BY <3>1, <2>5, <1>1, <1>2 DEF SysExit, TypeOK
    <3>2. CASE i # 1
      <4>1. env_status[d] = "FREE"
        BY <3>2, <2>5, <2>2 DEF FreeListExact
      <4> QED
        BY <4>1, <1>1 DEF SysExit, TypeOK
    <3> QED
      BY <3>1, <3>2
  <2> QED
    BY <2>3, <2>4, <2>5 DEF FreeListExact
<1>5. BypassInv'
  <2>1. \A e \in Envs : Order(e)' = Order(e) /\ Order(e) \in 0..(NENV - 1)
    BY OrderType DEF Order, Num, SysExit, TypeOK
  <2>2. \A e \in Envs : bypass'[e] = bypass[e] \/ bypass'[e] = 0
    BY DEF SysExit, TypeOK
  <2> QED
    BY <2>1, <2>2, EnvAssumption DEF BypassInv
<1>6. OneRunning' /\ ResumesWhereStopped' /\ NeverHalts' /\ CurenvInv'
  BY <1>1 DEF OneRunning, ResumesWhereStopped, NeverHalts, CurenvInv, SysExit, TypeOK
<1> QED
  BY <1>3, <1>4, <1>5, <1>6

\* env_run() of an environment that can run, or of the one that ran before.
LEMMA RunKeeps ==
  ASSUME IInv, pc = "sched", NEW e \in Envs, EnvRun(e),
         env_status[e] = "RUNNABLE" \/ (e = curenv /\ env_status[e] = "RUNNING"),
         bypass' \in [Envs -> 0..NENV], BypassInv'
  PROVE  IInv'
<1> USE DEF IInv
<1>1. e # None
  BY NoneAssumption
<1>2. \A d \in Envs : env_status'[d] =
         IF d = e THEN "RUNNING"
         ELSE IF d = curenv /\ env_status[d] = "RUNNING" THEN "RUNNABLE" ELSE env_status[d]
  BY NoneAssumption DEF EnvRun, Stopped, TypeOK
<1>3. TypeOK'
  <2>1. Stopped \in [Envs -> {"FREE", "RUNNABLE", "RUNNING"}]
    BY DEF Stopped, TypeOK
  <2> QED
    BY <2>1 DEF TypeOK, EnvRun
<1>4. OneRunning' /\ NeverHalts' /\ CurenvInv'
  BY <1>1, <1>2 DEF OneRunning, NeverHalts, CurenvInv, EnvRun
<1>5. FreeListExact'
  <2>1. \A d \in Envs : env_status'[d] = "FREE" <=> env_status[d] = "FREE"
    BY <1>2
  <2> QED
    BY <2>1 DEF FreeListExact, EnvRun
<1>6. ResumesWhereStopped'
  BY <1>2 DEF ResumesWhereStopped, OneRunning, EnvRun
<1> QED
  BY <1>3, <1>4, <1>5, <1>6

\* Switching to the first candidate passes each of the others over once more,
\* and brings the search at least one place nearer to it.
LEMMA SwitchKeeps == IInv /\ SwitchEnv => IInv'
<1> SUFFICES ASSUME IInv, SwitchEnv PROVE IInv'
  OBVIOUS
<1>1. PICK e \in Candidates :
        /\ \A d \in Candidates : Order(e) <= Order(d)
        /\ EnvRun(e)
        /\ bypass' = [d \in Envs |-> IF d # e /\ env_status'[d] = "RUNNABLE"
                                     THEN Counted(bypass[d]) ELSE 0]
  BY DEF SwitchEnv
<1>2. e \in Envs /\ env_status[e] = "RUNNABLE" /\ e # curenv /\ curenv' = e
  BY <1>1 DEF Candidates, EnvRun
<1>3. bypass' \in [Envs -> 0..NENV]
  BY <1>1, EnvAssumption DEF IInv, TypeOK, Counted
<1>4. BypassInv'
  <2> SUFFICES ASSUME NEW d \in Envs PROVE bypass'[d] + Order(d)' < NENV
    BY DEF BypassInv
  <2>1. curenv \in Envs \cup {None} /\ bypass[d] \in 0..NENV /\ bypass[d] + Order(d) < NENV
        /\ Order(d) \in 0..(NENV - 1) /\ Order(e) \in 0..(NENV - 1)
    BY <1>2, OrderType DEF IInv, TypeOK, BypassInv
  <2>2. CASE d = e
    <3>1. bypass'[d] = 0 /\ Order(d)' \in 0..(NENV - 1)
      BY <1>1, <1>2, <2>2, EnvAssumption DEF Order, Num, Envs
    <3> QED
      BY <3>1, EnvAssumption
  <2>3. CASE d # e /\ env_status'[d] # "RUNNABLE"
    <3>1. bypass'[d] = 0 /\ Order(d)' \in Int /\ Order(d)' < NENV - 1
      BY <1>1, <1>2, <2>1, <2>3, OrderMoves
    <3> QED
      BY <3>1, EnvAssumption
  <2>4. CASE d # e /\ env_status'[d] = "RUNNABLE"
    <3>1. bypass'[d] = Counted(bypass[d])
      BY <1>1, <2>4
    <3>2. CASE d = curenv
      <4>1. Order(d) = NENV - 1
        BY <3>2, EnvAssumption, NoneAssumption DEF Order, Num, Envs
      <4>2. bypass[d] = 0 /\ bypass'[d] <= 1
        BY <4>1, <3>1, <2>1, EnvAssumption DEF Counted
      <4>3. Order(d)' < NENV - 1 /\ Order(d)' \in Int
        BY <1>2, <2>1, <2>4, OrderMoves
      <4>4. bypass'[d] \in Int
        BY <1>3, EnvAssumption
      <4> QED
        BY <4>2, <4>3, <4>4, EnvAssumption
    <3>3. CASE d # curenv
      <4>1. env_status[d] = "RUNNABLE"
        BY <1>1, <2>4, <3>3 DEF EnvRun, Stopped, IInv, TypeOK
      <4>2. Order(e) <= Order(d)
        BY <1>1, <3>3, <4>1 DEF Candidates
      <4>3. Order(d)' = Order(d) - Order(e) - 1
        BY <1>2, <2>1, <2>4, <4>2, OrderMoves
      <4>4. bypass'[d] <= bypass[d] + 1 /\ bypass'[d] \in Int
        BY <3>1, <2>1, EnvAssumption DEF Counted
      <4> QED
        BY <2>1, <4>3, <4>4, EnvAssumption
    <3> QED
      BY <3>2, <3>3
  <2> QED
    BY <2>2, <2>3, <2>4
<1> QED
  BY <1>1, <1>2, <1>3, <1>4, RunKeeps DEF SwitchEnv

\* IInv holds initially, and every step keeps it.
LEMMA Invariant == Spec => []IInv
<1>1. IInv /\ [Next]_vars => IInv'
  <2> SUFFICES ASSUME IInv, [Next]_vars PROVE IInv'
    OBVIOUS
  <2> USE DEF IInv
  <2>1. CASE EnvCreate
    BY <2>1, AllocKeeps DEF EnvCreate
  <2>2. CASE EnvCreateFails
    <3>1. CASE env_free_list = <<>>
      BY <2>2, <3>1 DEF EnvCreateFails, TypeOK, OneRunning, FreeListExact, ResumesWhereStopped,
                        NeverHalts, CurenvInv, BypassInv, Order, Num
    <3>2. CASE env_free_list # <<>>
      BY <2>2, <3>2, AllocKeeps DEF EnvCreateFails
    <3> QED
      BY <3>1, <3>2
  <2>3. CASE BootDone
    <3>1. curenv = None /\ pc' = "sched"
      BY <2>3 DEF BootDone, CurenvInv
    <3>2. TypeOK' /\ OneRunning' /\ NeverHalts' /\ CurenvInv' /\ ResumesWhereStopped'
      BY <2>3, <3>1, NoneAssumption DEF BootDone, TypeOK, OneRunning, NeverHalts, CurenvInv,
                                        ResumesWhereStopped
    <3>3. FreeListExact' /\ BypassInv'
      BY <2>3 DEF BootDone, FreeListExact, BypassInv, Order, Num
    <3> QED
      BY <3>2, <3>3
  <2>4. CASE Compute
    <3>1. curenv \in Envs /\ env_status[curenv] = "RUNNING" /\ cpu = at[curenv]
      BY <2>4 DEF Compute, Running, OneRunning, TypeOK, ResumesWhereStopped
    <3>2. \A q \in Pos : (q + 1) % Period \in Pos
      BY EnvAssumption DEF Pos
    <3>3. TypeOK' /\ OneRunning' /\ FreeListExact' /\ NeverHalts' /\ CurenvInv'
      BY <2>4, <3>1, <3>2 DEF Compute, Running, TypeOK, OneRunning, FreeListExact, NeverHalts,
                              CurenvInv
    <3>4. ResumesWhereStopped'
      BY <2>4, <3>1 DEF Compute, Running, TypeOK, ResumesWhereStopped
    <3>5. BypassInv'
      BY <2>4 DEF Compute, BypassInv, Order, Num
    <3> QED
      BY <3>3, <3>4, <3>5
  <2>5. CASE SysYield
    <3>1. curenv \in Envs /\ env_status[curenv] = "RUNNING" /\ cpu = at[curenv]
      BY <2>5 DEF SysYield, Running, OneRunning, TypeOK, ResumesWhereStopped
    <3>2. TypeOK' /\ OneRunning' /\ FreeListExact' /\ NeverHalts' /\ CurenvInv'
      BY <2>5, <3>1 DEF SysYield, Running, SavedFrame, TypeOK, OneRunning, FreeListExact,
                        NeverHalts, CurenvInv
    <3>3. ResumesWhereStopped'
      BY <2>5, <3>1 DEF SysYield, Running, SavedFrame, TypeOK, OneRunning, ResumesWhereStopped
    <3>4. BypassInv'
      BY <2>5 DEF SysYield, BypassInv, Order, Num
    <3> QED
      BY <3>2, <3>3, <3>4
  <2>6. CASE SysExit
    BY <2>6, ExitKeeps
  <2>7. CASE TimerInterrupt
    <3>1. pc = "run" /\ curenv \in Envs /\ curenv # None /\ StillRunning /\ cpu = at[curenv]
      BY <2>7, NoneAssumption DEF TimerInterrupt, NeverHalts, OneRunning, TypeOK, ResumesWhereStopped,
                                  StillRunning
    <3>2. pc' = "run" /\ cpu' = cpu /\ env_tf' = SavedFrame
      BY <2>7, <3>1 DEF TimerInterrupt, SavedFrame, TypeOK
    <3>3. TypeOK' /\ OneRunning' /\ FreeListExact' /\ NeverHalts' /\ CurenvInv'
      BY <2>7, <3>1, <3>2 DEF TimerInterrupt, SavedFrame, TypeOK, OneRunning, FreeListExact,
                              NeverHalts, CurenvInv
    <3>4. ResumesWhereStopped'
      BY <2>7, <3>1, <3>2 DEF TimerInterrupt, SavedFrame, TypeOK, OneRunning, ResumesWhereStopped
    <3>5. BypassInv'
      BY <2>7 DEF TimerInterrupt, BypassInv, Order, Num
    <3> QED
      BY <3>3, <3>4, <3>5
  <2>8. CASE SwitchEnv
    BY <2>8, SwitchKeeps
  <2>9. CASE ContinueEnv
    <3>1. curenv \in Envs /\ curenv' = curenv /\ bypass' = bypass
      BY <2>9 DEF ContinueEnv, StillRunning, EnvRun, TypeOK
    <3>2. BypassInv'
      BY <3>1 DEF BypassInv, Order, Num
    <3>3. bypass' \in [Envs -> 0..NENV]
      BY <3>1 DEF TypeOK
    <3> QED
      BY <2>9, <3>1, <3>2, <3>3, RunKeeps DEF ContinueEnv, StillRunning
  <2>10. CASE SchedHalt
    <3>1. \A e \in Envs : env_status[e] = "FREE"
      <4> SUFFICES ASSUME NEW e \in Envs PROVE env_status[e] = "FREE"
        OBVIOUS
      <4>1. env_status[e] # "RUNNING"
        BY <2>10, NoneAssumption DEF SchedHalt, StillRunning, OneRunning
      <4>2. env_status[e] # "RUNNABLE"
        BY <2>10, NoneAssumption DEF SchedHalt, Candidates, CurenvInv
      <4> QED
        BY <4>1, <4>2 DEF TypeOK
    <3>2. pc' = "monitor" /\ curenv' = curenv
      BY <2>10, <3>1 DEF SchedHalt
    <3> QED
      BY <2>10, <3>1, <3>2 DEF SchedHalt, TypeOK, OneRunning, FreeListExact, ResumesWhereStopped,
                               NeverHalts, CurenvInv, BypassInv, Order, Num
  <2>11. CASE UNCHANGED vars
    BY <2>11 DEF vars, TypeOK, OneRunning, FreeListExact, ResumesWhereStopped, NeverHalts,
                 CurenvInv, BypassInv, Order, Num
  <2> QED
    BY <2>1, <2>2, <2>3, <2>4, <2>5, <2>6, <2>7, <2>8, <2>9, <2>10, <2>11 DEF Next, SchedYield
<1> QED
  BY <1>1, InitInv, PTL DEF Spec

-----------------------------------------------------------------------------
(* The theorems.                                                           *)

\* Every variable keeps its type, for any number of environments: in particular
\* the free list never leads outside of envs[].
THEOREM TypeCorrect == Spec => []TypeOK
<1>1. IInv => TypeOK
  BY DEF IInv
<1> QED
  BY <1>1, Invariant, PTL

\* Two environments are never marked as running, and the one the processor
\* executes is the one curenv points to.
THEOREM OnlyOneRuns == Spec => []OneRunning
<1>1. IInv => OneRunning
  BY DEF IInv
<1> QED
  BY <1>1, Invariant, PTL

\* env_alloc() and env_free() keep the free list and the statuses in step: no
\* environment is lost, or handed out twice.
THEOREM FreeListCorrect == Spec => []FreeListExact
<1>1. IInv => FreeListExact
  BY DEF IInv
<1> QED
  BY <1>1, Invariant, PTL

\* sys_yield and the timer interrupt save, and env_run() restores, the frame of
\* the right environment: every program goes on where it was stopped.
THEOREM FramesCorrect == Spec => []ResumesWhereStopped
<1>1. IInv => ResumesWhereStopped
  BY DEF IInv
<1> QED
  BY <1>1, Invariant, PTL

\* sched_halt() is only reached with no environment left, so its sti and hlt
\* never run and trap() never finds curenv NULL.
THEOREM HaltUnreachable == Spec => []NeverHalts
<1>1. IInv => NeverHalts
  BY DEF IInv
<1> QED
  BY <1>1, Invariant, PTL

\* Round robin: at most NENV - 1 switches to others before an environment that
\* can run is chosen.
THEOREM RoundRobin == Spec => []BoundedBypass
<1>1. IInv => BoundedBypass
  <2> SUFFICES ASSUME IInv, NEW e \in Envs PROVE bypass[e] <= NENV - 1
    BY DEF BoundedBypass
  <2>1. bypass[e] \in 0..NENV /\ Order(e) \in 0..(NENV - 1) /\ bypass[e] + Order(e) < NENV
    BY OrderType DEF IInv, TypeOK, BypassInv
  <2> QED
    BY <2>1, EnvAssumption
<1> QED
  BY <1>1, Invariant, PTL

\* An environment that has exited stays free: nothing env_run() does to curenv
\* brings it back.
THEOREM NoResurrection == Spec => ExitIsFinal
<1> DEFINE Final == \A e \in Envs : pc # "boot" /\ env_status[e] = "FREE" => env_status'[e] = "FREE"
<1>1. IInv /\ [Next]_vars => [Final]_vars
  <2> SUFFICES ASSUME IInv, Next PROVE Final
    OBVIOUS
  <2>1. CASE SwitchEnv \/ ContinueEnv
    <3>1. PICK d \in Envs : EnvRun(d) /\ env_status[d] # "FREE"
      BY <2>1 DEF SwitchEnv, ContinueEnv, Candidates, StillRunning, IInv, TypeOK
    <3>2. ASSUME NEW e \in Envs, env_status[e] = "FREE" PROVE env_status'[e] = "FREE"
      BY <3>1, <3>2 DEF EnvRun, Stopped, IInv, TypeOK
    <3> QED
      BY <3>2
  <2>2. CASE SysExit
    BY <2>2 DEF SysExit, IInv, TypeOK
  <2> QED
    BY <2>1, <2>2 DEF Next, SchedYield, EnvCreate, EnvCreateFails, BootDone, Compute, SysYield,
                      TimerInterrupt, SchedHalt
<1> QED
  BY <1>1, Invariant, PTL DEF Spec, ExitIsFinal

\* No environment is lost, handed out twice or marked as running beside another
\* one, whatever programs are created, switched and exit.
THEOREM EnvsKept == Spec => []EnvsAccounted
<1>1. TypeOK /\ OneRunning /\ FreeListExact => EnvsAccounted
  BY DEF EnvsAccounted
<1> QED
  BY <1>1, TypeCorrect, OnlyOneRuns, FreeListCorrect, PTL

\* sched_yield() always finds somebody while anybody is left, and passes no
\* environment over more than NENV - 1 times.
THEOREM Fair == Spec => []SchedulerFair
<1>1. NeverHalts /\ BoundedBypass => SchedulerFair
  BY DEF SchedulerFair
<1> QED
  BY <1>1, HaltUnreachable, RoundRobin, PTL

-----------------------------------------------------------------------------
(* The allocator.  First what splitting and joining blocks does to a       *)
(* tiling of the arena, and what taking out and putting in does to a       *)
(* circular list; then the invariant, KAllocInv, and that every step keeps *)
(* it.                                                                     *)

CallPcs == {"idle", "lock_alloc", "lock_free", "check_alloc", "walk_alloc", "search", "place",
            "check_free", "walk_free", "unlock", "panic"}

-----------------------------------------------------------------------------
(* Blocks.  S holds the units where a block starts, sz their sizes.        *)

LEMMA UnitsAreCells == Cells = Units \cup {base} /\ base \notin Units
BY ArenaAssumption DEF Units, Cells, base

LEMMA CellsAreNats == Cells \subseteq Nat /\ \A sz \in [Cells -> 0..NUnits], x \in Cells : sz[x] \in Nat
BY ArenaAssumption DEF Cells

\* The blocks lie apart and fill the arena.
Tiling(S, sz) ==
  /\ S \subseteq Units
  /\ \A s \in S : sz[s] \in Units /\ s + sz[s] - 1 \in Units
  /\ \A s, t \in S : s < t => s + sz[s] <= t
  /\ \A u \in Units : \E s \in S : s <= u /\ u < s + sz[s]

\* The tail end of a block becomes a block of its own.
LEMMA SplitBlock ==
  ASSUME NEW S, NEW sz \in [Cells -> 0..NUnits], Tiling(S, sz),
         NEW s \in S, NEW n \in Nat \ {0}, n < sz[s]
  PROVE  LET t == s + sz[s] - n
             z == [sz EXCEPT ![s] = @ - n, ![t] = n]
         IN  t \in Units \ S /\ z \in [Cells -> 0..NUnits] /\ Tiling(S \cup {t}, z)
<1> DEFINE t == s + sz[s] - n
           z == [sz EXCEPT ![s] = @ - n, ![t] = n]
<1> SUFFICES t \in Units \ S /\ z \in [Cells -> 0..NUnits] /\ Tiling(S \cup {t}, z)
  OBVIOUS
<1>1. s \in Units /\ t \in Units /\ t > s /\ sz[s] \in Units /\ s + sz[s] - 1 \in Units
  <2>1. s \in Units /\ sz[s] \in Units /\ s + sz[s] - 1 \in Units
    BY DEF Tiling
  <2> QED BY <2>1, ArenaAssumption DEF Units
<1>2. t \notin S
  BY <1>1 DEF Tiling, Units
<1>3. z \in [Cells -> 0..NUnits] /\ z[s] = sz[s] - n /\ z[t] = n
      /\ \A x \in S \ {s} : z[x] = sz[x]
  <2>1. S \subseteq Cells /\ t \in Cells
    BY <1>1, UnitsAreCells DEF Tiling
  <2>2. s # t /\ sz[s] - n \in 0..NUnits /\ n \in 0..NUnits
    BY <1>1, ArenaAssumption DEF Units
  <2> QED BY <1>2, <2>1, <2>2
<1> HIDE DEF z
<1>4. \A x \in S \cup {t} : z[x] \in Units /\ x + z[x] - 1 \in Units
  <2>1. \A x \in {s, t} : z[x] \in Units /\ x + z[x] - 1 \in Units
    BY <1>1, <1>3, ArenaAssumption DEF Units
  <2>2. \A x \in S \ {s} : z[x] \in Units /\ x + z[x] - 1 \in Units
    BY <1>3 DEF Tiling
  <2> QED BY <2>1, <2>2
<1>5. \A x, y \in S \cup {t} : x < y => x + z[x] <= y
  <2> SUFFICES ASSUME NEW x \in S \cup {t}, NEW y \in S \cup {t}, x < y PROVE x + z[x] <= y
    OBVIOUS
  <2>1. CASE x = s
    BY <1>1, <1>2, <1>3, <2>1 DEF Tiling, Units
  <2>2. CASE x = t
    BY <1>1, <1>2, <1>3, <2>2 DEF Tiling, Units
  <2>3. CASE x # s /\ x # t
    BY <1>1, <1>2, <1>3, <2>3 DEF Tiling, Units
  <2> QED BY <2>1, <2>2, <2>3
<1>6. \A u \in Units : \E x \in S \cup {t} : x <= u /\ u < x + z[x]
  <2> SUFFICES ASSUME NEW u \in Units PROVE \E x \in S \cup {t} : x <= u /\ u < x + z[x]
    OBVIOUS
  <2>1. PICK x \in S : x <= u /\ u < x + sz[x]
    BY DEF Tiling
  <2>2. CASE x = s
    BY <1>1, <1>3, <2>1, <2>2 DEF Units
  <2>3. CASE x # s
    BY <1>3, <2>1, <2>3
  <2> QED BY <2>2, <2>3
<1> QED BY <1>1, <1>2, <1>3, <1>4, <1>5, <1>6 DEF Tiling, z

\* Two blocks that touch become one.
LEMMA JoinBlocks ==
  ASSUME NEW S, NEW sz \in [Cells -> 0..NUnits], Tiling(S, sz),
         NEW s \in S, NEW t \in S, s + sz[s] = t
  PROVE  /\ [sz EXCEPT ![s] = @ + sz[t], ![t] = 0] \in [Cells -> 0..NUnits]
         /\ Tiling(S \ {t}, [sz EXCEPT ![s] = @ + sz[t], ![t] = 0])
<1> DEFINE z == [sz EXCEPT ![s] = @ + sz[t], ![t] = 0]
<1>1. s \in Units /\ t \in Units /\ t > s /\ sz[s] \in Units /\ sz[t] \in Units
      /\ t + sz[t] - 1 \in Units
  <2>1. s \in Units /\ t \in Units /\ sz[s] \in Units /\ sz[t] \in Units /\ t + sz[t] - 1 \in Units
    BY DEF Tiling
  <2> QED BY <2>1, ArenaAssumption DEF Units
<1>2. z \in [Cells -> 0..NUnits] /\ z[s] = sz[s] + sz[t] /\ \A x \in S \ {s, t} : z[x] = sz[x]
  <2>1. S \subseteq Cells
    BY UnitsAreCells DEF Tiling
  <2>2. s # t /\ sz[s] + sz[t] \in 0..NUnits /\ 0 \in 0..NUnits
    BY <1>1, ArenaAssumption DEF Units
  <2> QED BY <2>1, <2>2
<1> HIDE DEF z
<1>3. \A x \in S \ {t} : z[x] \in Units /\ x + z[x] - 1 \in Units
  <2>1. z[s] \in Units /\ s + z[s] - 1 \in Units
    BY <1>1, <1>2, ArenaAssumption DEF Units
  <2>2. \A x \in S \ {s, t} : z[x] \in Units /\ x + z[x] - 1 \in Units
    BY <1>2 DEF Tiling
  <2> QED BY <2>1, <2>2
<1>4. \A x, y \in S \ {t} : x < y => x + z[x] <= y
  <2> SUFFICES ASSUME NEW x \in S \ {t}, NEW y \in S \ {t}, x < y PROVE x + z[x] <= y
    OBVIOUS
  <2>1. CASE x = s
    <3>1. t < y
      BY <1>1, <2>1 DEF Tiling, Units
    <3> QED BY <1>1, <1>2, <2>1, <3>1 DEF Tiling, Units
  <2>2. CASE x # s
    BY <1>2, <2>2 DEF Tiling
  <2> QED BY <2>1, <2>2
<1>5. \A u \in Units : \E x \in S \ {t} : x <= u /\ u < x + z[x]
  <2> SUFFICES ASSUME NEW u \in Units PROVE \E x \in S \ {t} : x <= u /\ u < x + z[x]
    OBVIOUS
  <2>1. PICK x \in S : x <= u /\ u < x + sz[x]
    BY DEF Tiling
  <2>2. CASE x \in {s, t}
    <3>1. s <= u /\ u < s + z[s]
      BY <1>1, <1>2, <2>1, <2>2 DEF Units
    <3>2. s \in S \ {t}
      BY <1>1 DEF Units
    <3> QED BY <3>1, <3>2
  <2>3. CASE x \notin {s, t}
    BY <1>2, <2>1, <2>3
  <2> QED BY <2>2, <2>3
<1> QED BY <1>1, <1>2, <1>3, <1>4, <1>5 DEF Tiling, z

-----------------------------------------------------------------------------
(* The circular list.  F holds the free blocks, nx and pv their links.      *)

Links == [Cells -> Cells \cup {NULL}]

\* Linked both ways and in order, and no two of them touch.
Linked(F, nx, pv, sz) ==
  /\ F \subseteq Units
  /\ \A x \in F \cup {base} : nx[x] \in F \cup {base} /\ pv[nx[x]] = x
  /\ \A x \in F \cup {base} : pv[x] \in F \cup {base} /\ nx[pv[x]] = x
  /\ \A x, y \in F \cup {base} : y <= x \/ (nx[x] # base /\ y >= nx[x])
  /\ \A x \in F \cup {base} : nx[x] # base => x + sz[x] < nx[x]

\* Only the sizes of the free blocks matter, and only so far.
LEMMA Resized ==
  ASSUME NEW F, NEW nx, NEW pv, NEW sz, NEW z, Linked(F, nx, pv, sz),
         \A x \in F \cup {base} : nx[x] # base => x + z[x] < nx[x]
  PROVE  Linked(F, nx, pv, z)
BY DEF Linked

LEMMA Ascending ==
  ASSUME NEW F, NEW nx, NEW pv, NEW sz \in [Cells -> 0..NUnits], Linked(F, nx, pv, sz),
         NEW x \in F \cup {base}
  PROVE  x \in Nat /\ (nx[x] # base => x < nx[x]) /\ (pv[x] = base \/ pv[x] < x \/ x = base)
<1>1. F \cup {base} \subseteq Cells /\ F \cup {base} \subseteq Nat
  <2>1. F \subseteq Units
    BY DEF Linked
  <2> QED BY <2>1, UnitsAreCells, CellsAreNats
<1>2. \A w \in F \cup {base} : nx[w] # base => w < nx[w]
  <2> SUFFICES ASSUME NEW w \in F \cup {base}, nx[w] # base PROVE w < nx[w]
    OBVIOUS
  <2>1. w + sz[w] < nx[w] /\ nx[w] \in Nat /\ w \in Nat /\ sz[w] \in Nat
    BY <1>1, ArenaAssumption DEF Linked
  <2> QED BY <2>1
<1>3. pv[x] \in F \cup {base} /\ nx[pv[x]] = x
  BY DEF Linked
<1>4. x \in Nat /\ (nx[x] # base => x < nx[x])
  BY <1>1, <1>2
<1>5. pv[x] = base \/ pv[x] < x \/ x = base
  BY <1>2, <1>3
<1> QED BY <1>4, <1>5

LEMMA Unlink ==
  ASSUME NEW F, NEW nx \in Links, NEW pv \in Links, NEW sz \in [Cells -> 0..NUnits],
         Linked(F, nx, pv, sz), NEW x \in F
  PROVE  LET n == [nx EXCEPT ![pv[x]] = nx[x], ![x] = NULL]
             v == [pv EXCEPT ![nx[x]] = pv[x], ![x] = NULL]
         IN  n \in Links /\ v \in Links /\ Linked(F \ {x}, n, v, sz)
<1> DEFINE n == [nx EXCEPT ![pv[x]] = nx[x], ![x] = NULL]
           v == [pv EXCEPT ![nx[x]] = pv[x], ![x] = NULL]
<1> SUFFICES n \in Links /\ v \in Links /\ Linked(F \ {x}, n, v, sz)
  OBVIOUS
<1>1. /\ F \cup {base} \subseteq Cells /\ x # base /\ base \notin F
      /\ nx[x] \in F \cup {base} /\ pv[x] \in F \cup {base}
  BY UnitsAreCells DEF Linked
<1>2. nx[x] # x /\ pv[x] # x
  <2>1. nx[x] # x
    BY Ascending, <1>1
  <2> QED BY <2>1, <1>1 DEF Linked
<1>3. n \in Links /\ n[pv[x]] = nx[x] /\ \A w \in F \cup {base} : w # x /\ w # pv[x] => n[w] = nx[w]
  BY <1>1, <1>2 DEF Links
<1>4. v \in Links /\ v[nx[x]] = pv[x] /\ \A w \in F \cup {base} : w # x /\ w # nx[x] => v[w] = pv[w]
  BY <1>1, <1>2 DEF Links
<1> HIDE DEF n, v
<1> DEFINE N == (F \ {x}) \cup {base}
<1>5. N = (F \cup {base}) \ {x}
  BY <1>1
<1>6. ASSUME NEW w \in N PROVE n[w] \in N /\ v[n[w]] = w
  <2>1. w \in F \cup {base} /\ w # x /\ nx[w] \in F \cup {base} /\ pv[nx[w]] = w /\ pv[nx[x]] = x
    BY <1>5 DEF Linked
  <2>2. CASE w = pv[x]
    BY <1>1, <1>2, <1>3, <1>4, <1>5, <2>2
  <2>3. CASE w # pv[x]
    BY <1>3, <1>4, <1>5, <2>1, <2>3
  <2> QED BY <2>2, <2>3
<1>7. ASSUME NEW w \in N PROVE v[w] \in N /\ n[v[w]] = w
  <2>1. w \in F \cup {base} /\ w # x /\ pv[w] \in F \cup {base} /\ nx[pv[w]] = w /\ nx[pv[x]] = x
    BY <1>5 DEF Linked
  <2>2. CASE w = nx[x]
    BY <1>1, <1>2, <1>3, <1>4, <1>5, <2>2
  <2>3. CASE w # nx[x]
    BY <1>3, <1>4, <1>5, <2>1, <2>3
  <2> QED BY <2>2, <2>3
<1>8. ASSUME NEW w \in N, n[w] # base, w = pv[x] PROVE w + sz[w] < n[w]
  <2>1. nx[w] = x /\ n[w] = nx[x]
    BY <1>3, <1>8 DEF Linked
  <2>2. w + sz[w] < x
    BY <1>1, <1>5, <2>1 DEF Linked
  <2>3. x < nx[x]
    BY <1>8, <2>1, Ascending
  <2>4. w \in Nat /\ sz[w] \in Nat /\ x \in Nat /\ nx[x] \in Nat
    BY <1>1, <1>5, CellsAreNats
  <2> QED BY <2>1, <2>2, <2>3, <2>4
<1>9. ASSUME NEW w \in N, NEW y \in N, w = pv[x] PROVE y <= w \/ (n[w] # base /\ y >= n[w])
  <2>1. nx[w] = x /\ n[w] = nx[x]
    BY <1>1, <1>3, <1>5, <1>9 DEF Linked
  <2>2. y <= w \/ y >= x
    BY <1>5, <2>1 DEF Linked
  <2>3. y <= x \/ (nx[x] # base /\ y >= nx[x])
    BY <1>5 DEF Linked
  <2>4. y # x /\ y \in Nat /\ x \in Nat
    BY <1>1, <1>5, CellsAreNats
  <2> QED BY <2>1, <2>2, <2>3, <2>4
<1>10. \A w \in N : n[w] # base => w + sz[w] < n[w]
  BY <1>3, <1>5, <1>8 DEF Linked
<1>11. \A w, y \in N : y <= w \/ (n[w] # base /\ y >= n[w])
  BY <1>3, <1>5, <1>9 DEF Linked
<1>12. F \ {x} \subseteq Units
  BY DEF Linked
<1> QED BY <1>3, <1>4, <1>6, <1>7, <1>10, <1>11, <1>12 DEF Linked

LEMMA Link ==
  ASSUME NEW F, NEW nx \in Links, NEW pv \in Links, NEW sz \in [Cells -> 0..NUnits],
         Linked(F, nx, pv, sz), NEW q \in F \cup {base}, NEW b \in Units \ F,
         q + sz[q] < b, nx[q] = base \/ b + sz[b] < nx[q]
  PROVE  LET n == [nx EXCEPT ![b] = nx[q], ![q] = b]
             v == [pv EXCEPT ![b] = q, ![nx[q]] = b]
         IN  n \in Links /\ v \in Links /\ Linked(F \cup {b}, n, v, sz)
<1> DEFINE n == [nx EXCEPT ![b] = nx[q], ![q] = b]
           v == [pv EXCEPT ![b] = q, ![nx[q]] = b]
<1> SUFFICES n \in Links /\ v \in Links /\ Linked(F \cup {b}, n, v, sz)
  OBVIOUS
<1>1. /\ F \cup {base} \subseteq Cells /\ b # base /\ b # q /\ b \in Cells
      /\ nx[q] \in F \cup {base} /\ nx[q] # b
  BY UnitsAreCells DEF Linked
<1>2. n \in Links /\ n[b] = nx[q] /\ n[q] = b /\ \A w \in F \cup {base} : w # q => n[w] = nx[w]
  BY <1>1 DEF Links
<1>3. v \in Links /\ v[b] = q /\ v[nx[q]] = b /\ \A w \in F \cup {base} : w # nx[q] => v[w] = pv[w]
  BY <1>1 DEF Links
<1> HIDE DEF n, v
<1> DEFINE N == (F \cup {b}) \cup {base}
<1>4. N = (F \cup {base}) \cup {b}
  OBVIOUS
<1>5. ASSUME NEW w \in N PROVE n[w] \in N /\ v[n[w]] = w
  <2>1. CASE w \in {q, b}
    BY <1>1, <1>2, <1>3, <1>4, <2>1
  <2>2. CASE w \notin {q, b}
    <3>1. w \in F \cup {base} /\ nx[w] \in F \cup {base} /\ pv[nx[w]] = w /\ pv[nx[q]] = q
      BY <1>4, <2>2 DEF Linked
    <3> QED BY <1>2, <1>3, <1>4, <2>2, <3>1
  <2> QED BY <2>1, <2>2
<1>6. ASSUME NEW w \in N PROVE v[w] \in N /\ n[v[w]] = w
  <2>1. CASE w \in {nx[q], b}
    BY <1>1, <1>2, <1>3, <1>4, <2>1
  <2>2. CASE w \notin {nx[q], b}
    <3>1. w \in F \cup {base} /\ pv[w] \in F \cup {base} /\ nx[pv[w]] = w
      BY <1>4, <2>2 DEF Linked
    <3> QED BY <1>2, <1>3, <1>4, <2>2, <3>1
  <2> QED BY <2>1, <2>2
<1>7. q < b /\ b \in Nat /\ q \in Nat /\ sz[b] \in Nat /\ \A w \in F \cup {base} : w \in Nat
  <2>1. \A w \in F \cup {base} : w \in Nat
    BY <1>1, CellsAreNats
  <2>2. sz[q] \in Nat /\ q \in Nat /\ b \in Nat /\ sz[b] \in Nat
    BY <1>1, CellsAreNats
  <2> QED BY <2>1, <2>2
<1>8. \A y \in F \cup {base} : y <= q \/ (nx[q] # base /\ y >= nx[q] /\ y > b)
  <2> SUFFICES ASSUME NEW y \in F \cup {base}
               PROVE  y <= q \/ (nx[q] # base /\ y >= nx[q] /\ y > b)
    OBVIOUS
  <2>1. y <= q \/ (nx[q] # base /\ y >= nx[q])
    BY DEF Linked
  <2>2. nx[q] # base => b < nx[q]
    <3>1. nx[q] \in Nat /\ b \in Nat /\ sz[b] \in Nat
      BY <1>1, <1>7
    <3> QED BY <3>1
  <2>3. y \in Nat /\ b \in Nat /\ nx[q] \in Nat
    BY <1>1, <1>7
  <2> QED BY <2>1, <2>2, <2>3
<1>9. \A w \in N : n[w] # base => w + sz[w] < n[w]
  BY <1>1, <1>2, <1>4 DEF Linked
<1>10. ASSUME NEW w \in N, NEW y \in N PROVE y <= w \/ (n[w] # base /\ y >= n[w])
  <2>1. CASE w = q
    BY <1>1, <1>2, <1>4, <1>7, <1>8, <2>1
  <2>2. CASE w = b
    BY <1>1, <1>2, <1>4, <1>7, <1>8, <2>2
  <2>3. CASE w # q /\ w # b /\ y # b
    BY <1>2, <1>4, <2>3 DEF Linked
  <2>4. CASE w # q /\ w # b /\ y = b
    <3>1. w \in F \cup {base} /\ n[w] = nx[w]
      BY <1>2, <1>4, <2>4
    <3>2. q <= w \/ (nx[w] # base /\ q >= nx[w])
      BY <3>1 DEF Linked
    <3>3. nx[w] \in Nat
      BY <1>7, <3>1 DEF Linked
    <3>4. CASE q <= w
      BY <1>7, <1>8, <2>4, <3>1, <3>4
    <3>5. CASE nx[w] # base /\ q >= nx[w]
      BY <1>7, <2>4, <3>1, <3>3, <3>5
    <3> QED BY <3>2, <3>4, <3>5
  <2> QED BY <2>1, <2>2, <2>3, <2>4
<1>11. F \cup {b} \subseteq Units
  BY DEF Linked
<1> QED BY <1>2, <1>3, <1>5, <1>6, <1>9, <1>10, <1>11 DEF Linked

-----------------------------------------------------------------------------
(* The inductive invariant.                                                *)

AllocPcs == {"lock_alloc", "check_alloc", "walk_alloc", "search"}
RoomFor(n, a) == (n - 1) * HeaderSize >= a

\* c has the block that starts at s, or is giving it back.
Holds(c, s) == (Freeing(c) /\ arg[c] = s) \/ \E b \in owned[c] : b.at = s

\* Where blocks start, free or not.
Starts == {s \in Units : s \in free \/ \E c \in Callers : Holds(c, s)}

\* Nobody shares a block.
Distinct ==
  /\ \A c \in Callers : Freeing(c) => arg[c] \in Units
  /\ \A c \in Callers, s \in Units : Holds(c, s) => s \notin free
  /\ \A c, d \in Callers, s \in Units : Holds(c, s) /\ Holds(d, s) => c = d
  /\ \A c \in Callers : Freeing(c) => \A b \in owned[c] : b.at # arg[c]
  /\ \A c \in Callers : \A b, o \in owned[c] : b.at = o.at => b = o
  /\ \A c \in Callers : \A b \in owned[c] : size[b.at] = b.len

HeapInv ==
  freep # NULL =>
    /\ freep \in Nodes /\ size[base] = 0
    /\ Linked(free, next, prev, size)
    /\ Tiling(Starts, size)
    /\ Distinct

\* Before the first call there is no list, and nobody has anything.
FreshInv ==
  freep = NULL =>
    /\ size = [u \in Cells |-> 0] /\ next[base] = 1 /\ prev[base] = 1
    /\ free = {} /\ \A c \in Callers : owned[c] = {} /\ kaPc[c] \in {"idle", "lock_alloc"}

\* The search starts behind freep and has gone round as far as p.
Passed(c, x) == IF p[c] > freep THEN freep < x /\ x < p[c] ELSE freep < x \/ x < p[c]

CallerInv(c) ==
  /\ kaPc[c] # "panic"
  /\ Walking(c) => p[c] \in Nodes /\ prevp[c] = prev[p[c]]
  /\ kaPc[c] \in {"search", "place"} => p[c] \in Nodes
  /\ kaPc[c] \in AllocPcs => arg[c] >= 1 /\ RoomFor(arg[c], ask[c])
  /\ kaPc[c] = "search" => \A x \in free : Passed(c, x) => size[x] < arg[c]

KAllocInv ==
  /\ KAllocTypeOK /\ MutualExclusion
  /\ HeapInv /\ FreshInv
  /\ \A c \in Callers : CallerInv(c)

LEMMA KAllocInitInv == KAllocInit => KAllocInv
<1> SUFFICES ASSUME KAllocInit PROVE KAllocInv
  OBVIOUS
<1>1. KAllocTypeOK
  <2>1. 0 \in Asks /\ 0 \in 0..NUnits /\ 1 \in Cells /\ base \in Cells
    BY ArenaAssumption, HeaderAssumption DEF Asks, Cells, base
  <2> QED BY <2>1 DEF KAllocInit, KAllocTypeOK
<1>2. MutualExclusion
  BY DEF KAllocInit, MutualExclusion, InCall
<1>3. HeapInv /\ FreshInv
  BY UnitsAreCells DEF KAllocInit, HeapInv, FreshInv
<1>4. \A c \in Callers : CallerInv(c)
  BY DEF KAllocInit, CallerInv, Walking, AllocPcs
<1> QED BY <1>1, <1>2, <1>3, <1>4 DEF KAllocInv

-----------------------------------------------------------------------------
(* What a step of one caller leaves alone.                                 *)

\* The heap is as it was, and whoever gives a block back still does.
LEMMA HeapKept ==
  ASSUME HeapInv, UNCHANGED <<heap, owned>>,
         \A c \in Callers : Freeing(c)' = Freeing(c) /\ (Freeing(c) => arg'[c] = arg[c])
  PROVE  HeapInv'
<1>1. ASSUME NEW c \in Callers, NEW s PROVE Holds(c, s)' = Holds(c, s)
  BY DEF Holds
<1>2. Starts' = Starts
  BY <1>1 DEF Starts, heap
<1>3. Distinct => Distinct'
  BY <1>1 DEF Distinct, heap
<1> QED BY <1>2, <1>3 DEF HeapInv, heap, Nodes

\* A caller that is not in a call does not look at the list.
LEMMA OutsideKept ==
  ASSUME NEW d \in Callers, CallerInv(d), ~InCall(d),
         kaPc'[d] = kaPc[d], arg'[d] = arg[d], ask'[d] = ask[d]
  PROVE  CallerInv(d)'
BY DEF CallerInv, InCall, Walking, AllocPcs, RoomFor

LEMMA OthersKept ==
  ASSUME KAllocInv, NEW c \in Callers, InCall(c) \/ ~locked,
         \A d \in Callers \ {c} : kaPc'[d] = kaPc[d] /\ arg'[d] = arg[d] /\ ask'[d] = ask[d]
  PROVE  \A d \in Callers \ {c} : CallerInv(d)' /\ ~InCall(d) /\ Freeing(d)' = Freeing(d)
<1>1. \A d \in Callers \ {c} : ~InCall(d)
  BY DEF KAllocInv, MutualExclusion
<1> QED BY <1>1, OutsideKept DEF KAllocInv, Freeing

-----------------------------------------------------------------------------
(* The steps.                                                              *)

LEMMA Division ==
  ASSUME NEW a \in Nat, NEW h \in Nat \ {0}
  PROVE  a \div h \in Nat /\ a < h * (a \div h) + h
<1>1. a \div h \in Int /\ a \div h >= 0
  OBVIOUS
<1>2. a < h * (a \div h) + h
  OBVIOUS
<1> QED BY <1>1, <1>2

LEMMA RoomOfUnits ==
  ASSUME NEW n \in Nat
  PROVE  Truncated(n) \in Asks /\ nunits(n) \in Nat \ {0} /\ RoomFor(nunits(n), Truncated(n))
<1> DEFINE t == Truncated(n)
           k == (t + HeaderSize - 1) \div HeaderSize
<1>1. t \in Nat /\ t \in Asks
  BY HeaderAssumption DEF Truncated, Asks
<1>2. t + HeaderSize - 1 \in Nat /\ HeaderSize \in Nat \ {0}
  BY <1>1, HeaderAssumption
<1> HIDE DEF t
<1>3. k \in Nat /\ t + HeaderSize - 1 < HeaderSize * k + HeaderSize
  BY <1>2, Division
<1> HIDE DEF k
<1>4. HeaderSize * k >= t /\ k * HeaderSize = HeaderSize * k
  BY <1>1, <1>2, <1>3
<1> QED BY <1>1, <1>3, <1>4 DEF nunits, RoomFor, t, k

LEMMA CallAllocInv == ASSUME KAllocInv, NEW c \in Callers, NEW n \in Requests, CallAlloc(c, n) PROVE KAllocInv'
<1> USE DEF CallAlloc
<1>1. Truncated(n) \in Asks /\ nunits(n) \in Nat \ {0} /\ RoomFor(nunits(n), Truncated(n))
  BY RoomOfUnits, RequestAssumption
<1>2. KAllocTypeOK'
  BY <1>1 DEF KAllocInv, KAllocTypeOK, heap
<1>3. MutualExclusion'
  BY DEF KAllocInv, KAllocTypeOK, MutualExclusion, InCall
<1>4. HeapInv'
  <2>1. \A d \in Callers : Freeing(d)' = Freeing(d) /\ (Freeing(d) => arg'[d] = arg[d])
    BY DEF KAllocInv, KAllocTypeOK, Freeing
  <2> QED BY <2>1, HeapKept DEF KAllocInv
<1>5. FreshInv'
  BY DEF KAllocInv, FreshInv, KAllocTypeOK, heap
<1>6. CallerInv(c)'
  BY <1>1 DEF KAllocInv, KAllocTypeOK, CallerInv, Walking, AllocPcs, RoomFor
<1>7. ASSUME NEW d \in Callers \ {c} PROVE CallerInv(d)'
  BY DEF KAllocInv, KAllocTypeOK, CallerInv, Walking, AllocPcs, RoomFor, Passed, heap, Nodes
<1> QED BY <1>2, <1>3, <1>4, <1>5, <1>6, <1>7 DEF KAllocInv

LEMMA CallFreeInv == ASSUME KAllocInv, NEW c \in Callers, NEW b \in owned[c], CallFree(c, b) PROVE KAllocInv'
<1> USE DEF CallFree
<1>1. /\ b.at \in Units /\ owned' = [owned EXCEPT ![c] = @ \ {b}] /\ arg'[c] = b.at /\ ~Freeing(c) /\ Freeing(c)'
      /\ freep # NULL
      /\ \A d \in Callers \ {c} : owned'[d] = owned[d] /\ arg'[d] = arg[d] /\ Freeing(d)' = Freeing(d)
  BY DEF KAllocInv, KAllocTypeOK, FreshInv, Freeing
<1>2. KAllocTypeOK'
  <2>1. b.at \in Nat /\ 0 \in Asks
    BY <1>1, HeaderAssumption DEF Units, Asks
  <2> QED BY <2>1 DEF KAllocInv, KAllocTypeOK, heap
<1>3. MutualExclusion'
  BY DEF KAllocInv, KAllocTypeOK, MutualExclusion, InCall
<1>4. HeapInv'
  <2>1. Distinct /\ owned'[c] = owned[c] \ {b}
    BY <1>1 DEF KAllocInv, HeapInv, KAllocTypeOK
  <2>2. ASSUME NEW d \in Callers, NEW s PROVE Holds(d, s)' = Holds(d, s)
    <3>1. CASE d = c
      BY <1>1, <2>1, <3>1 DEF Holds
    <3>2. CASE d # c
      BY <1>1, <3>2 DEF Holds
    <3> QED BY <3>1, <3>2
  <2>3. Starts' = Starts
    BY <2>2 DEF Starts, heap
  <2>4. Distinct'
    <3>1. \A d \in Callers : Freeing(d)' => arg'[d] \in Units
      BY <1>1, <2>1 DEF Distinct
    <3>2. \A d \in Callers : Freeing(d)' => \A o \in owned'[d] : o.at # arg'[d]
      BY <1>1, <2>1 DEF Distinct
    <3>3. \A d \in Callers : owned'[d] \subseteq owned[d]
      BY <1>1, <2>1
    <3> QED BY <2>1, <2>2, <3>1, <3>2, <3>3 DEF Distinct, heap
  <2> QED BY <2>3, <2>4 DEF KAllocInv, HeapInv, heap, Nodes
<1>5. FreshInv'
  BY <1>1 DEF FreshInv, heap
<1>6. CallerInv(c)'
  BY DEF KAllocInv, KAllocTypeOK, CallerInv, Walking, AllocPcs
<1>7. ASSUME NEW d \in Callers \ {c} PROVE CallerInv(d)'
  BY DEF KAllocInv, KAllocTypeOK, CallerInv, Walking, AllocPcs, RoomFor, Passed, heap, Nodes
<1> QED BY <1>2, <1>3, <1>4, <1>5, <1>6, <1>7 DEF KAllocInv

LEMMA LockAllocInv == ASSUME KAllocInv, NEW c \in Callers, LockAlloc(c) PROVE KAllocInv'
<1> USE DEF LockAlloc, xchg
<1>1. KAllocTypeOK'
  <2>1. 1 \in Cells /\ base \in Cells /\ NUnits \in 0..NUnits /\ 1 \in Units
    BY ArenaAssumption DEF Cells, base, Units
  <2>2. next' \in [Cells -> Cells \cup {NULL}] /\ prev' \in [Cells -> Cells \cup {NULL}]
        /\ size' \in [Cells -> 0..NUnits] /\ freep' \in Cells \cup {NULL} /\ free' \subseteq Units
    BY <2>1 DEF KAllocInv, KAllocTypeOK, heap
  <2> QED BY <2>2 DEF KAllocInv, KAllocTypeOK, locals
<1>2. /\ ~Freeing(c) /\ ~Freeing(c)' /\ kaPc[c] = "lock_alloc" /\ kaPc'[c] = "check_alloc"
      /\ \A d \in Callers : owned'[d] = owned[d] /\ arg'[d] = arg[d] /\ ask'[d] = ask[d]
      /\ \A d \in Callers \ {c} : kaPc'[d] = kaPc[d] /\ Freeing(d)' = Freeing(d)
  BY DEF KAllocInv, KAllocTypeOK, Freeing, locals
<1>3. MutualExclusion'
  BY <1>2 DEF KAllocInv, KAllocTypeOK, MutualExclusion, InCall
<1>4. ASSUME freep # NULL PROVE HeapInv' /\ FreshInv'
  <2>1. UNCHANGED <<heap, owned>>
    BY <1>4 DEF heap
  <2>2. HeapInv'
    <3>1. \A d \in Callers : Freeing(d)' = Freeing(d) /\ (Freeing(d) => arg'[d] = arg[d])
      BY <1>2 DEF Freeing
    <3> QED BY <2>1, <3>1, HeapKept DEF KAllocInv
  <2> QED BY <1>4, <2>1, <2>2 DEF FreshInv, heap
<1>5. ASSUME freep = NULL PROVE HeapInv' /\ FreshInv'
  <2>1. /\ size' = [size EXCEPT ![1] = NUnits] /\ freep' = base /\ free' = {1}
        /\ next' = [next EXCEPT ![1] = base] /\ prev' = [prev EXCEPT ![1] = base]
    BY <1>5
  <2>2. /\ size = [u \in Cells |-> 0] /\ next[base] = 1 /\ prev[base] = 1
        /\ \A d \in Callers : owned[d] = {} /\ ~Freeing(d)'
    BY <1>2, <1>5 DEF KAllocInv, FreshInv, Freeing
  <2>3. /\ 1 \in Units /\ 1 \in Cells /\ base \in Cells /\ 1 # base
        /\ size'[1] = NUnits /\ size'[base] = 0
        /\ next'[1] = base /\ next'[base] = 1 /\ prev'[1] = base /\ prev'[base] = 1
    BY <2>1, <2>2, ArenaAssumption DEF KAllocInv, KAllocTypeOK, Cells, Units, base
  <2>4. Linked(free', next', prev', size')
    <3>1. \A x \in {1, base} : next'[x] \in {1, base} /\ prev'[next'[x]] = x /\ prev'[x] \in {1, base}
                              /\ next'[prev'[x]] = x
      BY <2>3
    <3>2. \A x, y \in {1, base} : y <= x \/ (next'[x] # base /\ y >= next'[x])
      BY <2>3 DEF base
    <3>3. \A x \in {1, base} : next'[x] # base => x + size'[x] < next'[x]
      BY <2>3 DEF base
    <3> QED BY <2>1, <2>3, <3>1, <3>2, <3>3 DEF Linked
  <2>5. \A d \in Callers, s \in Units : ~Holds(d, s)'
    BY <1>2, <2>2 DEF Holds
  <2>6. Starts' = {1}
    BY <2>1, <2>3, <2>5 DEF Starts
  <2>7. Tiling({1}, size')
    <3>1. 1 + NUnits - 1 \in Units /\ NUnits \in Units
      BY ArenaAssumption DEF Units
    <3>2. \A u \in Units : 1 <= u /\ u < 1 + NUnits
      BY ArenaAssumption DEF Units
    <3> QED BY <2>3, <3>1, <3>2 DEF Tiling
  <2>8. Distinct'
    BY <1>2, <2>2, <2>5 DEF Distinct
  <2>9. HeapInv'
    BY <2>1, <2>3, <2>4, <2>6, <2>7, <2>8 DEF HeapInv, Nodes
  <2> QED BY <2>1, <2>9 DEF FreshInv, base, NULL
<1>6. HeapInv' /\ FreshInv'
  BY <1>4, <1>5
<1>7. CallerInv(c)'
  BY <1>2 DEF KAllocInv, CallerInv, Walking, AllocPcs, RoomFor
<1>8. \A d \in Callers \ {c} : CallerInv(d)'
  BY <1>2, OthersKept
<1> QED BY <1>1, <1>3, <1>6, <1>7, <1>8 DEF KAllocInv

\* A step inside a call that does not touch the heap: the type, the lock, the
\* heap and the other callers need no more thought.
LEMMA WithinCall ==
  ASSUME KAllocInv, NEW c \in Callers, InCall(c), UNCHANGED <<heap, locked, owned, ask, arg>>,
         p' \in [Callers -> Cells], prevp' \in [Callers -> Cells],
         NEW to \in CallPcs, kaPc' = [kaPc EXCEPT ![c] = to],
         InCall(c)', Freeing(c)' = Freeing(c), CallerInv(c)'
  PROVE  KAllocInv'
<1>1. kaPc \in [Callers -> CallPcs] /\ kaPc' \in [Callers -> CallPcs]
      /\ \A d \in Callers \ {c} : kaPc'[d] = kaPc[d]
  BY DEF KAllocInv, KAllocTypeOK, CallPcs
<1>2. KAllocTypeOK'
  BY <1>1 DEF KAllocInv, KAllocTypeOK, heap, CallPcs
<1>3. MutualExclusion'
  BY <1>1 DEF KAllocInv, MutualExclusion, InCall
<1>4. \A d \in Callers \ {c} : CallerInv(d)' /\ Freeing(d)' = Freeing(d)
  BY <1>1, OthersKept
<1>5. HeapInv'
  BY <1>4, HeapKept DEF KAllocInv
<1>6. freep # NULL
  BY DEF KAllocInv, FreshInv, InCall
<1>7. FreshInv'
  BY <1>6 DEF FreshInv, heap
<1> QED BY <1>2, <1>3, <1>4, <1>5, <1>7 DEF KAllocInv

LEMMA LockFreeInv == ASSUME KAllocInv, NEW c \in Callers, LockFree(c) PROVE KAllocInv'
<1> USE DEF LockFree, xchg
<1>1. freep # NULL /\ freep \in Nodes
  BY DEF KAllocInv, FreshInv, HeapInv
<1>2. /\ kaPc' = [kaPc EXCEPT ![c] = "place"] /\ UNCHANGED <<heap, owned, ask, arg>>
      /\ \A d \in Callers : Freeing(d)' = Freeing(d)
      /\ \A d \in Callers \ {c} : kaPc'[d] = kaPc[d]
  BY DEF KAllocInv, KAllocTypeOK, Freeing
<1>3. KAllocTypeOK'
  BY <1>1, UnitsAreCells DEF KAllocInv, KAllocTypeOK, heap, Nodes
<1>4. MutualExclusion'
  BY <1>2 DEF KAllocInv, KAllocTypeOK, MutualExclusion, InCall
<1>5. HeapInv'
  BY <1>2, HeapKept DEF KAllocInv
<1>6. FreshInv'
  BY <1>1 DEF FreshInv, heap
<1>7. CallerInv(c)'
  BY <1>1 DEF KAllocInv, KAllocTypeOK, CallerInv, Walking, AllocPcs, heap, Nodes
<1>8. \A d \in Callers \ {c} : CallerInv(d)'
  BY <1>2, OthersKept
<1> QED BY <1>3, <1>4, <1>5, <1>6, <1>7, <1>8 DEF KAllocInv

LEMMA ReturnInv == ASSUME KAllocInv, NEW c \in Callers, Return(c) PROVE KAllocInv'
<1> USE DEF Return
<1>1. freep # NULL
  BY DEF KAllocInv, FreshInv
<1>2. /\ kaPc' = [kaPc EXCEPT ![c] = "idle"] /\ UNCHANGED <<heap, owned>>
      /\ \A d \in Callers : Freeing(d)' = Freeing(d) /\ (Freeing(d) => arg'[d] = arg[d])
      /\ \A d \in Callers \ {c} : kaPc'[d] = kaPc[d] /\ arg'[d] = arg[d] /\ ask'[d] = ask[d]
  BY DEF KAllocInv, KAllocTypeOK, Freeing
<1>3. KAllocTypeOK'
  <2>1. 0 \in Asks /\ base \in Cells
    BY UnitsAreCells, HeaderAssumption DEF Asks
  <2> QED BY <2>1 DEF KAllocInv, KAllocTypeOK, heap
<1>4. MutualExclusion'
  BY <1>2 DEF KAllocInv, KAllocTypeOK, MutualExclusion, InCall
<1>5. HeapInv'
  BY <1>2, HeapKept DEF KAllocInv
<1>6. FreshInv'
  BY <1>1 DEF FreshInv, heap
<1>7. CallerInv(c)'
  BY DEF KAllocInv, KAllocTypeOK, CallerInv, Walking, AllocPcs
<1>8. \A d \in Callers \ {c} : CallerInv(d)'
  BY <1>2, OthersKept DEF InCall
<1> QED BY <1>3, <1>4, <1>5, <1>6, <1>7, <1>8 DEF KAllocInv

\* In a call the list is there and in order, and its links stay on it.
LEMMA OnTheList ==
  ASSUME KAllocInv, NEW c \in Callers, InCall(c)
  PROVE  /\ freep # NULL /\ freep \in Nodes /\ Nodes \subseteq Cells
         /\ Linked(free, next, prev, size) /\ size \in [Cells -> 0..NUnits]
         /\ \A x \in Nodes : next[x] \in Nodes /\ prev[x] \in Nodes /\ prev[next[x]] = x /\ next[prev[x]] = x
         /\ \A x \in Nodes : x \in Nat /\ (next[x] # base => x < next[x])
<1>1. freep # NULL
  BY DEF KAllocInv, FreshInv, InCall
<1>2. freep \in Nodes /\ Linked(free, next, prev, size)
  BY <1>1 DEF KAllocInv, HeapInv
<1>3. size \in [Cells -> 0..NUnits] /\ Nodes \subseteq Cells
  BY UnitsAreCells DEF Nodes, KAllocInv, KAllocTypeOK
<1>4. \A x \in Nodes : x \in Nat /\ (next[x] # base => x < next[x])
  BY <1>2, <1>3, Ascending DEF Nodes
<1> QED BY <1>1, <1>2, <1>3, <1>4 DEF Linked, Nodes

LEMMA StartCheckInv == ASSUME KAllocInv, NEW c \in Callers, StartCheck(c) PROVE KAllocInv'
<1> USE DEF StartCheck
<1>1. InCall(c)
  BY DEF InCall
<1>2. PICK to \in {"walk_alloc", "walk_free"} :
        kaPc' = [kaPc EXCEPT ![c] = to] /\ (to = "walk_alloc" => kaPc[c] = "check_alloc")
  OBVIOUS
<1>3. next[freep] \in Nodes /\ prev[next[freep]] = freep /\ freep \in Cells /\ next[freep] \in Cells
  BY <1>1, OnTheList
<1>4. /\ kaPc \in [Callers -> CallPcs] /\ kaPc'[c] = to
      /\ p' \in [Callers -> Cells] /\ prevp' \in [Callers -> Cells]
      /\ p'[c] = next[freep] /\ prevp'[c] = freep
  BY <1>2, <1>3 DEF KAllocInv, KAllocTypeOK, CallPcs
<1>5. CallerInv(c)'
  BY <1>2, <1>3, <1>4 DEF KAllocInv, CallerInv, Walking, AllocPcs, RoomFor, heap, Nodes
<1>6. InCall(c)' /\ Freeing(c)' = Freeing(c) /\ UNCHANGED <<heap, locked, owned, ask, arg>> /\ to \in CallPcs
  BY <1>4 DEF InCall, Freeing, CallPcs
<1> QED BY <1>1, <1>2, <1>4, <1>5, <1>6, WithinCall

LEMMA WalkOnInv == ASSUME KAllocInv, NEW c \in Callers, WalkOn(c) PROVE KAllocInv'
<1> USE DEF WalkOn
<1>1. InCall(c)
  BY DEF InCall, Walking
<1>2. p[c] \in Nodes /\ next[p[c]] \in Nodes /\ prev[next[p[c]]] = p[c] /\ p[c] \in Cells /\ next[p[c]] \in Cells
  BY <1>1, OnTheList DEF KAllocInv, CallerInv
<1>3. /\ kaPc \in [Callers -> CallPcs] /\ kaPc' = [kaPc EXCEPT ![c] = kaPc[c]] /\ kaPc[c] \in CallPcs
      /\ p' \in [Callers -> Cells] /\ prevp' \in [Callers -> Cells]
      /\ p'[c] = next[p[c]] /\ prevp'[c] = p[c]
  BY <1>2 DEF KAllocInv, KAllocTypeOK, CallPcs
<1>4. CallerInv(c)'
  BY <1>2, <1>3 DEF KAllocInv, CallerInv, Walking, AllocPcs, RoomFor, heap, Nodes
<1>5. InCall(c)' /\ Freeing(c)' = Freeing(c) /\ UNCHANGED <<heap, locked, owned, ask, arg>>
  BY <1>1, <1>3 DEF InCall, Freeing
<1> QED BY <1>1, <1>3, <1>4, <1>5, WithinCall

LEMMA NoPanic == ASSUME KAllocInv, NEW c \in Callers PROVE ~Panic(c)
BY DEF KAllocInv, CallerInv, Panic

LEMMA WalkEndsInv == ASSUME KAllocInv, NEW c \in Callers, WalkEnds(c) PROVE KAllocInv'
<1> USE DEF WalkEnds
<1>1. InCall(c)
  BY DEF InCall, Walking
<1>2. PICK to \in {"search", "unlock"} :
        kaPc' = [kaPc EXCEPT ![c] = to] /\ (to = "search" => kaPc[c] = "walk_alloc")
  OBVIOUS
<1>3. freep \in Nodes /\ next[freep] \in Nodes /\ next[freep] \in Cells /\ base \in Cells
  BY <1>1, OnTheList, UnitsAreCells
<1>4. /\ kaPc \in [Callers -> CallPcs] /\ kaPc'[c] = to
      /\ p' \in [Callers -> Cells] /\ prevp' \in [Callers -> Cells] /\ p'[c] = next[freep]
  BY <1>2, <1>3 DEF KAllocInv, KAllocTypeOK, CallPcs
<1>5. \A x \in free : ~Passed(c, x)'
  <2> SUFFICES ASSUME NEW x \in free PROVE ~Passed(c, x)'
    BY DEF heap
  <2>1. x <= freep \/ (next[freep] # base /\ x >= next[freep])
    BY <1>3, <1>1, OnTheList DEF Linked, Nodes
  <2>2. freep \in Nat /\ x \in Nat /\ next[freep] \in Nat
        /\ (next[freep] # base => freep < next[freep])
    BY <1>1, <1>3, OnTheList DEF Nodes
  <2> QED BY <1>4, <2>1, <2>2 DEF Passed, heap, base
<1>6. CallerInv(c)'
  BY <1>2, <1>3, <1>4, <1>5 DEF KAllocInv, CallerInv, Walking, AllocPcs, RoomFor, heap, Nodes
<1>7. InCall(c)' /\ Freeing(c)' = Freeing(c) /\ UNCHANGED <<heap, locked, owned, ask, arg>> /\ to \in CallPcs
  BY <1>4 DEF InCall, Freeing, CallPcs, Walking
<1> QED BY <1>1, <1>2, <1>4, <1>6, <1>7, WithinCall

LEMMA SearchOnInv == ASSUME KAllocInv, NEW c \in Callers, SearchOn(c) PROVE KAllocInv'
<1> USE DEF SearchOn
<1>1. InCall(c)
  BY DEF InCall
<1>2. p[c] \in Nodes /\ next[p[c]] \in Nodes /\ next[p[c]] \in Cells
  BY <1>1, OnTheList DEF KAllocInv, CallerInv
<1>3. /\ kaPc \in [Callers -> CallPcs] /\ kaPc' = [kaPc EXCEPT ![c] = kaPc[c]] /\ kaPc[c] \in CallPcs
      /\ p' \in [Callers -> Cells] /\ prevp' \in [Callers -> Cells] /\ p'[c] = next[p[c]]
  BY <1>2 DEF KAllocInv, KAllocTypeOK, CallPcs
<1>4. \A x \in free : Passed(c, x)' => x = p[c] \/ Passed(c, x)
  <2> SUFFICES ASSUME NEW x \in free, Passed(c, x)' PROVE x = p[c] \/ Passed(c, x)
    BY DEF heap
  <2>1. \A y \in Nodes : y <= p[c] \/ (next[p[c]] # base /\ y >= next[p[c]])
    BY <1>1, <1>2, OnTheList DEF Linked, Nodes
  <2>2. freep \in Nodes /\ x \in Nodes /\ \A y \in Nodes : y \in Nat
    BY <1>1, OnTheList DEF Nodes
  <2>3. next[p[c]] # base => p[c] < next[p[c]]
    BY <1>1, <1>2, OnTheList
  <2> QED BY <1>2, <1>3, <2>1, <2>2, <2>3 DEF Passed, heap, base
<1>5. size[p[c]] < arg[c]
  <2>1. size[p[c]] \in Nat /\ arg[c] \in Nat
    BY <1>1, <1>2, OnTheList, ArenaAssumption DEF KAllocInv, KAllocTypeOK
  <2> QED BY <2>1 DEF BigEnough
<1>6. CallerInv(c)'
  BY <1>2, <1>3, <1>4, <1>5 DEF KAllocInv, CallerInv, Walking, AllocPcs, RoomFor, heap, Nodes
<1>7. InCall(c)' /\ Freeing(c)' = Freeing(c) /\ UNCHANGED <<heap, locked, owned, ask, arg>>
  BY <1>1, <1>3 DEF InCall, Freeing
<1> QED BY <1>1, <1>3, <1>6, <1>7, WithinCall

LEMMA ReturnNullInv == ASSUME KAllocInv, NEW c \in Callers, ReturnNull(c) PROVE KAllocInv'
<1> USE DEF ReturnNull
<1>1. InCall(c)
  BY DEF InCall
<1>2. /\ kaPc \in [Callers -> CallPcs] /\ kaPc'[c] = "unlock"
      /\ p' \in [Callers -> Cells] /\ prevp' \in [Callers -> Cells]
  BY DEF KAllocInv, KAllocTypeOK, CallPcs, locals
<1>3. CallerInv(c)'
  BY <1>2 DEF CallerInv, Walking, AllocPcs
<1>4. InCall(c)' /\ Freeing(c)' = Freeing(c) /\ UNCHANGED <<heap, locked, owned, ask, arg>>
      /\ "unlock" \in CallPcs
  BY <1>2 DEF InCall, Freeing, locals, CallPcs
<1> QED BY <1>1, <1>2, <1>3, <1>4, WithinCall

\* A step that does change the heap, and leaves it in order.
LEMMA ChangesHeap ==
  ASSUME KAllocInv, NEW c \in Callers, InCall(c), UNCHANGED <<locked, ask, arg, p, prevp>>,
         NEW to \in {"unlock", "check_free"}, kaPc' = [kaPc EXCEPT ![c] = to],
         next' \in Links, prev' \in Links, size' \in [Cells -> 0..NUnits], free' \subseteq Units,
         owned' \in [Callers -> SUBSET [at : Units, len : Units, ask : Asks]],
         freep' \in free' \cup {base}, HeapInv'
  PROVE  KAllocInv'
<1>1. kaPc \in [Callers -> CallPcs] /\ kaPc' \in [Callers -> CallPcs] /\ kaPc'[c] = to
      /\ \A d \in Callers \ {c} : kaPc'[d] = kaPc[d]
  BY DEF KAllocInv, KAllocTypeOK, CallPcs
<1>2. free' \cup {base} \subseteq Cells /\ freep' # NULL
  BY UnitsAreCells, ArenaAssumption DEF Units, base, NULL
<1>3. KAllocTypeOK'
  BY <1>1, <1>2 DEF KAllocInv, KAllocTypeOK, CallPcs, Links
<1>4. InCall(c)'
  BY <1>1 DEF InCall
<1>5. MutualExclusion'
  BY <1>1, <1>4 DEF KAllocInv, MutualExclusion, InCall
<1>6. \A d \in Callers \ {c} : CallerInv(d)'
  BY <1>1, OthersKept
<1>7. CallerInv(c)'
  BY <1>1 DEF CallerInv, Walking, AllocPcs
<1>8. FreshInv'
  BY <1>2 DEF FreshInv
<1> QED BY <1>3, <1>5, <1>6, <1>7, <1>8 DEF KAllocInv

\* Whoever holds a free block's start: nobody.
LEMMA FreeIsFree ==
  ASSUME KAllocInv, freep # NULL, NEW x \in free
  PROVE  x \in Units /\ x \in Starts /\ size[x] \in Units /\ \A d \in Callers : ~Holds(d, x)
<1>1. x \in Units
  BY DEF KAllocInv, KAllocTypeOK
<1>2. x \in Starts
  BY <1>1 DEF Starts
<1> QED BY <1>1, <1>2 DEF KAllocInv, HeapInv, Tiling, Distinct

\* A caller gets a block that nobody has and that is not free any more.
LEMMA Granted ==
  ASSUME KAllocInv, freep # NULL, NEW c \in Callers, NEW blk \in [at : Units, len : Units, ask : Asks],
         owned' = [owned EXCEPT ![c] = @ \cup {blk}],
         \A d \in Callers : ~Holds(d, blk.at) /\ arg'[d] = arg[d] /\ Freeing(d)' = Freeing(d),
         ~Freeing(c), free' \subseteq free, blk.at \notin free', size'[blk.at] = blk.len,
         \A d \in Callers : \A b \in owned[d] : size'[b.at] = size[b.at]
  PROVE  /\ owned' \in [Callers -> SUBSET [at : Units, len : Units, ask : Asks]]
         /\ \A d \in Callers, s \in Units : Holds(d, s)' <=> Holds(d, s) \/ (d = c /\ s = blk.at)
         /\ Distinct'
<1>1. owned' \in [Callers -> SUBSET [at : Units, len : Units, ask : Asks]]
      /\ owned'[c] = owned[c] \cup {blk} /\ \A d \in Callers \ {c} : owned'[d] = owned[d]
  BY DEF KAllocInv, KAllocTypeOK
<1>2. \A d \in Callers, s \in Units : Holds(d, s)' <=> Holds(d, s) \/ (d = c /\ s = blk.at)
  <2> SUFFICES ASSUME NEW d \in Callers, NEW s \in Units
               PROVE  Holds(d, s)' <=> Holds(d, s) \/ (d = c /\ s = blk.at)
    OBVIOUS
  <2>1. (Freeing(d) /\ arg[d] = s)' <=> (Freeing(d) /\ arg[d] = s)
    OBVIOUS
  <2>2. (\E b \in owned[d] : b.at = s)' <=> (\E b \in owned[d] : b.at = s) \/ (d = c /\ s = blk.at)
    <3>1. CASE d = c
      BY <1>1, <3>1
    <3>2. CASE d # c
      BY <1>1, <3>2
    <3> QED BY <3>1, <3>2
  <2> QED BY <2>1, <2>2 DEF Holds
<1>3. Distinct /\ blk.at \in Units
  BY DEF KAllocInv, HeapInv
<1>4. \A b \in owned[c] : b.at # blk.at
  BY DEF Holds
<1>5. \A d \in Callers : \A b, o \in owned'[d] : b.at = o.at => b = o
  <2>1. \A b, o \in owned'[c] : b.at = o.at => b = o
    BY <1>1, <1>3, <1>4 DEF Distinct
  <2> QED BY <1>1, <1>3, <2>1 DEF Distinct
<1>6. \A d \in Callers : \A b \in owned'[d] : size'[b.at] = b.len
  <2>1. \A d \in Callers : \A b \in owned[d] : size[b.at] = b.len
    BY <1>3 DEF Distinct
  <2> QED BY <1>1, <2>1
<1>7. \A d \in Callers : Freeing(d)' => \A b \in owned'[d] : b.at # arg'[d]
  BY <1>1, <1>3 DEF Distinct
<1>8. \A d, e \in Callers, s \in Units : Holds(d, s)' /\ Holds(e, s)' => d = e
  BY <1>2, <1>3 DEF Distinct
<1>9. \A d \in Callers, s \in Units : Holds(d, s)' => s \notin free'
  BY <1>2, <1>3 DEF Distinct
<1>10. \A d \in Callers : Freeing(d)' => arg'[d] \in Units
  BY <1>3 DEF Distinct
<1> QED BY <1>1, <1>2, <1>5, <1>6, <1>7, <1>8, <1>9, <1>10 DEF Distinct

\* test_alloc() hands out a block that nobody has, as large as was counted.
GrantsBlock(c) ==
  \E blk \in [at : Units, len : Units, ask : Asks] :
    /\ owned' = [owned EXCEPT ![c] = @ \cup {blk}]
    /\ blk.len = arg[c] /\ blk.ask = ask[c] /\ kaPc[c] = "search"
    /\ \A d \in Callers : ~Holds(d, blk.at)

LEMMA TakeExactInv == ASSUME KAllocInv, NEW c \in Callers, TakeExact(c) PROVE KAllocInv' /\ GrantsBlock(c)
<1> DEFINE x == p[c]
           blk == [at |-> x, len |-> arg[c], ask |-> ask[c]]
<1>1. InCall(c)
  BY DEF TakeExact, InCall
<1>2. /\ kaPc[c] = "search" /\ size[x] = arg[c] /\ kaPc' = [kaPc EXCEPT ![c] = "unlock"]
      /\ next' = [next EXCEPT ![prev[x]] = next[x], ![x] = NULL]
      /\ prev' = [prev EXCEPT ![next[x]] = prev[x], ![x] = NULL]
      /\ freep' = prev[x] /\ free' = free \ {x} /\ size' = size
      /\ owned' = [owned EXCEPT ![c] = @ \cup {blk}]
      /\ UNCHANGED <<locked, ask, arg, p, prevp>>
      /\ x = p[c] /\ blk.at = x /\ blk.len = arg[c] /\ blk.ask = ask[c]
      /\ (x \in Units /\ arg[c] \in Units => blk \in [at : Units, len : Units, ask : Asks])
  BY DEF TakeExact, Got, Unlinked, locals, KAllocInv, KAllocTypeOK
<1> HIDE DEF x, blk
<1>3. x \in Nodes /\ arg[c] >= 1 /\ freep # NULL /\ HeapInv
  BY <1>1, <1>2, OnTheList DEF KAllocInv, CallerInv, AllocPcs
<1>4. x \in free
  BY <1>2, <1>3 DEF HeapInv, Nodes
<1>5. x \in Units /\ x \in Starts /\ size[x] \in Units /\ \A d \in Callers : ~Holds(d, x)
  BY <1>3, <1>4, FreeIsFree
<1>6. next' \in Links /\ prev' \in Links /\ Linked(free', next', prev', size')
  <2>1. next \in Links /\ prev \in Links /\ size \in [Cells -> 0..NUnits]
    BY DEF KAllocInv, KAllocTypeOK, Links
  <2>2. Linked(free, next, prev, size)
    BY <1>3 DEF HeapInv
  <2>3. /\ next' = [next EXCEPT ![prev[x]] = next[x], ![x] = NULL]
        /\ prev' = [prev EXCEPT ![next[x]] = prev[x], ![x] = NULL]
    BY <1>2
  <2>4. next' \in Links /\ prev' \in Links /\ Linked(free \ {x}, next', prev', size)
    BY <1>4, <2>1, <2>2, <2>3, Unlink
  <2> QED BY <1>2, <2>4
<1>7. freep' \in free' \cup {base}
  <2>1. prev[x] \in Nodes /\ next[prev[x]] = x /\ x # base
    BY <1>1, <1>3, <1>5, OnTheList, UnitsAreCells
  <2>2. prev[x] # x
    BY <1>1, <1>3, <2>1, OnTheList
  <2> QED BY <1>2, <2>1, <2>2 DEF Nodes
<1>8. ~Freeing(c) /\ \A d \in Callers : Freeing(d)' = Freeing(d)
  BY <1>2 DEF KAllocInv, KAllocTypeOK, Freeing
<1>9. /\ owned' \in [Callers -> SUBSET [at : Units, len : Units, ask : Asks]]
      /\ \A d \in Callers, s \in Units : Holds(d, s)' <=> Holds(d, s) \/ (d = c /\ s = x)
      /\ Distinct'
  <2>1. blk \in [at : Units, len : Units, ask : Asks] /\ free' \subseteq free /\ blk.at \notin free'
        /\ blk.at = x /\ size'[blk.at] = blk.len
    BY <1>2, <1>5
  <2>2. \A d \in Callers : ~Holds(d, blk.at) /\ arg'[d] = arg[d] /\ Freeing(d)' = Freeing(d)
    BY <1>2, <1>5, <1>8
  <2>3. owned' = [owned EXCEPT ![c] = @ \cup {blk}] /\ \A d \in Callers : \A b \in owned[d] : size'[b.at] = size[b.at]
    BY <1>2
  <2>4. \A d \in Callers, s \in Units : Holds(d, s)' <=> Holds(d, s) \/ (d = c /\ s = blk.at)
    BY <1>3, <1>8, <2>1, <2>2, <2>3, Granted
  <2>5. owned' \in [Callers -> SUBSET [at : Units, len : Units, ask : Asks]] /\ Distinct'
    BY <1>3, <1>8, <2>1, <2>2, <2>3, Granted
  <2> QED BY <2>1, <2>4, <2>5
<1>10. Starts' = Starts
  BY <1>2, <1>4, <1>5, <1>9 DEF Starts
<1>11. HeapInv'
  BY <1>2, <1>3, <1>6, <1>7, <1>9, <1>10 DEF HeapInv, Nodes
<1>12. size' \in [Cells -> 0..NUnits] /\ free' \subseteq Units
  BY <1>2 DEF KAllocInv, KAllocTypeOK
<1>13. KAllocInv'
  BY <1>1, <1>2, <1>6, <1>7, <1>9, <1>11, <1>12, ChangesHeap
<1>14. GrantsBlock(c)
  BY <1>2, <1>5 DEF GrantsBlock
<1> QED BY <1>13, <1>14

LEMMA TakeTailInv == ASSUME KAllocInv, NEW c \in Callers, TakeTail(c) PROVE KAllocInv' /\ GrantsBlock(c)
<1> DEFINE x == p[c]
           tail == x + size[x] - arg[c]
           blk == [at |-> tail, len |-> arg[c], ask |-> ask[c]]
<1>1. InCall(c)
  BY DEF TakeTail, InCall
<1>2. /\ kaPc[c] = "search" /\ size[x] >= arg[c] /\ size[x] # arg[c] /\ kaPc' = [kaPc EXCEPT ![c] = "unlock"]
      /\ size' = [size EXCEPT ![x] = @ - arg[c], ![tail] = arg[c]]
      /\ freep' = prev[x]
      /\ owned' = [owned EXCEPT ![c] = @ \cup {blk}]
      /\ UNCHANGED <<next, prev, free, locked, ask, arg, p, prevp>>
      /\ x = p[c] /\ tail = x + size[x] - arg[c] /\ blk.at = tail /\ blk.len = arg[c] /\ blk.ask = ask[c]
      /\ (tail \in Units /\ arg[c] \in Units => blk \in [at : Units, len : Units, ask : Asks])
  BY DEF TakeTail, BigEnough, TailAt, Got, locals, KAllocInv, KAllocTypeOK
<1> HIDE DEF x, tail, blk
<1>3. x \in Nodes /\ arg[c] >= 1 /\ arg[c] \in Nat /\ freep # NULL /\ HeapInv
  BY <1>1, <1>2, OnTheList DEF KAllocInv, CallerInv, AllocPcs, KAllocTypeOK
<1>4. x \in free
  BY <1>2, <1>3 DEF HeapInv, Nodes
<1>5. x \in Units /\ x \in Starts /\ size[x] \in Units
  BY <1>3, <1>4, FreeIsFree
<1>6. arg[c] \in Nat \ {0} /\ arg[c] < size[x] /\ arg[c] \in Units
  BY <1>2, <1>3, <1>5, ArenaAssumption DEF Units
<1>7. tail \in Units \ Starts /\ size' \in [Cells -> 0..NUnits] /\ Tiling(Starts \cup {tail}, size')
  <2>1. Tiling(Starts, size) /\ size \in [Cells -> 0..NUnits]
    BY <1>3 DEF HeapInv, KAllocInv, KAllocTypeOK
  <2>2. tail = x + size[x] - arg[c] /\ size' = [size EXCEPT ![x] = @ - arg[c], ![x + size[x] - arg[c]] = arg[c]]
    BY <1>2
  <2> QED BY <1>5, <1>6, <2>1, <2>2, SplitBlock
<1>8. size'[x] = size[x] - arg[c] /\ size'[tail] = arg[c]
      /\ \A u \in Cells : u # x /\ u # tail => size'[u] = size[u]
  BY <1>2, <1>5, <1>7, UnitsAreCells DEF KAllocInv, KAllocTypeOK
<1>9. tail \notin free /\ tail # base /\ \A d \in Callers : ~Holds(d, tail)
  BY <1>7, UnitsAreCells DEF Starts
<1>10. Linked(free', next', prev', size')
  <2>1. Linked(free, next, prev, size)
    BY <1>3 DEF HeapInv
  <2>2. ASSUME NEW y \in free \cup {base}, next[y] # base PROVE y + size'[y] < next[y]
    <3>1. y + size[y] < next[y] /\ y \in Nat /\ next[y] \in Nat /\ size[y] \in Nat /\ y \in Cells
      BY <1>1, <2>1, <2>2, OnTheList, CellsAreNats DEF Linked, Nodes
    <3>2. CASE y = x
      BY <1>6, <1>8, <3>1, <3>2
    <3>3. CASE y # x
      BY <1>8, <1>9, <3>1, <3>3
    <3> QED BY <3>2, <3>3
  <2>3. Linked(free, next, prev, size')
    BY <2>1, <2>2, Resized
  <2> QED BY <1>2, <2>3
<1>11. freep' \in free' \cup {base}
  BY <1>1, <1>2, <1>3, OnTheList DEF Nodes
<1>12. ~Freeing(c) /\ \A d \in Callers : Freeing(d)' = Freeing(d)
  BY <1>2 DEF KAllocInv, KAllocTypeOK, Freeing
<1>13. \A d \in Callers : \A b \in owned[d] : size'[b.at] = size[b.at]
  <2> SUFFICES ASSUME NEW d \in Callers, NEW b \in owned[d] PROVE size'[b.at] = size[b.at]
    OBVIOUS
  <2>1. Holds(d, b.at) /\ b.at \in Units
    BY DEF Holds, KAllocInv, KAllocTypeOK
  <2>2. b.at # x /\ b.at # tail
    BY <1>3, <1>4, <1>9, <2>1, FreeIsFree
  <2> QED BY <1>8, <2>1, <2>2, UnitsAreCells
<1>14. /\ owned' \in [Callers -> SUBSET [at : Units, len : Units, ask : Asks]]
       /\ \A d \in Callers, s \in Units : Holds(d, s)' <=> Holds(d, s) \/ (d = c /\ s = tail)
       /\ Distinct'
  <2>1. blk \in [at : Units, len : Units, ask : Asks] /\ free' \subseteq free /\ tail \notin free'
        /\ blk.at = tail /\ size'[tail] = blk.len
    BY <1>2, <1>6, <1>7, <1>8, <1>9
  <2>2. \A d \in Callers : ~Holds(d, blk.at) /\ arg'[d] = arg[d] /\ Freeing(d)' = Freeing(d)
    BY <1>2, <1>9, <1>12
  <2>3. owned' = [owned EXCEPT ![c] = @ \cup {blk}]
    BY <1>2
  <2>4. \A d \in Callers, s \in Units : Holds(d, s)' <=> Holds(d, s) \/ (d = c /\ s = blk.at)
    BY <1>3, <1>12, <1>13, <2>1, <2>2, <2>3, Granted
  <2>5. owned' \in [Callers -> SUBSET [at : Units, len : Units, ask : Asks]] /\ Distinct'
    BY <1>3, <1>12, <1>13, <2>1, <2>2, <2>3, Granted
  <2> QED BY <2>1, <2>4, <2>5
<1>15. Starts' = Starts \cup {tail}
  BY <1>2, <1>7, <1>14 DEF Starts
<1>16. size'[base] = 0
  BY <1>3, <1>5, <1>8, <1>9, UnitsAreCells DEF HeapInv
<1>17. HeapInv'
  BY <1>7, <1>10, <1>11, <1>14, <1>15, <1>16 DEF HeapInv, Nodes
<1>18. next' \in Links /\ prev' \in Links /\ free' \subseteq Units
  BY <1>2 DEF KAllocInv, KAllocTypeOK, Links
<1>19. KAllocInv'
  BY <1>1, <1>2, <1>7, <1>11, <1>14, <1>17, <1>18, ChangesHeap
<1>20. GrantsBlock(c)
  <2>1. blk \in [at : Units, len : Units, ask : Asks]
    BY <1>2, <1>6, <1>7
  <2> QED BY <1>2, <1>9, <2>1 DEF GrantsBlock
<1> QED BY <1>19, <1>20

LEMMA PlaceOnInv == ASSUME KAllocInv, NEW c \in Callers, PlaceOn(c) PROVE KAllocInv'
<1> USE DEF PlaceOn
<1>1. InCall(c)
  BY DEF InCall
<1>2. next[p[c]] \in Nodes /\ next[p[c]] \in Cells
  BY <1>1, OnTheList DEF KAllocInv, CallerInv
<1>3. /\ kaPc \in [Callers -> CallPcs] /\ kaPc' = [kaPc EXCEPT ![c] = kaPc[c]] /\ kaPc[c] \in CallPcs
      /\ p' \in [Callers -> Cells] /\ prevp' \in [Callers -> Cells] /\ p'[c] = next[p[c]]
  BY <1>2 DEF KAllocInv, KAllocTypeOK, CallPcs
<1>4. CallerInv(c)'
  BY <1>2, <1>3 DEF CallerInv, Walking, AllocPcs, heap, Nodes
<1>5. InCall(c)' /\ Freeing(c)' = Freeing(c) /\ UNCHANGED <<heap, locked, owned, ask, arg>>
  BY <1>1, <1>3 DEF InCall, Freeing
<1> QED BY <1>1, <1>3, <1>4, <1>5, WithinCall

\* Where test_free() stops, the block fits between q and its successor.
LEMMA Placed ==
  ASSUME KAllocInv, NEW c \in Callers, kaPc[c] = "place", NEW q, q = p[c], NEW bp, bp = arg[c], Behind(q, bp)
  PROVE  /\ bp \in Units \ free /\ bp \in Starts /\ size[bp] \in Units
         /\ q \in Nodes /\ q < bp /\ q + size[q] <= bp
         /\ next[q] # base => next[q] \in free /\ bp + size[bp] <= next[q]
         /\ next[q] = base => ~MeetsUpper(q, bp)
         /\ MeetsLower(q, bp) => q \in free
<1>1. InCall(c) /\ Freeing(c) /\ Holds(c, bp)
  BY DEF InCall, Freeing, Holds
<1>2. freep # NULL /\ q \in Nodes /\ next[q] \in Nodes /\ q \in Cells /\ next[q] \in Cells /\ size[q] \in Nat
  BY <1>1, OnTheList, CellsAreNats DEF KAllocInv, CallerInv
<1>3. Tiling(Starts, size) /\ size[base] = 0 /\ Distinct
  BY <1>2 DEF KAllocInv, HeapInv
<1>4. bp \in Units \ free
  BY <1>1, <1>3 DEF Distinct
<1>5. bp \in Starts /\ size[bp] \in Units
  BY <1>1, <1>3, <1>4 DEF Starts, Tiling
<1>6. /\ bp \in Nat /\ bp >= 1 /\ size[bp] \in Nat /\ size[bp] >= 1 /\ q \in Nat /\ next[q] \in Nat
      /\ bp # q /\ bp # next[q]
  BY <1>2, <1>4, <1>5, UnitsAreCells, CellsAreNats, ArenaAssumption DEF Units, Nodes
<1>7. next[q] # base => q < next[q]
  BY <1>1, <1>2, OnTheList
<1>8. q < bp /\ (next[q] # base => bp < next[q])
  BY <1>6, <1>7 DEF Behind, base
<1>9. \A x \in free : x \in Starts
  BY DEF Starts, KAllocInv, KAllocTypeOK
<1>10. next[q] # base => next[q] \in free /\ bp + size[bp] <= next[q]
  <2> SUFFICES ASSUME next[q] # base PROVE next[q] \in free /\ bp + size[bp] <= next[q]
    OBVIOUS
  <2>1. next[q] \in free /\ next[q] \in Starts
    BY <1>2, <1>9 DEF Nodes
  <2> QED BY <1>3, <1>5, <1>8, <2>1 DEF Tiling
<1>11. q + size[q] <= bp
  <2>1. CASE q = base
    BY <1>3, <1>6, <2>1 DEF base
  <2>2. CASE q # base
    <3>1. q \in Starts
      BY <1>2, <1>9, <2>2 DEF Nodes
    <3> QED BY <1>3, <1>5, <1>8, <3>1 DEF Tiling
  <2> QED BY <2>1, <2>2
<1>12. next[q] = base => ~MeetsUpper(q, bp)
  BY <1>6 DEF MeetsUpper, base
<1>13. MeetsLower(q, bp) => q \in free
  BY <1>2, <1>3, <1>6 DEF MeetsLower, base, Nodes
<1> QED BY <1>2, <1>4, <1>5, <1>8, <1>10, <1>11, <1>12, <1>13

\* test_free() has given the block away, whatever became of it in the list.
LEMMA Released ==
  ASSUME KAllocInv, NEW c \in Callers, kaPc[c] = "place", NEW bp, bp = arg[c],
         kaPc' = [kaPc EXCEPT ![c] = "check_free"], UNCHANGED <<arg, owned>>,
         free' \subseteq free \cup {bp},
         \A u \in Starts : u \notin free /\ u # bp => size'[u] = size[u]
  PROVE  /\ Distinct'
         /\ \A s \in Units : s \in Starts' <=> s \in free' \/ (s \in Starts /\ s \notin free /\ s # bp)
<1>1. freep # NULL /\ Distinct
  BY DEF KAllocInv, HeapInv, FreshInv
<1>2. /\ Freeing(c) /\ ~Freeing(c)' /\ \A d \in Callers \ {c} : Freeing(d)' = Freeing(d)
      /\ \A d \in Callers : Freeing(d)' => Freeing(d)
  BY DEF KAllocInv, KAllocTypeOK, Freeing
<1>3. bp \in Units /\ Holds(c, bp)
  BY <1>1, <1>2 DEF Distinct, Holds
<1>4. ASSUME NEW d \in Callers, NEW s \in Units PROVE Holds(d, s)' <=> Holds(d, s) /\ s # bp
  <2>1. s = bp => ~Holds(d, s)'
    <3>1. d # c => ~Holds(d, bp)
      BY <1>1, <1>3 DEF Distinct
    <3>2. \A b \in owned[c] : b.at # bp
      BY <1>1, <1>2 DEF Distinct
    <3> QED BY <1>2, <3>1, <3>2 DEF Holds
  <2>2. s # bp => (Holds(d, s)' <=> Holds(d, s))
    BY <1>2 DEF Holds
  <2> QED BY <2>1, <2>2
<1>5. \A d \in Callers : \A b \in owned'[d] : size'[b.at] = b.len
  <2> SUFFICES ASSUME NEW d \in Callers, NEW b \in owned[d] PROVE size'[b.at] = b.len
    OBVIOUS
  <2>1. b.at \in Units /\ Holds(d, b.at) /\ b.at # bp
    <3>1. b.at \in Units /\ Holds(d, b.at)
      BY DEF KAllocInv, KAllocTypeOK, Holds
    <3>2. Holds(d, b.at)'
      BY DEF Holds
    <3> QED BY <1>4, <3>1, <3>2
  <2>2. b.at \in Starts /\ b.at \notin free /\ size[b.at] = b.len
    BY <1>1, <2>1 DEF Starts, Distinct
  <2> QED BY <2>1, <2>2
<1>6. \A d \in Callers, s \in Units : Holds(d, s)' => s \notin free'
  BY <1>1, <1>4 DEF Distinct
<1>7. \A d, e \in Callers, s \in Units : Holds(d, s)' /\ Holds(e, s)' => d = e
  BY <1>1, <1>4 DEF Distinct
<1>8. Distinct'
  BY <1>1, <1>2, <1>5, <1>6, <1>7 DEF Distinct
<1>9. ASSUME NEW s \in Units
      PROVE  s \in Starts' <=> s \in free' \/ (s \in Starts /\ s \notin free /\ s # bp)
  <2>1. s \in Starts' <=> s \in free' \/ \E d \in Callers : Holds(d, s)'
    BY DEF Starts
  <2>2. s \in Starts <=> s \in free \/ \E d \in Callers : Holds(d, s)
    BY DEF Starts
  <2>3. \A d \in Callers : Holds(d, s) => s \notin free
    BY <1>1 DEF Distinct
  <2> QED BY <1>4, <2>1, <2>2, <2>3
<1> QED BY <1>8, <1>9

\* What has to hold after test_free() has put a block into the list.
InOrder ==
  /\ next \in Links /\ prev \in Links /\ size \in [Cells -> 0..NUnits] /\ free \subseteq Units
  /\ freep \in free \cup {base} /\ HeapInv

PutsBack(c) ==
  /\ kaPc[c] = "place" /\ Behind(p[c], arg[c])
  /\ freep' = p[c] /\ kaPc' = [kaPc EXCEPT ![c] = "check_free"]
  /\ UNCHANGED <<locked, ask, arg, p, prevp, owned>>

LEMMA PlaceFacts ==
  ASSUME KAllocInv, NEW c \in Callers, PutsBack(c)
  PROVE  /\ next \in Links /\ prev \in Links /\ size \in [Cells -> 0..NUnits] /\ free \subseteq Units
         /\ Linked(free, next, prev, size) /\ Tiling(Starts, size) /\ size[base] = 0
         /\ Starts \subseteq Units /\ free \subseteq Starts
         /\ arg[c] \in Units \ free /\ arg[c] \in Starts /\ size[arg[c]] \in Units
         /\ p[c] \in free \cup {base} /\ p[c] < arg[c] /\ p[c] + size[p[c]] <= arg[c]
         /\ next[p[c]] # base => next[p[c]] \in free /\ arg[c] + size[arg[c]] <= next[p[c]]
         /\ next[p[c]] = base => ~MeetsUpper(p[c], arg[c])
         /\ MeetsLower(p[c], arg[c]) => p[c] \in free
<1>1. InCall(c)
  BY DEF PutsBack, InCall
<1>2. freep # NULL /\ Linked(free, next, prev, size)
  BY <1>1, OnTheList
<1>3. Tiling(Starts, size) /\ size[base] = 0 /\ Starts \subseteq Units /\ free \subseteq Starts
  BY <1>2 DEF KAllocInv, KAllocTypeOK, HeapInv, Tiling, Starts
<1> QED BY <1>2, <1>3, Placed DEF PutsBack, KAllocInv, KAllocTypeOK, Links, Nodes

LEMMA InsertKeepsOrder ==
  ASSUME KAllocInv, NEW c \in Callers, PutsBack(c), Insert(p[c], arg[c])
  PROVE  InOrder'
<1> DEFINE q == p[c]
           bp == arg[c]
<1>1. /\ next' = [next EXCEPT ![bp] = next[q], ![q] = bp] /\ prev' = [prev EXCEPT ![bp] = q, ![next[q]] = bp]
      /\ free' = free \cup {bp} /\ size' = size /\ freep' = q
      /\ q + size[q] # bp /\ bp + size[bp] # next[q]
  BY DEF Insert, MeetsUpper, MeetsLower, PutsBack
<1>2. /\ next \in Links /\ prev \in Links /\ size \in [Cells -> 0..NUnits] /\ free \subseteq Units
      /\ Linked(free, next, prev, size) /\ Tiling(Starts, size) /\ size[base] = 0
      /\ Starts \subseteq Units /\ free \subseteq Starts
      /\ bp \in Units \ free /\ bp \in Starts /\ size[bp] \in Units
      /\ q \in free \cup {base} /\ q + size[q] <= bp
      /\ next[q] # base => next[q] \in free /\ bp + size[bp] <= next[q]
  BY PlaceFacts
<1>3. /\ Distinct'
      /\ \A s \in Units : s \in Starts' <=> s \in free' \/ (s \in Starts /\ s \notin free /\ s # bp)
  <2>1. \A u \in Starts : size'[u] = size[u]
    BY <1>1
  <2> QED BY <1>1, <2>1, Released DEF PutsBack
<1> HIDE DEF q, bp
<1>4. q + size[q] < bp /\ (next[q] = base \/ bp + size[bp] < next[q])
  <2>1. q \in Nat /\ size[q] \in Nat /\ bp \in Nat /\ size[bp] \in Nat
    BY <1>2, UnitsAreCells, CellsAreNats
  <2>2. next[q] # base => next[q] \in Nat
    BY <1>2, UnitsAreCells, CellsAreNats
  <2> QED BY <1>1, <1>2, <2>1, <2>2
<1>5. next' \in Links /\ prev' \in Links /\ Linked(free \cup {bp}, next', prev', size)
  BY <1>1, <1>2, <1>4, Link
<1>6. Starts' = Starts
  <2>1. Starts' \subseteq Units
    BY DEF Starts
  <2> QED BY <1>1, <1>2, <1>3, <2>1
<1>7. HeapInv'
  BY <1>1, <1>2, <1>3, <1>5, <1>6 DEF HeapInv, Nodes
<1> QED BY <1>1, <1>2, <1>5, <1>7 DEF InOrder

LEMMA JoinLowerKeepsOrder ==
  ASSUME KAllocInv, NEW c \in Callers, PutsBack(c), JoinLower(p[c], arg[c])
  PROVE  InOrder'
<1> DEFINE q == p[c]
           bp == arg[c]
<1>1. /\ size' = [size EXCEPT ![q] = @ + size[bp], ![bp] = 0] /\ UNCHANGED <<next, prev, free>> /\ freep' = q
      /\ q + size[q] = bp /\ bp + size[bp] # next[q]
  BY DEF JoinLower, MeetsUpper, MeetsLower, PutsBack
<1>2. /\ next \in Links /\ prev \in Links /\ size \in [Cells -> 0..NUnits] /\ free \subseteq Units
      /\ Linked(free, next, prev, size) /\ Tiling(Starts, size) /\ size[base] = 0
      /\ Starts \subseteq Units /\ free \subseteq Starts
      /\ bp \in Units \ free /\ bp \in Starts /\ size[bp] \in Units
      /\ q \in free
      /\ next[q] # base => next[q] \in free /\ bp + size[bp] <= next[q]
  BY <1>1, PlaceFacts DEF MeetsLower
<1>3. \A u \in Cells : u # q /\ u # bp => size'[u] = size[u]
  BY <1>1, <1>2
<1>4. /\ Distinct'
      /\ \A s \in Units : s \in Starts' <=> s \in free' \/ (s \in Starts /\ s \notin free /\ s # bp)
  <2>1. \A u \in Starts : u \notin free /\ u # bp => size'[u] = size[u]
    BY <1>2, <1>3, UnitsAreCells
  <2> QED BY <1>1, <2>1, Released DEF PutsBack
<1> HIDE DEF q, bp
<1>5. size' \in [Cells -> 0..NUnits] /\ Tiling(Starts \ {bp}, size')
  BY <1>1, <1>2, JoinBlocks
<1>6. q \in Cells /\ bp \in Cells /\ q # bp /\ q # base /\ bp # base
  BY <1>2, UnitsAreCells
<1>7. Linked(free, next, prev, size')
  <2>1. ASSUME NEW y \in free \cup {base}, next[y] # base PROVE y + size'[y] < next[y]
    <3>1. CASE y = q
      <4>1. size'[q] = size[q] + size[bp]
        BY <1>1, <1>2, <1>6
      <4>2. next[q] \in Nat /\ q \in Nat /\ size[q] \in Nat /\ bp \in Nat /\ size[bp] \in Nat
        BY <1>2, <1>6, <2>1, <3>1, UnitsAreCells, CellsAreNats
      <4> QED BY <1>1, <1>2, <2>1, <3>1, <4>1, <4>2
    <3>2. CASE y # q
      <4>1. y \in Cells /\ y # bp /\ y + size[y] < next[y]
        BY <1>2, <1>6, <2>1, UnitsAreCells DEF Linked
      <4> QED BY <1>3, <3>2, <4>1
    <3> QED BY <3>1, <3>2
  <2> QED BY <1>2, <2>1, Resized
<1>8. Starts' = Starts \ {bp}
  <2>1. Starts' \subseteq Units
    BY DEF Starts
  <2> QED BY <1>1, <1>2, <1>4, <2>1
<1>9. size'[base] = 0
  BY <1>2, <1>3, <1>6, UnitsAreCells
<1>10. HeapInv'
  BY <1>1, <1>2, <1>4, <1>5, <1>7, <1>8, <1>9 DEF HeapInv, Nodes
<1> QED BY <1>1, <1>2, <1>5, <1>10 DEF InOrder

LEMMA JoinUpperKeepsOrder ==
  ASSUME KAllocInv, NEW c \in Callers, PutsBack(c), JoinUpper(p[c], arg[c])
  PROVE  InOrder'
<1> DEFINE q == p[c]
           bp == arg[c]
           up == next[q]
<1>1. /\ size' = [size EXCEPT ![bp] = @ + size[up], ![up] = 0]
      /\ next' = [next EXCEPT ![bp] = next[up], ![q] = bp, ![up] = NULL]
      /\ prev' = [prev EXCEPT ![bp] = prev[up], ![next[up]] = bp, ![up] = NULL]
      /\ free' = (free \ {up}) \cup {bp} /\ freep' = q
      /\ q + size[q] # bp /\ bp + size[bp] = up /\ up = next[q]
  BY DEF JoinUpper, MeetsUpper, MeetsLower, PutsBack
<1>2. /\ next \in Links /\ prev \in Links /\ size \in [Cells -> 0..NUnits] /\ free \subseteq Units
      /\ Linked(free, next, prev, size) /\ Tiling(Starts, size) /\ size[base] = 0
      /\ Starts \subseteq Units /\ free \subseteq Starts
      /\ bp \in Units \ free /\ bp \in Starts /\ size[bp] \in Units
      /\ q \in free \cup {base} /\ q < bp /\ q + size[q] <= bp /\ up \in free
  BY <1>1, PlaceFacts DEF MeetsUpper
<1>3. \A u \in Cells : u # bp /\ u # up => size'[u] = size[u]
  BY <1>1, <1>2
<1>4. /\ Distinct'
      /\ \A s \in Units : s \in Starts' <=> s \in free' \/ (s \in Starts /\ s \notin free /\ s # bp)
  <2>1. \A u \in Starts : u \notin free /\ u # bp => size'[u] = size[u]
    BY <1>2, <1>3, UnitsAreCells
  <2>2. free' \subseteq free \cup {bp}
    BY <1>1
  <2> QED BY <1>1, <2>1, <2>2, Released DEF PutsBack
<1> HIDE DEF q, bp, up
<1>5. size' \in [Cells -> 0..NUnits] /\ Tiling(Starts \ {up}, size')
  BY <1>1, <1>2, JoinBlocks
<1>6. /\ q \in Cells /\ bp \in Cells /\ up \in Cells /\ bp # base /\ up # base
      /\ bp # up /\ bp # q /\ prev[up] = q /\ up # q
      /\ next[up] \in free \cup {base} /\ next[up] # up /\ next[up] # bp
  <2>1. q \in Cells /\ bp \in Cells /\ up \in Cells /\ bp # base /\ up # base /\ bp # up
    BY <1>2, UnitsAreCells
  <2>2. prev[up] = q /\ next[up] \in free \cup {base} /\ prev[next[up]] = up
    BY <1>1, <1>2 DEF Linked
  <2>3. bp # q /\ up # q
    BY <1>1, <1>2, <2>1, Ascending
  <2> QED BY <1>2, <2>1, <2>2, <2>3
\* As if the upper one had left the list, and then the joined one had come.
<1> DEFINE nx == [next EXCEPT ![prev[up]] = next[up], ![up] = NULL]
           pv == [prev EXCEPT ![next[up]] = prev[up], ![up] = NULL]
<1>7. nx \in Links /\ pv \in Links /\ Linked(free \ {up}, nx, pv, size)
  BY <1>2, Unlink
<1>8. nx[q] = next[up]
  BY <1>2, <1>6 DEF Links
<1>9. next' = [nx EXCEPT ![bp] = nx[q], ![q] = bp]
  <2>1. next' \in Links /\ [nx EXCEPT ![bp] = nx[q], ![q] = bp] \in Links
    BY <1>1, <1>2, <1>6, <1>7, <1>8, UnitsAreCells DEF Links
  <2> QED BY <1>1, <1>2, <1>6, <1>8, <2>1 DEF Links
<1>10. prev' = [pv EXCEPT ![bp] = q, ![nx[q]] = bp]
  <2>1. prev' \in Links /\ [pv EXCEPT ![bp] = q, ![nx[q]] = bp] \in Links
    BY <1>1, <1>2, <1>6, <1>7, <1>8, UnitsAreCells DEF Links
  <2> QED BY <1>1, <1>2, <1>6, <1>8, <2>1 DEF Links
<1> HIDE DEF nx, pv
<1>11. Linked(free \ {up}, nx, pv, size')
  <2>1. ASSUME NEW y \in (free \ {up}) \cup {base}, nx[y] # base PROVE y + size'[y] < nx[y]
    <3>1. y \in Cells /\ y # up /\ y # bp /\ y + size[y] < nx[y]
      BY <1>2, <1>6, <1>7, <2>1, UnitsAreCells DEF Linked
    <3> QED BY <1>3, <3>1
  <2> QED BY <1>7, <2>1, Resized
<1>12. q + size'[q] < bp /\ (nx[q] = base \/ bp + size'[bp] < nx[q])
  <2>1. size'[q] = size[q] /\ size'[bp] = size[bp] + size[up]
    BY <1>1, <1>2, <1>3, <1>6
  <2>2. next[up] # base => up + size[up] < next[up]
    BY <1>2 DEF Linked
  <2>3. /\ q \in Nat /\ bp \in Nat /\ size[q] \in Nat /\ size[bp] \in Nat /\ up \in Nat /\ size[up] \in Nat
        /\ next[up] \in Nat
    BY <1>2, <1>6, UnitsAreCells, CellsAreNats
  <2> QED BY <1>1, <1>2, <1>8, <2>1, <2>2, <2>3
<1>13. next' \in Links /\ prev' \in Links /\ Linked((free \ {up}) \cup {bp}, next', prev', size')
  <2>1. q \in (free \ {up}) \cup {base} /\ bp \in Units \ (free \ {up})
    BY <1>2, <1>6
  <2> QED BY <1>5, <1>7, <1>9, <1>10, <1>11, <1>12, <2>1, Link
<1>14. Starts' = Starts \ {up}
  <2>1. Starts' \subseteq Units
    BY DEF Starts
  <2> QED BY <1>1, <1>2, <1>4, <1>6, <2>1
<1>15. size'[base] = 0
  BY <1>2, <1>3, <1>6, UnitsAreCells
<1>16. freep' \in free' \cup {base} /\ free' \subseteq Units
  BY <1>1, <1>2, <1>6
<1>17. HeapInv'
  BY <1>1, <1>4, <1>5, <1>13, <1>14, <1>15, <1>16 DEF HeapInv, Nodes
<1> QED BY <1>5, <1>13, <1>16, <1>17 DEF InOrder

LEMMA JoinBothKeepsOrder ==
  ASSUME KAllocInv, NEW c \in Callers, PutsBack(c), JoinBoth(p[c], arg[c])
  PROVE  InOrder'
<1> DEFINE q == p[c]
           bp == arg[c]
           up == next[q]
<1>1. /\ size' = [size EXCEPT ![q] = @ + size[bp] + size[up], ![bp] = 0, ![up] = 0]
      /\ next' = [next EXCEPT ![q] = next[up], ![up] = NULL]
      /\ prev' = [prev EXCEPT ![next[up]] = q, ![up] = NULL]
      /\ free' = free \ {up} /\ freep' = q
      /\ q + size[q] = bp /\ bp + size[bp] = up /\ up = next[q]
  BY DEF JoinBoth, MeetsUpper, MeetsLower, PutsBack
<1>2. /\ next \in Links /\ prev \in Links /\ size \in [Cells -> 0..NUnits] /\ free \subseteq Units
      /\ Linked(free, next, prev, size) /\ Tiling(Starts, size) /\ size[base] = 0
      /\ Starts \subseteq Units /\ free \subseteq Starts
      /\ bp \in Units \ free /\ bp \in Starts /\ size[bp] \in Units
      /\ q \in free /\ up \in free
  BY <1>1, PlaceFacts DEF MeetsUpper, MeetsLower
<1>3. \A u \in Cells : u # q /\ u # bp /\ u # up => size'[u] = size[u]
  BY <1>1, <1>2
<1>4. /\ Distinct'
      /\ \A s \in Units : s \in Starts' <=> s \in free' \/ (s \in Starts /\ s \notin free /\ s # bp)
  <2>1. \A u \in Starts : u \notin free /\ u # bp => size'[u] = size[u]
    BY <1>2, <1>3, UnitsAreCells
  <2>2. free' \subseteq free \cup {bp}
    BY <1>1
  <2> QED BY <1>1, <2>1, <2>2, Released DEF PutsBack
<1> HIDE DEF q, bp, up
<1>5. /\ q \in Cells /\ bp \in Cells /\ up \in Cells /\ q # base /\ bp # base /\ up # base
      /\ bp # up /\ bp # q /\ prev[up] = q /\ up # q
      /\ next[up] \in free \cup {base} /\ next[up] # up
  <2>1. q \in Cells /\ bp \in Cells /\ up \in Cells /\ q # base /\ bp # base /\ up # base /\ bp # up /\ bp # q
    BY <1>2, UnitsAreCells
  <2>2. prev[up] = q /\ next[up] \in free \cup {base} /\ prev[next[up]] = up
    BY <1>1, <1>2 DEF Linked
  <2>3. up # q
    BY <1>1, <1>2, <2>1, Ascending
  <2> QED BY <2>1, <2>2, <2>3
\* The upper one joins the block, and then both join the lower one.
<1> DEFINE z == [size EXCEPT ![bp] = @ + size[up], ![up] = 0]
<1>6. z \in [Cells -> 0..NUnits] /\ Tiling(Starts \ {up}, z)
  <2>1. up \in Starts /\ bp + size[bp] = up
    BY <1>1, <1>2
  <2> QED BY <1>2, <2>1, JoinBlocks
<1>7. z[q] = size[q] /\ z[bp] = size[bp] + size[up]
  BY <1>2, <1>5
<1>8. size' = [z EXCEPT ![q] = @ + z[bp], ![bp] = 0]
  <2>1. size[q] \in Nat /\ size[bp] \in Nat /\ size[up] \in Nat
    BY <1>2, <1>5, CellsAreNats
  <2>2. size[q] + size[bp] + size[up] = size[q] + (size[bp] + size[up])
    BY <2>1
  <2> QED BY <1>1, <1>2, <1>5, <1>7, <2>2
<1> HIDE DEF z
<1>9. size' \in [Cells -> 0..NUnits] /\ Tiling((Starts \ {up}) \ {bp}, size')
  <2>1. q \in Starts \ {up} /\ bp \in Starts \ {up} /\ q + z[q] = bp
    BY <1>1, <1>2, <1>5, <1>7
  <2> QED BY <1>6, <1>8, <2>1, JoinBlocks
<1>10. next' \in Links /\ prev' \in Links /\ Linked(free \ {up}, next', prev', size)
  <2>1. /\ next' = [next EXCEPT ![prev[up]] = next[up], ![up] = NULL]
        /\ prev' = [prev EXCEPT ![next[up]] = prev[up], ![up] = NULL]
    BY <1>1, <1>5
  <2> QED BY <1>2, <2>1, Unlink
<1>11. Linked(free \ {up}, next', prev', size')
  <2>1. ASSUME NEW y \in (free \ {up}) \cup {base}, next'[y] # base PROVE y + size'[y] < next'[y]
    <3>1. CASE y = q
      <4>1. size'[q] = size[q] + size[bp] + size[up] /\ next'[q] = next[up]
        BY <1>1, <1>2, <1>5 DEF Links
      <4>2. up + size[up] < next[up]
        BY <1>2, <2>1, <3>1, <4>1 DEF Linked
      <4>3. next[up] \in Nat /\ q \in Nat /\ size[q] \in Nat /\ bp \in Nat /\ size[bp] \in Nat /\ size[up] \in Nat
        BY <1>2, <1>5, UnitsAreCells, CellsAreNats
      <4> QED BY <1>1, <3>1, <4>1, <4>2, <4>3
    <3>2. CASE y # q
      <4>1. y \in Cells /\ y # bp /\ y # up /\ y + size[y] < next'[y]
        BY <1>2, <1>5, <1>10, <2>1, UnitsAreCells DEF Linked
      <4> QED BY <1>3, <3>2, <4>1
    <3> QED BY <3>1, <3>2
  <2> QED BY <1>10, <2>1, Resized
<1>12. Starts' = (Starts \ {up}) \ {bp}
  <2>1. Starts' \subseteq Units
    BY DEF Starts
  <2> QED BY <1>1, <1>2, <1>4, <1>5, <2>1
<1>13. size'[base] = 0
  BY <1>2, <1>3, <1>5, UnitsAreCells
<1>14. freep' \in free' \cup {base} /\ free' \subseteq Units
  BY <1>1, <1>2, <1>5
<1>15. HeapInv'
  BY <1>1, <1>4, <1>9, <1>11, <1>12, <1>13, <1>14 DEF HeapInv, Nodes
<1> QED BY <1>9, <1>10, <1>14, <1>15 DEF InOrder

LEMMA PutBackInv == ASSUME KAllocInv, NEW c \in Callers, PutBack(c) PROVE KAllocInv'
<1>1. PutsBack(c) /\ InCall(c)
  BY DEF PutBack, PutsBack, InCall, locals
<1>2. InOrder'
  BY <1>1, InsertKeepsOrder, JoinLowerKeepsOrder, JoinUpperKeepsOrder, JoinBothKeepsOrder DEF PutBack
<1>3. owned' \in [Callers -> SUBSET [at : Units, len : Units, ask : Asks]]
  BY <1>1 DEF PutsBack, KAllocInv, KAllocTypeOK
<1> QED BY <1>1, <1>2, <1>3, ChangesHeap DEF PutsBack, InOrder, Links

LEMMA StutterInv == ASSUME KAllocInv, UNCHANGED kaVars PROVE KAllocInv'
<1> USE DEF kaVars, heap, locals
<1>1. KAllocTypeOK' /\ MutualExclusion' /\ FreshInv'
  BY DEF KAllocInv, KAllocTypeOK, MutualExclusion, InCall, FreshInv
<1>2. HeapInv'
  BY HeapKept DEF KAllocInv, Freeing
<1>3. \A c \in Callers : CallerInv(c)'
  BY DEF KAllocInv, CallerInv, Walking, AllocPcs, RoomFor, Passed, Nodes
<1> QED BY <1>1, <1>2, <1>3 DEF KAllocInv

LEMMA NextInv == KAllocInv /\ [KAllocNext]_kaVars => KAllocInv'
<1> SUFFICES ASSUME KAllocInv, [KAllocNext]_kaVars PROVE KAllocInv'
  OBVIOUS
<1>1. CASE UNCHANGED kaVars
  BY <1>1, StutterInv
<1>2. ASSUME NEW c \in Callers, \E n \in Requests : CallAlloc(c, n) PROVE KAllocInv'
  BY <1>2, CallAllocInv
<1>3. ASSUME NEW c \in Callers, \E b \in owned[c] : CallFree(c, b) PROVE KAllocInv'
  BY <1>3, CallFreeInv
<1>4. ASSUME NEW c \in Callers, Step(c) PROVE KAllocInv'
  <2>1. CASE LockAlloc(c) \/ LockFree(c) \/ Return(c)
    BY <2>1, LockAllocInv, LockFreeInv, ReturnInv
  <2>2. CASE Check(c)
    BY <2>2, StartCheckInv, WalkOnInv, WalkEndsInv, NoPanic DEF Check
  <2>3. CASE Alloc(c)
    BY <2>3, TakeExactInv, TakeTailInv, SearchOnInv, ReturnNullInv DEF Alloc
  <2>4. CASE Free(c)
    BY <2>4, PlaceOnInv, PutBackInv DEF Free
  <2> QED BY <1>4, <2>1, <2>2, <2>3, <2>4 DEF Step
<1> QED BY <1>1, <1>2, <1>3, <1>4 DEF KAllocNext

LEMMA KAllocInvariant == KAllocSpec => []KAllocInv
BY KAllocInitInv, NextInv, PTL DEF KAllocSpec

-----------------------------------------------------------------------------
(* What follows.                                                           *)

\* A free block that meets u is the one block that has u, and so is any other.
LEMMA OneBlock ==
  ASSUME NEW S, NEW sz \in [Cells -> 0..NUnits], Tiling(S, sz), NEW s \in S, NEW t \in S, NEW u \in Units,
         s <= u, u < s + sz[s], t <= u, u < t + sz[t]
  PROVE  s = t
<1>1. s \in Nat /\ t \in Nat /\ u \in Nat /\ sz[s] \in Nat /\ sz[t] \in Nat
  BY UnitsAreCells, CellsAreNats DEF Tiling
<1>2. (s < t => s + sz[s] <= t) /\ (t < s => t + sz[t] <= s)
  BY DEF Tiling
<1> QED BY <1>1, <1>2

LEMMA InvListInOrder == KAllocInv => ListInOrder
<1> SUFFICES ASSUME KAllocInv, freep # NULL PROVE ListInOrder
  BY DEF ListInOrder
<1>1. freep \in Nodes /\ Linked(free, next, prev, size) /\ Tiling(Starts, size)
  BY DEF KAllocInv, HeapInv
<1>2. \A x \in free : size[x] \in Units /\ x + size[x] - 1 \in Units
  <2>1. free \subseteq Starts
    BY DEF Starts, KAllocInv, KAllocTypeOK
  <2> QED BY <1>1, <2>1 DEF Tiling
<1>3. \A x \in Nodes : /\ next[x] \in Nodes /\ prev[next[x]] = x
                       /\ IF next[x] = base THEN \A y \in Nodes : y <= x
                          ELSE x + size[x] < next[x] /\ \A y \in Nodes : y <= x \/ y >= next[x]
  BY <1>1 DEF Linked, Nodes
<1> QED BY <1>1, <1>2, <1>3 DEF ListInOrder

LEMMA InvPartition == KAllocInv => Partition
<1> SUFFICES ASSUME KAllocInv, freep # NULL PROVE Partition
  BY DEF Partition
<1>1. Tiling(Starts, size) /\ Distinct /\ size \in [Cells -> 0..NUnits]
  BY DEF KAllocInv, HeapInv, KAllocTypeOK
<1>2. \A c \in Callers : \A b \in owned[c] : size[b.at] = b.len
  BY <1>1 DEF Distinct
<1>3. ASSUME NEW u \in Units PROVE \E k \in Claims(u) : Claims(u) = {k}
  <2>1. PICK s \in Starts : s <= u /\ u < s + size[s]
    BY <1>1 DEF Tiling
  <2>2. s \in Units /\ u \in Nat /\ \A t \in Starts : t \in Nat /\ size[t] \in Nat
    BY <1>1, UnitsAreCells, CellsAreNats DEF Tiling
  <2>3. \A t \in Starts : u \in FreeUnits(t) => t = s
    <3> SUFFICES ASSUME NEW t \in Starts, u \in FreeUnits(t) PROVE t = s
      OBVIOUS
    <3>1. t <= u /\ u < t + size[t]
      BY <2>2 DEF FreeUnits
    <3> QED BY <1>1, <2>1, <3>1, OneBlock
  <2>4. u \in FreeUnits(s)
    <3>1. s \in Nat /\ size[s] \in Nat
      BY <2>2
    <3> QED BY <2>1, <2>2, <3>1 DEF FreeUnits
  <2>5. \A x \in free : u \in FreeUnits(x) <=> x = s
    BY <2>3, <2>4 DEF Starts, KAllocInv, KAllocTypeOK
  <2>6. \A d \in Callers : Freeing(d) => (u \in FreeUnits(arg[d]) <=> arg[d] = s)
    <3>1. \A d \in Callers : Freeing(d) => arg[d] \in Starts
      BY <1>1 DEF Starts, Holds, Distinct
    <3> QED BY <2>3, <2>4, <3>1
  <2>7. \A d \in Callers : \A o \in owned[d] : u \in BlockUnits(o) <=> o.at = s
    <3> SUFFICES ASSUME NEW d \in Callers, NEW o \in owned[d] PROVE u \in BlockUnits(o) <=> o.at = s
      OBVIOUS
    <3>1. o.at \in Starts
      BY DEF Starts, Holds, KAllocInv, KAllocTypeOK
    <3>2. BlockUnits(o) = FreeUnits(o.at)
      BY <1>2 DEF BlockUnits, FreeUnits
    <3> QED BY <2>3, <2>4, <3>1, <3>2
  <2>8. Claims(u) = {<<"free", x>> : x \in {y \in free : y = s}}
                      \cup {<<"gives", c>> : c \in {d \in Callers : Freeing(d) /\ arg[d] = s}}
                      \cup UNION {{<<"owns", c, b>> : b \in {o \in owned[c] : o.at = s}} : c \in Callers}
    <3>1. {y \in free : u \in FreeUnits(y)} = {y \in free : y = s}
      BY <2>5
    <3>2. {d \in Callers : Freeing(d) /\ u \in FreeUnits(arg[d])} = {d \in Callers : Freeing(d) /\ arg[d] = s}
      BY <2>6
    <3>3. \A c \in Callers : {o \in owned[c] : u \in BlockUnits(o)} = {o \in owned[c] : o.at = s}
      BY <2>7
    <3>4. UNION {{<<"owns", c, b>> : b \in {o \in owned[c] : u \in BlockUnits(o)}} : c \in Callers}
            = UNION {{<<"owns", c, b>> : b \in {o \in owned[c] : o.at = s}} : c \in Callers}
      BY <3>3
    <3> QED BY <3>1, <3>2, <3>4 DEF Claims
  <2>9. CASE s \in free
    <3>1. \A c \in Callers : ~Holds(c, s)
      BY <1>1, <2>2, <2>9 DEF Distinct
    <3>2. {y \in free : y = s} = {s}
      BY <2>9
    <3>3. {d \in Callers : Freeing(d) /\ arg[d] = s} = {}
      BY <3>1 DEF Holds
    <3>4. \A c \in Callers : {o \in owned[c] : o.at = s} = {}
      BY <3>1 DEF Holds
    <3>5. Claims(u) = {<<"free", s>>}
      BY <2>8, <3>2, <3>3, <3>4
    <3> QED BY <3>5
  <2>10. CASE s \notin free
    <3>1. PICK c \in Callers : Holds(c, s)
      BY <2>10 DEF Starts
    <3>2. \A d \in Callers : Holds(d, s) => d = c
      BY <1>1, <2>2, <3>1 DEF Distinct
    <3>3. {y \in free : y = s} = {}
      BY <2>10
    <3>4. CASE Freeing(c) /\ arg[c] = s
      <4>1. {d \in Callers : Freeing(d) /\ arg[d] = s} = {c}
        BY <3>2, <3>4 DEF Holds
      <4>2. \A d \in Callers : {o \in owned[d] : o.at = s} = {}
        BY <1>1, <3>2, <3>4 DEF Holds, Distinct
      <4>3. Claims(u) = {<<"gives", c>>}
        BY <2>8, <3>3, <4>1, <4>2
      <4> QED BY <4>3
    <3>5. CASE ~(Freeing(c) /\ arg[c] = s)
      <4>1. PICK b \in owned[c] : b.at = s
        BY <3>1, <3>5 DEF Holds
      <4>2. {d \in Callers : Freeing(d) /\ arg[d] = s} = {}
        BY <3>2, <3>5 DEF Holds
      <4>3. \A d \in Callers \ {c} : {o \in owned[d] : o.at = s} = {}
        BY <3>2 DEF Holds
      <4>4. {o \in owned[c] : o.at = s} = {b}
        BY <1>1, <4>1 DEF Distinct
      <4>5. Claims(u) = {<<"owns", c, b>>}
        BY <2>8, <3>3, <4>2, <4>3, <4>4
      <4> QED BY <4>5
    <3> QED BY <3>4, <3>5
  <2> QED BY <2>9, <2>10
<1> QED BY <1>2, <1>3 DEF Partition

\* However many programs call the allocator and wherever they are switched, one
\* at a time is between spin_lock() and spin_unlock(), and the lock is held
\* exactly while one is.
THEOREM OneAtATime == KAllocSpec => []MutualExclusion
<1>1. KAllocInv => MutualExclusion
  BY DEF KAllocInv
<1> QED BY KAllocInvariant, <1>1, PTL

\* For every number of programs and every size of the arena: whoever is switched
\* in between, the free list stays in ascending order, linked both ways and
\* fully joined, every unit is in just one block, and check_list() finds nothing.
THEOREM AllocatorCorrect == KAllocSpec => []AllocatorSound
<1>1. KAllocInv => AllocatorSound
  BY InvListInOrder, InvPartition DEF AllocatorSound, NeverCorrupted, KAllocInv, CallerInv
<1> QED BY KAllocInvariant, <1>1, PTL

\* When the search has gone round, every free block is too small, and no two
\* of them touch: there is no room.
LEMMA NoRoomLeft ==
  ASSUME KAllocInv, NEW c \in Callers, ReturnNull(c), NEW u \in Units, u + arg[c] - 1 \in Units,
         u..(u + arg[c] - 1) \subseteq UNION {FreeUnits(x) : x \in free}
  PROVE  FALSE
<1>1. InCall(c) /\ kaPc[c] = "search" /\ p[c] = freep /\ ~(size[freep] >= arg[c])
  BY DEF ReturnNull, InCall, BigEnough
<1>2. /\ freep \in Nodes /\ Linked(free, next, prev, size) /\ arg[c] >= 1 /\ arg[c] \in Nat
      /\ \A x \in Nodes : x \in Nat /\ size[x] \in Nat /\ next[x] \in Nodes
  BY <1>1, OnTheList, CellsAreNats DEF KAllocInv, CallerInv, AllocPcs, KAllocTypeOK
<1>3. Tiling(Starts, size) /\ free \subseteq Starts
  BY <1>1, OnTheList DEF KAllocInv, HeapInv, Starts, KAllocTypeOK
<1>4. \A x \in free : size[x] < arg[c]
  <2> SUFFICES ASSUME NEW x \in free PROVE size[x] < arg[c]
    OBVIOUS
  <2>1. freep < x \/ x < freep \/ x = freep
    <3>1. x \in Nodes
      BY DEF Nodes
    <3>2. x \in Nat /\ freep \in Nat
      BY <1>2, <3>1
    <3> QED BY <3>2
  <2>2. Passed(c, x) <=> freep < x \/ x < freep
    BY <1>1, <1>2 DEF Passed
  <2>3. Passed(c, x) => size[x] < arg[c]
    BY <1>1 DEF KAllocInv, CallerInv
  <2>4. x = freep => size[x] < arg[c]
    BY <1>1, <1>2 DEF Nodes
  <2> QED BY <2>1, <2>2, <2>3, <2>4
<1>5. u \in Nat /\ \A v \in u..(u + arg[c] - 1) : \E x \in free : x <= v /\ v < x + size[x]
  <2>1. u \in Nat
    BY UnitsAreCells, CellsAreNats
  <2>2. ASSUME NEW v \in u..(u + arg[c] - 1) PROVE \E x \in free : x <= v /\ v < x + size[x]
    <3>1. PICK x \in free : v \in FreeUnits(x)
      OBVIOUS
    <3>2. x \in Nat /\ size[x] \in Nat
      BY <1>2 DEF Nodes
    <3> QED BY <3>1, <3>2 DEF FreeUnits
  <2> QED BY <2>1, <2>2
<1>6. PICK x \in free : x <= u /\ u < x + size[x]
  BY <1>2, <1>5
\* The first unit behind that block is in the run, so a free block has it.
<1>7. x + size[x] \in u..(u + arg[c] - 1)
  <2>1. x \in Nat /\ size[x] \in Nat /\ size[x] < arg[c]
    BY <1>2, <1>4 DEF Nodes
  <2> QED BY <1>2, <1>5, <1>6, <2>1
<1>8. PICK y \in free : y <= x + size[x] /\ x + size[x] < y + size[y]
  BY <1>5, <1>7
<1>9. x \in Nat /\ y \in Nat /\ size[x] \in Nat /\ size[y] \in Nat /\ next[x] \in Nat
  BY <1>2 DEF Nodes
<1>10. x < y
  <2>1. y < x => y + size[y] <= x
    BY <1>3 DEF Tiling
  <2> QED BY <1>8, <1>9, <2>1
<1>11. next[x] # base /\ y >= next[x] /\ x + size[x] < next[x]
  <2>1. y <= x \/ (next[x] # base /\ y >= next[x])
    BY <1>2 DEF Linked
  <2>2. next[x] # base => x + size[x] < next[x]
    BY <1>2 DEF Linked
  <2> QED BY <1>9, <1>10, <2>1, <2>2
<1> QED BY <1>8, <1>9, <1>11

LEMMA GrantKeepsPromise ==
  ASSUME KAllocInv, KAllocInv', NEW c \in Callers, GrantsBlock(c)
  PROVE  Promised!Next
<1>1. PICK blk \in [at : Units, len : Units, ask : Asks] :
        /\ owned' = [owned EXCEPT ![c] = @ \cup {blk}]
        /\ blk.len = arg[c] /\ blk.ask = ask[c] /\ kaPc[c] = "search"
        /\ \A d \in Callers : ~Holds(d, blk.at)
  BY DEF GrantsBlock
<1>2. blk \in Promised!Block
  BY DEF Promised!Block, Units
<1>3. (blk.len - 1) * HeaderSize >= blk.ask
  BY <1>1 DEF KAllocInv, CallerInv, AllocPcs, RoomFor
<1>4. freep' # NULL /\ blk \in owned'[c] /\ \A d \in Callers : owned[d] \subseteq owned'[d]
  <2>1. blk \in owned'[c] /\ \A d \in Callers : owned[d] \subseteq owned'[d]
    BY <1>1 DEF KAllocInv, KAllocTypeOK
  <2> QED BY <2>1 DEF KAllocInv, FreshInv
<1>5. /\ Tiling(Starts', size') /\ Distinct' /\ size' \in [Cells -> 0..NUnits]
      /\ owned' \in [Callers -> SUBSET [at : Units, len : Units, ask : Asks]]
  BY <1>4 DEF KAllocInv, HeapInv, KAllocTypeOK
<1>6. ASSUME NEW d \in Callers, NEW o \in owned'[d]
      PROVE  o.at \in Starts' /\ size'[o.at] = o.len /\ o.at \in Units /\ o.len \in Units
  <2>1. Holds(d, o.at)'
    BY DEF Holds
  <2>2. o.at \in Units /\ o.len \in Units /\ size'[o.at] = o.len
    BY <1>5 DEF Distinct
  <2> QED BY <2>1, <2>2 DEF Starts
<1>7. Promised!UnitsOf(blk) \subseteq 1..NUnits
  <2>1. blk.at \in Starts' /\ size'[blk.at] = blk.len
    BY <1>4, <1>6
  <2>2. blk.at + blk.len - 1 \in Units
    BY <1>5, <2>1 DEF Tiling
  <2> QED BY <2>2, ArenaAssumption DEF Promised!UnitsOf, Units
<1>8. ASSUME NEW d \in Callers, NEW o \in owned[d] PROVE Promised!UnitsOf(o) \cap Promised!UnitsOf(blk) = {}
  <2>1. /\ o.at \in Starts' /\ size'[o.at] = o.len /\ o.at \in Units /\ o.len \in Units
        /\ blk.at \in Starts' /\ size'[blk.at] = blk.len
    BY <1>4, <1>6
  <2>2. o.at # blk.at
    BY <1>1 DEF Holds
  <2>3. (o.at < blk.at => o.at + o.len <= blk.at) /\ (blk.at < o.at => blk.at + blk.len <= o.at)
    BY <1>5, <2>1 DEF Tiling
  <2>4. o.at \in Nat /\ o.len \in Nat /\ blk.at \in Nat /\ blk.len \in Nat
    BY <2>1, ArenaAssumption DEF Units
  <2> QED BY <2>2, <2>3, <2>4 DEF Promised!UnitsOf
<1> QED BY <1>1, <1>2, <1>3, <1>7, <1>8 DEF Promised!Next, Promised!Take

LEMMA StepKeepsPromise == KAllocInv /\ KAllocInv' /\ [KAllocNext]_kaVars => [Promised!Next]_owned
<1> SUFFICES ASSUME KAllocInv, KAllocInv', [KAllocNext]_kaVars PROVE Promised!Next \/ owned' = owned
  OBVIOUS
<1>1. CASE UNCHANGED kaVars
  BY <1>1 DEF kaVars
<1>2. ASSUME NEW c \in Callers, NEW n \in Requests, CallAlloc(c, n) PROVE owned' = owned
  BY <1>2 DEF CallAlloc
<1>3. ASSUME NEW c \in Callers, NEW b \in owned[c], CallFree(c, b) PROVE Promised!Next
  <2>1. b \in Promised!Block
    BY DEF KAllocInv, KAllocTypeOK, Promised!Block, Units
  <2> QED BY <1>3, <2>1 DEF CallFree, Promised!Next, Promised!Give
<1>4. ASSUME NEW c \in Callers, Step(c) PROVE Promised!Next \/ owned' = owned
  <2>1. CASE TakeExact(c) \/ TakeTail(c)
    BY <2>1, TakeExactInv, TakeTailInv, GrantKeepsPromise
  <2>2. CASE ~(TakeExact(c) \/ TakeTail(c))
    BY <1>4, <2>2 DEF Step, LockAlloc, LockFree, Return, Check, StartCheck, WalkOn, WalkEnds, Panic,
                      Alloc, SearchOn, ReturnNull, Free, PlaceOn, PutBack
  <2> QED BY <2>1, <2>2
<1> QED BY <1>1, <1>2, <1>3, <1>4 DEF KAllocNext

\* For every number of programs and every size of the arena: test_alloc() hands
\* out blocks that overlap no other and have room for what was asked for, and
\* NULL only when no run of free units is as long as that.
THEOREM PromisesKept == KAllocSpec => AllocatorPromises
<1>1. KAllocInit => Promised!Init
  BY DEF KAllocInit, Promised!Init
<1>2. ASSUME KAllocInv, [KAllocNext]_kaVars
      PROVE  [\A c \in Callers : ReturnNull(c) =>
                ~\E u \in Units : /\ u + arg[c] - 1 \in Units
                                  /\ u..(u + arg[c] - 1) \subseteq UNION {FreeUnits(x) : x \in free}]_kaVars
  BY <1>2, NoRoomLeft
<1> QED BY KAllocInvariant, StepKeepsPromise, <1>1, <1>2, PTL
        DEF KAllocSpec, AllocatorPromises, ImplementsArena, NullOnlyWithoutRoom, Promised!Spec
===============================================================================
