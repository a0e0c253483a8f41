-------------------------------- MODULE KAlloc --------------------------------
(***************************************************************************)
(* test_alloc() and test_free() of kern/alloc.c under the spin lock of     *)
(* kern/spinlock.c: a first-fit allocator whose free blocks form a circular *)
(* list in the order of their addresses, linked both ways.                 *)
(*                                                                         *)
(* Memory is counted in units of a Header.  Unit 0 is `base', which lies   *)
(* before `space' and has no size; space is 1..NUnits.  The programs that  *)
(* call the allocator may be switched anywhere outside check_list(), which *)
(* is what the lock is there for.  This build does less: a timer interrupt *)
(* returns to the program it has interrupted (kern/trap.c:271).            *)
(*                                                                         *)
(* Units that hold no header in use may hold anything.  The model leaves   *)
(* NULL and 0 in them, so that a use of them shows.                        *)
(***************************************************************************)
EXTENDS Integers

CONSTANTS
  Callers,     \* the programs
  NUnits,      \* (SPACE_SIZE - sizeof(Header)) / sizeof(Header)
  HeaderSize,  \* sizeof(Header)
  ByteValues,  \* the sizes asked for are converted to uint8_t: 256
  Requests     \* the sizes the programs ask for

ASSUME ArenaAssumption   == NUnits \in Nat \ {0}
ASSUME HeaderAssumption  == HeaderSize \in Nat \ {0} /\ ByteValues \in Nat \ {0}
ASSUME RequestAssumption == Requests \subseteq Nat

base  == 0
NULL  == -1
Units == 1..NUnits
Cells == 0..NUnits
Asks  == 0..(ByteValues - 1)

VARIABLES
  next, prev, size,  \* the headers, at every unit
  freep,             \* where the next search starts
  locked,            \* allocator_lock
  (* each caller *)
  kaPc,        \* where it is
  ask, arg,  \* the bytes asked for, and nunits; or 0 and the block bp to free
  p, prevp,  \* the variables of the loops
  (* history *)
  owned,  \* the blocks each caller has got and not given back
  free    \* the headers of the free blocks

heap   == <<next, prev, size, freep, free>>
locals == <<ask, arg, p, prevp>>
kaVars   == <<heap, locked, kaPc, locals, owned>>

KAllocInit ==
  /\ next = [u \in Cells |-> IF u = base THEN 1 ELSE NULL]
  /\ prev = [u \in Cells |-> IF u = base THEN 1 ELSE NULL]
  /\ size = [u \in Cells |-> 0]
  /\ freep = NULL /\ locked = FALSE /\ free = {}
  /\ kaPc = [c \in Callers |-> "idle"]
  /\ ask = [c \in Callers |-> 0] /\ arg = [c \in Callers |-> 0]
  /\ p = [c \in Callers |-> base] /\ prevp = [c \in Callers |-> base]
  /\ owned = [c \in Callers |-> {}]

-----------------------------------------------------------------------------
(* Calls, and the lock.                                                    *)

\* The size loses its high bits at the call, and then counts a header.
Truncated(n) == n % ByteValues
MutantRoundsDown(n) == Truncated(n) \div HeaderSize + 1
nunits(n) == (Truncated(n) + HeaderSize - 1) \div HeaderSize + 1

CallAlloc(c, n) ==
  /\ kaPc[c] = "idle"
  /\ ask' = [ask EXCEPT ![c] = Truncated(n)] /\ arg' = [arg EXCEPT ![c] = nunits(n)]
  /\ kaPc' = [kaPc EXCEPT ![c] = "lock_alloc"]
  /\ UNCHANGED <<heap, locked, p, prevp, owned>>

CallFree(c, b) ==
  /\ kaPc[c] = "idle" /\ b \in owned[c]
  /\ owned' = [owned EXCEPT ![c] = @ \ {b}]
  /\ ask' = [ask EXCEPT ![c] = 0] /\ arg' = [arg EXCEPT ![c] = b.at]
  /\ kaPc' = [kaPc EXCEPT ![c] = "lock_free"]
  /\ UNCHANGED <<heap, locked, p, prevp>>

MutantNeverWaits == TRUE
xchg == ~locked

\* spin_lock() has got the lock, and test_alloc() makes the list when there is
\* none yet: everything free is one block behind the base.
LockAlloc(c) ==
  /\ kaPc[c] = "lock_alloc" /\ xchg
  /\ locked' = TRUE
  /\ IF freep = NULL
     THEN /\ next' = [next EXCEPT ![1] = base] /\ prev' = [prev EXCEPT ![1] = base]
          /\ size' = [size EXCEPT ![1] = NUnits]
          /\ freep' = base /\ free' = {1}
     ELSE UNCHANGED heap
  /\ kaPc' = [kaPc EXCEPT ![c] = "check_alloc"]
  /\ UNCHANGED <<locals, owned>>

LockFree(c) ==
  /\ kaPc[c] = "lock_free" /\ xchg
  /\ locked' = TRUE
  /\ p' = [p EXCEPT ![c] = freep]
  /\ kaPc' = [kaPc EXCEPT ![c] = "place"]
  /\ UNCHANGED <<heap, ask, arg, prevp, owned>>

\* spin_unlock(), and the call returns: its variables are gone.
Return(c) ==
  /\ kaPc[c] = "unlock"
  /\ locked' = FALSE
  /\ ask' = [ask EXCEPT ![c] = 0] /\ arg' = [arg EXCEPT ![c] = 0]
  /\ p' = [p EXCEPT ![c] = base]
  /\ kaPc' = [kaPc EXCEPT ![c] = "idle"]
  /\ UNCHANGED <<heap, prevp, owned>>

-----------------------------------------------------------------------------
(* check_list(): walks once round the list.                                *)

StartCheck(c) ==
  /\ kaPc[c] \in {"check_alloc", "check_free"}
  /\ prevp' = [prevp EXCEPT ![c] = freep]
  /\ p' = [p EXCEPT ![c] = next[freep]]
  /\ kaPc' = [kaPc EXCEPT ![c] = IF @ = "check_alloc" THEN "walk_alloc" ELSE "walk_free"]
  /\ UNCHANGED <<heap, locked, ask, arg, owned>>

Walking(c) == kaPc[c] \in {"walk_alloc", "walk_free"}

WalkOn(c) ==
  /\ Walking(c) /\ p[c] # freep /\ prevp[c] = prev[p[c]]
  /\ prevp' = [prevp EXCEPT ![c] = p[c]]
  /\ p' = [p EXCEPT ![c] = next[p[c]]]
  /\ UNCHANGED <<heap, locked, kaPc, ask, arg, owned>>

\* `Corrupted list.'
Panic(c) ==
  /\ Walking(c) /\ p[c] # freep /\ prevp[c] # prev[p[c]]
  /\ kaPc' = [kaPc EXCEPT ![c] = "panic"]
  /\ UNCHANGED <<heap, locked, locals, owned>>

\* The list is in order: test_alloc() starts its search, test_free() is done.
WalkEnds(c) ==
  /\ Walking(c) /\ p[c] = freep
  /\ p' = [p EXCEPT ![c] = next[freep]] /\ prevp' = [prevp EXCEPT ![c] = base]
  /\ kaPc' = [kaPc EXCEPT ![c] = IF @ = "walk_alloc" THEN "search" ELSE "unlock"]
  /\ UNCHANGED <<heap, locked, ask, arg, owned>>

-----------------------------------------------------------------------------
(* test_alloc()                                                            *)

BigEnough(c) == size[p[c]] >= arg[c]

Got(c, at) == owned' = [owned EXCEPT ![c] = @ \cup {[at |-> at, len |-> arg[c], ask |-> ask[c]]}]

MutantKeepsPrev(q) == [prev EXCEPT ![q] = NULL]
Unlinked(q) == [prev EXCEPT ![next[q]] = prev[q], ![q] = NULL]

\* A block of exactly that size leaves the list.
TakeExact(c) ==
  /\ kaPc[c] = "search" /\ BigEnough(c) /\ size[p[c]] = arg[c]
  /\ next' = [next EXCEPT ![prev[p[c]]] = next[p[c]], ![p[c]] = NULL]
  /\ prev' = Unlinked(p[c])
  /\ freep' = prev[p[c]] /\ free' = free \ {p[c]}
  /\ Got(c, p[c])
  /\ kaPc' = [kaPc EXCEPT ![c] = "unlock"]
  /\ UNCHANGED <<size, locked, locals>>

TailAt(q, n) == q + size[q] - n

\* From a larger one the tail end is allocated.
TakeTail(c) ==
  LET tail == TailAt(p[c], arg[c])
  IN  /\ kaPc[c] = "search" /\ BigEnough(c) /\ size[p[c]] # arg[c]
      /\ size' = [size EXCEPT ![p[c]] = @ - arg[c], ![tail] = arg[c]]
      /\ freep' = prev[p[c]]
      /\ Got(c, tail)
      /\ kaPc' = [kaPc EXCEPT ![c] = "unlock"]
      /\ UNCHANGED <<next, prev, free, locked, locals>>

SearchOn(c) ==
  /\ kaPc[c] = "search" /\ ~BigEnough(c) /\ p[c] # freep
  /\ p' = [p EXCEPT ![c] = next[p[c]]]
  /\ UNCHANGED <<heap, locked, kaPc, ask, arg, prevp, owned>>

\* Wrapped around the free list: test_alloc() returns NULL.
ReturnNull(c) ==
  /\ kaPc[c] = "search" /\ ~BigEnough(c) /\ p[c] = freep
  /\ kaPc' = [kaPc EXCEPT ![c] = "unlock"]
  /\ UNCHANGED <<heap, locked, locals, owned>>

-----------------------------------------------------------------------------
(* test_free()                                                             *)

\* The block belongs behind q, between it and its successor or at either end.
MutantNoEnds(q, bp) == bp > q /\ bp < next[q]
Behind(q, bp) ==
  \/ bp > q /\ bp < next[q]
  \/ q >= next[q] /\ (bp > q \/ bp < next[q])

PlaceOn(c) ==
  /\ kaPc[c] = "place" /\ ~Behind(p[c], arg[c])
  /\ p' = [p EXCEPT ![c] = next[p[c]]]
  /\ UNCHANGED <<heap, locked, kaPc, ask, arg, prevp, owned>>

MeetsUpper(q, bp) == bp + size[bp] = next[q]
MeetsLower(q, bp) == q + size[q] = bp

JoinBoth(q, bp) ==
  LET up == next[q]
  IN  /\ MeetsUpper(q, bp) /\ MeetsLower(q, bp)
      /\ size' = [size EXCEPT ![q] = @ + size[bp] + size[up], ![bp] = 0, ![up] = 0]
      /\ prev' = [prev EXCEPT ![next[up]] = q, ![up] = NULL]
      /\ next' = [next EXCEPT ![q] = next[up], ![up] = NULL]
      /\ free' = free \ {up}

JoinUpper(q, bp) ==
  LET up == next[q]
  IN  /\ MeetsUpper(q, bp) /\ ~MeetsLower(q, bp)
      /\ size' = [size EXCEPT ![bp] = @ + size[up], ![up] = 0]
      /\ next' = [next EXCEPT ![bp] = next[up], ![q] = bp, ![up] = NULL]
      /\ prev' = [prev EXCEPT ![bp] = prev[up], ![next[up]] = bp, ![up] = NULL]
      /\ free' = (free \ {up}) \cup {bp}

JoinLower(q, bp) ==
  /\ ~MeetsUpper(q, bp) /\ MeetsLower(q, bp)
  /\ size' = [size EXCEPT ![q] = @ + size[bp], ![bp] = 0]
  /\ UNCHANGED <<next, prev, free>>

Insert(q, bp) ==
  /\ ~MeetsUpper(q, bp) /\ ~MeetsLower(q, bp)
  /\ next' = [next EXCEPT ![bp] = next[q], ![q] = bp]
  /\ prev' = [prev EXCEPT ![bp] = q, ![next[q]] = bp]
  /\ free' = free \cup {bp}
  /\ UNCHANGED size

PutBack(c) ==
  /\ kaPc[c] = "place" /\ Behind(p[c], arg[c])
  /\ \/ JoinBoth(p[c], arg[c])  \/ JoinUpper(p[c], arg[c])
     \/ JoinLower(p[c], arg[c]) \/ Insert(p[c], arg[c])
  /\ freep' = p[c]
  /\ kaPc' = [kaPc EXCEPT ![c] = "check_free"]
  /\ UNCHANGED <<locked, locals, owned>>

-----------------------------------------------------------------------------
Alloc(c) == TakeExact(c) \/ TakeTail(c) \/ SearchOn(c) \/ ReturnNull(c)
Free(c)  == PlaceOn(c) \/ PutBack(c)
Check(c) == StartCheck(c) \/ WalkOn(c) \/ WalkEnds(c) \/ Panic(c)

\* One step of a call.
Step(c) == LockAlloc(c) \/ LockFree(c) \/ Check(c) \/ Alloc(c) \/ Free(c) \/ Return(c)

KAllocNext ==
  \E c \in Callers :
    \/ \E n \in Requests : CallAlloc(c, n)
    \/ \E b \in owned[c] : CallFree(c, b)
    \/ Step(c)

\* A program that is in a call gets the processor time and again.
KAllocSpec == KAllocInit /\ [][KAllocNext]_kaVars /\ \A c \in Callers : WF_kaVars(Step(c))

-----------------------------------------------------------------------------
(* Properties.                                                             *)

InCall(c) == kaPc[c] \in {"check_alloc", "walk_alloc", "search", "place", "check_free",
                        "walk_free", "unlock", "panic"}
Freeing(c) == kaPc[c] \in {"lock_free", "place"}

\* Every variable keeps its type.
KAllocTypeOK ==
  /\ next \in [Cells -> Cells \cup {NULL}] /\ prev \in [Cells -> Cells \cup {NULL}]
  /\ size \in [Cells -> 0..NUnits]
  /\ freep \in Cells \cup {NULL} /\ locked \in BOOLEAN
  /\ kaPc \in [Callers -> {"idle", "lock_alloc", "lock_free", "check_alloc", "walk_alloc",
                         "search", "place", "check_free", "walk_free", "unlock", "panic"}]
  /\ ask \in [Callers -> Asks] /\ arg \in [Callers -> Nat]
  /\ p \in [Callers -> Cells] /\ prevp \in [Callers -> Cells]
  /\ owned \in [Callers -> SUBSET [at : Units, len : Units, ask : Asks]]
  /\ free \subseteq Units

\* The lock keeps the list to one caller at a time.
MutualExclusion ==
  /\ \A c, d \in Callers : InCall(c) /\ InCall(d) => c = d
  /\ locked <=> \E c \in Callers : InCall(c)

Nodes == free \cup {base}

\* After every change the free blocks are linked in ascending order, both ways
\* and back to the base, and no two of them touch: otherwise test_free() had
\* left two blocks that it should have joined.
ListInOrder ==
  freep # NULL =>
    /\ freep \in Nodes
    /\ \A x \in Nodes :
         /\ next[x] \in Nodes /\ prev[next[x]] = x
         /\ IF next[x] = base THEN \A y \in Nodes : y <= x
            ELSE x + size[x] < next[x] /\ \A y \in Nodes : y <= x \/ y >= next[x]
    /\ \A x \in free : size[x] \in Units /\ x + size[x] - 1 \in Units

FreeUnits(x) == x..(x + size[x] - 1)
BlockUnits(b) == b.at..(b.at + b.len - 1)

\* Who has a unit: a free block, a caller that gives a block back, or one that owns it.
Claims(u) ==
  {<<"free", x>> : x \in {y \in free : u \in FreeUnits(y)}}
    \cup {<<"gives", c>> : c \in {d \in Callers : Freeing(d) /\ u \in FreeUnits(arg[d])}}
    \cup UNION {{<<"owns", c, b>> : b \in {o \in owned[c] : u \in BlockUnits(o)}} : c \in Callers}

\* Every unit is in just one block: nothing is lost and nothing handed out twice.
\* The headers of owned blocks still say what was allocated.
Partition ==
  freep # NULL =>
    /\ \A u \in Units : \E k \in Claims(u) : Claims(u) = {k}
    /\ \A c \in Callers : \A b \in owned[c] : size[b.at] = b.len

\* check_list() never finds a corrupted list.
NeverCorrupted == \A c \in Callers : kaPc[c] # "panic"

\* test_alloc() returns NULL only when no run of free units is long enough.
NullOnlyWithoutRoom ==
  [][ \A c \in Callers : ReturnNull(c) =>
        ~\E u \in Units : /\ u + arg[c] - 1 \in Units
                          /\ u..(u + arg[c] - 1) \subseteq UNION {FreeUnits(x) : x \in free} ]_kaVars

\* The programs see blocks that lie apart and have room for what they asked for.
Promised == INSTANCE Arena
ImplementsArena == Promised!Spec

\* The loops over the circular list end: whoever has the lock releases it.
LockReleased == locked ~> ~locked

\* The circular list is in order and holds exactly what nobody uses, whoever
\* was switched in between.
AllocatorSound == KAllocTypeOK /\ ListInOrder /\ Partition /\ NeverCorrupted

\* What test_alloc() promises: blocks of one's own, and NULL only without room.
AllocatorPromises == ImplementsArena /\ NullOnlyWithoutRoom
=============================================================================
