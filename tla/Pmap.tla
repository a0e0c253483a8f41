-------------------------------- MODULE Pmap --------------------------------
(***************************************************************************)
(* The physical memory tree of kern/pmap.c while init_memory() builds it:  *)
(* a binary buddy tree of struct Page nodes, one free list per size class, *)
(* and the pool of node descriptors, which grows out of the very memory    *)
(* the tree describes.                                                     *)
(*                                                                         *)
(* The unit of the model's addresses is a fraction of a page:              *)
(* ClassSize[0] units make one page.  A descriptor is identified by the    *)
(* block (class, addr) it describes; nothing in init_memory() frees a      *)
(* descriptor that a list still points to (see `link' in TypeOK).          *)
(*                                                                         *)
(* page_lookup() is executed one loop iteration at a time and keeps its    *)
(* locals in a frame of `stack': ensure_free_desc() may call alloc_page(), *)
(* which calls page_lookup() again before the outer call has gone on.      *)
(***************************************************************************)
EXTENDS Integers, Sequences, FiniteSets

CONSTANTS
  MaxClass,     \* MAX_CLASS: the class of the root
  PoolClass,    \* POOL_CLASS: the class of a page of descriptors
  ConstClass,   \* MAX_ALLOCATION_CLASS: the class of one_page and zero_page
  ClassSize,    \* CLASS_SIZE as a function of the class
  InitDescr,    \* INIT_DESCR: descriptors in initial_buffer
  PoolEntries,  \* POOL_ENTRIES_FOR_SIZE(CLASS_SIZE(POOL_CLASS))
  BootMemSize,  \* BOOT_MEM_SIZE
  KernelStart,  \* IOPHYSMEM
  KernelEnd,    \* PADDR(end)
  ConstPages,   \* <<PADDR(one_page_raw), PADDR(zero_page_raw)>>
  MemoryMaps    \* the memory maps the firmware may hand over

PARTIAL     == "PARTIAL_NODE"
ALLOCATABLE == "ALLOCATABLE_NODE"
RESERVED    == "RESERVED_NODE"
PageState   == {PARTIAL, ALLOCATABLE, RESERVED}
Class       == 0..MaxClass
Region      == [start : Nat, end : Nat, type : {ALLOCATABLE, RESERVED}]

ASSUME ClassAssumption ==
  /\ MaxClass \in Nat /\ PoolClass \in Class /\ ConstClass \in Class
  /\ ClassSize \in [Class -> Nat \ {0}]
  /\ \A c \in 1..MaxClass : ClassSize[c] = 2 * ClassSize[c - 1]
ASSUME DescrAssumption ==
  InitDescr \in Nat \ {0, 1} /\ PoolEntries \in Nat /\ BootMemSize \in Nat
ASSUME KernelAssumption ==
  /\ KernelStart \in Nat /\ KernelEnd \in Nat
  /\ ConstPages \in Seq(Nat)
  /\ KernelStart < KernelEnd
  /\ \A i \in DOMAIN ConstPages : ConstPages[i] % ClassSize[ConstClass] = 0
\* A physical address has fewer bits than the root's class: nothing that is attached or
\* looked up reaches the end of what the tree describes.
ASSUME MapAssumption ==
  /\ ClassSize[0] < ClassSize[MaxClass] /\ KernelEnd + ClassSize[0] <= ClassSize[MaxClass]
  /\ \A i \in DOMAIN ConstPages : ConstPages[i] + ClassSize[ConstClass] <= ClassSize[MaxClass]
  /\ \A m \in MemoryMaps :
       m \in Seq(Region) /\ \A i \in DOMAIN m : m[i].end + ClassSize[0] <= ClassSize[MaxClass]

VARIABLES
  tree,    \* the nodes of the tree: block -> [state, refc]
  link,    \* struct List of every node and list head: cell -> [next, prev]
  descr,   \* free_desc_count, also the length of free_descriptors
  pools,   \* the pages chained from first_pool
  regions, \* what detect_memory() attaches, in that order
  cur,     \* index in `regions' of the attach_region() call under way
  start,   \* attach_region()'s local of that name
  consts,  \* constant pages detect_memory() has still to look up
  stack,   \* frames of the page_lookup() calls under way, the innermost first
  refs,    \* nodes the page_ref() under way has still to visit
  panicked \* an assert failed or ensure_free_desc() ran out of memory

vars == <<tree, link, descr, pools, regions, cur, start, consts, stack, refs,
          panicked>>

-----------------------------------------------------------------------------
(* Blocks and cells.  A list head is the cell of its class at address -1.  *)

Block(c, a)  == [class |-> c, addr |-> a]
Root         == Block(MaxClass, 0)
ListHead(c)  == Block(c, -1)
Heads        == {ListHead(c) : c \in 0..(MaxClass - 1)}
Nodes        == DOMAIN tree
BlockType    == [class : Class, addr : Nat]
Left(n)      == Block(n.class - 1, n.addr)
Right(n)     == Block(n.class - 1, n.addr + ClassSize[n.class - 1])
Parent(n)    == CHOOSE p \in Nodes : p.class > 0 /\ n \in {Left(p), Right(p)}
Kids(n)      == IF n.class = 0 THEN {} ELSE {Left(n), Right(n)} \cap Nodes
EndOf(n)     == n.addr + ClassSize[n.class]
Within(m, n) == n.addr <= m.addr /\ EndOf(m) <= EndOf(n)
Below(n)     == {m \in Nodes : m # n /\ Within(m, n)}
Pages(n)     == {a \in n.addr..(EndOf(n) - 1) : a % ClassSize[0] = 0}

\* PAGE_IS_FREE
PageIsFree(n) == tree[n].refc = 0 /\ Kids(n) = {}

(* The list functions work on the links alone.  list_append() writes three *)
(* of the four links: old_next->prev is left as it was.                    *)
list_append(l, head, new) ==
  [l EXCEPT ![new]       = [next |-> l[head].next, prev |-> head],
            ![head].next = new]

Self(x) == [next |-> x, prev |-> x]

list_del(l, x) ==
  LET p == l[x].prev
      q == l[x].next
  IN  [[[l EXCEPT ![p].next = q] EXCEPT ![q].prev = p] EXCEPT ![x] = Self(x)]

\* The elements of free_classes[c] in the order the `next' links give them,
\* cut off after one step more than the class has nodes.
FreeList(c) ==
  LET bound == Cardinality({n \in Nodes : n.class = c}) + 1
      walk[i \in 0..bound] == IF i = 0 THEN ListHead(c)
                                       ELSE link[walk[i - 1]].next
      ends == {i \in 1..bound : walk[i] = ListHead(c)}
      len  == IF ends = {} THEN bound ELSE (CHOOSE i \in ends : \A j \in ends : i <= j) - 1
  IN  [i \in 1..len |-> walk[i]]
Listed(c) == LET l == FreeList(c) IN {l[i] : i \in DOMAIN l}

\* check_physical_tree()'s walk from a node with no references: along `next'
\* until the head of its class, asserting that it never meets itself again.
WalkFrom(n) ==
  LET bound == Cardinality(Nodes) + 1
      walk[i \in 0..bound] == IF i = 0 THEN n ELSE link[walk[i - 1]].next
      stops == {i \in 1..bound : walk[i] \in {n, ListHead(n.class)}}
      first == CHOOSE i \in stops : \A j \in stops : i <= j
  IN  IF stops = {} THEN "hangs" ELSE IF walk[first] = n THEN "asserts" ELSE "ok"

\* The assertions of check_physical_tree() that the blocks do not imply.
CheckFails ==
  \E n \in Nodes :
    \/ tree[n].state # PARTIAL /\ \E k \in Kids(n) : tree[k].state # tree[n].state
    \/ tree[n].refc > 0 /\ link[n].next # n
    \/ tree[n].refc = 0 /\ link[n].next # n /\ WalkFrom(n) = "asserts"
CheckHangs ==
  \E n \in Nodes : tree[n].refc = 0 /\ link[n].next # n /\ WalkFrom(n) = "hangs"
CheckPhysicalTree == ~CheckFails /\ ~CheckHangs

-----------------------------------------------------------------------------
(* alloc_page(class, ALLOC_POOL): its first half, up to page_lookup().     *)

FitsBootMem(n, class) == n.addr + ClassSize[class] < BootMemSize

MutantFindSmaller(class) ==
  LET fits(c) == {i \in DOMAIN FreeList(c) : FitsBootMem(FreeList(c)[i], class)}
      classes == {c \in 0..(MaxClass - 1) : fits(c) # {}}
      c       == CHOOSE x \in classes : \A y \in classes : x <= y
      i       == CHOOSE x \in fits(c) : \A y \in fits(c) : x <= y
  IN  IF classes = {} THEN {} ELSE {FreeList(c)[i]}

MutantFindLast(class) ==
  LET fits(c) == {i \in DOMAIN FreeList(c) : FitsBootMem(FreeList(c)[i], class)}
      classes == {c \in class..(MaxClass - 1) : fits(c) # {}}
      c       == CHOOSE x \in classes : \A y \in classes : x <= y
      i       == CHOOSE x \in fits(c) : \A y \in fits(c) : x >= y
  IN  IF classes = {} THEN {} ELSE {FreeList(c)[i]}

\* The first page not smaller than requested, in the order of the lists;
\* the empty set stands for `return NULL'.
FindPeer(class) ==
  LET fits(c) == {i \in DOMAIN FreeList(c) : FitsBootMem(FreeList(c)[i], class)}
      classes == {c \in class..(MaxClass - 1) : fits(c) # {}}
      c       == CHOOSE x \in classes : \A y \in classes : x <= y
      i       == CHOOSE x \in fits(c) : \A y \in fits(c) : x <= y
  IN  IF classes = {} THEN {} ELSE {FreeList(c)[i]}

Frame(node, class, addr, type, why) ==
  [node |-> node, class |-> class, addr |-> addr, type |-> type, why |-> why,
   pooled |-> FALSE]     \* `pooled': this iteration has taken a pool already

InLookup       == ~panicked /\ refs = <<>> /\ stack # <<>>
Top            == Head(stack)
Descending     == InLookup /\ Top.node.class > Top.class
Arrived        == InLookup /\ Top.node.class <= Top.class
AllocatingPool == \E i \in DOMAIN stack : stack[i].why = "pool"

DescrNeeded(f) == (f.node.class - f.class + 1) * 2

TakePool(peer) ==
  /\ link'  = list_del(link, peer)
  /\ descr' = descr + PoolEntries
  /\ pools' = pools \cup {Block(PoolClass, peer.addr)}

\* ensure_free_desc() finds too few descriptors and carves a pool out of the
\* tree: the outer page_lookup() is suspended at its current node.
EnsureFreeDesc ==
  /\ Descending /\ descr < DescrNeeded(Top) /\ ~Top.pooled /\ ~AllocatingPool
  /\ \E peer \in FindPeer(PoolClass) :
       /\ TakePool(peer)
       /\ stack' = <<Frame(peer, PoolClass, peer.addr, PARTIAL, "pool"),
                     [Top EXCEPT !.pooled = TRUE]>> \o Tail(stack)
  /\ UNCHANGED <<tree, regions, cur, start, consts, refs, panicked>>

\* Out of memory, allocating_pool set already, or a pool that was too small.
EnsureFails ==
  /\ Descending /\ descr < DescrNeeded(Top)
  /\ Top.pooled \/ AllocatingPool \/ FindPeer(PoolClass) = {}
-----------------------------------------------------------------------------
(* page_lookup(..., alloc = 1): one iteration of its loop.                 *)

GoesRight(f) == (f.addr \div ClassSize[f.node.class - 1]) % 2 = 1

WasFree(n) == tree[n].state = ALLOCATABLE /\ PageIsFree(n)

\* alloc_child() for the children the node lacks.
NewChild(n) == [state |-> tree[n].state, refc |-> IF tree[n].refc > 0 THEN 1 ELSE 0]

SplitState(n, type) ==
  IF type # PARTIAL /\ tree[n].state # type THEN PARTIAL ELSE tree[n].state

MutantFreeTaken(n, right) == IF right THEN Right(n) ELSE Left(n)
Sibling(n, right) == IF right THEN Left(n) ELSE Right(n)

Extend(f, g) == [x \in DOMAIN f \cup DOMAIN g |-> IF x \in DOMAIN g THEN g[x] ELSE f[x]]

Descend ==
  LET f     == Top
      n     == f.node
      new   == {Left(n), Right(n)} \ Nodes
      other == Sibling(n, GoesRight(f))
      fresh == Extend(link, [k \in new |-> Self(k)])
  IN  /\ Descending /\ descr >= DescrNeeded(f)
      /\ tree'  = [Extend(tree, [k \in new |-> NewChild(n)])
                     EXCEPT ![n].state = SplitState(n, f.type)]
      /\ descr' = descr - Cardinality(new)
      /\ link'  = IF WasFree(n)
                  THEN list_append(list_del(fresh, n), ListHead(n.class - 1), other)
                  ELSE fresh
      /\ stack' = <<[f EXCEPT !.node = IF GoesRight(f) THEN Right(n) ELSE Left(n),
                             !.pooled = FALSE]>> \o Tail(stack)
      /\ UNCHANGED <<pools, regions, cur, start, consts, refs, panicked>>
-----------------------------------------------------------------------------
(* The end of page_lookup(): retyping the node, for attach_region().       *)

Retyping == Arrived /\ Top.type # PARTIAL /\ tree[Top.node].refc = 0

\* free_desc_rec() visits the left subtree, then the right one, each of them
\* from its high addresses to its low ones: right child, node, left child.
Middle(n) == 2 * n.addr + ClassSize[n.class]
NextFreed(n) ==
  LET lows == {m \in Below(n) : Middle(m) < Middle(n)}
      from == IF lows # {} THEN lows ELSE Below(n)
  IN  CHOOSE m \in from : \A k \in from : Middle(k) <= Middle(m)

FreeDescRec ==
  /\ Retyping /\ Below(Top.node) # {}
  /\ LET m    == NextFreed(Top.node)
         rest == Nodes \ {m}
         l    == list_del(link, m)
     IN  /\ tree[m].refc = 0
         /\ tree' = [n \in rest |-> tree[n]]
         /\ link' = [x \in rest \cup Heads |-> l[x]]
  /\ descr' = descr + 1
  /\ UNCHANGED <<pools, regions, cur, start, consts, stack, refs, panicked>>

MutantRetypeReserved(n, type) == type
NewType(n, type) == IF tree[n].state = RESERVED THEN RESERVED ELSE type

MutantStartStays(f) == start
NextStart(f) == start + ClassSize[f.class]

Attach ==
  LET n == Top.node
      t == NewType(n, Top.type)
      l == list_del(link, n)
  IN  /\ Retyping /\ Below(n) = {}
      /\ tree'  = [tree EXCEPT ![n].state = t]
      /\ link'  = IF t = ALLOCATABLE THEN list_append(l, ListHead(n.class), n) ELSE l
      /\ start' = NextStart(Top)
      /\ stack' = Tail(stack)
      /\ UNCHANGED <<descr, pools, regions, cur, consts, refs, panicked>>

\* `Cannot attach mapped memory', and free_desc_rec()'s assertion.
RetypeFails ==
  /\ Arrived /\ Top.type # PARTIAL
  /\ tree[Top.node].refc > 0 \/ (Below(Top.node) # {} /\ tree[NextFreed(Top.node)].refc > 0)

-----------------------------------------------------------------------------
(* page_ref(), one node of its recursion at a time.                        *)

PageRef ==
  LET n    == Head(refs)
      kids == (IF Left(n) \in Nodes THEN <<Left(n)>> ELSE <<>>) \o
              (IF Right(n) \in Nodes THEN <<Right(n)>> ELSE <<>>)
  IN  /\ ~panicked /\ refs # <<>>
      /\ tree' = [tree EXCEPT ![n].refc = @ + 1]
      /\ IF tree[n].refc = 0
         THEN /\ link' = list_del(link, n)
              /\ refs' = (IF n.class = 0 THEN <<>> ELSE kids) \o Tail(refs)
         ELSE link' = link /\ refs' = Tail(refs)
      /\ UNCHANGED <<descr, pools, regions, cur, start, consts, stack, panicked>>

-----------------------------------------------------------------------------
(* The callers: the second half of alloc_page(), attach_region() and       *)
(* detect_memory().                                                        *)

\* The assertion at the end of alloc_page().
OffKernel(n) == n.addr >= KernelEnd \/ EndOf(n) - 1 < KernelStart

AllocPool ==
  /\ Arrived /\ Top.why = "pool"
  /\ tree[Top.node].refc = 0 /\ OffKernel(Top.node)
  /\ refs'  = <<Top.node>>
  /\ stack' = Tail(stack)
  /\ UNCHANGED <<tree, link, descr, pools, regions, cur, start, consts, panicked>>

AllocFails ==
  /\ Arrived /\ Top.why = "pool"
  /\ tree[Top.node].refc > 0 \/ ~OffKernel(Top.node)

RoundDown(a) == a - (a % ClassSize[0])
RoundUp(a)   == RoundDown(a + ClassSize[0] - 1)

\* one_page_raw and zero_page_raw are in the image of the kernel.
ASSUME ConstPagesAssumption ==
  \A i \in DOMAIN ConstPages :
    KernelStart <= ConstPages[i] /\ ConstPages[i] + ClassSize[ConstClass] <= RoundUp(KernelEnd)

Idle      == ~panicked /\ refs = <<>> /\ stack = <<>>
Attaching == Idle /\ cur <= Len(regions)
Low(i)    == RoundDown(regions[i].start)
High(i)   == RoundUp(regions[i].end)
RegionEnd == High(cur)

Attachable(c) == start % ClassSize[c] = 0 /\ start + ClassSize[c] <= RegionEnd

AttachRegion ==
  /\ Attaching /\ start < RegionEnd
  /\ \E c \in Class :
       /\ Attachable(c)
       /\ \A d \in Class : Attachable(d) => d <= c
       /\ stack' = <<Frame(Root, c, start, regions[cur].type, "attach")>>
  /\ UNCHANGED <<tree, link, descr, pools, regions, cur, start, consts, refs, panicked>>

NextRegion ==
  /\ Attaching /\ start >= RegionEnd
  /\ cur'   = cur + 1
  /\ start' = IF cur = Len(regions) THEN start ELSE Low(cur + 1)
  /\ UNCHANGED <<tree, link, descr, pools, regions, consts, stack, refs, panicked>>

Attached == Idle /\ cur > Len(regions)

LookupConstPage ==
  /\ Attached /\ consts # <<>>
  /\ consts = ConstPages => CheckPhysicalTree
  /\ stack' = <<Frame(Root, ConstClass, Head(consts), PARTIAL, "const")>>
  /\ UNCHANGED <<tree, link, descr, pools, regions, cur, start, consts, refs, panicked>>

RefConstPage ==
  /\ Arrived /\ Top.why = "const"
  /\ refs'   = <<Top.node>>
  /\ stack'  = Tail(stack)
  /\ consts' = Tail(consts)
  /\ UNCHANGED <<tree, link, descr, pools, regions, cur, start, panicked>>

MemoryReady == Attached /\ consts = <<>> /\ CheckPhysicalTree

Panic ==
  /\ \/ EnsureFails \/ RetypeFails \/ AllocFails
     \/ Attached /\ consts \in {ConstPages, <<>>} /\ CheckFails
  /\ panicked' = TRUE
  /\ UNCHANGED <<tree, link, descr, pools, regions, cur, start, consts, stack, refs>>

-----------------------------------------------------------------------------
\* init_allocator(), and the order in which detect_memory() attaches.
Init ==
  /\ tree  = [n \in {Root} |-> [state |-> PARTIAL, refc |-> 0]]
  /\ link  = [x \in Heads \cup {Root} |-> Self(x)]
  /\ descr = InitDescr
  /\ pools = {} /\ cur = 1 /\ start = 0 /\ consts = ConstPages
  /\ stack = <<>> /\ refs = <<>> /\ panicked = FALSE
  /\ \E m \in MemoryMaps :
       regions = <<[start |-> 0, end |-> ClassSize[0], type |-> RESERVED],
                   [start |-> KernelStart, end |-> KernelEnd, type |-> RESERVED]>> \o m

Next ==
  \/ EnsureFreeDesc \/ Descend \/ FreeDescRec \/ Attach
  \/ PageRef \/ AllocPool \/ AttachRegion \/ NextRegion
  \/ LookupConstPage \/ RefConstPage \/ Panic

\* The kernel boots on one CPU with interrupts off: init_memory() always runs on.
Spec == Init /\ [][Next]_vars /\ WF_vars(Next)

-----------------------------------------------------------------------------
(* The memory maps and the machines that the boot gets through.            *)

Blocks         == {b \in [class : Class, addr : 0..(ClassSize[MaxClass] - 1)] :
                     b.addr % ClassSize[b.class] = 0}
InRegion(b, i) == Low(i) <= b.addr /\ EndOf(b) <= High(i)

\* The blocks that attach_region() cuts a region into: the largest ones inside of it.
Chunks(i) ==
  {b \in Blocks : InRegion(b, i) /\ \A m \in Blocks : InRegion(m, i) /\ Within(b, m) => m = b}

\* No region overlaps an allocatable one that was attached before it, and a block of an
\* allocatable region is inside of a reserved one that was attached before it or apart from it.
EntriesFit ==
  \A j \in DOMAIN regions : \A i \in 1..(j - 1) :
    /\ regions[i].type = ALLOCATABLE => High(i) <= Low(j) \/ High(j) <= Low(i)
    /\ regions[i].type = RESERVED /\ regions[j].type = ALLOCATABLE =>
         \A b \in Chunks(j) : InRegion(b, i) \/ EndOf(b) <= Low(i) \/ High(i) <= b.addr

\* All memory that can be allocated is boot memory.
BootMemoryOnly ==
  \A i \in DOMAIN regions : regions[i].type = ALLOCATABLE => High(i) < BootMemSize

\* A pool pays for the lookup it is carved out with, from the largest page that can be free,
\* and for the longest lookup after that; two descriptors are always left.
PoolsSuffice ==
  \A i \in DOMAIN regions : \A c \in PoolClass..MaxClass :
    regions[i].type = ALLOCATABLE /\ 2 * ClassSize[c] <= High(i) =>
      PoolEntries + 2 >= 2 * (c - PoolClass) + 2 * (MaxClass + 1)

-----------------------------------------------------------------------------
(* Properties.                                                             *)

\* Every variable keeps its type.
TypeOK ==
  /\ Nodes \subseteq BlockType
  /\ tree \in [Nodes -> [state : PageState, refc : Nat]]
  /\ DOMAIN link = Nodes \cup Heads
  /\ \A x \in DOMAIN link : link[x].next \in DOMAIN link /\ link[x].prev \in DOMAIN link
  /\ descr \in Nat /\ pools \subseteq BlockType
  /\ regions \in Seq(Region) /\ cur \in Nat /\ start \in Nat
  /\ consts \in Seq(Nat) /\ refs \in Seq(BlockType) /\ panicked \in BOOLEAN
  /\ stack \in Seq([node : BlockType, class : Class, addr : Nat, type : PageState,
                    why : {"attach", "pool", "const"}, pooled : BOOLEAN])

\* The nodes that a call under way holds outside of the free lists.
InFlight == {stack[i].node : i \in DOMAIN stack} \cup {refs[i] : i \in DOMAIN refs}

\* A free list holds each of its pages once, and only pages of its class that
\* are allocatable and free: alloc_page() hands them out without a further look.
FreeListsSound ==
  \A c \in 0..(MaxClass - 1) :
    /\ Cardinality(Listed(c)) = Len(FreeList(c))
    /\ \A n \in Listed(c) :
         n.class = c /\ n \in Nodes /\ tree[n].state = ALLOCATABLE /\ PageIsFree(n)

\* No free page is lost: an allocatable node with no reference and no children
\* is on the list of its class, unless a call under way holds it.
FreeBlocksListed ==
  \A n \in Nodes \ InFlight :
    tree[n].state = ALLOCATABLE /\ PageIsFree(n) => n \in Listed(n.class)

Leaf(n) == Kids(n) = {}
Covered(a, type) == \E n \in Nodes : Leaf(n) /\ a \in Pages(n) /\ tree[n].state = type
RegionPages(i) == {a \in Low(i)..(High(i) - 1) : a % ClassSize[0] = 0}
AttachedAs(a, type) == \E i \in 1..(cur - 1) : regions[i].type = type /\ a \in RegionPages(i)

\* Between two regions the tree says of every page what the regions attached so
\* far say of it, reserved memory winning over allocatable memory.
MemoryAsMapped ==
  Idle /\ (Attached \/ start = Low(cur)) =>
    \A a \in Pages(Root) :
      /\ Covered(a, RESERVED) <=> AttachedAs(a, RESERVED)
      /\ Covered(a, ALLOCATABLE) <=> AttachedAs(a, ALLOCATABLE) /\ ~AttachedAs(a, RESERVED)

\* `We cannot change RESERVED_NODE memory to ALLOCATABLE_NODE': a page that was
\* attached as reserved is never part of an allocatable page afterwards.
ReservedStaysReserved ==
  \A a \in Pages(Root) : AttachedAs(a, RESERVED) => ~Covered(a, ALLOCATABLE)

\* Splitting, retyping and growing the pool neither leak a descriptor nor use
\* one twice: those in the tree and those left add up to those ever supplied.
DescriptorsConserved ==
  descr + Cardinality(Nodes) - 1 = InitDescr + PoolEntries * Cardinality(pools)

\* A page that holds descriptors is boot memory.  Once alloc_page() has handed it out it is
\* a node of the tree with a reference, off the kernel, and no step takes it back.
PoolsHeld ==
  \A q \in pools :
    /\ EndOf(q) <= BootMemSize
    /\ ~AllocatingPool /\ refs = <<>> => q \in Nodes /\ tree[q].refc > 0 /\ OffKernel(q)

\* A page that holds descriptors stays one allocatable page.
PoolsWhole ==
  \A q \in pools : q \in Nodes \ InFlight => tree[q].state = ALLOCATABLE /\ Leaf(q)

\* No memory is given to the descriptors twice.
PoolsApart == \A p, q \in pools : p # q => EndOf(p) <= q.addr \/ EndOf(q) <= p.addr

\* An outer page_lookup() resumes, after the nested calls, at a node that is
\* still in the tree and still covers the address it looks for.
FramesAlive ==
  \A i \in DOMAIN stack :
    stack[i].node \in Nodes /\ Within(Block(stack[i].class, stack[i].addr), stack[i].node)

\* No assertion of pmap.c ever fails: the one way to panic is that descriptors
\* run short while no free boot memory is attached to take a pool from.
PanicsOnlyOutOfMemory ==
  panicked => /\ stack # <<>> /\ ~Top.pooled /\ ~AllocatingPool
              /\ Top.node.class > Top.class /\ descr < DescrNeeded(Top)
              /\ FindPeer(PoolClass) = {}

\* The node that list_del() is applied to next, if any.
Taken ==
  {n \in Nodes :
     \/ refs # <<>> /\ n = Head(refs)
     \/ Retyping /\ n = (IF Below(Top.node) = {} THEN Top.node ELSE NextFreed(Top.node))
     \/ Descending /\ descr < DescrNeeded(Top) /\ ~Top.pooled /\ ~AllocatingPool /\ n \in FindPeer(PoolClass)
     \/ Descending /\ descr >= DescrNeeded(Top) /\ WasFree(Top.node) /\ n = Top.node}

\* list_del() is applied to the first element of a list or to one that is on none: the
\* others have a `prev' that list_append() has left behind.
OnlyFirstTaken == ~panicked => \A n \in Taken : link[link[n].prev].next = n

\* No assertion of pmap.c fails, no list_del() meets an element it would damage, and no
\* lookup splits a page of descriptors.
BootIsClean == PanicsOnlyOutOfMemory /\ OnlyFirstTaken /\ PoolsWhole

\* init_memory() comes to an end.
BootTerminates == <>(panicked \/ MemoryReady)

\* The free lists hold exactly the pages that are allocatable and free.
FreeListsExact == FreeListsSound /\ FreeBlocksListed

\* The descriptors of nodes and the calls that hold them are accounted for,
\* through every split, merge and nested call for a new pool.
DescriptorsSound == TypeOK /\ DescriptorsConserved /\ PoolsApart /\ PoolsHeld /\ FramesAlive
=============================================================================
