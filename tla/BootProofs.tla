------------------------------ MODULE BootProofs ------------------------------
(***************************************************************************)
(* The programs that run one after the other while the machine starts:     *)
(* what the loader holds on each way out, what it puts into memory and     *)
(* what it tells the kernel, for any kernel files, machines and number of  *)
(* failures; that the interrupts of the timer that timers_schedule()       *)
(* chooses are served, whichever are offered to it; that the search of the *)
(* PCI buses attaches every function once; and that the early page tables  *)
(* keep what they map.                                                     *)
(***************************************************************************)
EXTENDS BootLoader, TimerIrq, Pci, EarlyPaging, NatInduction, SequenceTheorems, FiniteSetTheorems

-----------------------------------------------------------------------------
(* The loader.  The inductive invariant says of each place in LoadKernel() *)
(* and in UefiMain() what has been allocated by then.                      *)

HeaderPools == {"sections", "headers"}

\* The places in LoadKernel(), in the order in which they are passed.
BeforePools == {"open", "header", "pool"}
BeforeNames == BeforePools \cup {"pool2", "read", "read2"}
InNames     == {"name", "search"}

ImageInv ==
  /\ kiPc \in BeforeNames \cup InNames \cup {"allocate", "segment", "free", "returned"}
  /\ kiStatus \in {"success", "error"}
  /\ kiPc \in {"allocate", "segment"} => kiStatus = "success"
  /\ kiPc \in BeforePools => HeaderPools \cap held = {}
  /\ kiPc = "pool2" => "headers" \notin held
  /\ kiPc \in BeforeNames \cup InNames \cup {"allocate"} => "kernel" \notin held
  /\ kiPc = "segment" => "kernel" \in held
  /\ kiPc = "free" => ("kernel" \in held <=> kiStatus = "success")
  /\ PoolsFreed

\* The places in UefiMain(): before LoadKernel() is called, and after it.
Early  == {"time", "params", "acpi", "gop", "mode", "told", "event"}
Late   == {"gate", "map", "exit", "virtual", "call", "kernel"}
Leaves == {"virtual", "call", "kernel"}

PlaceInv ==
  /\ blPc \in Early \cup Late \cup {"load", "returned", "dead"}
  /\ blPc \in Early => kiPc = "open" /\ "event" \notin held
  /\ blPc \in {"time", "params"} => "params" \notin held
  /\ blPc \in (Early \ {"time", "params"}) \cup {"load"} \cup Late => "params" \in held
  /\ blPc \in Late => Returned /\ kiStatus = "success"
  /\ LeavesNothing

\* The buffer for the memory map is there as soon as it has a size, and the
\* boot services are gone with a map that was current.
MapInv ==
  /\ grown \in Nat
  /\ blPc \in Late \ {"gate"} => "gate" \in held
  /\ blPc = "map" => MapSize = 0 \/ "map" \in held
  /\ blPc \in Early \cup {"load", "gate"} => MapSize = 0
  /\ blPc = "exit" \/ blPc \in Leaves => "map" \in held
  /\ blPc \in Leaves => services = "runtime" /\ current
  /\ blPc \notin Leaves \cup {"dead"} => services = "boot"

LoaderInv == ImageInv /\ PlaceInv /\ MapInv

-----------------------------------------------------------------------------

\* When UefiMain() is called, nothing has been allocated.
LEMMA LoaderInitInv == BootLoaderInit => LoaderInv
BY DEF BootLoaderInit, LoaderStart, ImageStart, LoaderInv, ImageInv, PlaceInv, MapInv, PoolsFreed, Returned,
       LeavesNothing, BeforePools, BeforeNames, InNames, Early, Late, Leaves

\* LoadKernel() keeps its promise and leaves alone what UefiMain() holds.
LEMMA LoadKernelStep ==
  ASSUME ImageInv, LoadKernel
  PROVE  /\ ImageInv'
         /\ \A x \in {"params", "event", "gate", "map"} : x \in held' <=> x \in held
<1> USE DEF ImageInv, PoolsFreed, Returned, HeaderPools, BeforePools, BeforeNames, InNames
<1>1. CASE GetKernelFile
  BY <1>1 DEF GetKernelFile, Return, GoOn, Fails, Works
<1>2. CASE ReadHeader
  BY <1>2 DEF ReadHeader, Return, GoOn, Fails, Works
<1>3. CASE AllocatePools
  BY <1>3 DEF AllocatePools, Return, GoOn, Fails, Works, WithoutHeaders
<1>4. CASE ReadTables
  BY <1>4 DEF ReadTables, Return, GoOn, Fails, Works
<1>5. CASE NextName
  BY <1>5 DEF NextName, Fails, Works
<1>6. CASE CopySection
  <2>1. kiPc = "search" /\ kiPc' = "name" /\ held' = held /\ kiStatus' \in {"success", "error"}
    BY <1>6 DEF CopySection, Fails, Works
  <2> QED BY <2>1
<1>7. CASE AllocateKernel
  <2>1. CASE kiPc' = "free"
    BY <1>7, <2>1 DEF AllocateKernel, Fails, Works
  <2>2. CASE kiPc' # "free"
    BY <1>7, <2>2 DEF AllocateKernel, Fails, Works
  <2> QED BY <2>1, <2>2
<1>8. CASE ReadSegment
  <2>1. /\ kiPc = "segment" /\ kiStatus = "success" /\ "kernel" \in held
        /\ \/ kiPc' = "free" /\ kiStatus' = kiStatus /\ held' = held
           \/ kiPc' = kiPc /\ kiStatus' = kiStatus /\ held' = held
           \/ kiPc' = "free" /\ kiStatus' = "error" /\ held' = held \ {"kernel"}
    BY <1>8 DEF ReadSegment, KernelPages
  <2> QED BY <2>1
<1>9. CASE GiveBack
  <2>1. kiPc = "free" /\ kiPc' = "returned" /\ kiStatus' = kiStatus /\ held' = held \ {"sections", "headers"}
    BY <1>9 DEF GiveBack, Return
  <2> QED BY <2>1
<1> QED
  BY <1>1, <1>2, <1>3, <1>4, <1>5, <1>6, <1>7, <1>8, <1>9 DEF LoadKernel

\* Outside of LoadKernel() nothing changes that ImageInv speaks of.
LEMMA ImageKept ==
  ASSUME ImageInv, kiPc' = kiPc, kiStatus' = kiStatus,
         \A x \in {"sections", "headers", "kernel"} : x \in held' <=> x \in held
  PROVE  ImageInv'
BY DEF ImageInv, PoolsFreed, Returned, HeaderPools, BeforePools, BeforeNames, InNames

\* Every step of UefiMain(), LoadKernel() among them, leads on to a place
\* with what is held there.
LEMMA LoaderStepInv == LoaderInv /\ [BootLoaderNext]_blVars => LoaderInv'
<1> SUFFICES ASSUME LoaderInv, [BootLoaderNext]_blVars PROVE LoaderInv'
  OBVIOUS
<1> USE DEF LoaderInv, PlaceInv, MapInv, Returned, LeavesNothing, Early, Late, Leaves, load, graphics, way_out,
            Leave, Works, Fails
<1>1. CASE Start
  BY <1>1, ImageKept DEF Start
<1>2. CASE AcpiFindRsdp
  <2>1. blPc = "acpi" /\ blPc' \in {"acpi", "gop"} /\ held' = held /\ UNCHANGED <<load, way_out>>
    BY <1>2 DEF AcpiFindRsdp
  <2> QED BY <2>1, ImageKept
<1>3. CASE InitGraphics
  <2>1. /\ blPc \in {"gop", "mode", "told"} /\ UNCHANGED <<load, way_out>>
        /\ \/ blPc' \in {"mode", "told", "event"} /\ held' = held
           \/ blPc' = "returned" /\ held' = held \ {"params"}
    BY <1>3 DEF InitGraphics, GiveUp
  <2> QED BY <2>1, ImageKept
<1>4. CASE CreateEvent
  BY <1>4, ImageKept DEF CreateEvent, GiveUp
<1>5. CASE Load
  <2>1. blPc = "load" /\ LoadKernel /\ UNCHANGED loaderVars
    BY <1>5 DEF Load
  <2> QED BY <2>1, LoadKernelStep DEF loaderVars
<1>6. CASE IsLoaded
  <2>1. CASE kiStatus = "error"
    BY <1>6, <2>1, ImageKept DEF IsLoaded, Unneeded
  <2>2. CASE kiStatus # "error"
    <3>1. kiStatus = "success"
      BY <2>2 DEF ImageInv
    <3> QED BY <1>6, <2>2, <3>1, ImageKept DEF IsLoaded
  <2> QED BY <2>1, <2>2
<1>7. CASE GenerateGateData
  BY <1>7, ImageKept DEF GenerateGateData
<1>8. CASE GetMemoryMap
  <2>1. CASE MapSize >= Base + grown /\ current' = TRUE /\ Leave("exit") /\ UNCHANGED <<held, MapSize, grown>>
    <3>1. "map" \in held
      BY <1>8, <2>1, MapAssumption DEF GetMemoryMap
    <3> QED BY <1>8, <2>1, <3>1, ImageKept DEF GetMemoryMap
  <2>2. CASE grown' \in 0..Grow /\ held' = held \cup {"map"} /\ UNCHANGED blPc
    BY <1>8, <2>2, ImageKept, MapAssumption DEF GetMemoryMap
  <2>3. CASE held' = held \ {"map"} /\ Leave("dead") /\ UNCHANGED <<MapSize, grown>>
    BY <1>8, <2>3, ImageKept DEF GetMemoryMap
  <2> QED BY <1>8, <2>1, <2>2, <2>3 DEF GetMemoryMap
<1>9. CASE TimerEvent
  BY <1>9, ImageKept DEF TimerEvent
<1>10. CASE ExitBootServices
  <2>1. CASE current
    BY <1>10, <2>1, ImageKept DEF ExitBootServices, Refused
  <2>2. CASE ~current
    BY <1>10, <2>2, ImageKept DEF ExitBootServices, Refused
  <2> QED BY <2>1, <2>2
<1>11. CASE SetupVirtualAddresses
  <2>1. blPc = "virtual" /\ blPc' \in {"call", "dead"} /\ UNCHANGED <<load, held, MapSize, grown, current, services>>
    BY <1>11 DEF SetupVirtualAddresses
  <2> QED BY <2>1, ImageKept
<1>12. CASE CallKernelThroughGate
  BY <1>12, ImageKept DEF CallKernelThroughGate
<1>13. CASE UNCHANGED blVars
  BY <1>13, ImageKept DEF blVars, kiVars, loaderVars
<1> QED
  BY <1>1, <1>2, <1>3, <1>4, <1>5, <1>6, <1>7, <1>8, <1>9, <1>10, <1>11, <1>12, <1>13 DEF BootLoaderNext

-----------------------------------------------------------------------------

\* Whatever fails, and however often the firmware changes its memory map: the
\* kernel is entered with all it was promised and the boot services gone, and a
\* loader that gives up leaves the firmware no parameters, event or header pools.
THEOREM LoaderCorrect == BootLoaderSpec => []LoaderSound
<1>1. LoaderInv => LoaderSound
  BY DEF LoaderInv, ImageInv, PlaceInv, MapInv, LoaderSound, KernelReady, Late, Leaves, Returned, PoolsFreed
<1> QED BY LoaderInitInv, LoaderStepInv, <1>1, PTL DEF BootLoaderSpec

-----------------------------------------------------------------------------
(* What LoadKernel() leaves in memory.                                     *)

\* What Max and Min choose from a set of natural numbers.
LEMMA MinIs ==
  ASSUME NEW S \in SUBSET Nat, S # {}
  PROVE  Min(S) \in S /\ \A y \in S : Min(S) <= y
<1>1. \E m \in S : \A k \in S : m <= k
  BY LeastNatural
<1> QED BY <1>1 DEF Min

\* A bounded set of numbers that is not empty has a greatest element.
LEMMA MaxIs ==
  ASSUME NEW S \in SUBSET Nat, S # {}, NEW b \in Nat, \A x \in S : x <= b
  PROVE  Max(S) \in S /\ \A y \in S : y <= Max(S)
<1> DEFINE T == {b - x : x \in S}
<1>1. T \in SUBSET Nat /\ T # {}
  <2>1. \A x \in S : b - x \in Nat
    OBVIOUS
  <2> QED BY <2>1
<1>2. PICK m \in T : \A k \in T : m <= k
  <2> HIDE DEF T
  <2> QED BY <1>1, LeastNatural
<1>3. PICK x \in S : m = b - x
  BY <1>2
<1>4. \A y \in S : x >= y
  <2> TAKE y \in S
  <2>1. b - x <= b - y /\ x \in Nat /\ y \in Nat
    BY <1>2, <1>3
  <2> QED BY <2>1
<1>5. \E z \in S : \A y \in S : z >= y
  BY <1>4
<1>6. Max(S) \in S /\ \A y \in S : Max(S) >= y
  BY <1>5 DEF Max
<1>7. \A y \in S : y \in Nat /\ Max(S) \in Nat
  BY <1>6
<1> QED BY <1>6, <1>7

\* The segments of a kernel file.
LEMMA SegmentsAre ==
  ASSUME NEW g \in Images
  PROVE  /\ Len(g.segments) \in Nat /\ DOMAIN g.segments = 1..Len(g.segments)
         /\ \A i \in 1..Len(g.segments) : g.segments[i] \in Segments
         /\ ToSet(g.segments) = {g.segments[i] : i \in 1..Len(g.segments)}
<1>1. g.segments \in Seq(Segments)
  BY ImagesAssumption
<1> QED BY <1>1 DEF ToSet

\* Some address is behind all segments.
LEMMA SegmentsBounded ==
  ASSUME NEW g \in Images
  PROVE  \E b \in Nat : \A i \in 1..Len(g.segments) : EndOf(g.segments[i]) <= b
<1> DEFINE n == Len(g.segments)
           S == {k \in 0..n : \E b \in Nat : \A i \in 1..k : EndOf(g.segments[i]) <= b}
<1>1. n \in Nat /\ \A i \in 1..n : EndOf(g.segments[i]) \in Nat
  BY SegmentsAre DEF EndOf, Segments
<1> HIDE DEF n
<1>2. 0 \in S
  <2>1. 0 \in 0..n /\ 1..0 = {}
    BY <1>1
  <2> QED BY <2>1
<1>3. \A k \in 0..(n - 1) : k \in S => k + 1 \in S
  <2> SUFFICES ASSUME NEW k \in 0..(n - 1), k \in S PROVE k + 1 \in S
    OBVIOUS
  <2>1. PICK b \in Nat : \A i \in 1..k : EndOf(g.segments[i]) <= b
    OBVIOUS
  <2>2. k + 1 \in 1..n /\ k + 1 \in 0..n /\ \A i \in 1..(k + 1) : i \in 1..n /\ (i \in 1..k \/ i = k + 1)
    BY <1>1
  <2> DEFINE e == EndOf(g.segments[k + 1])
  <2>3. e \in Nat
    BY <1>1, <2>2
  <2>4. \A i \in 1..(k + 1) : EndOf(g.segments[i]) <= b + e
    <3> TAKE i \in 1..(k + 1)
    <3>1. EndOf(g.segments[i]) \in Nat
      BY <1>1, <2>2
    <3>2. EndOf(g.segments[i]) <= b \/ EndOf(g.segments[i]) = e
      BY <2>1, <2>2
    <3> HIDE DEF e
    <3> QED BY <2>3, <3>1, <3>2
  <2>5. b + e \in Nat
    BY <2>3
  <2> QED BY <2>2, <2>4, <2>5
<1>4. 0..n \subseteq S
  <2> HIDE DEF S
  <2> QED BY <1>1, <1>2, <1>3, BoundedInduction
<1>5. n \in S
  <2>1. n \in 0..n
    BY <1>1
  <2> HIDE DEF S
  <2> QED BY <1>4, <2>1
<1> QED BY <1>5 DEF n

\* The pages of the kernel hold every segment that is loaded.
LEMMA KernelArea ==
  ASSUME image \in Images, NEW s \in Loaded
  PROVE  s.pa..(s.pa + s.memsz - 1) \subseteq MinAddress..(MaxAddress - 1)
<1>0. /\ ToSet(image.segments) = {image.segments[i] : i \in 1..Len(image.segments)}
      /\ \A i \in 1..Len(image.segments) : image.segments[i] \in Segments
  BY SegmentsAre
<1>1. Loaded \subseteq Segments /\ \A q \in Loaded : \E i \in 1..Len(image.segments) : q = image.segments[i]
  BY <1>0 DEF Loaded
<1>2. \A q \in Loaded : q.pa \in Nat /\ q.memsz \in Nat /\ EndOf(q) \in Nat
  BY <1>1 DEF Segments, EndOf
<1>3. MinAddress \in Nat /\ MinAddress <= s.pa
  <2>1. {q.pa : q \in Loaded} \in SUBSET Nat /\ s.pa \in {q.pa : q \in Loaded}
    BY <1>2
  <2> QED BY <2>1, MinIs DEF MinAddress
<1>4. MaxAddress \in Nat /\ EndOf(s) <= MaxAddress
  <2>1. {EndOf(q) : q \in Loaded} \in SUBSET Nat /\ EndOf(s) \in {EndOf(q) : q \in Loaded}
    BY <1>2
  <2>2. PICK b \in Nat : \A i \in 1..Len(image.segments) : EndOf(image.segments[i]) <= b
    BY SegmentsBounded
  <2>3. \A x \in {EndOf(q) : q \in Loaded} : x <= b
    BY <1>1, <2>2
  <2> QED BY <2>1, <2>3, MaxIs DEF MaxAddress
<1>5. s.pa \in Nat /\ s.memsz \in Nat /\ s.pa + s.memsz <= MaxAddress
  BY <1>2, <1>4 DEF EndOf
<1> QED BY <1>3, <1>4, <1>5

\* The last of the first n segments that has a byte from the file at an address, 0
\* if none has.
Hits(q, a)      == q.load /\ a \in q.pa..(q.pa + q.filesz - 1)
Over(g, a, n)   == {i \in 1..n : Hits(g.segments[i], a)}
Latest(g, a, n) == IF Over(g, a, n) = {} THEN 0 ELSE Max(Over(g, a, n))

\* One more segment covers the address, or the one before still is the last.
LEMMA LatestStep ==
  ASSUME NEW g, NEW a, NEW n \in Nat
  PROVE  Latest(g, a, n + 1) = IF Hits(g.segments[n + 1], a) THEN n + 1 ELSE Latest(g, a, n)
<1>1. \A i : i \in 1..(n + 1) <=> i \in 1..n \/ i = n + 1
  OBVIOUS
<1>2. CASE Hits(g.segments[n + 1], a)
  <2>1. Over(g, a, n + 1) \in SUBSET Nat /\ n + 1 \in Over(g, a, n + 1)
        /\ \A x \in Over(g, a, n + 1) : x <= n + 1
    BY <1>1, <1>2 DEF Over
  <2>2. Max(Over(g, a, n + 1)) \in Over(g, a, n + 1) /\ n + 1 <= Max(Over(g, a, n + 1))
    BY <2>1, MaxIs
  <2>3. Max(Over(g, a, n + 1)) = n + 1
    BY <2>1, <2>2
  <2> QED BY <1>2, <2>1, <2>3 DEF Latest
<1>3. CASE ~Hits(g.segments[n + 1], a)
  <2>1. Over(g, a, n + 1) = Over(g, a, n)
    BY <1>1, <1>3 DEF Over
  <2> QED BY <1>3, <2>1 DEF Latest
<1> QED BY <1>2, <1>3

\* The code: after each segment what is in memory comes from the segments so far.
Filling == kiPc = "segment" \/ (kiPc \in {"free", "returned"} /\ kiStatus = "success")
CodeInv ==
  /\ image \in Images
  /\ Filling =>
       /\ Index \in 1..(Len(image.segments) + 1)
       /\ DOMAIN memory = MinAddress..(MaxAddress - 1)
       /\ \A a \in DOMAIN memory : memory[a] = Latest(image, a, Index - 1)
  /\ kiPc \in {"free", "returned"} /\ kiStatus = "success" => Index = Len(image.segments) + 1

\* LoadKernel() fills the pages of the kernel one segment after the other.
LEMMA CodeStep ==
  ASSUME ImageInv, CodeInv, LoadKernel
  PROVE  CodeInv'
<1>0. image' = image /\ image \in Images /\ Len(image.segments) \in Nat
      /\ MinAddress' = MinAddress /\ MaxAddress' = MaxAddress
  BY SegmentsAre DEF LoadKernel, CodeInv, MinAddress, MaxAddress, Loaded
<1>1. ASSUME ~Filling'
      PROVE  CodeInv'
  BY <1>0, <1>1 DEF CodeInv, Filling
<1>2. CASE GetKernelFile \/ ReadHeader \/ AllocatePools \/ ReadTables
  <2>1. ~Filling'
    <3>1. CASE GetKernelFile
      BY <3>1 DEF GetKernelFile, Return, GoOn, Filling
    <3>2. CASE ReadHeader
      BY <3>2 DEF ReadHeader, Return, GoOn, Filling
    <3>3. CASE AllocatePools
      BY <3>3 DEF AllocatePools, Return, GoOn, Filling
    <3>4. CASE ReadTables
      BY <3>4 DEF ReadTables, Return, GoOn, Filling
    <3> QED BY <1>2, <3>1, <3>2, <3>3, <3>4
  <2> QED BY <1>1, <2>1
<1>3. CASE NextName
  BY <1>1, <1>3 DEF NextName, Filling
<1>4. CASE CopySection
  BY <1>1, <1>4 DEF CopySection, Filling
<1>5. CASE AllocateKernel
  <2>1. CASE kiPc' = "free"
    BY <1>1, <1>5, <2>1 DEF AllocateKernel, Filling
  <2>2. CASE kiPc' # "free"
    <3>1. kiPc' = "segment" /\ Index' = 1 /\ memory' = [a \in MinAddress..(MaxAddress - 1) |-> 0]
      BY <1>5, <2>2 DEF AllocateKernel
    <3>2. \A a : Latest(image, a, 0) = 0
      <4>1. \A a : Over(image, a, 0) = {}
        <5>1. 1..0 = {}
          OBVIOUS
        <5> QED BY <5>1 DEF Over
      <4> QED BY <4>1 DEF Latest
    <3>3. Index' - 1 = 0 /\ Index' \in 1..(Len(image.segments) + 1)
      BY <1>0, <3>1
    <3>4. DOMAIN memory' = MinAddress..(MaxAddress - 1) /\ \A a \in DOMAIN memory' : memory'[a] = 0
      BY <3>1
    <3> QED BY <1>0, <3>1, <3>2, <3>3, <3>4 DEF CodeInv, Filling
  <2> QED BY <2>1, <2>2
<1>6. CASE ReadSegment
  <2>1. /\ kiPc = "segment" /\ Index \in 1..(Len(image.segments) + 1)
        /\ DOMAIN memory = MinAddress..(MaxAddress - 1)
        /\ \A a \in DOMAIN memory : memory[a] = Latest(image, a, Index - 1)
    BY <1>6 DEF ReadSegment, CodeInv, Filling
  <2>2. CASE Index > Len(image.segments)
    <3>1. kiPc' = "free" /\ UNCHANGED <<Index, memory>>
      BY <1>0, <1>6, <2>1, <2>2 DEF ReadSegment
    <3>2. Index = Len(image.segments) + 1
      BY <1>0, <2>1, <2>2
    <3> QED BY <1>0, <2>1, <3>1, <3>2 DEF CodeInv
  <2>3. CASE Index <= Len(image.segments)
    <3> DEFINE s == image.segments[Index]
    <3>1. s \in Segments /\ Index - 1 \in Nat /\ (Index - 1) + 1 = Index
          /\ Index + 1 \in 1..(Len(image.segments) + 1) /\ (Index + 1) - 1 = Index
      <4>1. Index \in 1..Len(image.segments)
        BY <1>0, <2>1, <2>3
      <4> QED BY <1>0, <4>1, SegmentsAre
    <3>2. \A a : Latest(image, a, Index) = IF Hits(s, a) THEN Index ELSE Latest(image, a, Index - 1)
      BY <3>1, LatestStep
    <3>3. s.pa \in Nat /\ s.filesz \in Nat
      BY <3>1 DEF Segments
    <3>4. CASE kiPc' = "free"
      <4>1. kiStatus' = "error"
        BY <1>0, <1>6, <2>1, <2>3, <3>4 DEF ReadSegment
      <4> QED BY <1>1, <3>4, <4>1 DEF Filling
    <3>5. CASE kiPc' # "free"
      <4>1. kiPc' = "segment" /\ Index' = Index + 1
        BY <1>0, <1>6, <2>1, <2>3, <3>5 DEF ReadSegment
      <4>2. CASE s.load /\ s.filesz > 0
        <5>1. memory' = [a \in DOMAIN memory |->
                           IF a \in s.pa..(s.pa + s.filesz - 1) THEN Index ELSE memory[a]]
          BY <1>0, <1>6, <2>1, <2>3, <3>5, <4>2 DEF ReadSegment
        <5>2. \A a \in DOMAIN memory : memory'[a] = Latest(image, a, Index)
          BY <2>1, <3>2, <4>2, <5>1 DEF Hits
        <5>3. DOMAIN memory' = DOMAIN memory
          BY <5>1
        <5> QED BY <1>0, <2>1, <3>1, <4>1, <5>2, <5>3 DEF CodeInv, Filling
      <4>3. CASE ~(s.load /\ s.filesz > 0)
        <5>1. memory' = memory
          BY <1>0, <1>6, <2>1, <2>3, <4>3 DEF ReadSegment
        <5>2. \A a : ~Hits(s, a)
          <6>1. ~(s.filesz > 0) => s.filesz = 0 /\ s.pa..(s.pa + s.filesz - 1) = {}
            BY <3>3
          <6> QED BY <4>3, <6>1 DEF Hits
        <5> QED BY <1>0, <2>1, <3>1, <3>2, <4>1, <5>1, <5>2 DEF CodeInv, Filling
      <4> QED BY <4>2, <4>3
    <3> QED BY <3>4, <3>5
  <2> QED BY <1>0, <2>1, <2>2, <2>3
<1>7. CASE GiveBack
  <2>1. kiPc = "free" /\ kiPc' = "returned" /\ UNCHANGED <<kiStatus, Index, memory>>
    BY <1>7 DEF GiveBack, Return
  <2> QED BY <1>0, <2>1 DEF CodeInv, Filling
<1> QED BY <1>2, <1>3, <1>4, <1>5, <1>6, <1>7 DEF LoadKernel

\* A kernel that is reported as loaded is there, whole.
LEMMA CodeIsLoaded ==
  ASSUME CodeInv
  PROVE  LoadedWhole
<1> SUFFICES ASSUME kiPc = "returned", kiStatus = "success", NEW s \in Loaded,
                    NEW a \in s.pa..(s.pa + s.memsz - 1)
             PROVE  a \in DOMAIN memory /\ memory[a] = Latest(image, a, Len(image.segments))
  BY DEF LoadedWhole, Returned, Latest, Over, Hits
<1>1. /\ image \in Images /\ Index = Len(image.segments) + 1
      /\ DOMAIN memory = MinAddress..(MaxAddress - 1)
      /\ \A x \in DOMAIN memory : memory[x] = Latest(image, x, Index - 1)
  BY DEF CodeInv, Filling
<1>2. a \in DOMAIN memory
  BY <1>1, KernelArea
<1>3. Index - 1 = Len(image.segments)
  BY <1>1, SegmentsAre
<1> QED BY <1>1, <1>2, <1>3

\* The debug tables: what a table points to is a copy of the section of its name,
\* and of the sections so far none was left out unless a call failed.
Copied(n) == failures = 0 =>
  \A j \in 1..n : image.sections[j] \in ToSet(Tables) => tables[image.sections[j]] # 0

TablesInv ==
  /\ image \in Images /\ failures \in Nat
  /\ DOMAIN tables = ToSet(Tables)
  /\ kiPc \in BeforeNames => Index = 1
  /\ kiPc \in InNames => Index \in 1..(Len(image.sections) + 1) /\ Copied(Index - 1)
  /\ kiPc = "search" => Index <= Len(image.sections)
  /\ kiPc = "allocate" \/ Filling => Copied(Len(image.sections))
  /\ ~(Returned /\ kiStatus = "error") =>
       \A t \in ToSet(Tables) : tables[t] # 0 =>
         /\ tables[t] \in copies /\ tables[t] \in 1..Len(image.sections)
         /\ image.sections[tables[t]] = t

\* A number of sections is a natural number.
LEMMA SectionsAre ==
  ASSUME NEW g \in Images
  PROVE  Len(g.sections) \in Nat /\ DOMAIN g.sections = 1..Len(g.sections)
<1>1. g.sections \in Seq(STRING)
  BY ImagesAssumption
<1> QED BY <1>1

\* A name is found in mDebugMapping[] exactly if it is there.
LEMMA PlaceFound ==
  ASSUME NEW name
  PROVE  PlaceOf(name) > Len(Tables) <=> name \notin ToSet(Tables)
<1>0. Len(Tables) \in Nat /\ DOMAIN Tables = 1..Len(Tables)
  BY TablesAssumption
<1>1. CASE name \in ToSet(Tables)
  <2>1. \E t \in 1..Len(Tables) : Tables[t] = name
    BY <1>0, <1>1 DEF ToSet
  <2>2. (CHOOSE t \in 1..Len(Tables) : Tables[t] = name) \in 1..Len(Tables)
    BY <2>1
  <2>3. PlaceOf(name) \in 1..Len(Tables)
    BY <1>1, <2>2 DEF PlaceOf
  <2> QED BY <1>0, <1>1, <2>3
<1>2. CASE name \notin ToSet(Tables)
  BY <1>0, <1>2 DEF PlaceOf
<1> QED BY <1>1, <1>2

\* A call of the firmware that fails is counted.
LEMMA FailuresCounted ==
  ASSUME failures \in Nat, Fails \/ Works
  PROVE  failures' \in Nat /\ (failures' = 0 => Works /\ failures = 0)
BY DEF Fails, Works

\* Steps that do not touch the tables.
LEMMA TablesKept ==
  ASSUME TablesInv, UNCHANGED <<image, tables, copies>>, failures' \in Nat, failures' = 0 => failures = 0,
         kiPc' \in BeforeNames => kiPc \in BeforeNames /\ Index' = Index,
         kiPc' \in InNames => Index' = Index /\ (kiPc \in InNames \/ (kiPc \in BeforeNames /\ kiPc' = "name")),
         kiPc' = "search" => Index <= Len(image.sections),
         (kiPc' = "allocate" \/ Filling') =>
            \/ kiPc = "allocate" \/ Filling
            \/ kiPc = "name" /\ Index > Len(image.sections),
         ~(Returned /\ kiStatus = "error")
  PROVE  TablesInv'
<1>1. Len(image.sections) \in Nat /\ image \in Images /\ \A n : Copied(n) => Copied(n)'
  BY SectionsAre DEF TablesInv, Copied
<1>2. kiPc' \in InNames => Index' \in 1..(Len(image.sections) + 1) /\ Copied(Index' - 1)
  <2>1. CASE kiPc \in InNames
    BY <2>1 DEF TablesInv
  <2>2. CASE kiPc \in BeforeNames
    <3>1. Index = 1 /\ 1 - 1 = 0 /\ 1..0 = {}
      BY <2>2 DEF TablesInv
    <3>2. Copied(0)
      BY <3>1 DEF Copied
    <3>3. 1 \in 1..(Len(image.sections) + 1)
      BY <1>1
    <3> QED BY <3>1, <3>2, <3>3
  <2> QED BY <2>1, <2>2
<1>3. kiPc' = "allocate" \/ Filling' => Copied(Len(image.sections))
  <2>1. CASE kiPc = "name" /\ Index > Len(image.sections)
    <3>1. Index \in 1..(Len(image.sections) + 1) /\ Copied(Index - 1)
      BY <2>1 DEF TablesInv, InNames
    <3>2. Index - 1 = Len(image.sections)
      BY <1>1, <2>1, <3>1
    <3> QED BY <3>1, <3>2
  <2> QED BY <2>1 DEF TablesInv
<1>4. kiPc' \in InNames => Copied(Index - 1)'
  <2>1. ASSUME kiPc' \in InNames PROVE Copied(Index - 1)'
    <3>1. Copied(Index - 1) /\ Index' = Index
      BY <1>2, <2>1
    <3> QED BY <1>1, <3>1 DEF Copied
  <2> QED BY <2>1
<1>5. kiPc' = "allocate" \/ Filling' => Copied(Len(image.sections))'
  BY <1>1, <1>3 DEF Copied
<1>6. kiPc' \in InNames => Index' \in 1..(Len(image'.sections) + 1)
  BY <1>2
<1>7. kiPc' \in BeforeNames => Index' = 1
  BY DEF TablesInv
<1>8. kiPc' = "search" => Index' <= Len(image'.sections)
  <2>1. kiPc' = "search" => Index' = Index
    BY DEF InNames
  <2> QED BY <2>1
<1>9. \A t \in ToSet(Tables) : tables'[t] # 0 =>
         /\ tables'[t] \in copies' /\ tables'[t] \in 1..Len(image'.sections)
         /\ image'.sections[tables'[t]] = t
  BY DEF TablesInv
<1>10. image' \in Images /\ DOMAIN tables' = ToSet(Tables)
  BY DEF TablesInv
<1> QED BY <1>4, <1>5, <1>6, <1>7, <1>8, <1>9, <1>10 DEF TablesInv

\* LoadKernel() copies the debug tables one section after the other.
LEMMA TablesStep ==
  ASSUME ImageInv, TablesInv, LoadKernel
  PROVE  TablesInv'
<1>0. image' = image /\ image \in Images /\ Len(image.sections) \in Nat /\ failures \in Nat
  BY SectionsAre DEF LoadKernel, TablesInv
<1> DEFINE Counted == failures' \in Nat /\ (failures' = 0 => failures = 0)
<1>1. CASE GetKernelFile \/ ReadHeader \/ AllocatePools \/ ReadTables
  <2>1. /\ UNCHANGED <<tables, copies, Index>> /\ (Fails \/ Works)
        /\ kiPc \in BeforeNames
        /\ \/ kiPc' \in BeforeNames \cup {"name"}
           \/ kiPc' = "returned" /\ kiStatus' = "error"
    <3>1. CASE GetKernelFile
      BY <3>1 DEF GetKernelFile, Return, GoOn, BeforeNames, BeforePools
    <3>2. CASE ReadHeader
      BY <3>2 DEF ReadHeader, Return, GoOn, BeforeNames, BeforePools
    <3>3. CASE AllocatePools
      BY <3>3 DEF AllocatePools, Return, GoOn, BeforeNames, BeforePools
    <3>4. CASE ReadTables
      BY <3>4 DEF ReadTables, Return, GoOn, BeforeNames, BeforePools
    <3> QED BY <1>1, <3>1, <3>2, <3>3, <3>4
  <2>2. Counted
    BY <1>0, <2>1, FailuresCounted
  <2>3. ~Filling' /\ kiPc' \notin {"search", "allocate"} /\ ~Returned
        /\ (kiPc' \in BeforeNames => kiPc' \notin InNames)
    BY <2>1 DEF Filling, Returned, BeforeNames, BeforePools, InNames
  <2>4. kiPc' \in InNames => kiPc' = "name"
    BY <2>1, <2>3 DEF BeforeNames, BeforePools, InNames
  <2> QED BY <1>0, <2>1, <2>2, <2>3, <2>4, TablesKept
<1>2. CASE NextName
  <2>1. /\ kiPc = "name" /\ UNCHANGED <<tables, copies, Index>> /\ (Fails \/ Works)
        /\ \/ kiPc' = "free" /\ kiStatus' = "error"
           \/ kiPc' = "allocate" /\ Index > Len(image.sections)
           \/ kiPc' = "search" /\ Index <= Len(image.sections)
    <3>1. CASE Index > Len(image.sections)
      <4>1. kiPc' = (IF kiStatus = "error" THEN "free" ELSE "allocate") /\ UNCHANGED kiStatus /\ Works
            /\ kiPc = "name" /\ UNCHANGED <<tables, copies, Index>>
        BY <1>0, <1>2, <3>1, SectionsAre DEF NextName, InNames, TablesInv
      <4> QED BY <3>1, <4>1
    <3>2. CASE ~(Index > Len(image.sections))
      BY <1>2, <3>2 DEF NextName
    <3> QED BY <3>1, <3>2
  <2>2. Counted
    BY <1>0, <2>1, FailuresCounted
  <2>3. (Filling' => FALSE) /\ ~Returned /\ kiPc' \notin BeforeNames /\ kiPc \in InNames
    BY <2>1 DEF Filling, Returned, BeforeNames, BeforePools, InNames
  <2> QED BY <1>0, <2>1, <2>2, <2>3, TablesKept
<1>3. CASE CopySection
  <2> DEFINE name == image.sections[Index]
  <2>1. /\ kiPc = "search" /\ kiPc' = "name" /\ Index' = Index + 1
        /\ Index \in 1..Len(image.sections) /\ Copied(Index - 1) /\ DOMAIN tables = ToSet(Tables)
        /\ \A t \in ToSet(Tables) : tables[t] # 0 =>
             /\ tables[t] \in copies /\ tables[t] \in 1..Len(image.sections)
             /\ image.sections[tables[t]] = t
    <3>1. kiPc = "search" /\ kiPc' = "name" /\ Index' = Index + 1
      BY <1>3 DEF CopySection
    <3>2. Index \in 1..(Len(image.sections) + 1) /\ Index <= Len(image.sections) /\ Copied(Index - 1)
      BY <3>1 DEF TablesInv, InNames
    <3> QED BY <1>0, <3>1, <3>2 DEF TablesInv, Returned
  <2>2. \/ name \notin ToSet(Tables) /\ Works /\ UNCHANGED <<copies, tables>>
        \/ Fails /\ UNCHANGED <<copies, tables>>
        \/ /\ name \in ToSet(Tables) /\ Works
           /\ copies' = copies \cup {Index} /\ tables' = [tables EXCEPT ![name] = Index]
    <3>1. Index2' = PlaceOf(name)
      BY <1>3 DEF CopySection
    <3>2. Index2' <= Len(Tables) => ~(Index2' > Len(Tables))
      <4>1. Len(Tables) \in Nat /\ PlaceOf(name) \in Int
        <5>1. Len(Tables) \in Nat /\ DOMAIN Tables = 1..Len(Tables)
          BY TablesAssumption
        <5>2. ASSUME name \in ToSet(Tables) PROVE PlaceOf(name) \in Int
          <6>1. \E t \in 1..Len(Tables) : Tables[t] = name
            BY <5>1, <5>2 DEF ToSet
          <6>2. (CHOOSE t \in 1..Len(Tables) : Tables[t] = name) \in 1..Len(Tables)
            BY <6>1
          <6> QED BY <5>2, <6>2 DEF PlaceOf
        <5>3. ASSUME name \notin ToSet(Tables) PROVE PlaceOf(name) \in Int
          BY <5>1, <5>3 DEF PlaceOf
        <5> QED BY <5>1, <5>2, <5>3
      <4> QED BY <3>1, <4>1
    <3>3. Index2' > Len(Tables) <=> name \notin ToSet(Tables)
      BY <3>1, PlaceFound
    <3> QED BY <1>3, <3>2, <3>3 DEF CopySection
  <2>3. Counted
    BY <1>0, <2>2, FailuresCounted
  <2>4. DOMAIN tables' = ToSet(Tables)
    BY <2>1, <2>2
  <2>5. \A t \in ToSet(Tables) : tables'[t] # 0 =>
           /\ tables'[t] \in copies' /\ tables'[t] \in 1..Len(image.sections)
           /\ image.sections[tables'[t]] = t
    <3> SUFFICES ASSUME NEW t \in ToSet(Tables), tables'[t] # 0
                 PROVE  /\ tables'[t] \in copies' /\ tables'[t] \in 1..Len(image.sections)
                        /\ image.sections[tables'[t]] = t
      OBVIOUS
    <3>1. CASE UNCHANGED <<copies, tables>>
      BY <2>1, <3>1
    <3>2. CASE copies' = copies \cup {Index} /\ tables' = [tables EXCEPT ![name] = Index]
      BY <2>1, <3>2
    <3> QED BY <2>2, <3>1, <3>2
  <2>6. failures' = 0 => \A j \in 1..Index : image.sections[j] \in ToSet(Tables) => tables'[image.sections[j]] # 0
    <3> SUFFICES ASSUME failures' = 0, NEW j \in 1..Index, image.sections[j] \in ToSet(Tables)
                 PROVE  tables'[image.sections[j]] # 0
      OBVIOUS
    <3>1. failures = 0 /\ Works /\ ~Fails
      BY <1>0, <2>2, FailuresCounted DEF Fails, Works
    <3>2. j \in 1..(Index - 1) \/ j = Index
      BY <2>1
    <3>3. j \in 1..(Index - 1) => tables[image.sections[j]] # 0
      BY <2>1, <3>1 DEF Copied
    <3>4. Index # 0
      BY <2>1
    <3> QED BY <2>1, <2>2, <3>1, <3>2, <3>3, <3>4
  <2>7. Index' \in 1..(Len(image.sections) + 1) /\ Index' - 1 = Index
    BY <1>0, <2>1
  <2>8. Copied(Index - 1)'
    BY <1>0, <2>6, <2>7 DEF Copied
  <2>9. kiPc' \notin BeforeNames /\ kiPc' # "search" /\ kiPc' # "allocate" /\ ~Filling'
    BY <2>1 DEF BeforeNames, BeforePools, Filling
  <2> HIDE DEF name
  <2> QED BY <1>0, <2>3, <2>4, <2>5, <2>7, <2>8, <2>9 DEF TablesInv
<1>4. CASE AllocateKernel \/ ReadSegment
  <2>1. /\ kiPc \in {"allocate", "segment"} /\ UNCHANGED <<tables, copies>> /\ (Fails \/ Works)
        /\ kiPc' \in {"segment", "free"}
    <3>1. CASE AllocateKernel
      <4>1. Fails \/ Works
        BY <3>1 DEF AllocateKernel
      <4> QED BY <3>1, <4>1 DEF AllocateKernel
    <3>2. CASE ReadSegment
      BY <3>2 DEF ReadSegment
    <3> QED BY <1>4, <3>1, <3>2
  <2>2. Counted
    BY <1>0, <2>1, FailuresCounted
  <2>3. ~Returned /\ kiPc' \notin BeforeNames /\ kiPc' \notin InNames /\ (kiPc = "allocate" \/ Filling)
    BY <2>1 DEF Filling, Returned, BeforeNames, BeforePools, InNames
  <2> QED BY <1>0, <2>1, <2>2, <2>3, TablesKept DEF InNames
<1>5. CASE GiveBack
  <2>1. kiPc = "free" /\ kiPc' = "returned" /\ Works /\ kiStatus' = kiStatus
    BY <1>5 DEF GiveBack, Return
  <2>2. Counted
    BY <1>0, <2>1, FailuresCounted
  <2>3. ~Returned /\ kiPc' \notin BeforeNames /\ kiPc' \notin InNames
    BY <2>1 DEF Returned, BeforeNames, BeforePools, InNames
  <2>4. CASE kiStatus = "success"
    <3>1. UNCHANGED <<tables, copies>>
      BY <1>5, <2>4 DEF GiveBack, Return
    <3>2. Filling
      BY <2>1, <2>4 DEF Filling
    <3> QED BY <1>0, <2>1, <2>2, <2>3, <3>1, <3>2, TablesKept DEF InNames
  <2>5. CASE kiStatus # "success"
    <3>1. UNCHANGED tables /\ kiStatus = "error"
      BY <1>5, <2>5 DEF GiveBack, ImageInv
    <3>2. Returned' /\ kiStatus' = "error" /\ ~Filling' /\ kiPc' # "search" /\ kiPc' # "allocate"
      BY <2>1, <3>1 DEF Returned, Filling
    <3> QED BY <1>0, <2>2, <2>3, <3>1, <3>2 DEF TablesInv
  <2> QED BY <2>4, <2>5
<1> QED BY <1>1, <1>2, <1>3, <1>4, <1>5 DEF LoadKernel

\* The kernel finds its debug tables where the copies are.
LEMMA TablesAreCopies ==
  ASSUME TablesInv
  PROVE  TablesSound
<1> SUFFICES ASSUME kiPc = "returned", kiStatus = "success", NEW t \in ToSet(Tables)
             PROVE  /\ tables[t] # 0 => tables[t] \in copies /\ image.sections[tables[t]] = t
                    /\ failures = 0 /\ t \in ToSet(image.sections) => tables[t] # 0
  BY DEF TablesSound, Returned
<1>1. image \in Images /\ Copied(Len(image.sections))
  BY DEF TablesInv, Filling
<1>2. ToSet(image.sections) = {image.sections[j] : j \in 1..Len(image.sections)}
  BY <1>1, SectionsAre DEF ToSet
<1> QED BY <1>1, <1>2 DEF TablesInv, Copied, Returned

\* Outside of LoadKernel() the kernel stays as it was loaded.
LEMMA KernelKept ==
  ASSUME CodeInv, TablesInv, UNCHANGED load, Fails \/ Works \/ failures' = failures
  PROVE  CodeInv' /\ TablesInv'
<1>1. failures' \in Nat /\ (failures' = 0 => failures = 0)
  BY FailuresCounted DEF TablesInv, Works
<1>2. CodeInv'
  BY DEF load, CodeInv, Filling, MinAddress, MaxAddress, Loaded
<1>3. TablesInv'
  BY <1>1 DEF load, TablesInv, Filling, Copied, Returned
<1> QED BY <1>2, <1>3

\* Whatever the firmware fails at, a kernel that is entered is in memory as its
\* file says, and finds each of its debug tables in a copy of the section of that
\* name, which is there for every section if no call failed.
THEOREM KernelIsLoaded == BootLoaderSpec => []KernelLoaded
<1>1. BootLoaderInit => CodeInv /\ TablesInv
  <2> SUFFICES ASSUME BootLoaderInit PROVE CodeInv /\ TablesInv
    OBVIOUS
  <2>1. kiPc = "open" /\ image \in Images /\ failures = 0 /\ Index = 1
        /\ tables = [t \in ToSet(Tables) |-> 0]
    BY DEF BootLoaderInit, LoaderStart, ImageStart
  <2> QED BY <2>1 DEF CodeInv, TablesInv, Filling, BeforeNames, BeforePools, InNames
<1>2. LoaderInv /\ CodeInv /\ TablesInv /\ [BootLoaderNext]_blVars => CodeInv' /\ TablesInv'
  <2> SUFFICES ASSUME LoaderInv, CodeInv, TablesInv, [BootLoaderNext]_blVars
               PROVE  CodeInv' /\ TablesInv'
    OBVIOUS
  <2>1. CASE Load
    BY <2>1, CodeStep, TablesStep DEF Load, LoaderInv
  <2>2. CASE Start \/ AcpiFindRsdp \/ InitGraphics \/ CreateEvent \/ IsLoaded
    <3>1. UNCHANGED load
      BY <2>2 DEF Start, AcpiFindRsdp, InitGraphics, CreateEvent, IsLoaded
    <3>2. Fails \/ Works
      BY <2>2 DEF Start, AcpiFindRsdp, InitGraphics, CreateEvent, IsLoaded
    <3> QED BY <3>1, <3>2, KernelKept
  <2>3. CASE GenerateGateData \/ GetMemoryMap \/ TimerEvent \/ ExitBootServices
             \/ SetupVirtualAddresses \/ CallKernelThroughGate
    <3>1. UNCHANGED load
      BY <2>3 DEF GenerateGateData, GetMemoryMap, TimerEvent, ExitBootServices,
         SetupVirtualAddresses, CallKernelThroughGate
    <3>2. Fails \/ Works \/ failures' = failures
      BY <2>3 DEF GenerateGateData, GetMemoryMap, TimerEvent, ExitBootServices,
         SetupVirtualAddresses, CallKernelThroughGate
    <3> QED BY <3>1, <3>2, KernelKept
  <2>4. CASE UNCHANGED blVars
    BY <2>4, KernelKept DEF blVars, kiVars, load
  <2> QED BY <2>1, <2>2, <2>3, <2>4 DEF BootLoaderNext
<1>3. CodeInv /\ TablesInv => KernelLoaded
  BY CodeIsLoaded, TablesAreCopies DEF KernelLoaded
<1> QED BY <1>1, <1>2, <1>3, LoaderInitInv, LoaderStepInv, PTL DEF BootLoaderSpec

-----------------------------------------------------------------------------
(* What the kernel is told.                                                *)

BeforeGop  == {"time", "params", "acpi"}
BeforeTold == BeforeGop \cup {"gop", "mode"}

\* A mode of the screen, and a table of the firmware, by their index.
Large(m)  == board.modes[m].width > 1200 /\ board.modes[m].height > 720
Has(t, n) == \E i \in 1..n : board.tables[i] = t

\* None of the modes that were passed over is large; the one that was taken is the
\* first, or setting it failed.
ScreenInv ==
  /\ blPc \in {"time", "params"} => at = 1
  /\ blPc = "gop" => at = 1
  /\ blPc = "mode" => at \in 1..(Len(board.modes) + 1) /\ \A m \in 1..(at - 1) : ~Large(m)
  /\ blPc \notin BeforeTold \cup {"returned"} /\ failures = 0 =>
       \A m \in 1..Len(board.modes) : Large(m) => Large(screen) /\ screen <= m
  /\ blPc \notin BeforeTold \cup {"told", "returned"} => told = screen

\* The root that was found is the best of the tables that were looked at.
RsdpInv ==
  /\ blPc \in {"time", "params"} => rsdp = 0
  /\ blPc = "acpi" =>
       /\ at \in 1..(Len(board.tables) + 1)
       /\ rsdp \in 0..(at - 1)
       /\ ~Has("acpi20", at - 1)
       /\ Has("acpi10", at - 1) => rsdp # 0
       /\ rsdp # 0 => board.tables[rsdp] = "acpi10"
  /\ blPc \notin BeforeGop \cup {"returned"} =>
       /\ Has("acpi20", Len(board.tables)) =>
            rsdp \in 1..Len(board.tables) /\ board.tables[rsdp] = "acpi20"
       /\ ~Has("acpi20", Len(board.tables)) /\ Has("acpi10", Len(board.tables)) =>
            rsdp \in 1..Len(board.tables) /\ board.tables[rsdp] = "acpi10"
       /\ ~Has("acpi20", Len(board.tables)) /\ ~Has("acpi10", Len(board.tables)) =>
            rsdp = AcpiFindLegacyRsdp

\* The runtime services are where CurrentAddress says.
VirtualInv ==
  /\ DOMAIN virtual = 1..Len(board.map)
  /\ blPc = "call" => \A i \in DOMAIN virtual : Kept(board.map[i]) => virtual[i] = CurrentAddress[i]

ToldInv ==
  /\ board \in Boards /\ failures \in Nat
  /\ ScreenInv /\ RsdpInv /\ VirtualInv

\* The tables, modes and pieces of the memory map of a machine.
LEMMA BoardIs ==
  ASSUME NEW b \in Boards
  PROVE  /\ Len(b.tables) \in Nat /\ DOMAIN b.tables = 1..Len(b.tables)
         /\ \A i \in 1..Len(b.tables) : b.tables[i] \in {"acpi20", "acpi10", "other"}
         /\ Len(b.modes) \in Nat /\ DOMAIN b.modes = 1..Len(b.modes)
         /\ Len(b.map) \in Nat /\ DOMAIN b.map = 1..Len(b.map)
         /\ \A i \in 1..Len(b.map) : b.map[i].pages \in Nat
<1>1. /\ b.tables \in Seq({"acpi20", "acpi10", "other"}) /\ b.modes \in Seq([width : Nat, height : Nat])
      /\ b.map \in Seq([type : STRING, runtime : BOOLEAN, pages : Nat])
  BY BoardsAssumption
<1>2. Len(b.tables) \in Nat /\ DOMAIN b.tables = 1..Len(b.tables)
      /\ \A i \in 1..Len(b.tables) : b.tables[i] \in {"acpi20", "acpi10", "other"}
  BY <1>1
<1>3. Len(b.modes) \in Nat /\ DOMAIN b.modes = 1..Len(b.modes)
  BY <1>1
<1>4. Len(b.map) \in Nat /\ DOMAIN b.map = 1..Len(b.map)
      /\ \A i \in 1..Len(b.map) : b.map[i] \in [type : STRING, runtime : BOOLEAN, pages : Nat]
  <2> DEFINE P == [type : STRING, runtime : BOOLEAN, pages : Nat]
  <2>1. b.map \in Seq(P)
    BY <1>1
  <2> HIDE DEF P
  <2>2. Len(b.map) \in Nat /\ DOMAIN b.map = 1..Len(b.map) /\ \A i \in 1..Len(b.map) : b.map[i] \in P
    BY <2>1
  <2> QED BY <2>2 DEF P
<1> QED BY <1>2, <1>3, <1>4

\* CurrentAddress solves its recursion, which some function does: it is found for
\* one piece of the memory map after the other.
Length(i) == IF Kept(board.map[i]) THEN board.map[i].pages ELSE 0
Solves(f, n) == f = [i \in 1..n |-> IF i = 1 THEN VIRT_ADDR_START ELSE f[i - 1] + Length(i - 1)]

\* There is such a function for every length of the map.
LEMMA Solvable ==
  ASSUME NEW n \in Nat
  PROVE  \E f : Solves(f, n)
<1> DEFINE S == {k \in Nat : \E f : Solves(f, k)}
<1>1. 0 \in S
  <2>1. Solves([i \in 1..0 |-> 0], 0)
    <3>1. 1..0 = {}
      OBVIOUS
    <3> QED BY <3>1 DEF Solves
  <2> QED BY <2>1
<1>2. \A k \in Nat : k \in S => k + 1 \in S
  <2> SUFFICES ASSUME NEW k \in Nat, k \in S PROVE \E h : Solves(h, k + 1)
    OBVIOUS
  <2>1. PICK f : Solves(f, k)
    OBVIOUS
  <2> DEFINE last == IF k = 0 THEN VIRT_ADDR_START ELSE f[k] + Length(k)
             h == [i \in 1..(k + 1) |-> IF i = k + 1 THEN last ELSE f[i]]
  <2>2. \A i \in 1..(k + 1) : h[i] = IF i = 1 THEN VIRT_ADDR_START ELSE h[i - 1] + Length(i - 1)
    <3> TAKE i \in 1..(k + 1)
    <3>1. CASE i = k + 1
      <4>1. h[i] = last
        BY <3>1
      <4>2. k # 0 => h[k] = f[k] /\ i - 1 = k /\ i # 1
        BY <3>1
      <4>3. k = 0 => i = 1
        BY <3>1
      <4> HIDE DEF h
      <4> QED BY <4>1, <4>2, <4>3
    <3>2. CASE i # k + 1
      <4>1. i \in 1..k /\ h[i] = f[i]
        BY <3>2
      <4>2. f[i] = IF i = 1 THEN VIRT_ADDR_START ELSE f[i - 1] + Length(i - 1)
        BY <2>1, <4>1 DEF Solves
      <4>3. i # 1 => h[i - 1] = f[i - 1]
        BY <3>2
      <4> HIDE DEF h
      <4> QED BY <4>1, <4>2, <4>3
    <3> QED BY <3>1, <3>2
  <2>3. DOMAIN h = 1..(k + 1)
    OBVIOUS
  <2>4. h = [i \in 1..(k + 1) |-> h[i]]
    OBVIOUS
  <2> HIDE DEF h
  <2>5. Solves(h, k + 1)
    BY <2>2, <2>4 DEF Solves
  <2> QED BY <2>5
<1> HIDE DEF S
<1>3. n \in S
  BY <1>1, <1>2, SetInduction
<1> QED BY <1>3 DEF S

\* CurrentAddress is what the loop over the memory map computes.
LEMMA CurrentAddressIs ==
  ASSUME board \in Boards
  PROVE  \A i \in 1..Len(board.map) :
           CurrentAddress[i] = IF i = 1 THEN VIRT_ADDR_START ELSE CurrentAddress[i - 1] + Length(i - 1)
<1> DEFINE n == Len(board.map)
           F(f) == [i \in 1..n |-> IF i = 1 THEN VIRT_ADDR_START ELSE f[i - 1] + Length(i - 1)]
<1>1. CurrentAddress = CHOOSE f : f = F(f)
  BY DEF CurrentAddress, Length
<1>2. n \in Nat
  BY BoardIs
<1>3. \E f : f = F(f)
  BY <1>2, Solvable DEF Solves
<1> HIDE DEF F
<1>4. (CHOOSE f : f = F(f)) = F(CHOOSE f : f = F(f))
  BY <1>3
<1>5. CurrentAddress = F(CurrentAddress)
  BY <1>1, <1>4
<1> HIDE DEF CurrentAddress
<1> QED BY <1>5 DEF F

\* Each piece ends before the next ones begin.
LEMMA AddressesGrow ==
  ASSUME board \in Boards
  PROVE  \A j \in 1..Len(board.map) :
           /\ CurrentAddress[j] \in Nat
           /\ \A i \in 1..(j - 1) : CurrentAddress[i] + Length(i) <= CurrentAddress[j]
<1> DEFINE n == Len(board.map)
           A(j) == CurrentAddress[j] \in Nat
                   /\ \A i \in 1..(j - 1) : CurrentAddress[i] + Length(i) <= CurrentAddress[j]
           S == {k \in 0..n : \A j \in 1..k : A(j)}
<1>1. n \in Nat /\ \A i \in 1..n : Length(i) \in Nat
  BY BoardIs DEF Length
<1>2. \A i \in 1..n : CurrentAddress[i] = IF i = 1 THEN VIRT_ADDR_START ELSE CurrentAddress[i - 1] + Length(i - 1)
  BY CurrentAddressIs
<1> HIDE DEF n
<1>3. 0 \in S
  <2>1. 0 \in 0..n /\ 1..0 = {}
    BY <1>1
  <2> QED BY <2>1
<1>4. \A k \in 0..(n - 1) : k \in S => k + 1 \in S
  <2> SUFFICES ASSUME NEW k \in 0..(n - 1), k \in S PROVE k + 1 \in S
    OBVIOUS
  <2>1. k + 1 \in 0..n /\ k + 1 \in 1..n /\ \A j \in 1..(k + 1) : j \in 1..k \/ j = k + 1
    BY <1>1
  <2>2. A(k + 1)
    <3>1. CASE k = 0
      <4>1. CurrentAddress[1] = VIRT_ADDR_START
        BY <1>2, <2>1, <3>1
      <4>2. 1..(1 - 1) = {} /\ k + 1 = 1
        BY <3>1
      <4> QED BY <4>1, <4>2, MapAssumption
    <3>2. CASE k # 0
      <4>1. k \in 1..k /\ k \in 1..n /\ (k + 1) - 1 = k /\ k + 1 # 1
        BY <1>1, <3>2
      <4>2. A(k)
        BY <4>1
      <4> DEFINE c == CurrentAddress[k]
                 d == CurrentAddress[k + 1]
                 l == Length(k)
      <4>3. d = c + l /\ c \in Nat /\ l \in Nat
        BY <1>1, <1>2, <2>1, <4>1, <4>2
      <4>4. ASSUME NEW i \in 1..k PROVE CurrentAddress[i] + Length(i) <= d
        <5>1. CASE i = k
          BY <4>3, <5>1
        <5>2. CASE i # k
          <6>1. i \in 1..(k - 1) /\ i \in 1..k /\ i \in 1..n
            BY <1>1, <5>2
          <6>2. CurrentAddress[i] + Length(i) <= c /\ CurrentAddress[i] \in Nat /\ Length(i) \in Nat
            BY <1>1, <4>2, <6>1
          <6> HIDE DEF c, d, l
          <6> QED BY <4>3, <6>2
        <5> QED BY <5>1, <5>2
      <4>5. d \in Nat
        BY <4>3
      <4> QED BY <4>1, <4>4, <4>5
    <3> QED BY <3>1, <3>2
  <2> HIDE DEF A
  <2> QED BY <2>1, <2>2
<1>5. 0..n \subseteq S
  <2> HIDE DEF S
  <2> QED BY <1>1, <1>3, <1>4, BoundedInduction
<1>6. n \in S
  BY <1>1, <1>5
<1> QED BY <1>6 DEF n

\* The loop of AcpiFindRsdp(), and the search after it.
LEMMA RsdpStep ==
  ASSUME ToldInv, AcpiFindRsdp
  PROVE  RsdpInv'
<1>1. /\ board' = board /\ blPc = "acpi" /\ blPc' \in {"acpi", "gop"}
      /\ at \in 1..(Len(board.tables) + 1) /\ rsdp \in 0..(at - 1)
      /\ ~Has("acpi20", at - 1) /\ (Has("acpi10", at - 1) => rsdp # 0)
      /\ (rsdp # 0 => board.tables[rsdp] = "acpi10")
  BY DEF AcpiFindRsdp, ToldInv, RsdpInv, Leave
<1>2. /\ Len(board.tables) \in Nat
      /\ \A i \in 1..Len(board.tables) : board.tables[i] \in {"acpi20", "acpi10", "other"}
  BY BoardIs DEF ToldInv
<1>3. CASE at > Len(board.tables)
  <2>1. rsdp' = (IF rsdp = 0 THEN AcpiFindLegacyRsdp ELSE rsdp) /\ blPc' = "gop"
        /\ AcpiFindLegacyRsdp' = AcpiFindLegacyRsdp
    BY <1>1, <1>3 DEF AcpiFindRsdp, Leave, AcpiFindLegacyRsdp
  <2>2. at - 1 = Len(board.tables) /\ rsdp \in 0..Len(board.tables)
    BY <1>1, <1>2, <1>3
  <2>3. ~Has("acpi20", Len(board.tables)) /\ (Has("acpi10", Len(board.tables)) => rsdp # 0)
    BY <1>1, <2>2
  <2>4. rsdp # 0 => Has("acpi10", Len(board.tables)) /\ rsdp \in 1..Len(board.tables)
    BY <1>1, <2>2 DEF Has
  <2>5. \A t : Has(t, Len(board.tables))' <=> Has(t, Len(board.tables))
    BY <1>1 DEF Has
  <2> QED BY <1>1, <2>1, <2>3, <2>4, <2>5 DEF RsdpInv, BeforeGop
<1>4. CASE ~(at > Len(board.tables))
  <2> DEFINE t == board.tables[at]
  <2>1. at \in 1..Len(board.tables) /\ at # 0 /\ (at + 1) - 1 = at /\ at - 1 \in Nat
    BY <1>1, <1>2, <1>4
  <2>2. rsdp' = (IF t = "other" THEN rsdp ELSE at)
        /\ IF t = "acpi20" THEN blPc' = "gop" ELSE at' = at + 1 /\ blPc' = "acpi"
    BY <1>1, <1>4 DEF AcpiFindRsdp, Leave, Preferred
  <2>3. \A x : Has(x, at) <=> Has(x, at - 1) \/ x = t
    <3>1. \A i : i \in 1..at <=> i \in 1..(at - 1) \/ i = at
      BY <2>1
    <3> QED BY <3>1 DEF Has
  <2>4. CASE t = "acpi20"
    <3>1. rsdp' = at /\ blPc' = "gop" /\ at \in 1..Len(board.tables)
      BY <2>1, <2>2, <2>4
    <3> QED BY <1>1, <2>1, <2>4, <3>1 DEF RsdpInv, Has, BeforeGop
  <2>5. CASE t # "acpi20"
    <3>1. blPc' = "acpi" /\ at' = at + 1
      BY <2>2, <2>5
    <3>2. at' \in 1..(Len(board.tables) + 1) /\ at' - 1 = at
      BY <1>2, <2>1, <3>1
    <3>3. rsdp' \in 0..at
      BY <1>1, <2>1, <2>2
    <3>4. ~Has("acpi20", at) /\ (Has("acpi10", at) => rsdp' # 0)
      BY <1>1, <2>1, <2>2, <2>3, <2>5
    <3>5. rsdp' # 0 => board.tables[rsdp'] = "acpi10"
      BY <1>1, <1>2, <2>1, <2>2, <2>5
    <3> HIDE DEF t
    <3> QED BY <1>1, <3>1, <3>2, <3>3, <3>4, <3>5 DEF RsdpInv, Has, BeforeGop
  <2> QED BY <2>4, <2>5
<1> QED BY <1>3, <1>4

\* The search for a mode.
LEMMA ScreenStep ==
  ASSUME ToldInv, InitGraphics
  PROVE  ScreenInv'
<1>1. board' = board /\ Len(board.modes) \in Nat /\ \A m : Large(m)' <=> Large(m)
  BY BoardIs DEF InitGraphics, ToldInv, Large
<1>2. failures \in Nat /\ (Fails \/ Works) /\ (failures' = 0 => Works /\ failures = 0 /\ ~Fails)
  BY FailuresCounted DEF InitGraphics, ToldInv, Fails, Works
<1>3. CASE blPc = "gop"
  <2>1. at' = at /\ at = 1 /\ blPc' \in {"returned", "mode"}
    BY <1>3 DEF InitGraphics, ToldInv, ScreenInv, GiveUp, Leave
  <2>2. 1 \in 1..(Len(board.modes) + 1) /\ 1..(1 - 1) = {}
    BY <1>1
  <2> QED BY <1>1, <2>1, <2>2 DEF ScreenInv, BeforeTold, BeforeGop
<1>4. CASE blPc = "mode" /\ at > Len(board.modes)
  <2>1. at \in 1..(Len(board.modes) + 1) /\ \A m \in 1..(at - 1) : ~Large(m)
    BY <1>4 DEF ToldInv, ScreenInv
  <2>2. at - 1 = Len(board.modes)
    BY <1>1, <1>4, <2>1
  <2>3. blPc' = "told"
    BY <1>1, <1>4, <2>1 DEF InitGraphics, Leave
  <2> QED BY <1>1, <2>1, <2>2, <2>3 DEF ScreenInv, BeforeTold, BeforeGop
<1>5. CASE blPc = "mode" /\ ~(at > Len(board.modes))
  <2>1. at \in 1..(Len(board.modes) + 1) /\ \A m \in 1..(at - 1) : ~Large(m)
    BY <1>5 DEF ToldInv, ScreenInv
  <2>2. at \in 1..Len(board.modes) /\ (at + 1) - 1 = at
        /\ at + 1 \in 1..(Len(board.modes) + 1)
        /\ \A m \in 1..at : m \in 1..(at - 1) \/ m = at
    BY <1>1, <1>5, <2>1
  <2>3. \/ blPc' = "returned"
        \/ ~Large(at) /\ at' = at + 1 /\ blPc' = "mode"
        \/ Large(at) /\ blPc' = "told" /\ (screen' = at \/ Fails)
    BY <1>5 DEF InitGraphics, GiveUp, Leave, IsBig, Large
  <2>4. CASE blPc' = "returned"
    BY <2>4 DEF ScreenInv, BeforeTold
  <2>5. CASE ~Large(at) /\ at' = at + 1 /\ blPc' = "mode"
    <3>1. \A m \in 1..(at' - 1) : ~Large(m)
      BY <2>1, <2>2, <2>5
    <3> QED BY <1>1, <2>2, <2>5, <3>1 DEF ScreenInv, BeforeTold, BeforeGop
  <2>6. CASE Large(at) /\ blPc' = "told" /\ (screen' = at \/ Fails)
    <3>1. ASSUME failures' = 0, NEW m \in 1..Len(board.modes), Large(m)
          PROVE  Large(screen') /\ screen' <= m
      <4>1. screen' = at /\ m \notin 1..(at - 1)
        BY <1>2, <2>1, <2>6, <3>1
      <4>2. at <= m
        BY <2>2, <4>1
      <4> QED BY <2>6, <4>1, <4>2
    <3>2. failures' = 0 => \A m \in 1..Len(board'.modes) : Large(m)' => Large(screen)' /\ screen' <= m
      BY <1>1, <3>1 DEF Large
    <3> QED BY <2>6, <3>2 DEF ScreenInv, BeforeTold, BeforeGop
  <2> QED BY <2>3, <2>4, <2>5, <2>6
<1>6. CASE blPc = "told"
  <2>1. told' = screen /\ blPc' = "event" /\ screen' = screen
    BY <1>6 DEF InitGraphics, Leave
  <2> QED BY <1>1, <1>2, <1>6, <2>1 DEF ToldInv, ScreenInv, BeforeTold, BeforeGop, Large
<1> QED BY <1>3, <1>4, <1>5, <1>6 DEF InitGraphics

\* Steps past the screen and the tables.
LEMMA ToldKept ==
  ASSUME ToldInv, UNCHANGED <<board, rsdp, at, screen, told>>, Fails \/ Works \/ failures' = failures,
         \/ blPc' = blPc
         \/ blPc' = "returned"
         \/ blPc = "time" /\ blPc' = "params"
         \/ blPc \notin BeforeTold \cup {"told", "returned"} /\ blPc' \notin BeforeTold \cup {"told", "returned"},
         DOMAIN virtual' = DOMAIN virtual,
         blPc' = "call" => \/ blPc = "call" /\ virtual' = virtual
                           \/ \A i \in DOMAIN virtual : Kept(board.map[i]) => virtual'[i] = CurrentAddress[i]
  PROVE  ToldInv'
<1>1. failures' \in Nat /\ (failures' = 0 => failures = 0)
  BY FailuresCounted DEF ToldInv, Works
<1>2. ScreenInv'
  BY <1>1 DEF ToldInv, ScreenInv, BeforeTold, BeforeGop, Large
<1>3. RsdpInv'
  BY DEF ToldInv, RsdpInv, BeforeTold, BeforeGop, Has, AcpiFindLegacyRsdp
<1>4. CurrentAddress' = CurrentAddress
  BY DEF CurrentAddress
<1>5. VirtualInv'
  BY <1>4 DEF ToldInv, VirtualInv
<1> QED BY <1>1, <1>2, <1>3, <1>5 DEF ToldInv

\* What UefiMain() writes into the parameters is what it found.
LEMMA ToldStep ==
  ASSUME ToldInv, [BootLoaderNext]_blVars
  PROVE  ToldInv'
<1> USE DEF Leave, graphics, way_out, load
<1>1. CASE Start
  <2>1. CASE blPc = "params" /\ blPc' = "acpi"
    <3>1. at = 1 /\ rsdp = 0 /\ UNCHANGED <<board, rsdp, at, screen, told, virtual>> /\ Works
          /\ Len(board.tables) \in Nat
      BY <1>1, <2>1, BoardIs DEF Start, ToldInv, ScreenInv, RsdpInv
    <3>2. 1 \in 1..(Len(board.tables) + 1) /\ 0 \in 0..(1 - 1) /\ 1..(1 - 1) = {}
      BY <3>1
    <3>3. RsdpInv'
      BY <2>1, <3>1, <3>2 DEF RsdpInv, Has, BeforeGop, AcpiFindLegacyRsdp
    <3>4. ScreenInv'
      BY <2>1, <3>1 DEF ToldInv, ScreenInv, BeforeTold, BeforeGop
    <3>5. VirtualInv'
      BY <2>1, <3>1 DEF ToldInv, VirtualInv
    <3> QED BY <3>1, <3>3, <3>4, <3>5 DEF ToldInv, Works
  <2>2. CASE ~(blPc = "params" /\ blPc' = "acpi")
    <3>1. /\ UNCHANGED <<board, rsdp, at, screen, told, virtual>> /\ (Fails \/ Works)
          /\ (blPc' = "returned" \/ (blPc = "time" /\ blPc' = "params"))
      BY <1>1, <2>2 DEF Start
    <3> QED BY <3>1, ToldKept
  <2> QED BY <2>1, <2>2
<1>2. CASE AcpiFindRsdp
  <2>1. /\ blPc = "acpi" /\ blPc' \in {"acpi", "gop"} /\ (blPc' = "gop" => at' = 1)
        /\ UNCHANGED <<board, screen, told, virtual>> /\ Works
    BY <1>2 DEF AcpiFindRsdp
  <2>2. ScreenInv'
    BY <2>1 DEF ToldInv, ScreenInv, BeforeTold, BeforeGop
  <2>3. VirtualInv'
    BY <2>1 DEF ToldInv, VirtualInv
  <2> QED BY <1>2, <2>1, <2>2, <2>3, RsdpStep DEF ToldInv, Works
<1>3. CASE InitGraphics
  <2>1. /\ blPc \in {"gop", "mode", "told"} /\ blPc' \in {"mode", "told", "event", "returned"}
        /\ UNCHANGED <<board, rsdp, virtual>> /\ (Fails \/ Works)
    BY <1>3 DEF InitGraphics, GiveUp
  <2>2. RsdpInv'
    BY <2>1 DEF ToldInv, RsdpInv, BeforeGop, Has, AcpiFindLegacyRsdp
  <2>3. VirtualInv'
    BY <2>1 DEF ToldInv, VirtualInv
  <2>4. failures' \in Nat
    BY <2>1, FailuresCounted DEF ToldInv
  <2> QED BY <1>3, <2>1, <2>2, <2>3, <2>4, ScreenStep DEF ToldInv
<1>4. CASE CreateEvent \/ IsLoaded
  <2>1. /\ UNCHANGED <<board, rsdp, at, screen, told, virtual>> /\ (Fails \/ Works)
        /\ blPc \in {"event", "load"} /\ blPc' \in {"returned", "load", "gate"}
    BY <1>4 DEF CreateEvent, IsLoaded, GiveUp
  <2> QED BY <2>1, ToldKept DEF BeforeTold, BeforeGop
<1>5. CASE Load
  <2>1. UNCHANGED <<board, rsdp, at, screen, told, virtual, blPc>> /\ LoadKernel
    BY <1>5 DEF Load, loaderVars
  <2>2. Fails \/ Works
    BY <2>1 DEF LoadKernel, GetKernelFile, ReadHeader, AllocatePools, ReadTables, NextName,
       CopySection, AllocateKernel, ReadSegment, GiveBack
  <2> QED BY <2>1, <2>2, ToldKept
<1>6. CASE GenerateGateData \/ GetMemoryMap \/ TimerEvent \/ ExitBootServices \/ CallKernelThroughGate
  <2>1. /\ UNCHANGED <<board, rsdp, at, screen, told, virtual>> /\ (Fails \/ Works \/ failures' = failures)
    BY <1>6 DEF GenerateGateData, GetMemoryMap, TimerEvent, ExitBootServices, CallKernelThroughGate
  <2>2. /\ blPc \in {"gate", "map", "exit", "call"}
        /\ blPc' \in {"dead", "map", "exit", "virtual", "kernel"}
    BY <1>6 DEF GenerateGateData, GetMemoryMap, TimerEvent, ExitBootServices, CallKernelThroughGate
  <2> QED BY <2>1, <2>2, ToldKept DEF BeforeTold, BeforeGop
<1>7. CASE SetupVirtualAddresses
  <2>1. /\ UNCHANGED <<board, rsdp, at, screen, told>> /\ (Fails \/ Works)
        /\ blPc = "virtual" /\ blPc' \in {"dead", "call"}
        /\ virtual' = [i \in DOMAIN virtual |-> IF Kept(board.map[i]) THEN CurrentAddress[i] ELSE 0]
    BY <1>7 DEF SetupVirtualAddresses
  <2> QED BY <2>1, ToldKept DEF BeforeTold, BeforeGop
<1>8. CASE UNCHANGED blVars
  BY <1>8, ToldKept DEF blVars, kiVars, loaderVars
<1> QED BY <1>1, <1>2, <1>3, <1>4, <1>5, <1>6, <1>7, <1>8 DEF BootLoaderNext

\* Two pieces of memory that are kept have virtual addresses of their own.
LEMMA PiecesApart ==
  ASSUME ToldInv
  PROVE  RuntimeApart
<1> SUFFICES ASSUME blPc = "call", NEW i \in DOMAIN virtual, NEW j \in DOMAIN virtual, i # j,
                    Kept(board.map[i]), Kept(board.map[j])
             PROVE  \/ virtual[i] + board.map[i].pages <= virtual[j]
                    \/ virtual[j] + board.map[j].pages <= virtual[i]
  BY DEF RuntimeApart
<1>1. /\ DOMAIN virtual = 1..Len(board.map) /\ Len(board.map) \in Nat
      /\ virtual[i] = CurrentAddress[i] /\ virtual[j] = CurrentAddress[j]
      /\ Length(i) = board.map[i].pages /\ Length(j) = board.map[j].pages
  BY BoardIs DEF ToldInv, VirtualInv, Length
<1>2. i \in 1..(j - 1) \/ j \in 1..(i - 1)
  BY <1>1
<1>3. \A y \in 1..Len(board.map) : \A x \in 1..(y - 1) : CurrentAddress[x] + Length(x) <= CurrentAddress[y]
  BY AddressesGrow DEF ToldInv
<1> QED BY <1>1, <1>2, <1>3

\* What the kernel is told is true: the mode the screen is in, which is the first
\* large one if no call failed, the best root of the ACPI tables there is, and
\* runtime services whose pieces do not overlap, for any machine.
THEOREM ParamsAreTrue == BootLoaderSpec => []ParamsTrue
<1>1. BootLoaderInit => ToldInv
  <2> SUFFICES ASSUME BootLoaderInit PROVE ToldInv
    OBVIOUS
  <2>1. board \in Boards /\ blPc = "time" /\ at = 1 /\ rsdp = 0 /\ failures = 0
        /\ virtual = [i \in 1..Len(board.map) |-> 0]
    BY DEF BootLoaderInit, LoaderStart, ImageStart
  <2> QED BY <2>1 DEF ToldInv, ScreenInv, RsdpInv, VirtualInv, BeforeTold, BeforeGop, Has,
                      AcpiFindLegacyRsdp
<1>2. ToldInv => ParamsTrue
  <2> SUFFICES ASSUME ToldInv PROVE ParamsTrue
    OBVIOUS
  <2>1. ScreenAsTold
    BY DEF ToldInv, ScreenInv, ScreenAsTold, BeforeTold, BeforeGop, Large
  <2>2. RsdpPreferred
    <3> SUFFICES ASSUME blPc = "kernel" PROVE RsdpPreferred
      BY DEF RsdpPreferred
    <3>1. \A t : HasTable(t) <=> Has(t, Len(board.tables))
      BY DEF HasTable, Has
    <3>2. Len(board.tables) \in Nat
          /\ \A i \in 1..Len(board.tables) : board.tables[i] \in {"acpi20", "acpi10", "other"}
      BY BoardIs DEF ToldInv
    <3>3. CASE HasTable("acpi20")
      <4>1. rsdp \in 1..Len(board.tables) /\ board.tables[rsdp] = "acpi20"
        BY <3>1, <3>3 DEF ToldInv, RsdpInv, BeforeGop
      <4> QED BY <3>2, <4>1 DEF RsdpPreferred, IsRoot
    <3>4. CASE ~HasTable("acpi20") /\ HasTable("acpi10")
      <4>1. rsdp \in 1..Len(board.tables) /\ board.tables[rsdp] = "acpi10"
        BY <3>1, <3>4 DEF ToldInv, RsdpInv, BeforeGop
      <4> QED BY <3>2, <3>4, <4>1 DEF RsdpPreferred, IsRoot
    <3>5. CASE ~HasTable("acpi20") /\ ~HasTable("acpi10")
      <4>1. rsdp = AcpiFindLegacyRsdp
        BY <3>1, <3>5 DEF ToldInv, RsdpInv, BeforeGop
      <4>2. \A i \in 1..Len(board.tables) : board.tables[i] = "other"
        BY <3>2, <3>5 DEF HasTable
      <4>3. board.legacy.ebda \subseteq Nat
        BY BoardsAssumption DEF ToldInv
      <4>4. InBios = -1 /\ InEbda(0) = -2 /\ \A k \in Nat : InEbda(k) # InBios /\ InEbda(k) # 0
        BY DEF InBios, InEbda
      <4>5. rsdp = 0 => ~board.legacy.bios /\ board.legacy.ebda = {}
        BY <4>1, <4>4 DEF AcpiFindLegacyRsdp
      <4>6. rsdp = 0 => ~\E a \in (1..Len(board.tables)) \cup {InBios} : IsRoot(a)
        <5> SUFFICES ASSUME rsdp = 0, NEW a \in (1..Len(board.tables)) \cup {InBios}, IsRoot(a)
                     PROVE  FALSE
          OBVIOUS
        <5> QED BY <4>2, <4>5 DEF IsRoot
      <4>7. rsdp = 0 \/ IsRoot(rsdp) \/ OnlyWithinEbda
        BY <3>5, <4>1 DEF AcpiFindLegacyRsdp, IsRoot, OnlyWithinEbda
      <4> QED BY <3>5, <4>5, <4>6, <4>7 DEF RsdpPreferred
    <3> QED BY <3>3, <3>4, <3>5
  <2> QED BY <2>1, <2>2, PiecesApart DEF ParamsTrue
<1> QED BY <1>1, <1>2, ToldStep, PTL DEF BootLoaderSpec

-----------------------------------------------------------------------------
(* The timer interrupt.                                                    *)

Booting  == {"pic_init", "rtc_timer_init", "rtc_check_status", "timers_schedule"}
Handling == {"trap", "status", "eoi"}

\* Until a timer is scheduled every line but the cascade is masked.
MaskedInBoot ==
  irqPc \in Booting => /\ irq_mask_8259A = Irqs \ {IRQ_SLAVE}
                       /\ irqPc # "pic_init" => pic_initilalized

\* From then on its line is open, and of the others only the cascade, which
\* nothing requests.
OneLineOpen ==
  irqPc \in {"env"} \cup Handling =>
    /\ timer_for_schedule \in HasInterrupts
    /\ imr = Irqs \ {IRQ_SLAVE, IrqOf[timer_for_schedule]}

RequestsOfDevices == irr \subseteq {IRQ_TIMER, IRQ_KBD, IRQ_CLOCK}

\* What is in service is what trap() handles, at both of the 8259As.
ServedIsHandled ==
  /\ irqPc \in Booting \cup {"env"} => isr = {}
  /\ irqPc \in Handling => /\ trapno = IrqOf[timer_for_schedule]
                           /\ isr = {trapno, Level(trapno)}

IrqInv ==
  /\ irqPc \in Booting \cup Handling \cup {"env", "panic"}
  /\ MaskedInBoot /\ OneLineOpen /\ RequestsOfDevices /\ ServedIsHandled

\* The end of interrupt that is sent for a line clears it at both 8259As.
LEMMA EoiClears ==
  ASSUME NEW t \in HasInterrupts
  PROVE  pic_send_eoi({IrqOf[t], Level(IrqOf[t])}, IrqOf[t]) = {}
<1>1. CASE t = "hpet0"
  <2>1. IrqOf[t] = 0 /\ Level(IrqOf[t]) = 0
    BY <1>1 DEF IrqOf, Level, IRQ_CLOCK, IRQ_TIMER
  <2>2. pic_send_eoi({0, 0}, 0) = MasterEoi({0})
    BY DEF pic_send_eoi
  <2>3. MasterEoi({0}) = {}
    BY DEF MasterEoi, IRQ_CLOCK
  <2> QED BY <2>1, <2>2, <2>3
<1>2. CASE t \in {"rtc", "hpet1"}
  <2>1. IrqOf[t] = 8 /\ Level(IrqOf[t]) = 2
    BY <1>2 DEF IrqOf, Level, IRQ_CLOCK, IRQ_SLAVE
  <2>2. SlaveEoi({8, 2}) = {2}
    BY DEF SlaveEoi, IRQ_CLOCK
  <2>3. MasterEoi({2}) = {}
    BY DEF MasterEoi, IRQ_CLOCK
  <2> QED BY <2>1, <2>2, <2>3 DEF pic_send_eoi
<1> QED BY <1>1, <1>2 DEF HasInterrupts

\* The only line that can interrupt an environment is the scheduled timer's.
LEMMA OnlyTheTimer ==
  ASSUME IrqInv, irqPc = "env", NEW irq \in Irqs, Deliverable(irq)
  PROVE  irq = IrqOf[timer_for_schedule]
<1>1. irq \notin imr /\ irq # IRQ_SLAVE
  BY DEF IrqInv, RequestsOfDevices, Deliverable, IRQ_SLAVE, IRQ_TIMER, IRQ_KBD, IRQ_CLOCK
<1>2. imr = Irqs \ {IRQ_SLAVE, IrqOf[timer_for_schedule]}
  BY DEF IrqInv, OneLineOpen
<1> QED BY <1>1, <1>2

\* Before pic_init() every line is masked and nothing in service.
LEMMA IrqInitInv == TimerIrqInit => IrqInv
BY DEF TimerIrqInit, IrqInv, MaskedInBoot, OneLineOpen, RequestsOfDevices, ServedIsHandled, Booting, Handling

\* The boot masks and unmasks lines, the timers raise theirs, trap() serves them.
LEMMA IrqStepInv == IrqInv /\ [TimerIrqNext]_irqVars => IrqInv'
<1> SUFFICES ASSUME IrqInv, [TimerIrqNext]_irqVars PROVE IrqInv'
  OBVIOUS
<1> USE DEF IrqInv, MaskedInBoot, OneLineOpen, RequestsOfDevices, ServedIsHandled, Booting, Handling,
            kernelVars, picVars
<1>1. CASE PicInitialize
  BY <1>1 DEF PicInitialize
<1>2. CASE RtcEnable
  BY <1>2 DEF RtcEnable
<1>3. CASE RtcStatusRead
  BY <1>3 DEF RtcStatusRead
<1>4. ASSUME NEW name \in Scheduled, TimersSchedule(name)
      PROVE  IrqInv'
  <2>1. /\ irqPc = "timers_schedule" /\ irqPc' = "env"
        /\ timer_for_schedule' = name /\ name \in HasInterrupts
        /\ isr' = isr /\ irr' = irr
    BY <1>4 DEF TimersSchedule
  <2>2. imr' = (Irqs \ {IRQ_SLAVE}) \ {IrqOf[name]}
    BY <1>4, <2>1 DEF TimersSchedule, pic_irq_unmask, Unmasked
  <2>3. OneLineOpen'
    BY <2>1, <2>2
  <2> QED BY <2>1, <2>3
<1>5. ASSUME NEW name \in Scheduled, NoSuchTimer(name)
      PROVE  IrqInv'
  BY <1>5 DEF NoSuchTimer
<1>6. CASE Deliver
  <2>1. PICK irq \in Irqs : Deliverable(irq) /\ trapno' = irq /\ irr' = irr \ {irq}
                            /\ isr' = isr \cup {irq, Level(irq)}
    BY <1>6 DEF Deliver
  <2>2. /\ irqPc = "env" /\ irqPc' = "trap"
        /\ timer_for_schedule' = timer_for_schedule /\ imr' = imr
    BY <1>6 DEF Deliver
  <2>3. irq = IrqOf[timer_for_schedule]
    BY <2>1, <2>2, OnlyTheTimer
  <2>4. isr' = {irq, Level(irq)}
    BY <2>1, <2>2
  <2> QED BY <2>1, <2>2, <2>3, <2>4
<1>7. CASE Dispatch
  BY <1>7 DEF Dispatch
<1>8. CASE HandleStatus
  BY <1>8 DEF HandleStatus
<1>9. CASE HandleEoi
  <2>1. isr' = pic_send_eoi({IrqOf[timer_for_schedule], Level(IrqOf[timer_for_schedule])},
                            IrqOf[timer_for_schedule])
    BY <1>9 DEF HandleEoi
  <2>2. timer_for_schedule \in HasInterrupts
    BY <1>9 DEF HandleEoi
  <2>3. isr' = {}
    BY <2>1, <2>2, EoiClears
  <2> QED BY <1>9, <2>3 DEF HandleEoi
<1>10. CASE RtcTick
  BY <1>10 DEF RtcTick, Raise
<1>11. CASE HpetTick
  BY <1>11 DEF HpetTick, Raise
<1>12. CASE KeyPress
  BY <1>12 DEF KeyPress
<1>13. CASE UNCHANGED irqVars
  BY <1>13 DEF irqVars
<1> QED
  BY <1>1, <1>2, <1>3, <1>4, <1>5, <1>6, <1>7, <1>8, <1>9, <1>10, <1>11, <1>12, <1>13
  DEF TimerIrqNext, Boot, Handle, Ticks

-----------------------------------------------------------------------------

\* An environment runs only with every interrupt at its end, and the only ones
\* it meets are those trap_init() made gates for, whichever timer i386_init()
\* hands to timers_schedule().
THEOREM TimersServed == TimerIrqSpec => []InterruptsServed
<1>1. IrqInv => InterruptsServed
  BY DEF IrqInv, OneLineOpen, ServedIsHandled, InterruptsServed, NothingInService, OnlyGated,
         Booting, Handling, HasInterrupts, IrqOf
<1> QED BY IrqInitInv, IrqStepInv, <1>1, PTL DEF TimerIrqSpec

-----------------------------------------------------------------------------
(* The search of the buses, for any machine whose buses are numbered.      *)

Places == Buses \X (0..NDev) \X (0..NFunc)

\* What a frame of pci_scan_bus() has passed: the places before its own, and its
\* own as long as it waits for the bus behind the bridge there.
Ahead(f, p)  == f[2] < p[2] \/ (f[2] = p[2] /\ f[3] < p[3])
AtPlace(f, p) == f[2] = p[2] /\ f[3] = p[3]
Passed(f, k) == Ahead(f, frames[k]) \/ (k < Len(frames) /\ AtPlace(f, frames[k]))

\* The functions that were given to pci_attach(), and the buses it has gone to.
Attached  == {attached[k] : k \in DOMAIN attached}
Opened(b) == b = 0 \/ \E g \in Attached : Class(g) = "bridge" /\ Secondary(g) = b

\* A place the loops can be at: past function 0 only if that is supported.
Sensible(p) ==
  /\ p[2] = NDev => p[3] = 0
  /\ p[2] < NDev => p[3] <= FuncsOf(p) /\ (p[3] > 0 => ~Unsupported(<<p[1], p[2], 0>>))

FramesInv ==
  /\ frames \in Seq(Places) /\ Len(frames) > 0
  /\ DepthBounded
  /\ \A k \in 1..Len(frames) : Sensible(frames[k]) /\ Opened(frames[k][1])
  /\ \A k \in 1..(Len(frames) - 1) :
       /\ frames[k] \in Functions /\ frames[k][3] < FuncsOf(frames[k])
       /\ ~Unsupported(<<frames[k][1], frames[k][2], 0>>)

\* Attached is what answers on the buses it has gone to, as far as they were passed.
AttachedInv ==
  /\ attached \in Seq(Functions)
  /\ \A j, k \in DOMAIN attached : attached[j] = attached[k] => j = k
  /\ \A f \in Functions :
       f \in Attached <=> /\ Visible(f) /\ Opened(f[1])
                          /\ \A k \in 1..Len(frames) : frames[k][1] = f[1] => Passed(f, k)

PciInv ==
  /\ pciPc \in {"off", "scan", "done"}
  /\ pciPc = "off" => frames = <<>> /\ attached = <<>>
  /\ pciPc # "off" => machine \in Machines /\ FramesInv /\ AttachedInv
  /\ pciPc = "done" => \A k \in 1..Len(frames) : frames[k][2] = NDev

\* Numbers of functions, and functions as places.
LEMMA PlacesAre ==
  /\ \A p \in Places : /\ p = <<p[1], p[2], p[3]>> /\ p[1] \in Buses /\ p[1] \in Nat
                       /\ p[2] \in Nat /\ p[3] \in Nat /\ p[2] <= NDev /\ p[3] <= NFunc
  /\ \A f \in Functions : /\ f = <<f[1], f[2], f[3]>> /\ f[1] \in Buses /\ f[1] \in Nat
                          /\ f[2] \in Nat /\ f[3] \in Nat /\ f[2] < NDev /\ f[3] < NFunc
  /\ \A p \in Places : p[2] < NDev /\ p[3] < NFunc => p \in Functions
  /\ NDev \in Nat /\ NFunc \in Nat /\ NDev > 0 /\ NFunc > 0
  /\ \A p : FuncsOf(p) \in 1..NFunc
<1>1. NDev \in Nat /\ NFunc \in Nat /\ NDev > 0 /\ NFunc > 0 /\ Buses \subseteq Nat
  BY BusesAssumption
<1>2. \A p \in Places : /\ p = <<p[1], p[2], p[3]>> /\ p[1] \in Buses /\ p[2] \in 0..NDev /\ p[3] \in 0..NFunc
  BY DEF Places
<1>3. \A f \in Functions : /\ f = <<f[1], f[2], f[3]>> /\ f[1] \in Buses
                           /\ f[2] \in 0..(NDev - 1) /\ f[3] \in 0..(NFunc - 1)
  BY DEF Functions
<1>4. ASSUME NEW p \in Places, p[2] < NDev, p[3] < NFunc PROVE p \in Functions
  <2>1. p[2] \in 0..(NDev - 1) /\ p[3] \in 0..(NFunc - 1)
    BY <1>1, <1>2, <1>4
  <2>2. <<p[1], p[2], p[3]>> \in Functions
    BY <1>2, <2>1 DEF Functions
  <2> QED BY <1>2, <2>2
<1>5. \A p : FuncsOf(p) \in 1..NFunc
  BY <1>1 DEF FuncsOf
<1>6. \A x \in 0..NDev : x \in Nat /\ x <= NDev
  BY <1>1
<1>7. \A x \in 0..NFunc : x \in Nat /\ x <= NFunc
  BY <1>1
<1>8. \A x \in 0..(NDev - 1) : x \in Nat /\ x < NDev
  BY <1>1
<1>9. \A x \in 0..(NFunc - 1) : x \in Nat /\ x < NFunc
  BY <1>1
<1> QED BY <1>1, <1>2, <1>3, <1>4, <1>5, <1>6, <1>7, <1>8, <1>9

\* Where the innermost scan is.
LEMMA HereIs ==
  ASSUME FramesInv
  PROVE  /\ Len(frames) \in Nat \ {0} /\ DOMAIN frames = 1..Len(frames)
         /\ \A k \in 1..Len(frames) : frames[k] \in Places
         /\ Here \in Places /\ Sensible(Here) /\ Opened(Here[1])
         /\ \A k \in 1..(Len(frames) - 1) : frames[k][1] < Here[1]
<1>1. Len(frames) \in Nat \ {0} /\ DOMAIN frames = 1..Len(frames) /\ \A k \in 1..Len(frames) : frames[k] \in Places
  BY DEF FramesInv
<1>2. Len(frames) \in 1..Len(frames) /\ \A k \in 1..(Len(frames) - 1) : k \in 1..Len(frames) /\ k < Len(frames)
  BY <1>1
<1>3. \A k \in 1..(Len(frames) - 1) : frames[k][1] < frames[Len(frames)][1]
  BY <1>1, <1>2 DEF FramesInv, DepthBounded
<1> QED BY <1>1, <1>2, <1>3 DEF FramesInv, Here

\* The innermost scan goes on past functions that do not answer.
LEMMA PassedOver ==
  ASSUME FramesInv, AttachedInv, UNCHANGED <<machine, attached>>, NEW p \in Places,
         ScanOn(p), p[1] = Here[1], Sensible(p),
         \A f \in Functions : Visible(f) /\ f[1] = p[1] => (Ahead(f, p) <=> Ahead(f, Here))
  PROVE  FramesInv' /\ AttachedInv'
<1> DEFINE n == Len(frames)
<1>1. /\ n \in Nat \ {0} /\ DOMAIN frames = 1..n /\ n \in 1..n
      /\ \A k \in 1..n : frames[k] \in Places
  BY HereIs
<1>2. /\ frames' \in Seq(Places) /\ Len(frames') = n
      /\ \A k \in 1..n : frames'[k] = IF k = n THEN p ELSE frames[k]
  <2>1. frames \in Seq(Places)
    BY DEF FramesInv
  <2>2. frames' = [frames EXCEPT ![n] = p]
    BY DEF ScanOn
  <2> QED BY <1>1, <2>1, <2>2
<1>3. /\ \A f : (Visible(f)' <=> Visible(f)) /\ (FuncsOf(f)' = FuncsOf(f)) /\ (Unsupported(f)' <=> Unsupported(f))
      /\ \A b : Opened(b)' <=> Opened(b)
      /\ Attached' = Attached
  BY DEF Visible, FuncsOf, Unsupported, Class, Secondary, Opened, Attached
<1>4. \A q : Sensible(q)' <=> Sensible(q)
  BY <1>3 DEF Sensible
<1>5. \A k \in 1..n : frames'[k][1] = frames[k][1]
  BY <1>2 DEF Here
<1> HIDE DEF n
<1>6. DepthBounded'
  <2>1. DOMAIN frames' = 1..n
    BY <1>2
  <2> QED BY <1>1, <1>5, <2>1 DEF DepthBounded, FramesInv
<1>7. FramesInv'
  <2>1. \A k \in 1..n : Sensible(frames[k]) /\ Opened(frames[k][1])
    BY DEF FramesInv, n
  <2>2. \A k \in 1..n : Sensible(frames[k])' /\ Opened(frames[k][1])'
    <3> TAKE k \in 1..n
    <3>1. Sensible(frames'[k]) /\ Opened(frames'[k][1])
      BY <1>2, <1>5, <2>1
    <3>2. Sensible(frames[k])' <=> Sensible(frames'[k])
      BY <1>3 DEF Sensible
    <3>3. Opened(frames[k][1])' <=> Opened(frames'[k][1])
      BY DEF Opened, Attached, Class, Secondary
    <3> QED BY <3>1, <3>2, <3>3
  <2>3. \A k \in 1..(n - 1) : k \in 1..n /\ k # n
    BY <1>1
  <2>4. \A k \in 1..(n - 1) :
          /\ frames[k] \in Functions /\ frames[k][3] < FuncsOf(frames[k])
          /\ ~Unsupported(<<frames[k][1], frames[k][2], 0>>)
    BY DEF FramesInv, n
  <2>5. \A k \in 1..(n - 1) : frames'[k] = frames[k]
    BY <1>2, <2>3
  <2> QED BY <1>1, <1>2, <1>3, <1>6, <2>2, <2>4, <2>5 DEF FramesInv
<1>8. ASSUME NEW f \in Functions, Visible(f), NEW k \in 1..n, frames[k][1] = f[1]
      PROVE  Passed(f, k)' <=> Passed(f, k)
  <2>1. CASE k = n
    <3>1. ~(n < n) /\ f[1] = p[1]
      BY <1>1, <1>8, <2>1 DEF Here, n
    <3> QED BY <1>2, <1>8, <2>1, <3>1 DEF Passed, Here, Ahead, n
  <2>2. CASE k # n
    BY <1>2, <1>8, <2>2 DEF Passed, Ahead, AtPlace, n
  <2> QED BY <2>1, <2>2
<1>9. AttachedInv'
  <2>1. \A f \in Functions : f \in Attached' <=>
           /\ Visible(f)' /\ Opened(f[1])'
           /\ \A k \in 1..n : frames'[k][1] = f[1] => Passed(f, k)'
    <3> TAKE f \in Functions
    <3>1. f \in Attached <=> /\ Visible(f) /\ Opened(f[1])
                             /\ \A k \in 1..n : frames[k][1] = f[1] => Passed(f, k)
      BY DEF AttachedInv, n
    <3>2. CASE Visible(f)
      BY <1>3, <1>5, <1>8, <3>1, <3>2
    <3>3. CASE ~Visible(f)
      BY <1>3, <3>1, <3>3
    <3> QED BY <3>2, <3>3
  <2>2. attached \in Seq(Functions) /\ \A j, k \in DOMAIN attached : attached[j] = attached[k] => j = k
    BY DEF AttachedInv
  <2>3. Functions' = Functions
    BY DEF Functions
  <2> QED BY <1>2, <2>1, <2>2, <2>3 DEF AttachedInv
<1> QED BY <1>7, <1>9


\* The next function of a device that is there, and the next device of a bus.
LEMMA NextFuncIs ==
  ASSUME NEW p \in Functions, p[3] < FuncsOf(p), ~Unsupported(<<p[1], p[2], 0>>)
  PROVE  /\ NextFunc(p) \in Places /\ Sensible(NextFunc(p)) /\ NextFunc(p)[1] = p[1]
         /\ \A f \in Functions : Ahead(f, NextFunc(p)) <=> Ahead(f, p) \/ AtPlace(f, p)
<1>1. /\ p[1] \in Buses /\ p[2] \in Nat /\ p[3] \in Nat /\ p[2] < NDev /\ FuncsOf(p) \in 1..NFunc
      /\ NDev \in Nat /\ NFunc \in Nat
  BY PlacesAre
<1>2. NextFunc(p)[1] = p[1] /\ NextFunc(p)[2] = p[2] /\ NextFunc(p)[3] = p[3] + 1
      /\ NextFunc(p) = <<p[1], p[2], p[3] + 1>>
  BY DEF NextFunc
<1>3. p[3] + 1 \in 0..NFunc /\ p[2] \in 0..NDev /\ p[3] + 1 <= FuncsOf(p) /\ p[2] # NDev
  BY <1>1
<1>4. NextFunc(p) \in Places
  BY <1>1, <1>2, <1>3 DEF Places
<1>5. Sensible(NextFunc(p))
  <2>1. FuncsOf(NextFunc(p)) = FuncsOf(p)
    BY <1>2 DEF FuncsOf
  <2> QED BY <1>2, <1>3, <2>1 DEF Sensible
<1>6. \A f \in Functions : Ahead(f, NextFunc(p)) <=> Ahead(f, p) \/ AtPlace(f, p)
  <2> TAKE f \in Functions
  <2>1. f[2] \in Nat /\ f[3] \in Nat
    BY PlacesAre
  <2>2. f[3] < p[3] + 1 <=> f[3] < p[3] \/ f[3] = p[3]
    BY <1>1, <2>1
  <2> QED BY <1>2, <2>2 DEF Ahead, AtPlace
<1> QED BY <1>2, <1>4, <1>5, <1>6

\* Going on to the next device leaves the functions of this one behind.
LEMMA NextDevIs ==
  ASSUME NEW p \in Places, p[2] < NDev
  PROVE  /\ NextDev(p) \in Places /\ Sensible(NextDev(p)) /\ NextDev(p)[1] = p[1]
         /\ \A f \in Functions : Ahead(f, NextDev(p)) <=> Ahead(f, p) \/ (f[2] = p[2] /\ f[3] >= p[3])
<1>1. /\ p[1] \in Buses /\ p[2] \in Nat /\ p[3] \in Nat
      /\ NDev \in Nat /\ NFunc \in Nat
  BY PlacesAre
<1>2. NextDev(p)[1] = p[1] /\ NextDev(p)[2] = p[2] + 1 /\ NextDev(p)[3] = 0
      /\ NextDev(p) = <<p[1], p[2] + 1, 0>>
  BY DEF NextDev
<1>3. p[2] + 1 \in 0..NDev /\ 0 \in 0..NFunc
  BY <1>1
<1>4. NextDev(p) \in Places
  BY <1>1, <1>2, <1>3 DEF Places
<1>5. Sensible(NextDev(p))
  <2>1. FuncsOf(NextDev(p)) \in 1..NFunc
    BY PlacesAre
  <2>2. 0 <= FuncsOf(NextDev(p)) /\ ~(0 > 0)
    BY <1>1, <2>1
  <2> QED BY <1>2, <2>2 DEF Sensible
<1>6. \A f \in Functions : Ahead(f, NextDev(p)) <=> Ahead(f, p) \/ (f[2] = p[2] /\ f[3] >= p[3])
  <2> TAKE f \in Functions
  <2>1. f[2] \in Nat /\ f[3] \in Nat
    BY PlacesAre
  <2>2. f[2] < p[2] + 1 <=> f[2] < p[2] \/ f[2] = p[2]
    BY <1>1, <2>1
  <2>3. f[3] < p[3] \/ f[3] >= p[3]
    BY <1>1, <2>1
  <2>4. ~(f[3] < 0)
    BY <2>1
  <2> QED BY <1>2, <2>2, <2>3, <2>4 DEF Ahead
<1> QED BY <1>2, <1>4, <1>5, <1>6

\* At a function of a device that is there.
LEMMA AtVisible ==
  ASSUME FramesInv, AtFunction
  PROVE  /\ Here \in Functions /\ Here[3] < FuncsOf(Here) /\ ~Unsupported(<<Here[1], Here[2], 0>>)
         /\ Visible(Here) <=> Class(Here) # "none"
<1>1. Here \in Places /\ Here = <<Here[1], Here[2], Here[3]>> /\ Here[3] \in Nat /\ NFunc \in Nat
      /\ FuncsOf(Here) \in 1..NFunc
  BY HereIs, PlacesAre
<1>2. Here[2] < NDev /\ Here[3] < FuncsOf(Here) /\ (Here[3] = 0 => ~Unsupported(Here))
  BY DEF AtFunction
<1>3. Here \in Functions
  <2>1. Here[3] < NFunc
    BY <1>1, <1>2
  <2> QED BY <1>1, <1>2, <2>1, PlacesAre
<1>4. ~Unsupported(<<Here[1], Here[2], 0>>)
  <2>1. CASE Here[3] = 0
    BY <1>1, <1>2, <2>1
  <2>2. CASE Here[3] # 0
    <3>1. Here[3] > 0
      BY <1>1, <2>2
    <3> QED BY <1>2, <3>1, HereIs DEF Sensible
  <2> QED BY <2>1, <2>2
<1>5. Here[3] > 0 => <<Here[1], Here[2]>> \in machine.multi
  BY <1>1, <1>2 DEF FuncsOf
<1> QED BY <1>2, <1>3, <1>4, <1>5 DEF Visible

\* It has not been given to pci_attach() yet.
LEMMA NotYet ==
  ASSUME FramesInv, AttachedInv, Here \in Functions
  PROVE  Here \notin Attached
<1>1. Len(frames) \in Nat \ {0} /\ Len(frames) \in 1..Len(frames) /\ ~(Len(frames) < Len(frames))
  BY HereIs
<1>2. Here[2] \in Nat /\ Here[3] \in Nat
  BY PlacesAre
<1>3. ~Ahead(Here, Here)
  BY <1>2 DEF Ahead
<1>4. ~Passed(Here, Len(frames))
  BY <1>1, <1>3 DEF Passed, Here
<1>5. frames[Len(frames)][1] = Here[1]
  BY DEF Here
<1> QED BY <1>1, <1>4, <1>5 DEF AttachedInv

\* One more is attached.
LEMMA OneMore ==
  ASSUME AttachedInv, NEW f \in Functions, f \notin Attached, attached' = Append(attached, f)
  PROVE  /\ attached' \in Seq(Functions) /\ Attached' = Attached \cup {f}
         /\ \A j, k \in DOMAIN attached' : attached'[j] = attached'[k] => j = k
<1> DEFINE n == Len(attached)
<1>1. attached \in Seq(Functions) /\ n \in Nat /\ DOMAIN attached = 1..n
  BY DEF AttachedInv
<1>2. /\ attached' \in Seq(Functions) /\ DOMAIN attached' = 1..(n + 1)
      /\ \A k \in 1..n : attached'[k] = attached[k]
      /\ attached'[n + 1] = f
  <2>1. Len(attached') = n + 1
    BY <1>1
  <2> QED BY <1>1, <2>1
<1> HIDE DEF n
<1>3. \A k : k \in 1..(n + 1) <=> k \in 1..n \/ k = n + 1
  BY <1>1
<1>4. \A k \in 1..n : attached[k] # f
  BY <1>1 DEF Attached
<1>5. Attached' = Attached \cup {f}
  BY <1>1, <1>2, <1>3 DEF Attached
<1>6. \A j, k \in 1..n : attached[j] = attached[k] => j = k
  BY <1>1 DEF AttachedInv
<1> QED BY <1>2, <1>3, <1>4, <1>5, <1>6


\* pci_attach() of what is not a bridge.
LEMMA AttachStep ==
  ASSUME FramesInv, AttachedInv, Attach
  PROVE  FramesInv' /\ AttachedInv'
<1> DEFINE n == Len(frames)
           p == NextFunc(Here)
<1>0. /\ UNCHANGED machine /\ AtFunction /\ Class(Here) \notin {"none", "bridge"}
      /\ attached' = Append(attached, Here) /\ ScanOn(p)
  BY DEF Attach
<1>1. /\ n \in Nat \ {0} /\ DOMAIN frames = 1..n
      /\ \A k \in 1..n : frames[k] \in Places
      /\ \A k \in 1..(n - 1) : frames[k][1] < Here[1]
  BY HereIs
<1> HIDE DEF n
<1>a. /\ n \in 1..n /\ ~(n < n) /\ n - 1 \in Nat
      /\ \A k \in 1..n : k = n \/ (k # n /\ k \in 1..(n - 1))
      /\ \A k \in 1..(n - 1) : k \in 1..n /\ k # n /\ k < n
      /\ \A k : k \in 1..(n + 1) <=> k \in 1..n \/ k = n + 1
      /\ \A k \in 1..n : k < n + 1 /\ (k < n <=> k # n)
  BY <1>1
<1>2. Here \in Functions /\ Visible(Here) /\ Here[3] < FuncsOf(Here) /\ ~Unsupported(<<Here[1], Here[2], 0>>)
  BY <1>0, AtVisible
<1>3. /\ p \in Places /\ Sensible(p) /\ p[1] = Here[1]
      /\ \A f \in Functions : Ahead(f, p) <=> Ahead(f, Here) \/ AtPlace(f, Here)
  BY <1>2, NextFuncIs
<1>4. Here \notin Attached
  BY <1>2, NotYet
<1>5. /\ attached' \in Seq(Functions) /\ Attached' = Attached \cup {Here}
      /\ \A j, k \in DOMAIN attached' : attached'[j] = attached'[k] => j = k
  BY <1>0, <1>2, <1>4, OneMore
<1> HIDE DEF p
<1>6. /\ frames' \in Seq(Places) /\ Len(frames') = n /\ DOMAIN frames' = 1..n
      /\ \A k \in 1..n : frames'[k] = IF k = n THEN p ELSE frames[k]
  <2>1. frames \in Seq(Places) /\ frames' = [frames EXCEPT ![n] = p]
    BY <1>0 DEF FramesInv, ScanOn, n
  <2> QED BY <1>1, <1>a, <1>3, <2>1
<1>7. /\ \A f : (Visible(f)' <=> Visible(f)) /\ (FuncsOf(f)' = FuncsOf(f)) /\ (Unsupported(f)' <=> Unsupported(f))
      /\ \A f : Class(f)' = Class(f) /\ Secondary(f)' = Secondary(f)
  BY <1>0 DEF Visible, FuncsOf, Unsupported, Class, Secondary
<1>8. \A b : Opened(b)' <=> Opened(b)
  BY <1>0, <1>5, <1>7 DEF Opened
<1>9. \A k \in 1..n : frames'[k][1] = frames[k][1]
  BY <1>3, <1>6 DEF Here, n
<1>10. FramesInv'
  <2>1. DepthBounded'
    BY <1>1, <1>a, <1>6, <1>9 DEF DepthBounded, FramesInv, n
  <2>2. \A k \in 1..n : Sensible(frames[k])' /\ Opened(frames[k][1])'
    <3> TAKE k \in 1..n
    <3>1. Sensible(frames[k]) /\ Opened(frames[k][1])
      BY DEF FramesInv, n
    <3>2. Sensible(frames'[k])
      BY <1>3, <1>6, <3>1
    <3>3. Sensible(frames[k])' <=> Sensible(frames'[k])
      BY <1>7 DEF Sensible
    <3>4. Opened(frames[k][1])' <=> Opened(frames[k][1])
      <4>1. Opened(frames[k][1])' <=> Opened(frames'[k][1])
        BY <1>0, <1>5, <1>7 DEF Opened
      <4> QED BY <1>9, <4>1
    <3> QED BY <3>1, <3>2, <3>3, <3>4
  <2>3. \A k \in 1..(n - 1) :
          /\ frames[k] \in Functions /\ frames[k][3] < FuncsOf(frames[k])
          /\ ~Unsupported(<<frames[k][1], frames[k][2], 0>>)
          /\ frames'[k] = frames[k]
    BY <1>1, <1>a, <1>6 DEF FramesInv, n
  <2>4. Functions' = Functions
    BY DEF Functions
  <2> QED BY <1>1, <1>a, <1>6, <1>7, <2>1, <2>2, <2>3, <2>4 DEF FramesInv, n
<1>11. \A f \in Functions : f \in Attached' <=>
         /\ Visible(f)' /\ Opened(f[1])'
         /\ \A k \in 1..n : frames'[k][1] = f[1] => Passed(f, k)'
  <2> TAKE f \in Functions
  <2>1. f \in Attached <=> /\ Visible(f) /\ Opened(f[1])
                           /\ \A k \in 1..n : frames[k][1] = f[1] => Passed(f, k)
    BY DEF AttachedInv, n
  <2>2. CASE f = Here
    <3>1. \A k \in 1..n : frames[k][1] = f[1] => k = n
      <4> TAKE k \in 1..n
      <4>1. k # n => k \in 1..(n - 1)
        BY <1>1, <1>a
      <4>2. Here[1] \in Nat
        BY <1>2, PlacesAre
      <4>3. k # n => frames[k][1] < Here[1]
        BY <1>1, <1>a, <4>1
      <4>4. \A x \in Nat : ~(x < x)
        OBVIOUS
      <4> QED BY <2>2, <4>2, <4>3, <4>4
    <3>2. \A k \in 1..n : k = n => Passed(f, k)'
      <4>1. AtPlace(f, Here) /\ frames'[n] = p
        BY <1>1, <1>a, <1>6, <2>2 DEF AtPlace
      <4>2. Ahead(f, p)
        BY <1>3, <4>1
      <4> QED BY <4>1, <4>2 DEF Passed, Ahead
    <3>3. Opened(f[1])
      BY <2>2, HereIs
    <3> QED BY <1>2, <1>5, <1>7, <1>8, <1>9, <2>2, <3>1, <3>2, <3>3
  <2>3. CASE f # Here
    <3>1. \A k \in 1..n : frames[k][1] = f[1] => (Passed(f, k)' <=> Passed(f, k))
      <4> TAKE k \in 1..n
      <4> SUFFICES ASSUME frames[k][1] = f[1] PROVE Passed(f, k)' <=> Passed(f, k)
        OBVIOUS
      <4>1. CASE k = n
        <5>1. ~AtPlace(f, Here)
          BY <1>2, <2>3, <4>1, PlacesAre DEF AtPlace, Here, n
        <5>2. Ahead(f, p) <=> Ahead(f, Here)
          BY <1>3, <5>1
        <5>3. frames'[n] = p /\ frames[n] = Here
          BY <1>1, <1>a, <1>6 DEF Here, n
        <5> QED BY <1>1, <1>a, <1>6, <4>1, <5>2, <5>3 DEF Passed, Ahead, n
      <4>2. CASE k # n
        BY <1>6, <4>2 DEF Passed, Ahead, AtPlace, n
      <4> QED BY <4>1, <4>2
    <3> QED BY <1>5, <1>7, <1>8, <1>9, <2>1, <2>3, <3>1
  <2> QED BY <2>2, <2>3
<1>12. AttachedInv'
  <2>1. Functions' = Functions
    BY DEF Functions
  <2> QED BY <1>5, <1>6, <1>11, <2>1 DEF AttachedInv, n
<1> QED BY <1>10, <1>12

\* A bridge leads to a bus that has not been scanned.
LEMMA BusIsNew ==
  ASSUME machine \in Machines, FramesInv, AttachedInv, Here \in Functions, Class(Here) = "bridge"
  PROVE  /\ Secondary(Here) \in Buses /\ Secondary(Here) > Here[1]
         /\ ~Opened(Secondary(Here))
<1>1. Numbered(machine)
  BY MachinesAssumption
<1>2. Secondary(Here) \in Buses /\ Secondary(Here) > Here[1]
  BY <1>1 DEF Numbered, Class, Secondary
<1>3. Secondary(Here) # 0
  BY <1>2, PlacesAre, BusesAssumption
<1>4. \A g \in Attached : g \in Functions /\ g # Here
  <2>1. Here \notin Attached
    BY NotYet
  <2>2. \A k \in DOMAIN attached : attached[k] \in Functions
    BY DEF AttachedInv
  <2> QED BY <2>1, <2>2 DEF Attached
<1>5. \A g \in Attached : Class(g) = "bridge" => Secondary(g) # Secondary(Here)
  BY <1>1, <1>4 DEF Numbered, Class, Secondary
<1> QED BY <1>2, <1>3, <1>5 DEF Opened

\* pci_bridge_attach(), which begins with the bus behind the bridge.
LEMMA BridgeStep ==
  ASSUME machine \in Machines, FramesInv, AttachedInv, AttachBridge
  PROVE  FramesInv' /\ AttachedInv'
<1> DEFINE n == Len(frames)
           b == Secondary(Here)
<1>0. /\ UNCHANGED machine /\ AtFunction /\ Class(Here) = "bridge"
      /\ attached' = Append(attached, Here) /\ frames' = Append(frames, <<b, 0, 0>>)
  BY DEF AttachBridge, Frame
<1>1. /\ n \in Nat \ {0} /\ DOMAIN frames = 1..n
      /\ \A k \in 1..n : frames[k] \in Places
      /\ \A k \in 1..(n - 1) : frames[k][1] < Here[1]
  BY HereIs
<1> HIDE DEF n
<1>a. /\ n \in 1..n /\ ~(n < n) /\ n - 1 \in Nat
      /\ \A k \in 1..n : k = n \/ (k # n /\ k \in 1..(n - 1))
      /\ \A k \in 1..(n - 1) : k \in 1..n /\ k # n /\ k < n
      /\ \A k : k \in 1..(n + 1) <=> k \in 1..n \/ k = n + 1
      /\ \A k \in 1..n : k < n + 1 /\ (k < n <=> k # n)
  BY <1>1
<1>2. Here \in Functions /\ Visible(Here) /\ Here[3] < FuncsOf(Here) /\ ~Unsupported(<<Here[1], Here[2], 0>>)
  BY <1>0, AtVisible
<1>3. b \in Buses /\ b \in Nat /\ b > Here[1] /\ ~Opened(b) /\ Here[1] \in Nat
  BY <1>0, <1>2, BusIsNew, PlacesAre, BusesAssumption
<1>4. Here \notin Attached
  BY <1>2, NotYet
<1>5. /\ attached' \in Seq(Functions) /\ Attached' = Attached \cup {Here}
      /\ \A j, k \in DOMAIN attached' : attached'[j] = attached'[k] => j = k
  BY <1>0, <1>2, <1>4, OneMore
<1>6. <<b, 0, 0>> \in Places
  <2>1. 0 \in 0..NDev /\ 0 \in 0..NFunc
    BY PlacesAre
  <2> QED BY <1>3, <2>1 DEF Places
<1>7. /\ frames' \in Seq(Places) /\ Len(frames') = n + 1 /\ DOMAIN frames' = 1..(n + 1)
      /\ \A k \in 1..n : frames'[k] = frames[k]
      /\ frames'[n + 1] = <<b, 0, 0>>
  <2>1. frames \in Seq(Places) /\ n \in Nat
    BY <1>1, <1>a DEF FramesInv, n
  <2>2. frames' = Append(frames, <<b, 0, 0>>)
    BY <1>0
  <2> DEFINE e == <<b, 0, 0>>
  <2>3. e \in Places /\ frames' = Append(frames, e) /\ n = Len(frames)
    BY <1>6, <2>2 DEF n
  <2> HIDE DEF e
  <2>4. /\ frames' \in Seq(Places) /\ Len(frames') = n + 1
        /\ \A k \in 1..n : frames'[k] = frames[k]
        /\ frames'[n + 1] = e
    BY <2>1, <2>3, AppendProperties
  <2>5. DOMAIN frames' = 1..(n + 1)
    BY <2>4
  <2> QED BY <2>4, <2>5 DEF e
<1>8. /\ \A f : (Visible(f)' <=> Visible(f)) /\ (FuncsOf(f)' = FuncsOf(f)) /\ (Unsupported(f)' <=> Unsupported(f))
      /\ \A f : Class(f)' = Class(f) /\ Secondary(f)' = Secondary(f)
  BY <1>0 DEF Visible, FuncsOf, Unsupported, Class, Secondary
<1>9. \A c : Opened(c)' <=> Opened(c) \/ c = b
  BY <1>0, <1>5, <1>8 DEF Opened
<1>10. \A k \in 1..n : frames[k][1] \in Nat /\ frames[k][1] < b
  <2> TAKE k \in 1..n
  <2>1. frames[k][1] \in Nat
    BY <1>1, <1>a, PlacesAre
  <2>2. k = n \/ k \in 1..(n - 1)
    BY <1>1, <1>a
  <2>3. frames[k][1] = Here[1] \/ frames[k][1] < Here[1]
    BY <1>1, <1>a, <2>2 DEF Here, n
  <2> QED BY <1>3, <2>1, <2>3
<1> HIDE DEF b
<1>11. FramesInv'
  <2>0. \A k : k \in 1..(n + 1) <=> k \in 1..n \/ k = n + 1
    BY <1>1, <1>a
  <2>1. DepthBounded'
    <3> SUFFICES ASSUME NEW j \in 1..(n + 1), NEW k \in 1..(n + 1), j < k
                 PROVE  frames'[j][1] < frames'[k][1]
      BY <1>7 DEF DepthBounded
    <3>1. j \in 1..n
      BY <1>1, <1>a
    <3>2. CASE k \in 1..n
      BY <1>1, <1>a, <1>7, <3>1, <3>2 DEF FramesInv, DepthBounded, n
    <3>3. CASE k = n + 1
      BY <1>7, <1>10, <3>1, <3>3
    <3> QED BY <2>0, <3>2, <3>3
  <2>2. \A k \in 1..(n + 1) : Sensible(frames[k])' /\ Opened(frames[k][1])'
    <3> TAKE k \in 1..(n + 1)
    <3>1. Sensible(frames[k])' <=> Sensible(frames'[k])
      BY <1>8 DEF Sensible
    <3>2. Opened(frames[k][1])' <=> Opened(frames'[k][1]) \/ frames'[k][1] = b
      BY <1>0, <1>5, <1>8 DEF Opened, b
    <3>3. CASE k \in 1..n
      BY <1>7, <3>1, <3>2, <3>3 DEF FramesInv, n
    <3>4. CASE k = n + 1
      <4>1. FuncsOf(<<b, 0, 0>>) \in 1..NFunc /\ NFunc \in Nat
        BY PlacesAre
      <4>2. Sensible(<<b, 0, 0>>)
        BY <4>1 DEF Sensible
      <4> QED BY <1>7, <3>1, <3>2, <3>4, <4>2
    <3> QED BY <2>0, <3>3, <3>4
  <2>3. \A k \in 1..n :
          /\ frames[k] \in Functions /\ frames[k][3] < FuncsOf(frames[k])
          /\ ~Unsupported(<<frames[k][1], frames[k][2], 0>>)
    <3> TAKE k \in 1..n
    <3>1. k \in 1..(n - 1) \/ k = n
      BY <1>1, <1>a
    <3> QED BY <1>2, <3>1 DEF FramesInv, Here, n
  <2>4. Functions' = Functions /\ (n + 1) - 1 = n /\ n + 1 > 0
    BY <1>1, <1>a DEF Functions
  <2> QED BY <1>7, <1>8, <2>1, <2>2, <2>3, <2>4 DEF FramesInv, n
<1>12. \A f \in Functions : f \in Attached' <=>
         /\ Visible(f)' /\ Opened(f[1])'
         /\ \A k \in 1..(n + 1) : frames'[k][1] = f[1] => Passed(f, k)'
  <2> TAKE f \in Functions
  <2>0. \A k : k \in 1..(n + 1) <=> k \in 1..n \/ k = n + 1
    BY <1>1, <1>a
  <2>1. f \in Attached <=> /\ Visible(f) /\ Opened(f[1])
                           /\ \A k \in 1..n : frames[k][1] = f[1] => Passed(f, k)
    BY DEF AttachedInv, n
  <2>2. CASE f[1] = b
    <3>1. f # Here /\ f \notin Attached
      <4>1. Here[1] # b
        BY <1>3
      <4> QED BY <1>3, <2>1, <2>2, <4>1 DEF b
    <3>2. \A k : k = n + 1 => ~Passed(f, k)'
      <4>1. f[2] \in Nat /\ f[3] \in Nat
        BY PlacesAre
      <4>2. ~(f[2] < 0) /\ ~(f[3] < 0) /\ ~(n + 1 < n + 1)
        BY <1>1, <1>a, <4>1
      <4> QED BY <1>7, <4>2 DEF Passed, Ahead
    <3>3. frames'[n + 1][1] = f[1]
      BY <1>7, <2>2
    <3> QED BY <1>5, <2>0, <3>1, <3>2, <3>3
  <2>3. CASE f[1] # b
    <3>1. frames'[n + 1][1] # f[1]
      BY <1>7, <2>3
    <3>2. Opened(f[1])' <=> Opened(f[1])
      BY <1>9, <2>3
    <3>3. \A k \in 1..n : Passed(f, k)' <=> Passed(f, k) \/ (k = n /\ AtPlace(f, Here))
      <4> TAKE k \in 1..n
      <4>1. k < n + 1 /\ (k < n <=> k # n)
        BY <1>1, <1>a
      <4> QED BY <1>7, <4>1 DEF Passed, Ahead, AtPlace, Here, n
    <3>4. CASE f = Here
      <4>1. \A k \in 1..n : frames[k][1] = f[1] => k = n
        <5> TAKE k \in 1..n
        <5>1. k # n => k \in 1..(n - 1)
          BY <1>1, <1>a
        <5>2. k # n => frames[k][1] < Here[1]
          BY <1>1, <1>a, <5>1
        <5>3. \A x \in Nat : ~(x < x)
          OBVIOUS
        <5> QED BY <1>3, <3>4, <5>2, <5>3
      <4>2. AtPlace(f, Here) /\ Opened(f[1])
        BY <3>4, HereIs DEF AtPlace
      <4> QED BY <1>2, <1>5, <1>7, <1>8, <2>0, <3>1, <3>2, <3>3, <3>4, <4>1, <4>2
    <3>5. CASE f # Here
      <4>1. frames[n][1] = f[1] => ~AtPlace(f, Here)
        BY <1>2, <3>5, PlacesAre DEF AtPlace, Here, n
      <4>2. \A k \in 1..n : frames[k][1] = f[1] => (Passed(f, k)' <=> Passed(f, k))
        BY <3>3, <4>1
      <4>3. (\A k \in 1..(n + 1) : frames'[k][1] = f[1] => Passed(f, k)') <=>
            (\A k \in 1..n : frames[k][1] = f[1] => Passed(f, k)')
        BY <1>7, <2>0, <3>1
      <4> QED BY <1>5, <1>8, <2>1, <3>2, <3>5, <4>2, <4>3
    <3> QED BY <3>4, <3>5
  <2> QED BY <2>2, <2>3
<1>13. AttachedInv'
  <2>1. Functions' = Functions
    BY DEF Functions
  <2> QED BY <1>5, <1>7, <1>12, <2>1 DEF AttachedInv, n
<1> QED BY <1>11, <1>13


\* The scan of a bus ends, and that of the bus before it goes on behind the bridge.
LEMMA BusDoneStep ==
  ASSUME FramesInv, AttachedInv, BusDone, Len(frames) # 1
  PROVE  FramesInv' /\ AttachedInv' /\ pciPc' = pciPc
<1> DEFINE n == Len(frames)
           m == n - 1
           p == NextFunc(frames[m])
<1>1. /\ n \in Nat \ {0} /\ n # 1 /\ DOMAIN frames = 1..n
      /\ \A k \in 1..n : frames[k] \in Places
      /\ \A k \in 1..(n - 1) : frames[k][1] < Here[1]
  BY HereIs
<1> HIDE DEF n
<1>2. /\ m \in Nat \ {0} /\ m # 0 /\ n \in 1..n /\ m \in 1..n /\ m \in 1..m /\ m < n /\ ~(n < n) /\ ~(m < m)
      /\ \A k \in 1..m : k \in 1..n /\ k < n /\ (k < m <=> k # m)
      /\ \A k \in 1..n : k = n \/ k \in 1..m
      /\ \A k \in 1..(m - 1) : k \in 1..m /\ k # m
  BY <1>1
<1>3. /\ UNCHANGED <<machine, attached>> /\ Here[2] = NDev /\ pciPc' = pciPc
      /\ frames' = [SubSeq(frames, 1, m) EXCEPT ![m] = NextFunc(@)]
  BY <1>2 DEF BusDone, n
<1> HIDE DEF m
<1>4. \A k \in 1..m : /\ frames[k] \in Functions /\ frames[k][3] < FuncsOf(frames[k])
                      /\ ~Unsupported(<<frames[k][1], frames[k][2], 0>>)
                      /\ Sensible(frames[k]) /\ Opened(frames[k][1])
  BY <1>2 DEF FramesInv, n, m
<1>5. /\ p \in Places /\ Sensible(p) /\ p[1] = frames[m][1]
      /\ \A f \in Functions : Ahead(f, p) <=> Ahead(f, frames[m]) \/ AtPlace(f, frames[m])
  BY <1>2, <1>4, NextFuncIs
<1>6. /\ frames' \in Seq(Places) /\ Len(frames') = m /\ DOMAIN frames' = 1..m
      /\ \A k \in 1..m : frames'[k] = IF k = m THEN p ELSE frames[k]
  <2> DEFINE s == SubSeq(frames, 1, m)
  <2>1. s \in Seq(Places) /\ Len(s) = m /\ DOMAIN s = 1..m /\ \A k \in 1..m : s[k] = frames[k]
    <3>1. frames \in Seq(Places) /\ 1..m \subseteq 1..n /\ n = Len(frames) /\ m \in Nat \ {0}
      BY <1>2 DEF FramesInv, n
    <3>2. s \in Seq(Places) /\ Len(s) = m
      BY <3>1
    <3>3. \A k \in 1..m : s[k] = frames[k]
      BY <3>1
    <3> QED BY <3>2, <3>3
  <2>2. frames' = [s EXCEPT ![m] = NextFunc(s[m])]
    BY <1>3
  <2>3. frames' = [s EXCEPT ![m] = p]
    BY <1>2, <2>1, <2>2
  <2> HIDE DEF s, p
  <2> QED BY <1>2, <1>5, <2>1, <2>3
<1> HIDE DEF p
<1>7. /\ \A f : (Visible(f)' <=> Visible(f)) /\ (FuncsOf(f)' = FuncsOf(f)) /\ (Unsupported(f)' <=> Unsupported(f))
      /\ \A f : Class(f)' = Class(f) /\ Secondary(f)' = Secondary(f)
      /\ \A b : Opened(b)' <=> Opened(b)
      /\ Attached' = Attached
  BY <1>3 DEF Visible, FuncsOf, Unsupported, Class, Secondary, Opened, Attached
<1>8. \A k \in 1..m : frames'[k][1] = frames[k][1]
  BY <1>5, <1>6
<1>9. FramesInv'
  <2>1. DepthBounded'
    <3>1. \A j, k \in 1..m : j < k => frames[j][1] < frames[k][1]
      BY <1>1, <1>2 DEF FramesInv, DepthBounded
    <3> QED BY <1>6, <1>8, <3>1 DEF DepthBounded
  <2>2. \A k \in 1..m : Sensible(frames[k])' /\ Opened(frames[k][1])'
    <3> TAKE k \in 1..m
    <3>1. Sensible(frames'[k]) /\ Opened(frames'[k][1])
      BY <1>4, <1>5, <1>6, <1>8
    <3>2. Sensible(frames[k])' <=> Sensible(frames'[k])
      BY <1>7 DEF Sensible
    <3>3. Opened(frames[k][1])' <=> Opened(frames'[k][1])
      BY <1>3 DEF Opened, Attached, Class, Secondary
    <3> QED BY <3>1, <3>2, <3>3
  <2>3. \A k \in 1..(m - 1) :
          /\ frames'[k] \in Functions /\ frames'[k][3] < FuncsOf(frames'[k])
          /\ ~Unsupported(<<frames'[k][1], frames'[k][2], 0>>)
    BY <1>2, <1>4, <1>6
  <2>4. \A k \in 1..(m - 1) :
          /\ (frames[k] \in Functions)' /\ (frames[k][3] < FuncsOf(frames[k]))'
          /\ ~Unsupported(<<frames[k][1], frames[k][2], 0>>)'
    BY <1>3, <2>3 DEF Functions, FuncsOf, Unsupported, Class
  <2>5. m > 0
    BY <1>2
  <2> QED BY <1>6, <2>1, <2>2, <2>4, <2>5 DEF FramesInv
<1>10. \A f \in Functions : f \in Attached' <=>
         /\ Visible(f)' /\ Opened(f[1])'
         /\ \A k \in 1..m : frames'[k][1] = f[1] => Passed(f, k)'
  <2> TAKE f \in Functions
  <2>1. f \in Attached <=> /\ Visible(f) /\ Opened(f[1])
                           /\ \A k \in 1..n : frames[k][1] = f[1] => Passed(f, k)
    BY DEF AttachedInv, n
  <2>2. Passed(f, n)
    <3>1. f[2] < NDev
      BY PlacesAre
    <3> QED BY <1>3, <3>1 DEF Passed, Ahead, Here, n
  <2>3. \A k \in 1..m : Passed(f, k)' <=> Passed(f, k)
    <3> TAKE k \in 1..m
    <3>1. CASE k = m
      <4>1. Passed(f, k) <=> Ahead(f, frames[m]) \/ AtPlace(f, frames[m])
        BY <1>2, <3>1 DEF Passed, n
      <4>2. Passed(f, k)' <=> Ahead(f, p)
        BY <1>2, <1>6, <3>1 DEF Passed, Ahead
      <4> QED BY <1>5, <4>1, <4>2
    <3>2. CASE k # m
      <4>1. k < m /\ k < n
        BY <1>2, <3>2
      <4> QED BY <1>6, <3>2, <4>1 DEF Passed, Ahead, AtPlace, n
    <3> QED BY <3>1, <3>2
  <2>4. (\A k \in 1..n : frames[k][1] = f[1] => Passed(f, k)) <=>
        (\A k \in 1..m : frames'[k][1] = f[1] => Passed(f, k)')
    BY <1>2, <1>8, <2>2, <2>3
  <2> QED BY <1>7, <2>1, <2>4
<1>11. AttachedInv'
  <2>1. Functions' = Functions /\ attached \in Seq(Functions)
        /\ \A j, k \in DOMAIN attached : attached[j] = attached[k] => j = k
    BY DEF Functions, AttachedInv
  <2> QED BY <1>3, <1>6, <1>10, <2>1 DEF AttachedInv
<1> QED BY <1>3, <1>9, <1>11

\* A scan that does not move.
LEMMA ScanKept ==
  ASSUME FramesInv, AttachedInv, UNCHANGED <<machine, frames, attached>>
  PROVE  FramesInv' /\ AttachedInv'
<1>1. /\ \A f : (Visible(f)' <=> Visible(f)) /\ (\A k : Passed(f, k)' <=> Passed(f, k))
      /\ \A b : Opened(b)' <=> Opened(b)
      /\ Attached' = Attached
  BY DEF Visible, Unsupported, Class, Secondary, Opened, Attached, Passed, Ahead, AtPlace
<1>2. AttachedInv'
  BY <1>1 DEF AttachedInv
<1>3. \A k : (Sensible(frames[k])' <=> Sensible(frames[k])) /\ (Opened(frames[k][1])' <=> Opened(frames[k][1]))
  BY DEF Sensible, FuncsOf, Unsupported, Class, Opened, Attached, Secondary
<1>4. DepthBounded'
  BY DEF FramesInv, DepthBounded
<1>5. FramesInv'
  BY <1>3, <1>4 DEF FramesInv, FuncsOf, Unsupported, Class
<1> QED BY <1>2, <1>5

\* Each step of pci_scan_bus().
LEMMA PciStep == PciInv /\ [PciNext]_pciVars => PciInv'
<1> SUFFICES ASSUME PciInv, [PciNext]_pciVars PROVE PciInv'
  OBVIOUS
<1>1. CASE StartScan
  <2>1. /\ pciPc = "off" /\ pciPc' = "scan" /\ machine' \in Machines
        /\ frames' = <<Frame(0)>> /\ attached' = attached /\ attached = <<>>
    BY <1>1 DEF StartScan, PciInv
  <2>2. Frame(0) = <<0, 0, 0>> /\ <<0, 0, 0>> \in Places
    <3>1. 0 \in 0..NDev /\ 0 \in 0..NFunc
      BY PlacesAre
    <3> QED BY <3>1, BusesAssumption DEF Frame, Places
  <2>3. /\ frames' \in Seq(Places) /\ Len(frames') = 1 /\ DOMAIN frames' = 1..1
        /\ frames'[1] = <<0, 0, 0>> /\ \A k : k \in 1..1 <=> k = 1
    BY <2>1, <2>2
  <2>4. FramesInv'
    <3>1. DepthBounded'
      BY <2>3 DEF DepthBounded
    <3>2. \A k \in 1..1 : Sensible(frames[k])' /\ Opened(frames[k][1])'
      <4>1. (FuncsOf(<<0, 0, 0>>) \in 1..NFunc)'
        <5>1. FuncsOf(<<0, 0, 0>>)' \in 1..NFunc
          BY BusesAssumption DEF FuncsOf
        <5> QED BY <5>1
      <4>2. NFunc \in Nat /\ NDev \in Nat /\ NDev # 0
        BY PlacesAre
      <4>3. 0 <= FuncsOf(<<0, 0, 0>>)'
        BY <4>1, <4>2
      <4>4. FuncsOf(frames[1])' = FuncsOf(<<0, 0, 0>>)'
        BY <2>3 DEF FuncsOf
      <4> QED BY <2>3, <4>2, <4>3, <4>4 DEF Sensible, Opened
    <3>3. 1 > 0 /\ 1..(1 - 1) = {}
      OBVIOUS
    <3> QED BY <2>3, <3>1, <3>2, <3>3 DEF FramesInv
  <2>5. AttachedInv'
    <3>1. attached' \in Seq(Functions) /\ DOMAIN attached' = {} /\ Attached' = {}
      BY <2>1 DEF Attached
    <3>2. \A f \in Functions : ~(Visible(f)' /\ Opened(f[1])'
             /\ \A k \in 1..Len(frames') : frames'[k][1] = f[1] => Passed(f, k)')
      <4> TAKE f \in Functions
      <4>1. Opened(f[1])' => f[1] = 0
        BY <3>1 DEF Opened
      <4>2. f[2] \in Nat /\ f[3] \in Nat
        BY PlacesAre
      <4>3. ~(f[2] < 0) /\ ~(f[3] < 0) /\ ~(1 < 1)
        BY <4>2
      <4>4. \A k : k = 1 => ~Passed(f, k)'
        BY <2>3, <4>3 DEF Passed, Ahead
      <4> QED BY <2>3, <4>1, <4>4
    <3>3. Functions' = Functions
      BY DEF Functions
    <3> QED BY <3>1, <3>2, <3>3 DEF AttachedInv
  <2> QED BY <2>1, <2>4, <2>5 DEF PciInv
<1>2. CASE Scan
  <2>1. pciPc = "scan" /\ machine \in Machines /\ FramesInv /\ AttachedInv
    BY <1>2 DEF Scan, PciInv
  <2>2. /\ Len(frames) \in Nat \ {0} /\ Here \in Places /\ Sensible(Here)
        /\ \A f \in Functions : f = <<f[1], f[2], f[3]>> /\ f[2] \in Nat /\ f[3] \in Nat
        /\ Here[1] \in Nat /\ Here[2] \in Nat /\ Here[3] \in Nat /\ NFunc \in Nat
        /\ Here = <<Here[1], Here[2], Here[3]>>
    BY <2>1, HereIs, PlacesAre
  <2>3. CASE SkipDevice \/ DeviceDone
    <3>1. Here[2] < NDev /\ ScanOn(NextDev(Here)) /\ UNCHANGED <<pciPc, machine, attached>>
      BY <2>3 DEF SkipDevice, DeviceDone
    <3>2. /\ NextDev(Here) \in Places /\ Sensible(NextDev(Here)) /\ NextDev(Here)[1] = Here[1]
          /\ \A f \in Functions : Ahead(f, NextDev(Here)) <=> Ahead(f, Here) \/ (f[2] = Here[2] /\ f[3] >= Here[3])
      BY <2>2, <3>1, NextDevIs
    <3>3. ASSUME NEW f \in Functions, Visible(f), f[1] = Here[1], f[2] = Here[2], f[3] >= Here[3]
          PROVE  FALSE
      <4>1. CASE SkipDevice
        <5>1. <<f[1], f[2], 0>> = Here /\ Unsupported(Here)
          BY <2>2, <3>3, <4>1 DEF SkipDevice
        <5> QED BY <3>3, <5>1 DEF Visible
      <4>2. CASE DeviceDone
        <5>1. Here[3] >= FuncsOf(Here) /\ FuncsOf(Here) = (IF <<f[1], f[2]>> \in machine.multi THEN NFunc ELSE 1)
          BY <3>3, <4>2 DEF DeviceDone, FuncsOf
        <5>2. f[3] < NFunc
          BY PlacesAre
        <5>3. <<f[1], f[2]>> \notin machine.multi /\ f[3] > 0
          BY <2>2, <3>3, <5>1, <5>2
        <5> QED BY <3>3, <5>3 DEF Visible
      <4> QED BY <2>3, <4>1, <4>2
    <3>4. \A f \in Functions : Visible(f) /\ f[1] = NextDev(Here)[1] =>
            (Ahead(f, NextDev(Here)) <=> Ahead(f, Here))
      BY <3>2, <3>3
    <3>5. FramesInv' /\ AttachedInv'
      BY <2>1, <3>1, <3>2, <3>4, PassedOver
    <3> QED BY <2>1, <3>1, <3>5 DEF PciInv
  <2>4. CASE SkipFunction
    <3>1. AtFunction /\ Class(Here) = "none" /\ ScanOn(NextFunc(Here)) /\ UNCHANGED <<pciPc, machine, attached>>
      BY <2>4 DEF SkipFunction, Skip
    <3>2. Here \in Functions /\ Here[3] < FuncsOf(Here) /\ ~Unsupported(<<Here[1], Here[2], 0>>) /\ ~Visible(Here)
      BY <2>1, <3>1, AtVisible
    <3>3. /\ NextFunc(Here) \in Places /\ Sensible(NextFunc(Here)) /\ NextFunc(Here)[1] = Here[1]
          /\ \A f \in Functions : Ahead(f, NextFunc(Here)) <=> Ahead(f, Here) \/ AtPlace(f, Here)
      BY <3>2, NextFuncIs
    <3>4. \A f \in Functions : Visible(f) /\ f[1] = Here[1] => ~AtPlace(f, Here)
      BY <2>2, <3>2 DEF AtPlace
    <3>5. \A f \in Functions : Visible(f) /\ f[1] = NextFunc(Here)[1] =>
            (Ahead(f, NextFunc(Here)) <=> Ahead(f, Here))
      BY <3>3, <3>4
    <3>6. FramesInv' /\ AttachedInv'
      BY <2>1, <3>1, <3>3, <3>5, PassedOver
    <3> QED BY <2>1, <3>1, <3>6 DEF PciInv
  <2>5. CASE Attach
    <3>1. UNCHANGED <<pciPc, machine>>
      BY <2>5 DEF Attach
    <3> QED BY <2>1, <2>5, <3>1, AttachStep DEF PciInv
  <2>6. CASE AttachBridge
    <3>1. UNCHANGED <<pciPc, machine>>
      BY <2>6 DEF AttachBridge
    <3> QED BY <2>1, <2>6, <3>1, BridgeStep DEF PciInv
  <2>7. CASE BusDone
    <3>1. CASE Len(frames) = 1
      <4>1. UNCHANGED <<machine, attached, frames>> /\ pciPc' = "done" /\ Here[2] = NDev
        BY <2>7, <3>1 DEF BusDone
      <4>2. FramesInv' /\ AttachedInv'
        BY <2>1, <4>1, ScanKept
      <4>4. \A k \in 1..Len(frames) : frames[k][2] = NDev
        BY <3>1, <4>1 DEF Here
      <4> QED BY <2>1, <4>1, <4>2, <4>4 DEF PciInv
    <3>2. CASE Len(frames) # 1
      <4>1. UNCHANGED machine
        BY <2>7 DEF BusDone
      <4> QED BY <2>1, <2>7, <3>2, <4>1, BusDoneStep DEF PciInv
    <3> QED BY <3>1, <3>2
  <2> QED BY <1>2, <2>3, <2>4, <2>5, <2>6, <2>7 DEF Scan
<1>3. CASE UNCHANGED pciVars
  <2>1. UNCHANGED <<pciPc, machine, frames, attached>>
    BY <1>3 DEF pciVars
  <2>2. FramesInv /\ AttachedInv => FramesInv' /\ AttachedInv'
    BY <2>1, ScanKept
  <2> QED BY <2>1, <2>2 DEF PciInv
<1> QED BY <1>1, <1>2, <1>3 DEF PciNext

\* When the scan is over, the buses it has gone to are those that can be reached.
LEMMA OpenedIsReached ==
  ASSUME PciInv, pciPc = "done"
  PROVE  \A b \in Buses : Reached[b] <=> Opened(b)
<1> DEFINE G(r, b) == b = 0 \/ \E f \in Functions : /\ f[1] < b /\ r[f[1]] /\ Visible(f)
                                                    /\ Class(f) = "bridge" /\ Secondary(f) = b
           F(r) == [b \in Buses |-> G(r, b)]
           O == [b \in Buses |-> Opened(b)]
<1>0. machine \in Machines /\ AttachedInv /\ \A k \in 1..Len(frames) : frames[k][2] = NDev
  BY DEF PciInv
<1>1. \A f \in Functions : f \in Attached <=> Visible(f) /\ Opened(f[1])
  <2> TAKE f \in Functions
  <2>1. f[2] < NDev
    BY PlacesAre
  <2>2. \A k \in 1..Len(frames) : Passed(f, k)
    BY <1>0, <2>1 DEF Passed, Ahead
  <2> QED BY <1>0, <2>2 DEF AttachedInv
<1>2. \A f \in Functions : f[1] \in Buses /\ (Class(f) = "bridge" => f[1] < Secondary(f))
  <2>1. Numbered(machine)
    BY <1>0, MachinesAssumption
  <2> TAKE f \in Functions
  <2>2. f[1] \in Buses /\ f[1] \in Nat
    BY PlacesAre
  <2>3. Class(f) = "bridge" => Secondary(f) \in Nat /\ Secondary(f) > f[1]
    BY <2>1, BusesAssumption DEF Numbered, Class, Secondary
  <2> QED BY <2>2, <2>3
<1>3. Attached \subseteq Functions
  <2>1. \A k \in DOMAIN attached : attached[k] \in Functions
    BY <1>0 DEF AttachedInv
  <2> QED BY <2>1 DEF Attached
<1>4. \A b \in Buses : Opened(b) <=> G(O, b)
  <2> TAKE b \in Buses
  <2>1. Opened(b) <=> b = 0 \/ \E f \in Functions : f \in Attached /\ Class(f) = "bridge" /\ Secondary(f) = b
    BY <1>3 DEF Opened
  <2>2. \A f \in Functions : f \in Attached <=> O[f[1]] /\ Visible(f)
    BY <1>1, <1>2
  <2> HIDE DEF O
  <2>3. \A f \in Functions : f \in Attached /\ Class(f) = "bridge" /\ Secondary(f) = b <=>
          f[1] < b /\ O[f[1]] /\ Visible(f) /\ Class(f) = "bridge" /\ Secondary(f) = b
    BY <1>2, <2>2
  <2> QED BY <2>1, <2>3
<1>5. O = F(O)
  <2>1. \A b : Opened(b) \in BOOLEAN /\ G(O, b) \in BOOLEAN
    BY DEF Opened
  <2> QED BY <1>4, <2>1
<1>6. Reached = CHOOSE r : r = F(r)
  BY DEF Reached
<1> HIDE DEF F
<1>7. Reached = F(Reached)
  <2>1. \E r : r = F(r)
    BY <1>5
  <2>2. (CHOOSE r : r = F(r)) = F(CHOOSE r : r = F(r))
    BY <2>1
  <2> QED BY <1>6, <2>2
<1> HIDE DEF Reached
<1>8. \A b \in Buses : Reached[b] <=> G(Reached, b)
  BY <1>7 DEF F
<1> DEFINE T == {b \in Buses : ~(Reached[b] <=> Opened(b))}
<1>9. T = {}
  <2> SUFFICES ASSUME T # {} PROVE FALSE
    OBVIOUS
  <2>1. T \in SUBSET Nat
    BY BusesAssumption
  <2>2. PICK b \in T : \A c \in T : b <= c
    <3> HIDE DEF T
    <3> QED BY <2>1, LeastNatural
  <2>3. \A f \in Functions : f[1] < b => (Reached[f[1]] <=> O[f[1]])
    <3> TAKE f \in Functions
    <3> SUFFICES ASSUME f[1] < b PROVE Reached[f[1]] <=> Opened(f[1])
      BY <1>2
    <3>1. f[1] \in Nat /\ b \in Nat /\ ~(b <= f[1])
      BY <2>1, PlacesAre
    <3>2. f[1] \notin T
      BY <2>2, <3>1
    <3> QED BY <1>2, <3>2
  <2> HIDE DEF O
  <2>4. G(Reached, b) <=> G(O, b)
    BY <2>3
  <2> QED BY <1>4, <1>8, <2>4
<1> QED BY <1>9

\* Whatever bridges and devices a machine has, whose buses the firmware has
\* numbered, each function that answers on a bus that can be reached is attached,
\* once, and the recursion goes from each bus to one with a higher number.
THEOREM BusesScanned == PciSpec => []ScanSound
<1>1. PciInit => PciInv
  BY DEF PciInit, PciInv
<1>2. PciInv => ScanSound
  <2> SUFFICES ASSUME PciInv PROVE ScanSound
    OBVIOUS
  <2>1. DepthBounded
    <3>1. CASE pciPc = "off"
      BY <3>1 DEF PciInv, DepthBounded
    <3>2. CASE pciPc # "off"
      BY <3>2 DEF PciInv, FramesInv
    <3> QED BY <3>1, <3>2
  <2>2. EachAttachedOnce
    <3> SUFFICES ASSUME pciPc = "done"
                 PROVE  /\ Attached = {f \in Functions : Reached[f[1]] /\ Visible(f)}
                        /\ \A j, k \in DOMAIN attached : attached[j] = attached[k] => j = k
      BY DEF EachAttachedOnce, Attached
    <3>1. AttachedInv /\ \A k \in 1..Len(frames) : frames[k][2] = NDev
      BY DEF PciInv
    <3>2. \A f \in Functions : f \in Attached <=> Visible(f) /\ Opened(f[1])
      <4> TAKE f \in Functions
      <4>1. f[2] < NDev
        BY PlacesAre
      <4>2. \A k \in 1..Len(frames) : Passed(f, k)
        BY <3>1, <4>1 DEF Passed, Ahead
      <4> QED BY <3>1, <4>2 DEF AttachedInv
    <3>3. \A f \in Functions : Reached[f[1]] <=> Opened(f[1])
      BY OpenedIsReached, PlacesAre
    <3>4. Attached \subseteq Functions
      <4>1. \A k \in DOMAIN attached : attached[k] \in Functions
        BY <3>1 DEF AttachedInv
      <4> QED BY <4>1 DEF Attached
    <3> HIDE DEF Reached
    <3> QED BY <3>1, <3>2, <3>3, <3>4 DEF AttachedInv
  <2> QED BY <2>1, <2>2 DEF ScanSound
<1> QED BY <1>1, <1>2, PciStep, PTL DEF PciSpec

-----------------------------------------------------------------------------
(* The early page tables.  Everything is said of large pages: page p is in *)
(* gigabyte Gig(p), at place Slot(p) of its directory.                     *)

\* A quotient in the order of what is divided.
LEMMA QuotientBelow ==
  ASSUME NEW a \in Nat, NEW m \in Nat, m > 0, NEW k \in Nat
  PROVE  a < m * k <=> a \div m < k
<1> DEFINE q == a \div m  r == a % m
<1>1. q \in Nat /\ r \in 0..(m - 1) /\ a = m * q + r
  OBVIOUS
<1> HIDE DEF q, r
<1>2. m * q \in Nat /\ m * k \in Nat
  BY <1>1
<1>3. ASSUME q < k PROVE a < m * k
  <2>1. k - q \in Nat /\ k - q >= 1 /\ k = q + (k - q)
    BY <1>1, <1>3
  <2>2. \A d \in Nat : d >= 1 => m * d >= m /\ m * (q + d) = m * q + m * d /\ m * d \in Nat
    BY <1>1
  <2>3. m * k >= m * q + m
    BY <1>1, <1>2, <2>1, <2>2
  <2> QED BY <1>1, <1>2, <2>3
<1>4. ASSUME q >= k PROVE a >= m * k
  <2>1. q - k \in Nat /\ q = k + (q - k)
    BY <1>1, <1>4
  <2>2. \A d \in Nat : m * (k + d) = m * k + m * d /\ m * d \in Nat
    OBVIOUS
  <2>3. m * q >= m * k
    BY <1>2, <2>1, <2>2
  <2> QED BY <1>1, <1>2, <2>3
<1> QED BY <1>1, <1>2, <1>3, <1>4 DEF q

Gig(p)  == p \div PD_ENTRIES
Slot(p) == p % PD_ENTRIES

LEMMA PagingSizes ==
  /\ HUGE_PAGE_SIZE \in Nat /\ HUGE_PAGE_SIZE > 1 /\ PD_ENTRIES \in Nat /\ PD_ENTRIES > 0
  /\ PDP_ENTRIES \in Nat /\ PDP_ENTRIES > 1 /\ Spare \in Nat
  /\ GIGABYTE \in Nat /\ GIGABYTE > 0 /\ GIGABYTE = HUGE_PAGE_SIZE * PD_ENTRIES
<1>1. {HUGE_PAGE_SIZE, PD_ENTRIES, PDP_ENTRIES, Spare} \subseteq Nat
      /\ HUGE_PAGE_SIZE > 1 /\ PD_ENTRIES > 0 /\ PDP_ENTRIES > 1
  BY EarlyAssumption
<1>2. \A x, y \in Nat : x > 0 /\ y > 0 => x * y \in Nat /\ x * y > 0
  OBVIOUS
<1> QED BY <1>1, <1>2 DEF GIGABYTE

LEMMA PageIs ==
  ASSUME NEW p \in Nat
  PROVE  /\ Gig(p) \in Nat /\ Slot(p) \in 0..(PD_ENTRIES - 1)
         /\ p = PD_ENTRIES * Gig(p) + Slot(p)
BY PagingSizes DEF Gig, Slot

\* The page of an address, and where the processor looks for it.
LEMMA AddressIs ==
  ASSUME NEW a \in Nat
  PROVE  LET p == a \div HUGE_PAGE_SIZE
         IN /\ p \in Nat /\ a % HUGE_PAGE_SIZE \in 0..(HUGE_PAGE_SIZE - 1)
            /\ a = HUGE_PAGE_SIZE * p + (a % HUGE_PAGE_SIZE)
            /\ a \div GIGABYTE = Gig(p)
            /\ (a % GIGABYTE) \div HUGE_PAGE_SIZE = Slot(p)
<1> DEFINE H == HUGE_PAGE_SIZE  E == PD_ENTRIES
           p == a \div H  r == a % H  s == Gig(p)  t == Slot(p)
<1>1. H \in Nat /\ H > 1 /\ E \in Nat /\ E > 0 /\ GIGABYTE = H * E /\ GIGABYTE \in Nat /\ GIGABYTE > 0
  BY PagingSizes
<1>2. p \in Nat /\ r \in 0..(H - 1) /\ a = H * p + r
  BY <1>1
<1> HIDE DEF H, E, p, r
<1>3. s \in Nat /\ t \in 0..(E - 1) /\ p = E * s + t
  BY <1>2, PageIs DEF E
<1> HIDE DEF s, t
<1>4. H * t + r \in 0..(GIGABYTE - 1)
  <2>1. H * t \in Nat /\ H * t <= H * (E - 1)
    BY <1>1, <1>3
  <2>2. H * (E - 1) = H * E - H
    BY <1>1
  <2> QED BY <1>1, <1>2, <2>1, <2>2
<1>5. a = GIGABYTE * s + (H * t + r)
  <2>1. H * (E * s + t) = (H * E) * s + H * t
    <3>1. \A h, e, y, z \in Nat : h * (e * y + z) = (h * e) * y + h * z
      OBVIOUS
    <3> QED BY <1>1, <1>3, <3>1
  <2>2. (H * E) * s \in Nat /\ H * t \in Nat
    BY <1>1, <1>3
  <2> QED BY <1>1, <1>2, <1>3, <2>1, <2>2
<1>6. a \div GIGABYTE = s /\ a % GIGABYTE = H * t + r
  BY <1>1, <1>3, <1>4, <1>5, QuotientIs
<1>7. (H * t + r) \div H = t
  <2>1. H * t + r \in Nat /\ t \in Nat
    BY <1>1, <1>2, <1>3, <1>4
  <2> QED BY <1>1, <1>2, <2>1, QuotientIs
<1> QED BY <1>2, <1>6, <1>7 DEF H, p, r, s, t

\* An address that is the beginning of a page.
LEMMA BeginsPage ==
  ASSUME NEW n \in Nat
  PROVE  /\ HUGE_PAGE_SIZE * n \in Nat
         /\ (HUGE_PAGE_SIZE * n) \div HUGE_PAGE_SIZE = n
         /\ (HUGE_PAGE_SIZE * n) \div GIGABYTE = Gig(n)
         /\ ((HUGE_PAGE_SIZE * n) % GIGABYTE) \div HUGE_PAGE_SIZE = Slot(n)
<1> DEFINE a == HUGE_PAGE_SIZE * n
<1>1. a \in Nat /\ a = HUGE_PAGE_SIZE * n + 0 /\ 0 \in 0..(HUGE_PAGE_SIZE - 1)
  BY PagingSizes
<1>2. a \div HUGE_PAGE_SIZE = n
  BY <1>1, PagingSizes, QuotientIs
<1> HIDE DEF a
<1> QED BY <1>1, <1>2, AddressIs DEF a

\* The table of directories an address is in.
LEMMA HalfIs ==
  ASSUME NEW a \in Nat
  PROVE  LET p == a \div HUGE_PAGE_SIZE
         IN /\ Pdp(a) = Gig(p) \div PDP_ENTRIES
            /\ Pdp(a) * PDP_ENTRIES + (Gig(p) % PDP_ENTRIES) = Gig(p)
<1> DEFINE P == PDP_ENTRIES  g == Gig(a \div HUGE_PAGE_SIZE)  G == GIGABYTE
           r == a % G  s == g \div P  t == g % P
<1>1. P \in Nat /\ P > 1 /\ G \in Nat /\ G > 0
  BY PagingSizes
<1>2. g = a \div G
  BY AddressIs
<1>3. g \in Nat /\ r \in 0..(G - 1) /\ a = G * g + r
  BY <1>1, <1>2
<1> HIDE DEF P, g, G, r
<1>4. s \in Nat /\ t \in 0..(P - 1) /\ g = P * s + t
  BY <1>1, <1>3
<1> HIDE DEF s, t
<1>5. G * P \in Nat /\ G * P > 0
  BY <1>1
<1>6. G * t + r \in 0..(G * P - 1)
  <2>1. G * t \in Nat /\ G * t <= G * (P - 1)
    BY <1>1, <1>4
  <2>2. G * (P - 1) = G * P - G
    BY <1>1
  <2> QED BY <1>1, <1>3, <1>5, <2>1, <2>2
<1>7. a = (G * P) * s + (G * t + r)
  <2>1. G * (P * s + t) = (G * P) * s + G * t
    <3>1. \A h, e, y, z \in Nat : h * (e * y + z) = (h * e) * y + h * z
      OBVIOUS
    <3> QED BY <1>1, <1>4, <3>1
  <2>2. (G * P) * s \in Nat /\ G * t \in Nat
    BY <1>1, <1>4, <1>5
  <2> QED BY <1>1, <1>3, <1>4, <2>1, <2>2
<1>8. a \div (G * P) = s
  BY <1>4, <1>5, <1>6, <1>7, QuotientIs
<1>9. Pdp(a) = s
  BY <1>8 DEF Pdp, G, P
<1>10. s * P + t = g
  BY <1>1, <1>3, <1>4
<1> QED BY <1>9, <1>10 DEF s, t, g, P

-----------------------------------------------------------------------------

\* The gigabytes there are directories for, and the pages in them.
Gigabytes == 0..(2 * PDP_ENTRIES - 1)
LargePage == {p \in Nat : Gig(p) \in Gigabytes}

\* What the processor finds for a page.
Entry(p) == IF pdpt[Gig(p)] = None THEN None ELSE pds[pdpt[Gig(p)]][Slot(p)]

\* What it is to find, if anything: the frame buffer, the kernel, or the page itself.
Wanted(p, f) ==
  \/ Gig(p) \notin {PDP_ENTRIES, PDP_ENTRIES + 1} /\ f = p
  \/ Gig(p) = PDP_ENTRIES
       /\ \E b \in Buffers : f = p - (b[1] \div HUGE_PAGE_SIZE) + (b[2] \div HUGE_PAGE_SIZE)
  \/ Gig(p) = PDP_ENTRIES + 1 /\ f = Slot(p)

\* The regions that are asked for, as <<address, physical address, size>>.
Regions == {<<r[1], r[1], r[2]>> : r \in Identity \cup Registers \cup Windows} \cup Buffers

PagesOf(r) ==
  {p \in Nat : r[1] \div HUGE_PAGE_SIZE <= p /\ HUGE_PAGE_SIZE * p < r[1] + r[3]}

OneOnZero == \A g, h \in Gigabytes : pdpt[g] = ZERO /\ pdpt[h] = ZERO => g = h

PagingTypeInv ==
  /\ pdpt \in [Gigabytes -> {None} \cup 0..(2 + Spare)]
  /\ pds \in [0..(2 + Spare) -> [0..(PD_ENTRIES - 1) -> {None} \cup Nat]]
  /\ pdefree \in 3..(3 + Spare)

\* Whose directories are whose, and what is still free.
DirectoriesInv ==
  /\ pdpt[0] = 1 /\ pdpt[PDP_ENTRIES + 1] = 2
  /\ \A g \in Gigabytes : pdpt[g] < pdefree
  /\ \A g, h \in Gigabytes : g # h /\ pdpt[g] = pdpt[h] => pdpt[g] \in {None, ZERO}
  /\ \A g \in Gigabytes : pdpt[g] = ZERO => pdefree = 3 + Spare
  /\ \A d \in 3..(2 + Spare), i \in 0..(PD_ENTRIES - 1) : d >= pdefree => pds[d][i] = None
  /\ (\A g \in Gigabytes : pdpt[g] # ZERO) => \A i \in 0..(PD_ENTRIES - 1) : pds[ZERO][i] = None

\* What is mapped is mapped right; only the page at address 0 may say otherwise, once
\* a second gigabyte is on it.
EntriesInv ==
  /\ \A p \in LargePage : pdpt[Gig(p)] # ZERO \/ OneOnZero => Entry(p) = None \/ Wanted(p, Entry(p))
  /\ \A p \in LargePage : Gig(p) \in {0, PDP_ENTRIES + 1} => Entry(p) # None

\* The call that runs is at page n of n..(m - 1), which gets frame q; the pages of the
\* region before it are mapped.
CallAt(n, m, q, d) ==
  /\ va_call = <<HUGE_PAGE_SIZE * n, HUGE_PAGE_SIZE * m, HUGE_PAGE_SIZE * q, d>>
  /\ n <= m /\ \A p \in n..(m - 1) : /\ p \in LargePage /\ Gig(p) \div PDP_ENTRIES = d
                                     /\ Gig(p) # PDP_ENTRIES + 1 /\ Wanted(p, q + (p - n))
  /\ asked \in Regions
  /\ \A p \in PagesOf(asked) : p < m /\ (p < n => p \in LargePage /\ Entry(p) # None)

CallInv == va_call # <<>> => \E n, m, q, d \in Nat : CallAt(n, m, q, d)

DoneInv == done \subseteq Regions
           /\ \A r \in done : \A p \in PagesOf(r) : p \in LargePage /\ Entry(p) # None

PagingInv == PagingTypeInv /\ DirectoriesInv /\ EntriesInv /\ CallInv /\ DoneInv

-----------------------------------------------------------------------------

LEMMA WantedOnce ==
  ASSUME NEW p \in LargePage, NEW f, NEW h, Wanted(p, f), Wanted(p, h)
  PROVE  f = h
<1>1. Gig(p) \in Nat /\ PDP_ENTRIES \in Nat
  BY PageIs, PagingSizes DEF LargePage
<1>2. \A b, c \in Buffers : b = c
  BY RegionAssumption
<1> HIDE DEF Gig
<1> QED BY <1>1, <1>2 DEF Wanted

\* Two pages at the same place of the same gigabyte are one.
LEMMA SamePlace ==
  ASSUME NEW p \in Nat, NEW n \in Nat, Gig(p) = Gig(n), Slot(p) = Slot(n)
  PROVE  p = n
BY PageIs

\* The pages of a region that lies below a number of gigabytes, and their half.
LEMMA PageBelow ==
  ASSUME NEW p \in Nat, NEW k \in Nat
  PROVE  HUGE_PAGE_SIZE * p < k * GIGABYTE <=> Gig(p) < k
<1> DEFINE a == HUGE_PAGE_SIZE * p
<1>1. a \in Nat /\ a \div GIGABYTE = Gig(p)
  BY BeginsPage
<1>2. a < GIGABYTE * k <=> a \div GIGABYTE < k
  BY <1>1, PagingSizes, QuotientBelow
<1>3. k * GIGABYTE = GIGABYTE * k
  BY PagingSizes
<1> QED BY <1>1, <1>2, <1>3

LEMMA HalvesAre ==
  ASSUME NEW g \in Nat
  PROVE  /\ g < PDP_ENTRIES => g \div PDP_ENTRIES = 0
         /\ PDP_ENTRIES <= g /\ g < 2 * PDP_ENTRIES => g \div PDP_ENTRIES = 1
<1>1. PDP_ENTRIES \in Nat /\ PDP_ENTRIES > 1
  BY PagingSizes
<1>2. ASSUME g < PDP_ENTRIES PROVE g \div PDP_ENTRIES = 0
  <2>1. g = PDP_ENTRIES * 0 + g /\ g \in 0..(PDP_ENTRIES - 1)
    BY <1>1, <1>2
  <2> QED BY <1>1, <2>1, QuotientIs
<1>3. ASSUME PDP_ENTRIES <= g, g < 2 * PDP_ENTRIES PROVE g \div PDP_ENTRIES = 1
  <2>1. g = PDP_ENTRIES * 1 + (g - PDP_ENTRIES) /\ g - PDP_ENTRIES \in 0..(PDP_ENTRIES - 1)
    BY <1>1, <1>3
  <2> QED BY <1>1, <2>1, QuotientIs
<1> QED BY <1>2, <1>3

\* Where a region may be: mapped to itself in gigabytes below the second table or
\* above the kernel's, or the frame buffer, in the first gigabyte of the second table.
LEMMA RegionIs ==
  ASSUME NEW r \in Regions
  PROVE  /\ r = <<r[1], r[2], r[3]>> /\ r[1] \in Nat /\ r[2] \in Nat /\ r[3] \in Nat
         /\ \/ r[2] = r[1] /\ r[1] + r[3] <= PDP_ENTRIES * GIGABYTE
            \/ /\ r \in Buffers
               /\ r[1] % HUGE_PAGE_SIZE = r[2] % HUGE_PAGE_SIZE
               /\ PDP_ENTRIES * GIGABYTE <= r[1]
               /\ r[1] + r[3] <= (PDP_ENTRIES + 1) * GIGABYTE
            \/ /\ r[2] = r[1] /\ (PDP_ENTRIES + 2) * GIGABYTE <= r[1]
               /\ r[1] + r[3] <= 2 * PDP_ENTRIES * GIGABYTE
<1>1. CASE r \in Buffers
  <2>1. r[1] % HUGE_PAGE_SIZE = r[2] % HUGE_PAGE_SIZE
    BY <1>1, EarlyAssumption
  <2>2. /\ r = <<r[1], r[2], r[3]>> /\ {r[1], r[2], r[3]} \subseteq Nat
        /\ PDP_ENTRIES * GIGABYTE <= r[1] /\ r[1] + r[3] <= (PDP_ENTRIES + 1) * GIGABYTE
    BY <1>1, RegionAssumption
  <2> QED BY <1>1, <2>1, <2>2
<1>2. CASE r \notin Buffers
  <2>1. PICK s \in Identity \cup Registers \cup Windows : r = <<s[1], s[1], s[2]>>
    BY <1>2 DEF Regions
  <2>2. s[1] \in Nat /\ s[2] \in Nat /\ WithinTables(s[1], s[1] + s[2])
    BY RegionAssumption
  <2> QED BY <2>1, <2>2 DEF WithinTables
<1> QED BY <1>1, <1>2

\* A region takes the pages from the one it begins in to the one before its end.
LEMMA PagesAre ==
  ASSUME NEW r \in Regions
  PROVE  /\ r[1] \div HUGE_PAGE_SIZE \in Nat /\ r[2] \div HUGE_PAGE_SIZE \in Nat
         /\ DownTo(r[1]) = HUGE_PAGE_SIZE * (r[1] \div HUGE_PAGE_SIZE)
         /\ DownTo(r[2]) = HUGE_PAGE_SIZE * (r[2] \div HUGE_PAGE_SIZE)
         /\ \E m \in Nat : /\ EndOfMap(r[1], r[3]) = HUGE_PAGE_SIZE * m
                           /\ r[1] \div HUGE_PAGE_SIZE <= m
                           /\ PagesOf(r) = (r[1] \div HUGE_PAGE_SIZE)..(m - 1)
<1> DEFINE H == HUGE_PAGE_SIZE  n == r[1] \div H  e == r[1] + r[3]  m == (e + H - 1) \div H
<1>1. H \in Nat /\ H > 1 /\ r[1] \in Nat /\ r[2] \in Nat /\ r[3] \in Nat
  BY PagingSizes, RegionIs
<1>2. \A a \in Nat : a \div H \in Nat /\ DownTo(a) = H * (a \div H)
  BY <1>1 DEF DownTo
<1>3. e \in Nat /\ e + H - 1 \in Nat /\ EndOfMap(r[1], r[3]) = H * m
  <2>1. e \in Nat /\ e + H - 1 \in Nat
    BY <1>1
  <2>2. EndOfMap(r[1], r[3]) = DownTo(e + H - 1)
    BY DEF EndOfMap, RoundUp
  <2> QED BY <1>2, <2>1, <2>2
<1>4. n \in Nat /\ m \in Nat
  BY <1>1, <1>2, <1>3
<1>5. e + H - 1 < H * m + H /\ H * m <= e + H - 1 /\ H * m \in Nat
  BY <1>1, <1>3
<1>6. \A p \in Nat : H * p \in Nat /\ (p < m => H * p + H <= H * m) /\ (p >= m => H * p >= H * m)
  <2> SUFFICES ASSUME NEW p \in Nat
               PROVE  H * p \in Nat /\ (p < m => H * p + H <= H * m) /\ (p >= m => H * p >= H * m)
    OBVIOUS
  <2>1. \A x, y \in Nat : H * (x + y) = H * x + H * y /\ H * x \in Nat /\ (x >= 1 => H * x >= H)
    BY <1>1
  <2> HIDE DEF H, m
  <2>2. CASE p < m
    <3>1. m - p \in Nat /\ m - p >= 1 /\ m = p + (m - p)
      BY <1>4, <2>2
    <3>2. H * m = H * p + H * (m - p) /\ H * (m - p) >= H
      BY <2>1, <3>1
    <3>3. H * (m - p) \in Nat /\ H * p \in Nat /\ H * m \in Nat
      BY <1>4, <2>1, <3>1
    <3> QED BY <1>1, <1>4, <2>2, <3>2, <3>3
  <2>3. CASE p >= m
    <3>1. p - m \in Nat /\ p = m + (p - m)
      BY <1>4, <2>3
    <3>2. H * p = H * m + H * (p - m) /\ H * (p - m) \in Nat /\ H * m \in Nat /\ H * p \in Nat
      BY <1>4, <2>1, <3>1
    <3> QED BY <1>1, <1>4, <2>3, <3>2
  <2> QED BY <1>4, <2>2, <2>3
<1>7. \A p \in Nat : H * p < e <=> p < m
  <2> HIDE DEF H, m, e
  <2> QED BY <1>1, <1>3, <1>4, <1>5, <1>6
<1>8. n <= m
  <2>1. r[1] < H * m + H
    BY <1>1, <1>5
  <2>2. H * m + H = H * (m + 1)
    BY <1>1, <1>4
  <2>3. n < m + 1
    <3>1. m + 1 \in Nat /\ r[1] < H * (m + 1)
      BY <1>4, <2>1, <2>2
    <3> HIDE DEF m
    <3> QED BY <1>1, <3>1, QuotientBelow
  <2> QED BY <1>4, <2>3
<1>9. PagesOf(r) = n..(m - 1)
  <2> HIDE DEF m
  <2> QED BY <1>4, <1>7 DEF PagesOf
<1> QED BY <1>1, <1>2, <1>3, <1>4, <1>8, <1>9

\* Where the pages of a region are, and what is wanted for them.
LEMMA PageOfRegion ==
  ASSUME NEW r \in Regions, NEW p \in PagesOf(r)
  PROVE  /\ p \in LargePage /\ Gig(p) # PDP_ENTRIES + 1
         /\ Pdp(r[1]) \in Nat /\ Gig(p) \div PDP_ENTRIES = Pdp(r[1])
         /\ Wanted(p, (r[2] \div HUGE_PAGE_SIZE) + (p - (r[1] \div HUGE_PAGE_SIZE)))
         /\ r[2] # r[1] => Gig(p) = PDP_ENTRIES
<1> DEFINE H == HUGE_PAGE_SIZE  P == PDP_ENTRIES  n == r[1] \div H
<1>1. H \in Nat /\ H > 1 /\ P \in Nat /\ P > 1 /\ r[1] \in Nat /\ r[2] \in Nat /\ r[3] \in Nat
  BY PagingSizes, RegionIs
<1>2. n \in Nat /\ p \in Nat /\ n <= p /\ H * p < r[1] + r[3] /\ H * n \in Nat /\ H * p \in Nat
  BY <1>1 DEF PagesOf
<1>3. H * n <= H * p /\ H * n <= r[1]
  BY <1>1, <1>2
<1>4. Gig(p) \in Nat /\ Gig(n) \in Nat /\ Pdp(r[1]) = Gig(n) \div P /\ r[1] \div GIGABYTE = Gig(n)
  BY <1>1, <1>2, PageIs, HalfIs, AddressIs
<1>5. P * GIGABYTE \in Nat /\ (P + 1) * GIGABYTE \in Nat /\ P + 1 \in Nat
  BY <1>1, PagingSizes
<1>6. CASE r[2] = r[1] /\ r[1] + r[3] <= P * GIGABYTE
  <2>1. H * p < P * GIGABYTE /\ H * n < P * GIGABYTE
    BY <1>1, <1>2, <1>3, <1>5, <1>6
  <2>2. Gig(p) < P /\ Gig(n) < P
    BY <1>1, <1>2, <2>1, PageBelow
  <2>3. Gig(p) \div P = 0 /\ Gig(n) \div P = 0
    BY <1>4, <2>2, HalvesAre
  <2>4. Gig(p) \in Gigabytes
    BY <1>1, <1>4, <2>2 DEF Gigabytes
  <2>5. (r[2] \div H) + (p - n) = p
    BY <1>2, <1>6
  <2>6. Wanted(p, (r[2] \div H) + (p - n))
    BY <1>1, <1>4, <2>2, <2>5 DEF Wanted
  <2> QED BY <1>1, <1>2, <1>4, <1>6, <2>2, <2>3, <2>4, <2>6 DEF LargePage
<1>7. CASE r \in Buffers /\ P * GIGABYTE <= r[1] /\ r[1] + r[3] <= (P + 1) * GIGABYTE
  <2>1. H * p < (P + 1) * GIGABYTE /\ H * n < (P + 1) * GIGABYTE
    BY <1>1, <1>2, <1>3, <1>5, <1>7
  <2>2. Gig(p) < P + 1 /\ Gig(n) < P + 1
    BY <1>1, <1>2, <1>5, <2>1, PageBelow
  <2>3. P * GIGABYTE = GIGABYTE * P
    BY <1>1, PagingSizes
  <2>4. ~(Gig(n) < P)
    <3>1. r[1] < GIGABYTE * P <=> r[1] \div GIGABYTE < P
      BY <1>1, PagingSizes, QuotientBelow
    <3>2. ~(r[1] < GIGABYTE * P)
      BY <1>1, <1>5, <1>7, <2>3
    <3> QED BY <1>4, <3>1, <3>2
  <2>5. ~(Gig(p) < P)
    <3>1. ~(H * n < P * GIGABYTE)
      BY <1>1, <1>2, <2>4, PageBelow
    <3>2. ~(H * p < P * GIGABYTE)
      BY <1>2, <1>3, <1>5, <3>1
    <3> QED BY <1>1, <1>2, <3>2, PageBelow
  <2>6. Gig(p) = P /\ Gig(n) = P
    BY <1>1, <1>4, <2>2, <2>4, <2>5
  <2>7. Gig(p) \div P = 1 /\ Gig(n) \div P = 1
    BY <1>1, <1>4, <2>6, HalvesAre
  <2>8. Gig(p) \in Gigabytes
    BY <1>1, <2>6 DEF Gigabytes
  <2>9. Wanted(p, (r[2] \div H) + (p - n))
    <3>1. (r[2] \div H) + (p - n) = p - n + (r[2] \div H)
      BY <1>1, <1>2
    <3> QED BY <1>7, <2>6, <3>1 DEF Wanted
  <2> QED BY <1>1, <1>2, <1>4, <2>6, <2>7, <2>8, <2>9 DEF LargePage
<1>8. CASE r[2] = r[1] /\ (P + 2) * GIGABYTE <= r[1] /\ r[1] + r[3] <= 2 * P * GIGABYTE
  <2>1. 2 * P \in Nat /\ P + 2 \in Nat /\ 2 * P * GIGABYTE \in Nat /\ (P + 2) * GIGABYTE \in Nat
        /\ (P + 2) * GIGABYTE = GIGABYTE * (P + 2)
    BY <1>1, PagingSizes
  <2>2. H * p < 2 * P * GIGABYTE /\ H * n < 2 * P * GIGABYTE
    BY <1>1, <1>2, <1>3, <1>8, <2>1
  <2>3. Gig(p) < 2 * P /\ Gig(n) < 2 * P
    BY <1>2, <2>1, <2>2, PageBelow
  <2>4. ~(Gig(n) < P + 2)
    <3>1. r[1] < GIGABYTE * (P + 2) <=> r[1] \div GIGABYTE < P + 2
      BY <1>1, <2>1, PagingSizes, QuotientBelow
    <3>2. ~(r[1] < GIGABYTE * (P + 2))
      BY <1>1, <1>8, <2>1
    <3> QED BY <1>4, <3>1, <3>2
  <2>5. ~(Gig(p) < P + 2)
    <3>1. ~(H * n < (P + 2) * GIGABYTE)
      BY <1>2, <2>1, <2>4, PageBelow
    <3>2. ~(H * p < (P + 2) * GIGABYTE)
      BY <1>2, <1>3, <2>1, <3>1
    <3> QED BY <1>2, <2>1, <3>2, PageBelow
  <2> HIDE DEF n
  <2>6. Gig(p) \div P = 1 /\ Gig(n) \div P = 1
    BY <1>1, <1>4, <2>3, <2>4, <2>5, HalvesAre
  <2>7. Gig(p) \in Gigabytes /\ Gig(p) \notin {P, P + 1}
    BY <1>1, <1>4, <2>3, <2>5 DEF Gigabytes
  <2>8. (r[2] \div H) + (p - n) = p
    BY <1>2, <1>8 DEF n
  <2>9. Wanted(p, (r[2] \div H) + (p - n))
    BY <2>7, <2>8 DEF Wanted
  <2> QED BY <1>2, <1>4, <1>8, <2>6, <2>7, <2>9 DEF LargePage, n
<1> QED BY <1>6, <1>7, <1>8, RegionIs

-----------------------------------------------------------------------------

\* A new call is at the beginning of its region.
LEMMA CallStarts ==
  ASSUME PagingInv, NEW r \in Regions,
         va_call' = <<DownTo(r[1]), EndOfMap(r[1], r[3]), DownTo(r[2]), Pdp(r[1])>>,
         asked' = r, UNCHANGED <<pdpt, pds, pdefree, done>>
  PROVE  PagingInv'
<1> DEFINE n == r[1] \div HUGE_PAGE_SIZE  q == r[2] \div HUGE_PAGE_SIZE  d == Pdp(r[1])
<1>1. PICK m \in Nat : /\ EndOfMap(r[1], r[3]) = HUGE_PAGE_SIZE * m /\ n <= m
                       /\ PagesOf(r) = n..(m - 1)
  BY PagesAre
<1>2. n \in Nat /\ q \in Nat /\ d \in Nat
  <2>1. n \in Nat /\ q \in Nat /\ r[1] \in Nat
    BY PagesAre, RegionIs
  <2>2. Gig(n) \in Nat /\ d = Gig(n) \div PDP_ENTRIES
    BY <2>1, PageIs, HalfIs
  <2>3. \A g \in Nat : g \div PDP_ENTRIES \in Nat
    BY PagingSizes
  <2> QED BY <2>1, <2>2, <2>3
<1>3. va_call' = <<HUGE_PAGE_SIZE * n, HUGE_PAGE_SIZE * m, HUGE_PAGE_SIZE * q, d>>
  BY <1>1, PagesAre
<1>4. \A p \in n..(m - 1) : /\ p \in LargePage /\ Gig(p) \div PDP_ENTRIES = d
                            /\ Gig(p) # PDP_ENTRIES + 1 /\ Wanted(p, q + (p - n))
  BY <1>1, PageOfRegion
<1>5. \A p \in PagesOf(r) : p < m /\ ~(p < n)
  BY <1>1, <1>2
<1> HIDE DEF n, q, d
<1>6. CallAt(n, m, q, d)'
  BY <1>1, <1>3, <1>4, <1>5 DEF CallAt
<1>7. CallInv'
  BY <1>2, <1>6 DEF CallInv
<1>8. PagingTypeInv' /\ DirectoriesInv'
  BY DEF PagingInv, PagingTypeInv, DirectoriesInv
<1>9. EntriesInv' /\ DoneInv'
  BY DEF PagingInv, EntriesInv, DoneInv, Entry, OneOnZero
<1> QED BY <1>7, <1>8, <1>9 DEF PagingInv

\* Rounding what mmio_map_region() has rounded.
LEMMA RoundedTwice ==
  ASSUME NEW a \in Nat, NEW z \in Nat
  PROVE  /\ DownTo(DownTo(a)) = DownTo(a) /\ Pdp(DownTo(a)) = Pdp(a) /\ DownTo(a) \in Nat
         /\ EndOfMap(DownTo(a), DownTo(z + (a % HUGE_PAGE_SIZE) + HUGE_PAGE_SIZE - 1)) = EndOfMap(a, z)
<1> DEFINE H == HUGE_PAGE_SIZE  n == a \div H  k == a % H  s == z + k + H - 1  j == s \div H
<1>1. H \in Nat /\ H > 1
  BY PagingSizes
<1>2. n \in Nat /\ k \in 0..(H - 1) /\ a = H * n + k /\ DownTo(a) = H * n /\ H * n \in Nat
  BY <1>1 DEF DownTo
<1>3. s \in Nat
  BY <1>1, <1>2
<1>4. j \in Nat /\ s % H \in 0..(H - 1) /\ s = H * j + (s % H) /\ H * j \in Nat
  <2> HIDE DEF s
  <2> QED BY <1>1, <1>3
<1>5. \A x \in Nat : DownTo(x) = H * (x \div H)
  BY <1>1 DEF DownTo
<1>6. (H * n) \div H = n /\ (H * n) \div GIGABYTE = Gig(n) /\ a \div GIGABYTE = Gig(n)
  BY <1>2, BeginsPage, AddressIs
<1>7. DownTo(DownTo(a)) = DownTo(a)
  BY <1>2, <1>5, <1>6
<1>8. Pdp(DownTo(a)) = Pdp(a)
  <2>1. DownTo(a) \div HUGE_PAGE_SIZE = n
    BY <1>2, <1>6
  <2> HIDE DEF n
  <2> QED BY <1>2, <2>1, HalfIs DEF n
<1>9. EndOfMap(DownTo(a), DownTo(s)) = EndOfMap(a, z)
  <2>1. DownTo(s) = H * j
    BY <1>3, <1>5
  <2>2. EndOfMap(DownTo(a), DownTo(s)) = DownTo(H * n + H * j + H - 1)
    BY <1>2, <2>1 DEF EndOfMap, RoundUp
  <2>3. EndOfMap(a, z) = DownTo(a + z + H - 1)
    BY DEF EndOfMap, RoundUp
  <2> HIDE DEF j
  <2>4. H * (n + j) = H * n + H * j /\ n + j \in Nat
    BY <1>1, <1>2, <1>4
  <2>5. H * n + H * j + H - 1 = H * (n + j) + (H - 1) /\ H - 1 \in 0..(H - 1)
    BY <1>1, <1>2, <1>4, <2>4
  <2>6. (H * n + H * j + H - 1) \div H = n + j
    <3> DEFINE x == H * n + H * j + H - 1  v == n + j
    <3>1. x \in Nat
      BY <1>1, <1>2, <1>4
    <3>2. x = H * v + (H - 1) /\ v \in Nat
      BY <2>4, <2>5
    <3> HIDE DEF x, v
    <3>3. x \div H = v
      BY <1>1, <2>5, <3>1, <3>2, QuotientIs
    <3> QED BY <3>3 DEF x, v
  <2>7. a + z + H - 1 = H * n + s
    BY <1>1, <1>2
  <2>8. a + z + H - 1 = H * (n + j) + (s % H)
    <3> HIDE DEF s
    <3> QED BY <1>1, <1>2, <1>3, <1>4, <2>4, <2>7
  <2>9. (a + z + H - 1) \div H = n + j
    <3>1. a + z + H - 1 \in Nat
      BY <1>1
    <3> QED BY <1>1, <1>4, <2>4, <2>8, <3>1, QuotientIs
  <2>10. a + z + H - 1 \in Nat /\ H * n + H * j + H - 1 \in Nat
    BY <1>1, <1>2, <1>4
  <2> QED BY <1>5, <2>2, <2>3, <2>6, <2>9, <2>10
<1> QED BY <1>2, <1>7, <1>8, <1>9

-----------------------------------------------------------------------------
(* One round of the loop.                                                  *)

\* The directory that page n of the call is put into.
DirectoryFor(g) ==
  IF pdpt[g] \notin {None, ZERO} THEN pdpt[g] ELSE IF pdefree > 2 + Spare THEN ZERO ELSE pdefree

LEMMA RoundIs ==
  ASSUME PagingInv, MapPage, NEW n \in Nat, NEW m \in Nat, NEW q \in Nat, NEW d \in Nat,
         CallAt(n, m, q, d)
  PROVE  /\ n < m /\ n \in LargePage /\ Wanted(n, q)
         /\ pdpt' = [pdpt EXCEPT ![Gig(n)] = DirectoryFor(Gig(n))]
         /\ pds' = [pds EXCEPT ![DirectoryFor(Gig(n))][Slot(n)] = q]
         /\ pdefree' = IF pdpt[Gig(n)] \in {None, ZERO} /\ pdefree <= 2 + Spare
                       THEN pdefree + 1 ELSE pdefree
         /\ va_call' = <<HUGE_PAGE_SIZE * (n + 1), HUGE_PAGE_SIZE * m, HUGE_PAGE_SIZE * (q + 1), d>>
         /\ asked' = asked /\ done' = done
<1> DEFINE H == HUGE_PAGE_SIZE  g == Gig(n)
<1>1. H \in Nat /\ H > 1 /\ PDP_ENTRIES \in Nat /\ PDP_ENTRIES > 1
      /\ pdefree \in Nat /\ pdefree >= 3 /\ Spare \in Nat
  BY PagingSizes DEF PagingInv, PagingTypeInv
<1>2. va_call = <<H * n, H * m, H * q, d>> /\ H * n < H * m
  BY DEF CallAt, MapPage
<1>3. n < m
  <2>1. m <= n => m = n
    BY DEF CallAt
  <2> QED BY <1>1, <1>2, <2>1
<1>4. n \in LargePage /\ g \div PDP_ENTRIES = d /\ Wanted(n, q + (n - n))
  BY <1>3 DEF CallAt
<1>5. q + (n - n) = q
  OBVIOUS
<1>6. (H * n) \div GIGABYTE = g /\ ((H * n) % GIGABYTE) \div H = Slot(n) /\ H * n \in Nat
  BY BeginsPage
<1>7. d * PDP_ENTRIES + (g % PDP_ENTRIES) = g
  <2>1. (H * n) \div H = n
    BY BeginsPage
  <2> HIDE DEF g
  <2> QED BY <1>4, <1>6, <2>1, HalfIs DEF g
<1>8. va_call[4] * PDP_ENTRIES + ((va_call[1] \div GIGABYTE) % PDP_ENTRIES) = g
  BY <1>2, <1>6, <1>7
<1>9. (va_call[1] % GIGABYTE) \div HUGE_PAGE_SIZE = Slot(n)
  BY <1>2, <1>6
<1>10. va_call[3] \div HUGE_PAGE_SIZE = q
  BY <1>2, BeginsPage
<1>11. va_call[1] + H = H * (n + 1) /\ va_call[3] + H = H * (q + 1) /\ va_call[2] = H * m /\ va_call[4] = d
  BY <1>1, <1>2
<1>12. /\ pdpt' = [pdpt EXCEPT ![g] = DirectoryFor(g)]
       /\ pds' = [pds EXCEPT ![DirectoryFor(g)][Slot(n)] = q]
  <2> HIDE DEF g
  <2> QED BY <1>8, <1>9, <1>10 DEF MapPage, DirectoryFor
<1>13. pdefree' = IF pdpt[g] \in {None, ZERO} /\ pdefree <= 2 + Spare THEN pdefree + 1 ELSE pdefree
  <2> HIDE DEF g
  <2>1. pdefree' = IF pdpt[g] \in {None, ZERO} /\ DirectoryFor(g) # ZERO THEN NextFree ELSE pdefree
    BY <1>8 DEF MapPage, DirectoryFor
  <2> QED BY <1>1, <2>1 DEF DirectoryFor, NextFree, ZERO
<1>14. va_call' = <<H * (n + 1), H * m, H * (q + 1), d>>
  BY <1>11 DEF MapPage
<1>15. asked' = asked /\ done' = done
  BY DEF MapPage
<1> QED BY <1>3, <1>4, <1>5, <1>12, <1>13, <1>14, <1>15

\* The directories after a round: they stay, but for the one of the page's gigabyte.
LEMMA DirectoriesStep ==
  ASSUME PagingTypeInv, DirectoriesInv, NEW n \in LargePage, NEW q \in Nat,
         pdpt' = [pdpt EXCEPT ![Gig(n)] = DirectoryFor(Gig(n))],
         pds' = [pds EXCEPT ![DirectoryFor(Gig(n))][Slot(n)] = q],
         pdefree' = IF pdpt[Gig(n)] \in {None, ZERO} /\ pdefree <= 2 + Spare
                    THEN pdefree + 1 ELSE pdefree
  PROVE  /\ PagingTypeInv' /\ DirectoriesInv'
         /\ DirectoryFor(Gig(n)) \in 0..(2 + Spare)
         /\ \A g \in Gigabytes : pdpt[g] # None => pdpt'[g] = pdpt[g]
         /\ \A g \in Gigabytes : g # Gig(n) => pdpt'[g] = pdpt[g]
         /\ pdpt'[Gig(n)] = DirectoryFor(Gig(n))
         /\ OneOnZero' => OneOnZero
<1> DEFINE g == Gig(n)  pd == DirectoryFor(g)  i == Slot(n)
<1>1. Spare \in Nat /\ g \in Gigabytes /\ i \in 0..(PD_ENTRIES - 1) /\ None = -1 /\ ZERO = 0
      /\ 0 \in Gigabytes /\ PDP_ENTRIES + 1 \in Gigabytes
  BY PagingSizes, PageIs DEF LargePage, None, ZERO, Gigabytes
<1>2. pdefree \in 3..(3 + Spare) /\ pdpt[g] \in {None} \cup 0..(2 + Spare)
  BY <1>1 DEF PagingTypeInv
<1>3. pd \in 0..(2 + Spare) /\ pd # None
  BY <1>1, <1>2 DEF DirectoryFor
<1>4. pdpt' = [pdpt EXCEPT ![g] = pd] /\ pds' = [pds EXCEPT ![pd][i] = q]
      /\ pdefree' = IF pdpt[g] \in {None, ZERO} /\ pdefree <= 2 + Spare THEN pdefree + 1 ELSE pdefree
  OBVIOUS
<1>5. \/ pdpt[g] \notin {None, ZERO} /\ pd = pdpt[g] /\ pdefree' = pdefree
      \/ pdpt[g] \in {None, ZERO} /\ pd = ZERO /\ pdefree' = pdefree /\ pdefree = 3 + Spare
      \/ pdpt[g] = None /\ pd = pdefree /\ pdefree' = pdefree + 1 /\ pdefree <= 2 + Spare
  <2>1. pdpt[g] = ZERO => pdefree = 3 + Spare
    BY <1>1 DEF DirectoriesInv
  <2> QED BY <1>1, <1>2, <1>4, <2>1 DEF DirectoryFor
<1> HIDE DEF g, pd, i
<1>6. pdpt'[g] = pd /\ \A h \in Gigabytes : h # g => pdpt'[h] = pdpt[h]
  BY <1>1, <1>4 DEF PagingTypeInv
<1>7. \A h \in Gigabytes : pdpt[h] # None => pdpt'[h] = pdpt[h]
  BY <1>1, <1>5, <1>6
<1>8. PagingTypeInv'
  <2>1. pdpt' \in [Gigabytes -> {None} \cup 0..(2 + Spare)]
    BY <1>3, <1>4 DEF PagingTypeInv
  <2>2. pds' \in [0..(2 + Spare) -> [0..(PD_ENTRIES - 1) -> {None} \cup Nat]]
    <3> DEFINE D == [0..(PD_ENTRIES - 1) -> {None} \cup Nat]  f == [pds[pd] EXCEPT ![i] = q]
    <3>1. pds \in [0..(2 + Spare) -> D] /\ pds[pd] \in D
      BY <1>3 DEF PagingTypeInv
    <3>2. f \in D
      BY <1>1, <3>1
    <3>3. pds' = [pds EXCEPT ![pd] = f]
      BY <1>4
    <3> HIDE DEF D, f
    <3>4. pds' \in [0..(2 + Spare) -> D]
      BY <1>3, <3>1, <3>2, <3>3
    <3> QED BY <3>4 DEF D
  <2>3. pdefree' \in 3..(3 + Spare)
    BY <1>1, <1>2, <1>5
  <2> QED BY <2>1, <2>2, <2>3 DEF PagingTypeInv
<1>9. \A e \in 0..(2 + Spare), j \in 0..(PD_ENTRIES - 1) : e # pd => pds'[e][j] = pds[e][j]
  BY <1>1, <1>3, <1>4 DEF PagingTypeInv
<1>10. DirectoriesInv'
  <2>1. pdpt'[0] = 1 /\ pdpt'[PDP_ENTRIES + 1] = 2
    BY <1>1, <1>7 DEF DirectoriesInv
  <2>2. \A h \in Gigabytes : pdpt'[h] < pdefree'
    <3> SUFFICES ASSUME NEW h \in Gigabytes PROVE pdpt'[h] < pdefree'
      OBVIOUS
    <3>1. pdpt[h] < pdefree /\ pdpt[h] \in Int /\ pdpt[g] < pdefree
      BY <1>1 DEF DirectoriesInv, PagingTypeInv
    <3> QED BY <1>1, <1>2, <1>3, <1>5, <1>6, <3>1
  <2>3. \A h, k \in Gigabytes : h # k /\ pdpt'[h] = pdpt'[k] => pdpt'[h] \in {None, ZERO}
    <3> SUFFICES ASSUME NEW h \in Gigabytes, NEW k \in Gigabytes, h # k, pdpt'[h] = pdpt'[k]
                 PROVE  pdpt'[h] \in {None, ZERO}
      OBVIOUS
    <3>1. /\ pdpt[h] < pdefree /\ pdpt[k] < pdefree /\ pdpt[h] \in Int /\ pdpt[k] \in Int
          /\ pdpt[h] = pdpt[k] => pdpt[h] \in {None, ZERO}
      BY <1>1 DEF DirectoriesInv, PagingTypeInv
    <3> QED BY <1>1, <1>2, <1>5, <1>6, <3>1
  <2>4. \A h \in Gigabytes : pdpt'[h] = ZERO => pdefree' = 3 + Spare
    <3> SUFFICES ASSUME NEW h \in Gigabytes, pdpt'[h] = ZERO PROVE pdefree' = 3 + Spare
      OBVIOUS
    <3>1. pdpt[h] = ZERO => pdefree = 3 + Spare
      BY DEF DirectoriesInv
    <3> QED BY <1>1, <1>2, <1>5, <1>6, <3>1
  <2>5. \A e \in 3..(2 + Spare), j \in 0..(PD_ENTRIES - 1) : e >= pdefree' => pds'[e][j] = None
    <3> SUFFICES ASSUME NEW e \in 3..(2 + Spare), NEW j \in 0..(PD_ENTRIES - 1), e >= pdefree'
                 PROVE  pds'[e][j] = None
      OBVIOUS
    <3>1. e >= pdefree /\ e # pd
      <4>1. pdpt[g] < pdefree
        BY <1>1 DEF DirectoriesInv
      <4> QED BY <1>1, <1>2, <1>3, <1>5, <4>1
    <3>2. pds[e][j] = None /\ e \in 0..(2 + Spare)
      BY <1>1, <3>1 DEF DirectoriesInv
    <3> QED BY <1>9, <3>1, <3>2
  <2>6. (\A h \in Gigabytes : pdpt'[h] # ZERO) => \A j \in 0..(PD_ENTRIES - 1) : pds'[ZERO][j] = None
    <3> SUFFICES ASSUME \A h \in Gigabytes : pdpt'[h] # ZERO, NEW j \in 0..(PD_ENTRIES - 1)
                 PROVE  pds'[ZERO][j] = None
      OBVIOUS
    <3>1. \A h \in Gigabytes : pdpt[h] # ZERO
      BY <1>1, <1>7
    <3>2. pds[ZERO][j] = None
      BY <3>1 DEF DirectoriesInv
    <3>3. ZERO # pd /\ ZERO \in 0..(2 + Spare)
      BY <1>1, <1>6
    <3> QED BY <1>9, <3>2, <3>3
  <2> QED BY <2>1, <2>2, <2>3, <2>4, <2>5, <2>6 DEF DirectoriesInv
<1>11. OneOnZero' => OneOnZero
  <2>1. \A h \in Gigabytes : pdpt[h] = ZERO => pdpt'[h] = ZERO
    BY <1>1, <1>7
  <2> QED BY <2>1 DEF OneOnZero
<1> QED BY <1>3, <1>6, <1>7, <1>8, <1>10, <1>11 DEF g, pd

\* The entries after a round: the page has its frame, and another page keeps what it
\* has, unless it is behind the page at address 0 and not alone there.
LEMMA EntriesStep ==
  ASSUME PagingTypeInv, DirectoriesInv, NEW n \in LargePage, NEW q \in Nat,
         pdpt' = [pdpt EXCEPT ![Gig(n)] = DirectoryFor(Gig(n))],
         pds' = [pds EXCEPT ![DirectoryFor(Gig(n))][Slot(n)] = q],
         pdefree' = IF pdpt[Gig(n)] \in {None, ZERO} /\ pdefree <= 2 + Spare
                    THEN pdefree + 1 ELSE pdefree,
         NEW p \in LargePage
  PROVE  /\ p = n => Entry(p)' = q
         /\ p # n => Entry(p)' = Entry(p) \/ (pdpt'[Gig(p)] = ZERO /\ ~OneOnZero')
         /\ Entry(p) # None => Entry(p)' # None
<1> DEFINE g == Gig(n)  pd == DirectoryFor(g)  i == Slot(n)  h == Gig(p)  j == Slot(p)
<1>1. /\ g \in Gigabytes /\ h \in Gigabytes
      /\ i \in 0..(PD_ENTRIES - 1) /\ j \in 0..(PD_ENTRIES - 1)
      /\ Spare \in Nat /\ None = -1 /\ ZERO = 0
      /\ g = h /\ i = j => p = n
  BY PagingSizes, PageIs, SamePlace DEF LargePage, None, ZERO
<1>2. /\ pd \in 0..(2 + Spare) /\ pdpt'[g] = pd
      /\ \A k \in Gigabytes : pdpt[k] # None => pdpt'[k] = pdpt[k]
      /\ \A k \in Gigabytes : k # g => pdpt'[k] = pdpt[k]
  BY DirectoriesStep
<1>3. pds' = [pds EXCEPT ![pd][i] = q]
  OBVIOUS
<1>4. \/ pd = pdpt[g] /\ pdpt[g] # None
      \/ pdpt[g] = None /\ pd = ZERO
      \/ pdpt[g] = None /\ pd = pdefree /\ pd \in 3..(2 + Spare)
  <2>1. pdefree \in 3..(3 + Spare) /\ (pdpt[g] = ZERO => pdefree = 3 + Spare)
    BY <1>1 DEF PagingTypeInv, DirectoriesInv
  <2>2. pd = DirectoryFor(g)
    OBVIOUS
  <2> HIDE DEF g, pd
  <2> QED BY <1>1, <2>1, <2>2 DEF DirectoryFor
<1>5. Entry(p)' = IF pdpt'[h] = None THEN None ELSE pds'[pdpt'[h]][j]
  BY DEF Entry
<1>6. Entry(p) = IF pdpt[h] = None THEN None ELSE pds[pdpt[h]][j]
  BY DEF Entry
<1>7. p = n => g = h /\ i = j
  OBVIOUS
<1>14. pdpt[h] \in {None} \cup 0..(2 + Spare) /\ pdpt'[h] \in {None} \cup 0..(2 + Spare)
  BY <1>1, <1>2 DEF PagingTypeInv
<1> HIDE DEF g, pd, i, h, j
<1>8. /\ \A e \in 0..(2 + Spare) : (e # pd \/ j # i) => pds'[e][j] = pds[e][j]
      /\ pds'[pd][i] = q
  <2> DEFINE f == [pds[pd] EXCEPT ![i] = q]
  <2>1. f[i] = q /\ (j # i => f[j] = pds[pd][j])
    BY <1>1, <1>2 DEF PagingTypeInv
  <2>2. pds' = [pds EXCEPT ![pd] = f]
    BY <1>3
  <2> HIDE DEF f
  <2>3. pds'[pd] = f /\ \A e \in 0..(2 + Spare) : e # pd => pds'[e] = pds[e]
    BY <1>2, <2>2 DEF PagingTypeInv
  <2> QED BY <2>1, <2>3
<1>9. ASSUME p = n PROVE Entry(p)' = q
  BY <1>1, <1>2, <1>5, <1>7, <1>8, <1>9
<1>10. ASSUME h # g, Entry(p)' # Entry(p)
       PROVE  pdpt'[h] = ZERO /\ ~OneOnZero' /\ Entry(p)' = q
  <2>1. pdpt'[h] = pdpt[h] /\ pdpt[h] # None
    BY <1>1, <1>2, <1>5, <1>6, <1>10
  <2>2. pdpt[h] = pd /\ i = j
    BY <1>1, <1>5, <1>6, <1>8, <1>10, <1>14, <2>1
  <2>3. pd = ZERO
    <3>1. CASE pd = pdpt[g]
      <4>1. pdpt[g] \in {None, ZERO}
        BY <1>1, <1>10, <2>2, <3>1 DEF DirectoriesInv
      <4> QED BY <1>1, <1>2, <3>1, <4>1
    <3>2. CASE pd = pdefree /\ pd \in 3..(2 + Spare)
      <4>1. pdpt[h] < pdefree
        BY <1>1 DEF DirectoriesInv
      <4> QED BY <2>2, <3>2, <4>1
    <3> QED BY <1>4, <3>1, <3>2
  <2>4. Entry(p)' = q
    BY <1>1, <1>5, <1>8, <2>1, <2>2
  <2> QED BY <1>1, <1>2, <1>10, <2>1, <2>2, <2>3, <2>4 DEF OneOnZero
<1>11. ASSUME h = g, p # n, Entry(p)' # Entry(p)
       PROVE  pdpt'[h] = ZERO /\ ~OneOnZero' /\ Entry(p) = None
  <2>1. i # j
    BY <1>1, <1>11
  <2>2. pds'[pd][j] = pds[pd][j] /\ Entry(p)' = pds[pd][j]
    BY <1>1, <1>2, <1>5, <1>8, <1>11, <2>1
  <2>3. pdpt[g] = None /\ Entry(p) = None
    BY <1>4, <1>6, <1>11, <2>2
  <2>4. pd = ZERO
    <3>1. pd \in 3..(2 + Spare) /\ pd = pdefree => pds[pd][j] = None
      BY <1>1 DEF DirectoriesInv
    <3> QED BY <1>4, <1>11, <2>2, <2>3, <3>1
  <2>5. PICK k \in Gigabytes : pdpt[k] = ZERO
    BY <1>1, <1>11, <2>2, <2>3, <2>4 DEF DirectoriesInv
  <2>6. k # g /\ pdpt'[k] = ZERO /\ pdpt'[g] = ZERO
    BY <1>1, <1>2, <2>3, <2>4, <2>5
  <2> QED BY <1>1, <1>11, <2>3, <2>5, <2>6 DEF OneOnZero
<1>12. p # n => Entry(p)' = Entry(p) \/ (pdpt'[h] = ZERO /\ ~OneOnZero')
  BY <1>10, <1>11
<1>13. Entry(p) # None => Entry(p)' # None
  <2>1. q # None
    BY <1>1
  <2> QED BY <1>9, <1>10, <1>11, <2>1
<1> QED BY <1>9, <1>12, <1>13 DEF h

\* One round keeps the invariant.
LEMMA RoundStep == ASSUME PagingInv, MapPage PROVE PagingInv'
<1>1. PICK n \in Nat, m \in Nat, q \in Nat, d \in Nat : CallAt(n, m, q, d)
  BY DEF PagingInv, CallInv, MapPage
<1>2. /\ n < m /\ n \in LargePage /\ Wanted(n, q)
      /\ pdpt' = [pdpt EXCEPT ![Gig(n)] = DirectoryFor(Gig(n))]
      /\ pds' = [pds EXCEPT ![DirectoryFor(Gig(n))][Slot(n)] = q]
      /\ pdefree' = IF pdpt[Gig(n)] \in {None, ZERO} /\ pdefree <= 2 + Spare
                    THEN pdefree + 1 ELSE pdefree
      /\ va_call' = <<HUGE_PAGE_SIZE * (n + 1), HUGE_PAGE_SIZE * m, HUGE_PAGE_SIZE * (q + 1), d>>
      /\ asked' = asked /\ done' = done
  BY <1>1, RoundIs
<1>3. /\ PagingTypeInv' /\ DirectoriesInv'
      /\ \A g \in Gigabytes : pdpt[g] # None => pdpt'[g] = pdpt[g]
      /\ OneOnZero' => OneOnZero
  BY <1>2, DirectoriesStep DEF PagingInv
<1>4. \A p \in LargePage : /\ p = n => Entry(p)' = q
                           /\ p # n => Entry(p)' = Entry(p) \/ (pdpt'[Gig(p)] = ZERO /\ ~OneOnZero')
                           /\ Entry(p) # None => Entry(p)' # None
  BY <1>2, EntriesStep DEF PagingInv
<1>5. EntriesInv'
  <2>1. ASSUME NEW p \in LargePage, pdpt'[Gig(p)] # ZERO \/ OneOnZero'
        PROVE  Entry(p)' = None \/ Wanted(p, Entry(p)')
    <3>1. CASE p = n
      BY <1>2, <1>4, <3>1
    <3>2. CASE p # n
      <4>1. Entry(p)' = Entry(p)
        BY <1>4, <2>1, <3>2
      <4>2. Gig(p) \in Gigabytes
        BY DEF LargePage
      <4>3. Entry(p) # None => pdpt[Gig(p)] # ZERO \/ OneOnZero
        <5>1. pdpt[Gig(p)] = ZERO => pdpt'[Gig(p)] = ZERO
          BY <1>3, <4>2 DEF None, ZERO
        <5> QED BY <1>3, <2>1, <5>1
      <4>4. Entry(p) = None \/ Wanted(p, Entry(p))
        BY <4>3 DEF PagingInv, EntriesInv
      <4> QED BY <4>1, <4>4
    <3> QED BY <3>1, <3>2
  <2>2. \A p \in LargePage : Gig(p) \in {0, PDP_ENTRIES + 1} => Entry(p)' # None
    BY <1>4 DEF PagingInv, EntriesInv
  <2> QED BY <2>1, <2>2 DEF EntriesInv, Wanted
<1>6. CallAt(n + 1, m, q + 1, d)'
  <2>1. n + 1 <= m
    BY <1>2
  <2>2. \A p \in (n + 1)..(m - 1) :
          /\ p \in LargePage /\ Gig(p) \div PDP_ENTRIES = d
          /\ Gig(p) # PDP_ENTRIES + 1 /\ Wanted(p, (q + 1) + (p - (n + 1)))
    <3> SUFFICES ASSUME NEW p \in (n + 1)..(m - 1)
                 PROVE  /\ p \in LargePage /\ Gig(p) \div PDP_ENTRIES = d
                        /\ Gig(p) # PDP_ENTRIES + 1 /\ Wanted(p, (q + 1) + (p - (n + 1)))
      OBVIOUS
    <3>1. p \in n..(m - 1) /\ (q + 1) + (p - (n + 1)) = q + (p - n)
      OBVIOUS
    <3> QED BY <1>1, <3>1 DEF CallAt
  <2>3. \A p \in PagesOf(asked) : p < m /\ (p < n + 1 => p \in LargePage /\ Entry(p)' # None)
    <3> SUFFICES ASSUME NEW p \in PagesOf(asked)
                 PROVE  p < m /\ (p < n + 1 => p \in LargePage /\ Entry(p)' # None)
      OBVIOUS
    <3>1. p \in Nat /\ p < m /\ (p < n => p \in LargePage /\ Entry(p) # None)
      BY <1>1 DEF CallAt, PagesOf
    <3>2. p < n + 1 => p < n \/ p = n
      BY <3>1
    <3>3. q # None
      BY DEF None
    <3> QED BY <1>2, <1>4, <3>1, <3>2, <3>3
  <2>4. asked \in Regions
    BY <1>1 DEF CallAt
  <2> QED BY <1>2, <2>1, <2>2, <2>3, <2>4 DEF CallAt
<1>7. CallInv'
  <2>1. n + 1 \in Nat /\ q + 1 \in Nat
    OBVIOUS
  <2> QED BY <1>6, <2>1 DEF CallInv
<1>8. DoneInv'
  BY <1>2, <1>4 DEF PagingInv, DoneInv
<1> QED BY <1>3, <1>5, <1>7, <1>8 DEF PagingInv

-----------------------------------------------------------------------------

LEMMA PagingStarts == EarlyPagingInit => PagingInv
<1> SUFFICES ASSUME EarlyPagingInit PROVE PagingInv
  OBVIOUS
<1> DEFINE P == PDP_ENTRIES  E == PD_ENTRIES
<1>1. P \in Nat /\ P > 1 /\ E \in Nat /\ E > 0 /\ Spare \in Nat /\ None = -1 /\ ZERO = 0
      /\ Gigabytes = 0..(2 * P - 1)
  BY PagingSizes DEF None, ZERO, Gigabytes
<1>2. /\ pdpt = [g \in Gigabytes |-> CASE g = 0 -> 1 [] g = P + 1 -> 2 [] OTHER -> None]
      /\ pds = [d \in 0..(2 + Spare) |-> [i \in 0..(E - 1) |-> IF d \in {1, 2} THEN i ELSE None]]
      /\ pdefree = 3 /\ va_call = <<>> /\ done = {}
  BY DEF EarlyPagingInit, Gigabytes
<1> HIDE DEF P, E
<1>3. 0 \in Gigabytes /\ P + 1 \in Gigabytes /\ P + 1 # 0
  BY <1>1
<1>4. \A g \in Gigabytes : pdpt[g] = IF g = 0 THEN 1 ELSE IF g = P + 1 THEN 2 ELSE None
  BY <1>2, <1>3
<1>5. \A d \in 0..(2 + Spare), i \in 0..(E - 1) : pds[d][i] = IF d \in {1, 2} THEN i ELSE None
  BY <1>2
<1>6. PagingTypeInv
  <2>1. pdpt \in [Gigabytes -> {None} \cup 0..(2 + Spare)]
    BY <1>1, <1>2
  <2>2. pds \in [0..(2 + Spare) -> [0..(E - 1) -> {None} \cup Nat]]
    BY <1>1, <1>2
  <2> QED BY <1>1, <1>2, <2>1, <2>2 DEF PagingTypeInv, E
<1>7. DirectoriesInv
  BY <1>1, <1>2, <1>3, <1>4, <1>5 DEF DirectoriesInv, P, E
<1>8. ASSUME NEW p \in LargePage
      PROVE  /\ Gig(p) = 0 => Entry(p) = p /\ Wanted(p, p)
             /\ Gig(p) = P + 1 => Entry(p) = Slot(p) /\ Wanted(p, Slot(p))
             /\ Gig(p) \notin {0, P + 1} => Entry(p) = None
  <2>1. Gig(p) \in Gigabytes /\ p \in Nat
    BY DEF LargePage
  <2>2. Slot(p) \in 0..(E - 1) /\ (Gig(p) = 0 => Slot(p) = p)
    <3>1. p = E * Gig(p) + Slot(p) /\ Slot(p) \in 0..(E - 1)
      BY <2>1, PageIs DEF E
    <3>2. E * 0 = 0
      BY <1>1
    <3> HIDE DEF Gig, Slot
    <3> QED BY <2>1, <3>1, <3>2
  <2> HIDE DEF Gig, Slot
  <2>3. Entry(p) = IF Gig(p) = 0 \/ Gig(p) = P + 1 THEN Slot(p) ELSE None
    BY <1>1, <1>3, <1>4, <1>5, <2>1, <2>2 DEF Entry
  <2> QED BY <1>1, <1>3, <2>2, <2>3 DEF Wanted, P
<1>9. EntriesInv
  <2>1. \A p \in LargePage : p # None /\ Slot(p) # None
    <3> SUFFICES ASSUME NEW p \in LargePage PROVE p # None /\ Slot(p) # None
      OBVIOUS
    <3>1. p \in Nat /\ Slot(p) \in 0..(E - 1)
      BY PageIs DEF LargePage, E
    <3> HIDE DEF Slot
    <3> QED BY <1>1, <3>1
  <2> QED BY <1>8, <2>1 DEF EntriesInv, P
<1>10. CallInv /\ DoneInv
  BY <1>2 DEF CallInv, DoneInv
<1> QED BY <1>6, <1>7, <1>9, <1>10 DEF PagingInv

\* When a call returns, every page of its region is mapped.
LEMMA MappedStep == ASSUME PagingInv, Mapped PROVE PagingInv'
<1>1. PICK n \in Nat, m \in Nat, q \in Nat, d \in Nat : CallAt(n, m, q, d)
  BY DEF PagingInv, CallInv, Mapped
<1>2. n = m
  <2>1. HUGE_PAGE_SIZE * n >= HUGE_PAGE_SIZE * m /\ n <= m
    BY <1>1 DEF CallAt, Mapped
  <2>2. m \in Nat /\ (n < m => HUGE_PAGE_SIZE * m >= HUGE_PAGE_SIZE * n + HUGE_PAGE_SIZE)
    <3> SUFFICES ASSUME n < m PROVE HUGE_PAGE_SIZE * m >= HUGE_PAGE_SIZE * n + HUGE_PAGE_SIZE
      OBVIOUS
    <3>1. \A x, y \in Nat : /\ HUGE_PAGE_SIZE * (x + y) = HUGE_PAGE_SIZE * x + HUGE_PAGE_SIZE * y
                            /\ HUGE_PAGE_SIZE * x \in Nat
                            /\ x >= 1 => HUGE_PAGE_SIZE * x >= HUGE_PAGE_SIZE
      BY PagingSizes
    <3>2. m - n \in Nat /\ m - n >= 1 /\ n + (m - n) = m
      OBVIOUS
    <3>3. HUGE_PAGE_SIZE * m = HUGE_PAGE_SIZE * n + HUGE_PAGE_SIZE * (m - n)
          /\ HUGE_PAGE_SIZE * (m - n) >= HUGE_PAGE_SIZE
      BY <3>1, <3>2
    <3>4. HUGE_PAGE_SIZE * n \in Nat /\ HUGE_PAGE_SIZE * (m - n) \in Nat /\ HUGE_PAGE_SIZE \in Nat
      BY <3>1, <3>2, PagingSizes
    <3> QED BY <3>3, <3>4
  <2>3. HUGE_PAGE_SIZE * n \in Nat /\ HUGE_PAGE_SIZE * m \in Nat /\ HUGE_PAGE_SIZE \in Nat /\ HUGE_PAGE_SIZE > 1
    BY BeginsPage, PagingSizes
  <2> QED BY <2>1, <2>2, <2>3
<1>3. \A p \in PagesOf(asked) : p \in LargePage /\ Entry(p) # None
  BY <1>1, <1>2 DEF CallAt
<1>4. asked \in Regions
  BY <1>1 DEF CallAt
<1>5. DoneInv'
  <2>1. done' = done \cup {asked} /\ pdpt' = pdpt /\ pds' = pds
    BY DEF Mapped
  <2> QED BY <1>3, <1>4, <2>1 DEF PagingInv, DoneInv, Entry
<1>6. CallInv'
  BY DEF Mapped, CallInv
<1>7. PagingTypeInv' /\ DirectoriesInv' /\ EntriesInv'
  BY DEF PagingInv, PagingTypeInv, DirectoriesInv, EntriesInv, Entry, OneOnZero, Mapped
<1> QED BY <1>5, <1>6, <1>7 DEF PagingInv

LEMMA PagingStep == ASSUME PagingInv, [EarlyPagingNext]_epVars PROVE PagingInv'
<1>1. CASE MapPage
  BY <1>1, RoundStep
<1>2. CASE Mapped
  BY <1>2, MappedStep
<1>3. CASE early_boot_pml4_init
  <2>1. PICK r \in Regions : map_addr_early_boot(r[1], r[2], r[3], r)
    <3>1. CASE \E r \in Identity : map_addr_early_boot(r[1], r[1], r[2], <<r[1], r[1], r[2]>>)
      BY <3>1 DEF Regions
    <3>2. CASE \E b \in Buffers : map_addr_early_boot(b[1], b[2], b[3], b)
      BY <3>2 DEF Regions
    <3> QED BY <1>3, <3>1, <3>2 DEF early_boot_pml4_init
  <2> QED BY <2>1, CallStarts DEF map_addr_early_boot
<1>4. CASE mmio_map_region
  <2>1. PICK s \in Registers :
          map_addr_early_boot(DownTo(s[1]), DownTo(s[1]),
            DownTo(s[2] + (s[1] % HUGE_PAGE_SIZE) + HUGE_PAGE_SIZE - 1), <<s[1], s[1], s[2]>>)
    BY <1>4 DEF mmio_map_region
  <2> DEFINE r == <<s[1], s[1], s[2]>>
  <2>2. r \in Regions /\ s[1] \in Nat /\ s[2] \in Nat /\ r[1] = s[1] /\ r[2] = s[1] /\ r[3] = s[2]
    BY RegionAssumption DEF Regions
  <2>3. /\ va_call' = <<DownTo(r[1]), EndOfMap(r[1], r[3]), DownTo(r[2]), Pdp(r[1])>>
        /\ asked' = r /\ UNCHANGED <<pdpt, pds, pdefree, done>>
    BY <2>1, <2>2, RoundedTwice DEF map_addr_early_boot
  <2> HIDE DEF r
  <2> QED BY <2>2, <2>3, CallStarts
<1>5. CASE init_gpu
  <2>1. PICK r \in Regions : map_addr_early_boot(r[1], r[2], r[3], r)
    BY <1>5 DEF init_gpu, Regions
  <2> QED BY <2>1, CallStarts DEF map_addr_early_boot
<1>6. CASE UNCHANGED epVars
  BY <1>6 DEF epVars, PagingInv, PagingTypeInv, DirectoriesInv, EntriesInv, CallInv, CallAt, DoneInv,
              Entry, OneOnZero
<1> QED BY <1>1, <1>2, <1>3, <1>4, <1>5, <1>6 DEF EarlyPagingNext

-----------------------------------------------------------------------------

LEMMA AloneOnZero ==
  ASSUME PagingTypeInv, Cardinality(OnPageZero) <= 1
  PROVE  OneOnZero
<1> SUFFICES ASSUME NEW g \in Gigabytes, NEW h \in Gigabytes, pdpt[g] = ZERO, pdpt[h] = ZERO, g # h
             PROVE  FALSE
  BY DEF OneOnZero
<1>1. OnPageZero \subseteq Gigabytes /\ {g, h} \subseteq OnPageZero
  BY DEF OnPageZero, PagingTypeInv
<1>2. IsFiniteSet(OnPageZero)
  <2>1. IsFiniteSet(Gigabytes)
    BY FS_Interval, PagingSizes DEF Gigabytes
  <2> QED BY <1>1, <2>1, FS_Subset
<1>3. IsFiniteSet({g}) /\ Cardinality({g}) = 1
  BY FS_Singleton
<1>4. Cardinality({g} \cup {h}) = 2
  BY <1>3, FS_AddElement
<1>5. {g} \cup {h} = {g, h}
  OBVIOUS
<1>6. Cardinality({g, h}) <= Cardinality(OnPageZero)
  BY <1>1, <1>2, FS_Subset
<1>7. Cardinality(OnPageZero) \in Nat
  BY <1>2, FS_CardinalityType
<1> QED BY <1>4, <1>5, <1>6, <1>7

\* What the processor makes of an address, by its page.
LEMMA TranslationIs ==
  ASSUME PagingInv, NEW a \in Nat, a \div HUGE_PAGE_SIZE \in LargePage
  PROVE  LET p == a \div HUGE_PAGE_SIZE
         IN Translated(a) = IF Entry(p) = None THEN None
                            ELSE Entry(p) * HUGE_PAGE_SIZE + (a % HUGE_PAGE_SIZE)
<1> DEFINE p == a \div HUGE_PAGE_SIZE
<1>1. a \div GIGABYTE = Gig(p) /\ (a % GIGABYTE) \div HUGE_PAGE_SIZE = Slot(p)
  BY AddressIs
<1> HIDE DEF p
<1>2. Translated(a) = IF Entry(p) = None THEN None ELSE Entry(p) * HUGE_PAGE_SIZE + (a % HUGE_PAGE_SIZE)
  BY <1>1 DEF Translated, Entry
<1> QED BY <1>2 DEF p

\* The kernel's gigabyte, and the first one of memory.
LEMMA OwnDirectories == ASSUME PagingInv PROVE OwnDirectory
<1>1. DOMAIN pdpt = Gigabytes
  BY DEF PagingInv, PagingTypeInv
<1>2. \A g, h \in DOMAIN pdpt : g # h /\ pdpt[g] = pdpt[h] => pdpt[g] \in {None, ZERO}
  BY <1>1 DEF PagingInv, DirectoriesInv
<1>3. ASSUME NEW k \in {0, PDP_ENTRIES + 1}, NEW a \in 0..(GIGABYTE - 1)
      PROVE  Translated(k * GIGABYTE + a) = a
  <2> DEFINE x == k * GIGABYTE + a  p == x \div HUGE_PAGE_SIZE  t == a \div HUGE_PAGE_SIZE
             r == a % HUGE_PAGE_SIZE
  <2>1. k \in Nat /\ k * GIGABYTE \in Nat /\ x \in Nat /\ a \in Nat /\ k * GIGABYTE = GIGABYTE * k
        /\ k \in Gigabytes /\ HUGE_PAGE_SIZE \in Nat /\ HUGE_PAGE_SIZE > 1
    BY PagingSizes DEF Gigabytes
  <2>2. x \div GIGABYTE = k /\ x % GIGABYTE = a
    BY <2>1, PagingSizes, QuotientIs
  <2>3. p \in Nat /\ Gig(p) = k /\ Slot(p) = t
    BY <2>1, <2>2, AddressIs
  <2>4. x % HUGE_PAGE_SIZE = r
    <3>1. x % HUGE_PAGE_SIZE \in 0..(HUGE_PAGE_SIZE - 1) /\ x = HUGE_PAGE_SIZE * p + (x % HUGE_PAGE_SIZE)
      BY <2>1, AddressIs
    <3>2. t \in Nat /\ r \in 0..(HUGE_PAGE_SIZE - 1) /\ a = HUGE_PAGE_SIZE * t + r
      BY <2>1, AddressIs
    <3>3. p = PD_ENTRIES * k + t
      BY <2>3, PageIs
    <3>4. HUGE_PAGE_SIZE * p = k * GIGABYTE + HUGE_PAGE_SIZE * t
      <4>1. HUGE_PAGE_SIZE * (PD_ENTRIES * k + t)
              = (HUGE_PAGE_SIZE * PD_ENTRIES) * k + HUGE_PAGE_SIZE * t
        <5>1. \A h, e, y, z \in Nat : h * (e * y + z) = (h * e) * y + h * z
          OBVIOUS
        <5> HIDE DEF t
        <5> QED BY <2>1, <3>2, <5>1, PagingSizes
      <4> QED BY <2>1, <3>3, <4>1, PagingSizes
    <3>5. x = k * GIGABYTE + a /\ HUGE_PAGE_SIZE * t \in Nat
      BY <2>1, <3>2
    <3> HIDE DEF x, p, t, r
    <3> QED BY <2>1, <3>1, <3>2, <3>4, <3>5
  <2>5. p \in LargePage /\ Entry(p) # None
    BY <2>1, <2>3 DEF LargePage, PagingInv, EntriesInv
  <2>6. Wanted(p, Entry(p))
    <3>1. pdpt[Gig(p)] # ZERO
      <4> HIDE DEF p, t
      <4> QED BY <2>3 DEF PagingInv, DirectoriesInv, ZERO
    <3> HIDE DEF p
    <3> QED BY <2>5, <3>1 DEF PagingInv, EntriesInv
  <2>7. Entry(p) = t
    <3>1. CASE k = 0
      <4>1. p = PD_ENTRIES * 0 + t /\ PD_ENTRIES * 0 = 0 /\ t \in Nat
        BY <2>1, <2>3, <3>1, PageIs, AddressIs, PagingSizes
      <4>2. Gig(p) = 0 /\ 0 < PDP_ENTRIES /\ PDP_ENTRIES \in Nat
        BY <2>3, <3>1, PagingSizes
      <4>3. p = t
        BY <4>1
      <4> HIDE DEF p, t, Gig, Slot
      <4> QED BY <2>6, <4>2, <4>3 DEF Wanted
    <3>2. CASE k = PDP_ENTRIES + 1
      <4>1. Gig(p) = PDP_ENTRIES + 1 /\ PDP_ENTRIES \in Nat /\ Slot(p) = t
        BY <2>3, <3>2, PagingSizes
      <4> HIDE DEF p, t, Gig, Slot
      <4> QED BY <2>6, <4>1 DEF Wanted
    <3> QED BY <3>1, <3>2
  <2>8. Translated(x) = t * HUGE_PAGE_SIZE + r
    <3>1. t # None
      BY <2>5, <2>7
    <3>2. Translated(x) = IF Entry(p) = None THEN None
                          ELSE Entry(p) * HUGE_PAGE_SIZE + (x % HUGE_PAGE_SIZE)
      BY <2>1, <2>5, TranslationIs
    <3> HIDE DEF x, p, t, r
    <3> QED BY <2>4, <2>7, <3>1, <3>2
  <2>9. a = t * HUGE_PAGE_SIZE + r
    <3>1. a = HUGE_PAGE_SIZE * t + r /\ t \in Nat
      BY <2>1, AddressIs
    <3>2. HUGE_PAGE_SIZE * t = t * HUGE_PAGE_SIZE
      BY <2>1, <3>1
    <3> QED BY <3>1, <3>2
  <2> QED BY <2>8, <2>9
<1>4. ASSUME NEW a \in 0..(GIGABYTE - 1) PROVE Translated(a) = a
  <2>1. 0 * GIGABYTE + a = a
    BY PagingSizes
  <2> QED BY <1>3, <2>1
<1> QED BY <1>2, <1>3, <1>4 DEF OwnDirectory

\* A byte of a region that is mapped is at its physical address.
LEMMA ByteIsMapped ==
  ASSUME PagingInv, OneOnZero, NEW r \in done, NEW b \in 0..(r[3] - 1)
  PROVE  Translated(r[1] + b) = r[2] + b
<1> DEFINE H == HUGE_PAGE_SIZE  x == r[1] + b  p == x \div H  n == r[1] \div H  q == r[2] \div H
<1>1. r \in Regions /\ r[1] \in Nat /\ r[2] \in Nat /\ r[3] \in Nat /\ H \in Nat /\ H > 1
  BY RegionIs, PagingSizes DEF PagingInv, DoneInv
<1>2. x \in Nat /\ r[1] <= x /\ x < r[1] + r[3]
  BY <1>1
<1>3. p \in Nat /\ x % H \in 0..(H - 1) /\ x = H * p + (x % H)
  <2> HIDE DEF x
  <2> QED BY <1>2, AddressIs
<1>4. n \in Nat /\ r[1] % H \in 0..(H - 1) /\ r[1] = H * n + (r[1] % H)
  BY <1>1, AddressIs
<1>5. q \in Nat /\ r[2] % H \in 0..(H - 1) /\ r[2] = H * q + (r[2] % H)
  BY <1>1, AddressIs
<1>6. n <= p
  <2>1. ~(r[1] < H * n)
    BY <1>1, <1>4
  <2>2. x \in Nat /\ n \in Nat /\ ~(x < H * n)
    BY <1>1, <1>2, <1>4, <2>1
  <2>3. ~(p < n)
    <3> HIDE DEF x, n
    <3> QED BY <1>1, <2>2, QuotientBelow
  <2> QED BY <1>3, <1>4, <2>3
<1>7. p \in PagesOf(r)
  <2>1. H * p < r[1] + r[3]
    <3>1. H * p \in Nat
      BY <1>1, <1>3
    <3> HIDE DEF x, p
    <3> QED BY <1>1, <1>2, <1>3, <3>1
  <2> QED BY <1>3, <1>6, <2>1 DEF PagesOf
<1>8. p \in LargePage /\ Entry(p) # None
  BY <1>7 DEF PagingInv, DoneInv
<1> HIDE DEF x, p, n, q
<1>9. Wanted(p, Entry(p))
  BY <1>8 DEF PagingInv, EntriesInv
<1>10. Wanted(p, q + (p - n)) /\ (r[2] # r[1] => r[1] % H = r[2] % H)
  BY <1>1, <1>7, PageOfRegion, RegionIs DEF q, n
<1>11. Entry(p) = q + (p - n)
  BY <1>8, <1>9, <1>10, WantedOnce
<1>12. Translated(x) = (q + (p - n)) * H + (x % H)
  BY <1>2, <1>8, <1>11, TranslationIs DEF p
<1>13. (q + (p - n)) * H = H * q + (H * p - H * n)
  BY <1>1, <1>3, <1>4, <1>5, <1>6
<1>14. r[1] % H = r[2] % H
  BY <1>10
<1>15. x = r[1] + b /\ b \in Nat
  BY <1>1 DEF x
<1>16. (q + (p - n)) * H + (x % H) = r[2] + b
  <2>1. H * q \in Nat /\ H * p \in Nat /\ H * n \in Nat
    BY <1>1, <1>3, <1>4, <1>5
  <2> DEFINE u == (q + (p - n)) * H  hq == H * q  hp == H * p  hn == H * n
             w == x % H  k == r[1] % H
  <2>2. u = hq + (hp - hn) /\ x = hp + w /\ r[1] = hn + k /\ r[2] = hq + k /\ x = r[1] + b
    BY <1>3, <1>4, <1>5, <1>13, <1>14, <1>15
  <2>3. {hq, hp, hn, w, k} \subseteq Int
    BY <1>3, <1>4, <2>1
  <2> HIDE DEF u, hq, hp, hn, w, k
  <2>4. u + w = r[2] + b
    BY <1>1, <1>2, <1>15, <2>2, <2>3
  <2> QED BY <2>4 DEF u, w
<1> QED BY <1>12, <1>15, <1>16

LEMMA StaysMappedHolds == ASSUME PagingInv PROVE StaysMapped
BY AloneOnZero, ByteIsMapped DEF StaysMapped, PagingInv

\* map_addr_early_boot(): for any sizes of pages and tables, any number of spare pages, and
\* any regions within the two tables of directories that are asked for in any order and
\* again, what has been mapped once stays
\* at its physical address (up to the second gigabyte behind the page at address 0), no
\* other directory serves two gigabytes, and the kernel stays where it is.
THEOREM EarlyMapsStay == EarlyPagingSpec => []MappingsKept
<1>1. PagingInv /\ [EarlyPagingNext]_epVars => PagingInv'
  BY PagingStep
<1>2. PagingInv => MappingsKept
  BY OwnDirectories, StaysMappedHolds DEF MappingsKept
<1> QED BY <1>1, <1>2, PagingStarts, PTL DEF EarlyPagingSpec
===============================================================================
