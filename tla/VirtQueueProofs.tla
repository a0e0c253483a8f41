--------------------------- MODULE VirtQueueProofs ---------------------------
(***************************************************************************)
(* Proofs about VirtQueue, for every queue size, index width, set of       *)
(* commands and set of stack frames.                                       *)
(*                                                                         *)
(* QInv is the inductive invariant: the type invariant, and, as long as no *)
(* answer went unrecycled, how far the device is with the one command the  *)
(* driver has sent.                                                        *)
(***************************************************************************)
EXTENDS VirtQueue, FiniteSetTheorems, NatInduction

-----------------------------------------------------------------------------
(* Arithmetic of the 16-bit indices.                                       *)

\* A residue is a slot of the ring.
LEMMA ModRange ==
  ASSUME NEW m \in Nat \ {0}, NEW a \in Int
  PROVE  a % m \in 0..(m - 1)
BY SMT

\* An index selects a slot of the rings.
LEMMA SlotType ==
  ASSUME NEW i \in Int
  PROVE  i % QSize \in Index
BY QueueAssumption, ModRange DEF Index

\* Advancing an index keeps it within its 16 bits.
LEMMA AdvanceType ==
  ASSUME NEW i \in Int, NEW n \in Int
  PROVE  Advance(i, n) \in RingIdx
BY QueueAssumption, ModRange DEF Advance, RingIdx

LEMMA NextIdxType ==
  ASSUME NEW i \in RingIdx
  PROVE  Advance(i, 1) \in RingIdx
BY AdvanceType DEF RingIdx

\* An index and its successor are different, and one apart.
LEMMA AdvanceOne ==
  ASSUME NEW i \in RingIdx
  PROVE  /\ Advance(i, 0) = i
         /\ Advance(i, 1) # i
         /\ (Advance(i, 1) - i) % IdxMod = 1
         /\ (i - i) % IdxMod = 0
         /\ Advance(Advance(i, 1), IdxMod - 1) = i
<1>1. IdxMod \in Nat /\ IdxMod >= 2
  BY QueueAssumption
<1>2. CASE i + 1 < IdxMod
  <2>1. Advance(i, 1) = i + 1
    BY <1>1, <1>2 DEF Advance, RingIdx
  <2> QED
    BY <1>1, <1>2, <2>1 DEF Advance, RingIdx
<1>3. CASE i + 1 = IdxMod
  <2>1. Advance(i, 1) = 0
    BY <1>1, <1>3 DEF Advance, RingIdx
  <2>2. (0 - i) % IdxMod = 1
    BY <1>1, <1>3 DEF RingIdx
  <2> QED
    BY <1>1, <1>3, <2>1, <2>2 DEF Advance, RingIdx
<1> QED
  BY <1>1, <1>2, <1>3 DEF RingIdx

\* virtq_need_event() holds when the used index passes the event it was asked for.
LEMMA EventPassed ==
  ASSUME NEW i \in RingIdx
  PROVE  NeedEvent(i, Advance(i, 1), i)
<1>1. IdxMod \in Nat /\ IdxMod >= 2
  BY QueueAssumption
<1>2. (Advance(i, 1) - i) % IdxMod = 1 /\ Advance(i, 1) \in RingIdx
  BY AdvanceOne, AdvanceType DEF RingIdx
<1>3. (Advance(i, 1) - i - 1) % IdxMod = 0
  <2>1. CASE i + 1 < IdxMod
    BY <1>1, <2>1 DEF Advance, RingIdx
  <2>2. CASE i + 1 = IdxMod
    <3>1. Advance(i, 1) = 0
      BY <1>1, <2>2 DEF Advance, RingIdx
    <3> QED
      BY <1>1, <2>2, <3>1 DEF RingIdx
  <2> QED
    BY <1>1, <2>1, <2>2 DEF RingIdx
<1> QED
  BY <1>2, <1>3 DEF NeedEvent
-----------------------------------------------------------------------------
(* Type correctness.                                                       *)

\* A descriptor with VIRTQ_DESC_F_NEXT always has a successor in the table:
\* following a chain never leaves it.
ChainsInTable == \A i \in Index : "NEXT" \in desc[i].flags => desc[i].next \in Index

TInv == TypeOK /\ ChainsInTable

\* queue_avail() publishes chains that start in the table, and counts them.
LEMMA ChainStartType ==
  ASSUME NEW e \in Scanned
  PROVE  ChainAt(e) \in 0..e
<1> DEFINE P(s) == /\ \A i \in s..(e - 1) : "NEXT" \in desc[i].flags
                   /\ s = 0 \/ "NEXT" \notin desc[s - 1].flags
<1>1. \E s \in 0..e : P(s)
  <2>1. CASE e = 0
    <3>1. P(0)
      BY <2>1
    <3> QED
      BY <2>1, <3>1
  <2>2. CASE e = 1 /\ "NEXT" \in desc[0].flags
    <3>1. P(0)
      BY <2>2
    <3> QED
      BY <2>2, <3>1
  <2>3. CASE e = 1 /\ "NEXT" \notin desc[0].flags
    <3>1. P(1)
      BY <2>3
    <3> QED
      BY <2>3, <3>1
  <2> QED
    BY <2>1, <2>2, <2>3 DEF Scanned
<1>2. (CHOOSE s \in 0..e : P(s)) \in 0..e
  BY <1>1
<1> QED
  BY <1>2 DEF ChainAt

\* queue_avail() counts at most the chains among the scanned descriptors.
LEMMA ChainCount ==
  /\ IsFiniteSet(ChainEnds) /\ Cardinality(ChainEnds) \in Nat
  /\ \A e \in Scanned : Rank(e) \in Nat
<1>1. IsFiniteSet(Scanned)
  <2>1. \A a, b \in Int : IsFiniteSet(a..b)
    BY FS_Interval
  <2>2. 0 \in Int /\ 1 \in Int
    BY SMT
  <2> QED
    BY <2>1, <2>2 DEF Scanned
<1>2. \A S \in SUBSET Scanned : IsFiniteSet(S) /\ Cardinality(S) \in Nat
  BY <1>1, FS_Subset, FS_CardinalityType
<1>3. ChainEnds \in SUBSET Scanned /\ \A e \in Scanned : {i \in ChainEnds : i < e} \in SUBSET Scanned
  BY DEF ChainEnds
<1> QED
  BY <1>2, <1>3 DEF Rank

\* What queue_avail() writes to the available ring, to its index and to the event
\* index are descriptors of the table and 16-bit indices.
LEMMA PublishedType ==
  ASSUME TypeOK
  PROVE  PublishedRing \in [Index -> Index] /\ AvailHead \in RingIdx /\ LastPublished \in RingIdx
<1>1. AvailHead \in RingIdx /\ LastPublished \in RingIdx
  <2>1. availIdx \in Int
    BY DEF TypeOK, RingIdx
  <2>2. \A n \in Int : Advance(availIdx, n) \in RingIdx
    BY <2>1, AdvanceType
  <2>3. Cardinality(ChainEnds) \in Int /\ Cardinality(ChainEnds) - 1 \in Int
    BY ChainCount
  <2> QED
    BY <2>2, <2>3 DEF AvailHead, LastPublished
<1>2. ASSUME NEW i \in Index,
             NEW es, es = {e \in ChainEnds : Advance(availIdx, Rank(e)) % QSize = i}
      PROVE  (IF es = {} THEN availRing[i] ELSE ChainAt(CHOOSE e \in es : TRUE)) \in Index
  <2>1. CASE es = {}
    BY <2>1 DEF TypeOK
  <2>2. CASE es # {}
    <3>1. (CHOOSE e \in es : TRUE) \in Scanned
      BY <1>2, <2>2 DEF ChainEnds
    <3>2. \A e \in Scanned : ChainAt(e) \in 0..1
      <4>1. TAKE e \in Scanned
      <4>2. ChainAt(e) \in 0..e
        BY ChainStartType
      <4> QED
        BY <4>2 DEF Scanned
    <3> QED
      BY <2>2, <3>1, <3>2, QueueAssumption DEF Index
  <2> QED
    BY <2>1, <2>2
<1>3. PublishedRing \in [Index -> Index]
  BY <1>2 DEF PublishedRing
<1> QED
  BY <1>1, <1>3

\* The initial state is well typed.
LEMMA TypeInit == Init => TInv
<1> SUFFICES ASSUME Init PROVE TInv
  OBVIOUS
<1>1. 0 \in Index /\ 0 \in RingIdx
  BY QueueAssumption DEF Index, RingIdx
<1>2. \A i \in Index : (i + 1) % QSize \in Index
  BY QueueAssumption, ModRange DEF Index
<1>3. desc \in [Index -> Desc]
  BY <1>2 DEF Init, Desc, Buffers, Flags
<1>4. TypeOK
  BY <1>1, <1>3, QueueAssumption DEF Init, TypeOK
<1>5. ChainsInTable
  BY DEF Init, ChainsInTable
<1> QED
  BY <1>4, <1>5 DEF TInv

\* Every step keeps the types: one step of the proof per action.
LEMMA TypeNext == TInv /\ [Next]_vars => TInv'
<1> SUFFICES ASSUME TypeOK, ChainsInTable, [Next]_vars
             PROVE  TypeOK' /\ ChainsInTable'
  BY DEF TInv
<1> USE DEF TypeOK, ChainsInTable, rings, used, memory, caller, freeList, recycler, history, device, driver
<1>1. ASSUME NEW c \in Commands, NEW f \in Frames, Send(c, f)
      PROVE  TypeOK' /\ ChainsInTable'
  BY <1>1 DEF Send, BlankResponse
<1>2. CASE AllocDescs
  <2>1. PICK d0 \in Index : d0 = firstFree /\ desc[d0].next \in Index
    BY <1>2 DEF AllocDescs, BeyondTable, Desc
  <2>2. RequestDesc(frame) \in Desc /\ ResponseDesc(frame) \in Desc /\ 1 \in Index
    BY QueueAssumption DEF RequestDesc, ResponseDesc, Desc, Buffers, Flags, Index
  <2>3. desc' = [desc EXCEPT ![d0] = RequestDesc(frame), ![desc[d0].next] = ResponseDesc(frame)]
    BY <1>2, <2>1 DEF AllocDescs
  <2>4. desc' \in [Index -> Desc]
    BY <2>1, <2>2, <2>3
  <2>5. ChainsInTable'
    BY <2>1, <2>2, <2>3 DEF RequestDesc, ResponseDesc
  <2>6. firstFree' \in Index \cup {NoNext}
    BY <1>2, <2>1 DEF AllocDescs, Desc
  <2>7. freeCount' \in Nat
    BY <1>2 DEF AllocDescs
  <2> QED
    BY <1>2, <2>4, <2>5, <2>6, <2>7 DEF AllocDescs
<1>3. CASE AllocShort
  <2>1. RequestDesc(frame) \in Desc /\ 1 \in Index
    BY QueueAssumption DEF RequestDesc, Desc, Buffers, Flags, Index
  <2>2. desc' \in [Index -> Desc] /\ firstFree' \in Index \cup {NoNext} /\ ChainsInTable'
    <3>1. CASE freeCount = 1
      <4>1. PICK d0 \in Index : d0 = firstFree
        BY <1>3, <3>1 DEF AllocShort, BeyondTable
      <4>2. desc' = [desc EXCEPT ![d0] = RequestDesc(frame)] /\ firstFree' = desc[d0].next
        BY <1>3, <3>1, <4>1 DEF AllocShort
      <4> QED
        BY <2>1, <4>1, <4>2 DEF Desc, RequestDesc
    <3>2. CASE freeCount # 1
      BY <1>3, <3>2 DEF AllocShort
    <3> QED
      BY <3>1, <3>2
  <2> QED
    BY <1>3, <2>2 DEF AllocShort
<1>4. CASE QueueAvail
  BY <1>4, PublishedType DEF QueueAvail
<1>5. CASE PublishIdx
  BY <1>5, PublishedType DEF PublishIdx
<1>6. CASE NotifyQueue
  BY <1>6 DEF NotifyQueue
<1>7. CASE PollResponse
  BY <1>7 DEF PollResponse
<1>8. CASE IrqHandler
  BY <1>8 DEF IrqHandler
<1>9. CASE ReadUsedIdx
  BY <1>9 DEF ReadUsedIdx
<1>10. CASE TakeUsed
  <2>1. usedTail % QSize \in Index
    BY SlotType DEF RingIdx
  <2> QED
    BY <1>10, <2>1 DEF TakeUsed
<1>11. CASE FollowChain
  BY <1>11 DEF FollowChain, Counted
<1>12. CASE FreeChain
  <2>1. Advance(usedTail, 1) \in RingIdx
    BY NextIdxType
  <2>2. desc' \in [Index -> Desc]
    BY <1>12 DEF FreeChain, Desc
  <2>3. ChainsInTable'
    BY <1>12 DEF FreeChain, Desc
  <2> QED
    BY <1>12, <2>1, <2>2, <2>3 DEF FreeChain
<1>13. CASE Renotify
  BY <1>13 DEF Renotify
<1>14. CASE DeviceTake
  <2>1. devSeen % QSize \in Index /\ Advance(devSeen, 1) \in RingIdx
    BY SlotType, NextIdxType DEF RingIdx
  <2>2. availRing[devSeen % QSize] \in Index
    BY <2>1
  <2>3. ChainLast(availRing[devSeen % QSize]) \in Index
    BY <2>2 DEF ChainLast
  <2>4. \A i \in Index : desc[i].frame \in Frames \cup {None}
    BY DEF Desc
  <2>5. devFrame' \in Frames \cup {None}
    BY <1>14, <2>3, <2>4 DEF DeviceTake
  <2>6. devCmd' \in Commands \cup {None}
    <3>1. \A d \in Desc : Contents(d) \in Commands \cup {None}
      BY DEF Contents, Desc
    <3> QED
      BY <1>14, <2>2, <3>1 DEF DeviceTake
  <2> QED
    BY <1>14, <2>1, <2>2, <2>5, <2>6 DEF DeviceTake
<1>15. CASE DeviceSleep
  BY <1>15 DEF DeviceSleep
<1>16. CASE DeviceRespond
  BY <1>16 DEF DeviceRespond
<1>17. CASE DevicePush
  <2>1. Advance(usedIdx, 1) \in RingIdx
    BY NextIdxType
  <2>2. usedRing' \in [Index -> Index] /\ usedIdx' \in RingIdx /\ dev' = "interrupt"
    <3>1. usedRing \in [Index -> Index] /\ devHead \in Index
      OBVIOUS
    <3>2. usedRing' = [usedRing EXCEPT ![usedIdx % QSize] = devHead] /\ usedIdx' = Advance(usedIdx, 1)
          /\ dev' = "interrupt"
      BY <1>17 DEF DevicePush
    <3> HIDE DEF TypeOK
    <3> QED
      BY <2>1, <3>1, <3>2
  <2>3. UNCHANGED <<rings, memory, isr, kicked, driver, devHead, devSeen, devFrame, devCmd>>
    BY <1>17 DEF DevicePush
  <2> QED
    BY <2>2, <2>3
<1>18. CASE DeviceInterrupt
  BY <1>18 DEF DeviceInterrupt, IsrBits
<1>19. CASE ConfigChange
  BY <1>19 DEF ConfigChange, IsrBits
<1>20. CASE UNCHANGED vars
  BY <1>20 DEF vars
<1>21. CASE AllocBeyond
  BY <1>21 DEF AllocBeyond
<1> QED
  BY <1>1, <1>2, <1>3, <1>4, <1>5, <1>6, <1>7, <1>8, <1>9, <1>10, <1>11, <1>12, <1>13, <1>14,
     <1>15, <1>16, <1>17, <1>18, <1>19, <1>20, <1>21 DEF Next, DriverStep, DeviceStep

\* Every variable keeps its type, whatever the size of the queue, the width of
\* its indices and the device's events: the driver only ever follows descriptor
\* numbers that lie within the table.
THEOREM TypeCorrect == Spec => []TypeOK
<1>1. TInv => TypeOK
  BY DEF TInv
<1> QED
  BY <1>1, TypeInit, TypeNext, PTL DEF Spec

-----------------------------------------------------------------------------
(* How far the command is, as long as no answer went unrecycled.           *)

Prepared  == {"alloc", "avail", "publish"}         \* not visible to the device
Published == {"notify", "poll", "irq"}             \* visible, not recycled
Recycling == {"done", "recycle", "follow"}

\* The caller's two buffers hold the command and, before it is published, no answer.
BuffersInv ==
  /\ pc # "idle" => cmd \in Commands /\ frame \in Frames /\ request[frame] = cmd
  /\ pc \in Prepared => response[frame] = None
  /\ pc \in Recycling \cup {"irq", "renotify"} => response[frame] = cmd

\* The chain 0 -> 1 is the command's, or at the front of the free list.
ChainInv ==
  /\ pc \in {"idle", "alloc", "renotify"} =>
       firstFree = 0 /\ freeCount = QSize /\ desc[0].next = 1
  /\ HoldsChain =>
       freeCount = QSize - 2 /\ desc[0] = RequestDesc(frame) /\ desc[1] = ResponseDesc(frame)
  /\ pc = "follow" => usedId = 0 /\ chainEnd \in {0, 1} /\ freed = chainEnd + 1

\* Nothing but that chain is ever published or used.
RingsInv ==
  /\ \A i \in Index : availRing[i] = 0 /\ usedRing[i] = 0
  /\ devHead = 0
  /\ pc = "publish" => usedEvent = availIdx
  /\ pc \in Published => availIdx = Advance(usedEvent, 1)

\* What the device is doing, in the order it does it.
AllServed  == dev = "idle" /\ devSeen = availIdx /\ usedIdx = availIdx
NotTaken   == dev = "idle" /\ devSeen = usedTail /\ usedIdx = usedTail /\ response[frame] = None
Working    == /\ dev = "work" /\ devSeen = availIdx /\ usedIdx = usedTail
              /\ devCmd = cmd /\ devFrame = frame /\ response[frame] = None
Responded  == dev = "push" /\ devSeen = availIdx /\ usedIdx = usedTail /\ response[frame] = cmd
Pushed     == dev = "interrupt" /\ devSeen = availIdx /\ usedIdx = availIdx /\ response[frame] = cmd
Interrupted == AllServed /\ response[frame] = cmd

DeviceInv ==
  /\ pc \in Prepared \cup {"idle", "renotify"} =>
       AllServed /\ usedTail = availIdx /\ "NOTIFY" \notin isr
  /\ pc \in Published =>
       /\ availIdx = Advance(usedTail, 1)
       /\ \/ (NotTaken \/ Working) /\ pc # "irq" /\ "NOTIFY" \notin isr
          \/ (Responded \/ Pushed) /\ "NOTIFY" \notin isr
          \/ Interrupted /\ "NOTIFY" \in isr
  /\ pc \in Recycling =>
       AllServed /\ availIdx = Advance(usedTail, 1) /\ "NOTIFY" \notin isr
  /\ pc \in {"recycle", "follow"} => doneIdx = availIdx

ServingInv ==
  /\ BuffersInv /\ ChainInv /\ RingsInv /\ DeviceInv
  /\ pc # "fault" /\ ~derailed

QInv == TInv /\ (lost \/ ServingInv)

\* With one chain 0 -> 1 in the table queue_avail() publishes exactly that one.
LEMMA OneChain ==
  ASSUME TypeOK, desc[0].flags = {"NEXT"}, desc[1].flags = {"WRITE"}
  PROVE  /\ \A i \in Index : PublishedRing[i] \in {availRing[i], 0}
         /\ LastPublished = availIdx
         /\ AvailHead = Advance(availIdx, 1)
<1>1. ChainEnds = {1}
  BY DEF ChainEnds, Scanned
<1>2. Cardinality(ChainEnds) = 1
  BY <1>1, FS_Singleton
<1>3. availIdx \in RingIdx /\ Advance(availIdx, 0) = availIdx
  BY AdvanceOne DEF TypeOK
<1>4. LastPublished = availIdx /\ AvailHead = Advance(availIdx, 1)
  BY <1>2, <1>3 DEF LastPublished, AvailHead
<1>5. ChainAt(1) = 0
  <2> DEFINE P(s) == /\ \A i \in s..(1 - 1) : "NEXT" \in desc[i].flags
                     /\ s = 0 \/ "NEXT" \notin desc[s - 1].flags
  <2>1. P(0) /\ ~P(1)
    OBVIOUS
  <2>2. (CHOOSE s \in 0..1 : P(s)) = 0
    BY <2>1
  <2> QED
    BY <2>2 DEF ChainAt
<1>6. ASSUME NEW i \in Index
      PROVE  PublishedRing[i] \in {availRing[i], 0}
  <2> DEFINE es == {e \in ChainEnds : Advance(availIdx, Rank(e)) % QSize = i}
  <2>1. PublishedRing[i] = IF es = {} THEN availRing[i] ELSE ChainAt(CHOOSE e \in es : TRUE)
    BY DEF PublishedRing
  <2>2. es # {} => (CHOOSE e \in es : TRUE) = 1
    BY <1>1
  <2> HIDE DEF es
  <2> QED
    BY <2>1, <2>2, <1>5
<1> QED
  BY <1>4, <1>6

\* setup_queue() leaves a queue with every descriptor free and nothing to serve.
LEMMA ServingInit == Init => ServingInv
<1> SUFFICES ASSUME Init PROVE ServingInv
  OBVIOUS
<1>1. 1 % QSize = 1
  BY QueueAssumption
<1>2. ChainInv
  BY <1>1, QueueAssumption DEF Init, ChainInv, HoldsChain, Index
<1> QED
  BY <1>2 DEF Init, ServingInv, BuffersInv, RingsInv, DeviceInv, Prepared, Published, Recycling,
     AllServed

\* A new command leaves the queue alone.
LEMMA SendServing ==
  ASSUME TInv, ServingInv, NEW c \in Commands, NEW f \in Frames, Send(c, f)
  PROVE  ServingInv'
<1> USE DEF TInv, ServingInv, Send, history
<1>1. BuffersInv'
  BY CommandAssumption DEF BuffersInv, BlankResponse, Prepared, Recycling, TypeOK
<1>2. ChainInv' /\ RingsInv'
  BY DEF ChainInv, RingsInv, HoldsChain, Published, rings, used, freeList, device
<1>3. DeviceInv'
  BY DEF DeviceInv, Prepared, Published, Recycling, AllServed, rings, used, recycler, device
<1> QED
  BY <1>1, <1>2, <1>3

\* The steps of the driver, one step of the proof per action.
LEMMA DriverServing ==
  ASSUME TInv, ServingInv, ~lost, DriverStep
  PROVE  lost' \/ ServingInv'
<1> USE DEF TInv, ServingInv, history
<1>1. 0 \in Index /\ 1 \in Index
  BY QueueAssumption DEF Index
<1>2. CASE AllocDescs
  <2> USE <1>2 DEF AllocDescs
  <2>1. firstFree = 0 /\ freeCount = QSize /\ desc[0].next = 1
    BY DEF ChainInv
  <2>2. desc'[0] = RequestDesc(frame) /\ desc'[1] = ResponseDesc(frame)
    BY <1>1, <2>1 DEF TypeOK
  <2>3. BuffersInv'
    BY DEF BuffersInv, Prepared, Recycling, memory, caller
  <2>4. ChainInv'
    BY <2>1, <2>2 DEF ChainInv, HoldsChain, RequestDesc, ResponseDesc, caller
  <2>5. RingsInv'
    BY DEF RingsInv, Published, used, device
  <2>6. DeviceInv'
    BY DEF DeviceInv, Prepared, Published, Recycling, AllServed, used, recycler, device
  <2> QED
    BY <2>3, <2>4, <2>5, <2>6
<1>3. CASE AllocShort \/ AllocBeyond
  <2>1. pc = "alloc"
    BY <1>3 DEF AllocShort, AllocBeyond
  <2>2. firstFree = 0 /\ freeCount = QSize /\ desc[0].next = 1 /\ 1 # NoNext
    BY <2>1 DEF ChainInv, NoNext
  <2>3. ~BeyondTable /\ freeCount >= 2
    BY <1>1, <2>2, QueueAssumption DEF BeyondTable
  <2> QED
    BY <1>3, <2>3 DEF TypeOK, AllocShort, AllocBeyond
<1>4. CASE QueueAvail
  <2> USE <1>4 DEF QueueAvail
  <2>1. desc[0].flags = {"NEXT"} /\ desc[1].flags = {"WRITE"}
    BY DEF ChainInv, HoldsChain, RequestDesc, ResponseDesc
  <2>2. BuffersInv' /\ ChainInv'
    BY DEF BuffersInv, ChainInv, HoldsChain, Prepared, Recycling, memory, caller, freeList,
       RequestDesc, ResponseDesc
  <2>3. RingsInv'
    BY <2>1, OneChain DEF RingsInv, Published, used, device
  <2>4. DeviceInv'
    BY DEF DeviceInv, Prepared, Published, Recycling, AllServed, used, recycler, device
  <2> QED
    BY <2>2, <2>3, <2>4
<1>5. CASE PublishIdx
  <2> USE <1>5 DEF PublishIdx
  <2>1. AvailHead = Advance(availIdx, 1)
    BY OneChain DEF ChainInv, HoldsChain, RequestDesc, ResponseDesc
  <2>2. BuffersInv' /\ ChainInv'
    BY DEF BuffersInv, ChainInv, HoldsChain, Prepared, Recycling, memory, caller, freeList,
       RequestDesc, ResponseDesc
  <2>3. RingsInv'
    BY <2>1 DEF RingsInv, Published, used, device, Advance
  <2>4. DeviceInv'
    BY <2>1 DEF DeviceInv, BuffersInv, Prepared, Published, Recycling, AllServed, NotTaken,
       used, recycler, device, memory, caller, Advance
  <2> QED
    BY <2>2, <2>3, <2>4
<1>6. CASE NotifyQueue
  BY <1>6 DEF NotifyQueue, BuffersInv, ChainInv, RingsInv, DeviceInv, HoldsChain, Prepared,
     Published, Recycling, AllServed, NotTaken, Working, Responded, Pushed, Interrupted,
     rings, used, memory, caller, freeList, recycler, device, RequestDesc, ResponseDesc, Advance
<1>7. CASE PollResponse
  BY <1>7 DEF PollResponse, BuffersInv, ChainInv, RingsInv, DeviceInv, HoldsChain, Prepared,
     Published, Recycling, AllServed, NotTaken, Working, Responded, Pushed, Interrupted,
     rings, used, memory, caller, freeList, recycler, device, RequestDesc, ResponseDesc, Advance
<1>8. CASE IrqHandler
  <2>1. CASE Recycles(isr)
    BY <1>8, <2>1 DEF IrqHandler, Recycles, BuffersInv, ChainInv, RingsInv, DeviceInv, HoldsChain,
       Prepared, Published, Recycling, AllServed, Responded, Pushed, Interrupted,
       rings, used, memory, caller, freeList, recycler, device, RequestDesc, ResponseDesc, Advance
  <2>2. CASE ~Recycles(isr)
    BY <1>8, <2>2 DEF IrqHandler
  <2> QED
    BY <2>1, <2>2
<1>9. CASE ReadUsedIdx
  <2> USE <1>9 DEF ReadUsedIdx
  <2>1. usedIdx = availIdx /\ usedIdx # usedTail
    BY AdvanceOne DEF DeviceInv, Recycling, AllServed, TypeOK
  <2> QED
    BY <2>1 DEF BuffersInv, ChainInv, RingsInv, DeviceInv, HoldsChain, Prepared, Published,
       Recycling, AllServed, rings, used, memory, caller, freeList, device, RequestDesc,
       ResponseDesc, Advance
<1>10. CASE TakeUsed
  <2> USE <1>10 DEF TakeUsed
  <2>1. usedId' = 0 /\ chainEnd' = 0 /\ freed' = 1
    <3>1. usedTail % QSize \in Index
      BY SlotType DEF TypeOK, RingIdx
    <3> QED
      BY <3>1 DEF RingsInv
  <2> QED
    BY <2>1 DEF BuffersInv, ChainInv, RingsInv, DeviceInv, HoldsChain, Prepared, Published,
       Recycling, AllServed, rings, used, memory, caller, freeList, device, RequestDesc,
       ResponseDesc, Advance
<1>11. CASE FollowChain
  <2> USE <1>11 DEF FollowChain
  <2>1. usedId = 0 /\ chainEnd = 0 /\ chainEnd' = 1 /\ freed' = 2
    BY DEF ChainInv, HoldsChain, RequestDesc, ResponseDesc, Counted
  <2> QED
    BY <2>1 DEF BuffersInv, ChainInv, RingsInv, DeviceInv, HoldsChain, Prepared, Published,
       Recycling, AllServed, rings, used, memory, caller, freeList, device, RequestDesc,
       ResponseDesc, Advance
<1>12. CASE FreeChain
  <2> USE <1>12 DEF FreeChain
  <2>1. usedId = 0 /\ chainEnd = 1 /\ freed = 2 /\ freeCount = QSize - 2 /\ desc[0].next = 1
    BY DEF ChainInv, HoldsChain, RequestDesc, ResponseDesc
  <2>2. Advance(usedTail, 1) = availIdx /\ doneIdx = availIdx /\ pc' = "renotify"
    BY DEF DeviceInv, Recycling, LastUsed
  <2>3. desc'[0] = desc[0] /\ firstFree' = 0 /\ freeCount' = QSize
    BY <1>1, <2>1, QueueAssumption DEF TypeOK
  <2>4. BuffersInv'
    BY <2>2 DEF BuffersInv, Prepared, Recycling, memory, caller
  <2>5. ChainInv'
    BY <2>1, <2>2, <2>3 DEF ChainInv, HoldsChain
  <2>6. RingsInv'
    BY <2>2 DEF RingsInv, Published, used, device
  <2>7. DeviceInv'
    BY <2>2 DEF DeviceInv, Prepared, Published, Recycling, AllServed, used, device
  <2> QED
    BY <2>2, <2>4, <2>5, <2>6, <2>7
<1>13. CASE Renotify
  BY <1>13 DEF Renotify, BuffersInv, ChainInv, RingsInv, DeviceInv, HoldsChain, Prepared,
     Published, Recycling, AllServed, rings, used, memory, caller, freeList, recycler, device
<1> QED
  BY <1>2, <1>3, <1>4, <1>5, <1>6, <1>7, <1>8, <1>9, <1>10, <1>11, <1>12, <1>13
     DEF DriverStep

\* The steps of the device.
LEMMA DeviceServing ==
  ASSUME TInv, ServingInv, DeviceStep
  PROVE  ServingInv'
<1> USE DEF TInv, ServingInv, history
<1>1. 0 \in Index /\ usedTail \in RingIdx /\ availIdx \in RingIdx /\ Advance(usedTail, 1) # usedTail
  BY QueueAssumption, AdvanceOne DEF Index, TypeOK
<1>2. CASE DeviceTake
  <2> USE <1>2 DEF DeviceTake
  <2>1. pc \in Published /\ NotTaken
    BY <1>1 DEF DeviceInv, Prepared, Published, Recycling, AllServed, Working, Responded,
       Pushed, Interrupted, TypeOK
  <2>2. availRing[devSeen % QSize] = 0
    <3>1. devSeen % QSize \in Index
      BY SlotType DEF TypeOK, RingIdx
    <3> QED
      BY <3>1 DEF RingsInv
  <2>3. desc[0] = RequestDesc(frame) /\ desc[1] = ResponseDesc(frame)
    BY <2>1 DEF ChainInv, HoldsChain, Published
  <2>4. cmd \in Commands /\ frame \in Frames /\ request[frame] = cmd
    BY <2>1 DEF BuffersInv, Published
  <2>5. frame # None => devCmd' = cmd /\ devFrame' = frame
    BY <2>2, <2>3, <2>4 DEF Contents, ChainLast, RequestDesc, ResponseDesc
  <2>6. devSeen' = availIdx /\ devHead' = 0
    BY <2>1, <2>2 DEF NotTaken, DeviceInv
  <2>7. Working'
    BY <2>1, <2>4, <2>5, <2>6, FrameAssumption DEF Working, NotTaken, rings, used, memory, driver,
       caller, recycler
  <2>8. DeviceInv'
    BY <2>1, <2>7 DEF DeviceInv, NotTaken, Prepared, Published, Recycling, rings, used, memory,
       driver, caller, recycler, Advance, Responded, Pushed, Interrupted, AllServed
  <2>9. BuffersInv' /\ ChainInv' /\ RingsInv'
    BY <2>6 DEF BuffersInv, ChainInv, RingsInv, HoldsChain, Prepared, Published, Recycling, rings,
       used, memory, driver, caller, freeList, recycler, RequestDesc, ResponseDesc, Advance
  <2> QED
    BY <2>8, <2>9 DEF driver
<1>3. CASE DeviceSleep
  BY <1>3 DEF DeviceSleep, BuffersInv, ChainInv, RingsInv, DeviceInv, HoldsChain, Prepared,
     Published, Recycling, AllServed, NotTaken, Working, Responded, Pushed, Interrupted, rings,
     used, memory, driver, caller, freeList, recycler, device, RequestDesc, ResponseDesc, Advance
<1>4. CASE DeviceRespond
  <2> USE <1>4 DEF DeviceRespond
  <2>1. pc \in {"notify", "poll"} /\ Working
    BY DEF DeviceInv, Prepared, Published, Recycling, AllServed, NotTaken, Responded, Pushed,
       Interrupted, TypeOK
  <2>2. cmd \in Commands /\ frame \in Frames
    BY <2>1 DEF BuffersInv
  <2>3. response'[frame] = cmd
    BY <2>1, <2>2, FrameAssumption DEF Working, TypeOK
  <2>4. Responded'
    BY <2>1, <2>3 DEF Working, Responded, rings, used, driver, caller, recycler
  <2>5. DeviceInv'
    BY <2>1, <2>4 DEF DeviceInv, Working, Prepared, Published, Recycling, rings, used, driver,
       caller, recycler, Advance, NotTaken, Pushed, Interrupted, AllServed
  <2>6. BuffersInv' /\ ChainInv' /\ RingsInv'
    BY <2>1, <2>3 DEF BuffersInv, ChainInv, RingsInv, HoldsChain, Prepared, Published, Recycling,
       rings, used, driver, caller, freeList, recycler, RequestDesc, ResponseDesc, Advance
  <2> QED
    BY <2>5, <2>6 DEF driver
<1>5. CASE DevicePush
  <2> USE <1>5 DEF DevicePush
  <2>1. pc \in Published /\ Responded
    BY DEF DeviceInv, Prepared, Published, Recycling, AllServed, NotTaken, Working, Pushed,
       Interrupted, TypeOK
  <2>2. usedIdx' = availIdx
    BY <2>1 DEF Responded, DeviceInv
  <2>3. \A i \in Index : usedRing'[i] = 0
    BY DEF RingsInv, TypeOK
  <2>4. Pushed'
    BY <2>1, <2>2 DEF Responded, Pushed, rings, memory, driver, caller
  <2>5. DeviceInv'
    BY <2>1, <2>4 DEF DeviceInv, Responded, Prepared, Published, Recycling, rings, memory, driver,
       caller, recycler, Advance, NotTaken, Working, Interrupted, AllServed
  <2>6. BuffersInv' /\ ChainInv' /\ RingsInv'
    BY <2>3 DEF BuffersInv, ChainInv, RingsInv, HoldsChain, Prepared, Published, Recycling, rings,
       memory, driver, caller, freeList, recycler, RequestDesc, ResponseDesc, Advance
  <2> QED
    BY <2>5, <2>6 DEF driver
<1>6. CASE DeviceInterrupt
  <2> USE <1>6 DEF DeviceInterrupt
  <2>1. pc \in Published /\ Pushed
    BY DEF DeviceInv, Prepared, Published, Recycling, AllServed, NotTaken, Working, Responded,
       Interrupted, TypeOK
  <2>2. usedEvent \in RingIdx /\ usedIdx = Advance(usedEvent, 1)
    BY <2>1 DEF Pushed, RingsInv, TypeOK
  <2>3. NeedEvent(usedEvent, usedIdx, Advance(usedIdx, IdxMod - 1))
    BY <2>2, AdvanceOne, EventPassed
  <2>4. Interrupted' /\ "NOTIFY" \in isr'
    BY <2>1, <2>3 DEF Pushed, Interrupted, AllServed, rings, used, memory, driver, caller
  <2>5. DeviceInv'
    BY <2>1, <2>4 DEF DeviceInv, Pushed, Prepared, Published, Recycling, rings, used, memory,
       driver, caller, recycler, Advance, NotTaken, Working, Responded, AllServed
  <2>6. BuffersInv' /\ ChainInv' /\ RingsInv'
    BY DEF BuffersInv, ChainInv, RingsInv, HoldsChain, Prepared, Published, Recycling, rings,
       used, memory, driver, caller, freeList, recycler, RequestDesc, ResponseDesc, Advance
  <2> QED
    BY <2>5, <2>6 DEF driver
<1> QED
  BY <1>2, <1>3, <1>4, <1>5, <1>6 DEF DeviceStep

\* QInv is inductive.
LEMMA QueueInvariant == Spec => []QInv
<1>1. Init => QInv
  BY TypeInit, ServingInit DEF QInv
<1>2. QInv /\ [Next]_vars => QInv'
  <2> SUFFICES ASSUME TInv, lost \/ ServingInv, [Next]_vars
               PROVE  lost' \/ ServingInv'
    BY TypeNext DEF QInv
  <2>1. CASE lost
    BY <2>1 DEF Next, vars, driver, device, history, DriverStep, DeviceStep, Send, AllocDescs,
       AllocShort, AllocBeyond,
       QueueAvail, PublishIdx, NotifyQueue, PollResponse, IrqHandler, ReadUsedIdx, TakeUsed,
       FollowChain, FreeChain, Renotify, DeviceTake, DeviceSleep, DeviceRespond, DevicePush,
       DeviceInterrupt, ConfigChange
  <2>2. CASE ServingInv /\ ~lost
    <3>1. ASSUME NEW c \in Commands, NEW f \in Frames, Send(c, f)
          PROVE  ServingInv'
      BY <2>2, <3>1, SendServing
    <3>2. CASE DriverStep
      BY <2>2, <3>2, DriverServing
    <3>3. CASE DeviceStep
      BY <2>2, <3>3, DeviceServing
    <3>4. CASE ConfigChange
      BY <2>2, <3>4 DEF ConfigChange, ServingInv, BuffersInv, ChainInv, RingsInv, DeviceInv,
         HoldsChain, Prepared, Published, Recycling, AllServed, NotTaken, Working, Responded,
         Pushed, Interrupted, rings, used, memory, driver, caller, freeList, recycler, history, device,
         RequestDesc, ResponseDesc, Advance
    <3>5. CASE UNCHANGED vars
      BY <2>2, <3>5 DEF vars, ServingInv, BuffersInv, ChainInv, RingsInv, DeviceInv,
         HoldsChain, Prepared, Published, Recycling, AllServed, NotTaken, Working, Responded,
         Pushed, Interrupted, rings, used, memory, driver, caller, freeList, recycler, history, device,
         RequestDesc, ResponseDesc, Advance
    <3> QED
      BY <3>1, <3>2, <3>3, <3>4, <3>5 DEF Next
  <2> QED
    BY <2>1, <2>2
<1> QED
  BY <1>1, <1>2, PTL DEF Spec

-----------------------------------------------------------------------------
(* What follows from the invariant.                                        *)

\* As long as every answer was recycled, the device never follows a chain left
\* over from an earlier command: what it works on is the request in the buffers
\* send_and_recieve() waits for.
THEOREM ServesCurrent == Spec => []DeviceServesCurrent
<1>1. QInv => DeviceServesCurrent
  BY DEF QInv, TInv, TypeOK, ServingInv, DeviceInv, DeviceServesCurrent, Prepared, Published,
     Recycling, AllServed, NotTaken, Working, Responded, Pushed, Interrupted
<1> QED
  BY <1>1, QueueInvariant, PTL

\* As long as every answer was recycled, the device writes a response only while
\* the function that owns the response buffer is still polling it: never into a
\* stack frame that is gone.
THEOREM WritesLive == Spec => []WritesIntoLiveFrame
<1>1. QInv => WritesIntoLiveFrame
  BY DEF QInv, TInv, TypeOK, ServingInv, DeviceInv, WritesIntoLiveFrame, Prepared, Published,
     Recycling, AllServed, NotTaken, Working, Responded, Pushed, Interrupted
<1> QED
  BY <1>1, QueueInvariant, PTL

\* The response send_and_recieve() returns with answers the command it sent.
THEOREM AnswersMatch == Spec => []AnswerMatchesCommand
<1>1. QInv => AnswerMatchesCommand
  BY DEF QInv, TInv, ServingInv, BuffersInv, AnswerMatchesCommand, Recycling
<1> QED
  BY <1>1, QueueInvariant, PTL

\* recycle_used() never passes the device, and has caught up with it when the
\* command is over: no used entry is recycled twice, or never.
THEOREM TailCatchesUp == Spec => []UsedTailCatchesUp
<1>1. QInv => UsedTailCatchesUp
  <2> SUFFICES ASSUME TypeOK, ServingInv
               PROVE  /\ pc = "idle" => usedTail = usedIdx
                      /\ pc \in {"recycle", "follow"} => usedTail # doneIdx
                      /\ (usedIdx - usedTail) % IdxMod \in {0, 1}
    BY DEF QInv, TInv, UsedTailCatchesUp
  <2>1. usedTail \in RingIdx
    BY DEF TypeOK
  <2>2. Advance(usedTail, 1) # usedTail /\ (Advance(usedTail, 1) - usedTail) % IdxMod = 1
        /\ (usedTail - usedTail) % IdxMod = 0
    BY <2>1, AdvanceOne
  <2>3. usedIdx \in {usedTail, Advance(usedTail, 1)}
    BY DEF TypeOK, ServingInv, DeviceInv, Prepared, Published, Recycling, AllServed, NotTaken,
       Working, Responded, Pushed, Interrupted
  <2>4. pc = "idle" => usedTail = usedIdx
    BY DEF ServingInv, DeviceInv, AllServed
  <2>5. pc \in {"recycle", "follow"} => usedTail # doneIdx
    BY <2>2 DEF ServingInv, DeviceInv, Recycling
  <2> QED
    BY <2>2, <2>3, <2>4, <2>5
<1> QED
  BY <1>1, QueueInvariant, PTL

\* Without a lost answer alloc_desc() never returns NULL, nor a descriptor beyond the
\* table, and recycle_used() never runs with nothing to recycle, however many commands
\* are sent.
THEOREM FaultsAfterLoss == Spec => []FaultsOnlyAfterLoss
<1>1. QInv => FaultsOnlyAfterLoss
  BY DEF QInv, ServingInv, FaultsOnlyAfterLoss
<1> QED
  BY <1>1, QueueInvariant, PTL

\* With a device that finishes a request before it answers a read of the
\* interrupt status and reports no configuration change, irq_handler() recycles
\* every answer: the premise of the theorems above then always holds.
THEOREM SerialNeverLoses == SerialIsr /\ ~ConfigEvents => (Spec => []NoneLost)
<1> SUFFICES ASSUME SerialIsr, ~ConfigEvents
             PROVE  Spec => []NoneLost
  OBVIOUS
<1> DEFINE SInv == ~lost /\ "CONFIG" \notin isr
<1>1. Init => SInv
  BY DEF Init
<1>2. QInv /\ SInv /\ [Next]_vars => SInv'
  <2> SUFFICES ASSUME TypeOK, ServingInv, SInv, [Next]_vars
               PROVE  SInv'
    BY DEF QInv, TInv
  <2>1. CASE IrqHandler
    <3>1. "NOTIFY" \in isr
      BY <2>1 DEF IrqHandler, ServingInv, DeviceInv, Published, NotTaken, Working, Responded, Pushed
    <3> QED
      BY <2>1, <3>1 DEF IrqHandler, Recycles
  <2>2. CASE DeviceInterrupt
    BY <2>2 DEF DeviceInterrupt, driver, history
  <2>3. CASE [Next]_vars /\ ~IrqHandler /\ ~DeviceInterrupt
    BY <2>3 DEF Next, vars, driver, device, history, DriverStep, DeviceStep, Send, AllocDescs,
       AllocShort, AllocBeyond,
       QueueAvail, PublishIdx, NotifyQueue, PollResponse, ReadUsedIdx, TakeUsed,
       FollowChain, FreeChain, Renotify, DeviceTake, DeviceSleep, DeviceRespond, DevicePush,
       ConfigChange
  <2> QED
    BY <2>1, <2>2, <2>3
<1>3. SInv => NoneLost
  BY DEF NoneLost
<1> HIDE DEF SInv
<1> QED
  BY <1>1, <1>2, <1>3, QueueInvariant, PTL DEF Spec

\* What send_and_recieve() relies on, together: as long as no answer went
\* unrecycled, the device works on the request that is waited for, writes into a
\* frame that is still alive, and the answer read is the answer to that request.
THEOREM AnswersRight == Spec => []RequestsAnswered
<1>1. DeviceServesCurrent /\ WritesIntoLiveFrame /\ AnswerMatchesCommand => RequestsAnswered
  BY DEF RequestsAnswered
<1> QED
  BY <1>1, ServesCurrent, WritesLive, AnswersMatch, PTL

\* recycle_used() takes every used entry once, and neither it nor alloc_desc()
\* faults before irq_handler() has missed an answer.
THEOREM RecyclesRight == Spec => []RecyclingSound
<1>1. UsedTailCatchesUp /\ FaultsOnlyAfterLoss => RecyclingSound
  BY DEF RecyclingSound
<1> QED
  BY <1>1, TailCatchesUp, FaultsAfterLoss, PTL

-----------------------------------------------------------------------------
(* The descriptors, after a loss as well.                                  *)

\* How far an index is ahead of what has been recycled.
Ahead(x) == (x - usedTail) % IdxMod

\* The successor setup_queue() gives a descriptor.
Threaded(i) == IF i + 1 = QSize THEN 0 ELSE i + 1

\* The end of the table from j on, still as setup_queue() has threaded it.
Untouched(j) == j \in 2..(QSize - 1) /\ \A i \in j..(QSize - 1) : desc[i].next = Threaded(i)

\* A list of n descriptors can only start in the untouched end of the table,
\* unless it starts with the chain 0 -> 1, or there is none.
ListFrom(x, n) == x \in {0, NoNext} \/ (Untouched(x) /\ n <= QSize - x)

NothingSent ==
  /\ pc \in {"idle", "alloc"} /\ freeCount = QSize /\ firstFree = 0
  /\ \A i \in Index : desc[i].flags = {} /\ desc[i].next = Threaded(i)

\* The descriptors 0 and 1 remain the one chain queue_avail() publishes, even
\* when alloc_desc() hands out others.
OneChainKept ==
  /\ desc[0].flags = {"NEXT"} /\ desc[0].next = 1 /\ desc[1].flags = {"WRITE"}
  /\ ListFrom(firstFree, freeCount) /\ ListFrom(desc[1].next, freeCount - 2)
  /\ firstFree # 0 => desc[1].next = NoNext

TableInv ==
  /\ NothingSent \/ OneChainKept
  /\ \A i \in Index : availRing[i] = 0 /\ usedRing[i] = 0
  /\ devHead = 0
  /\ pc = "follow" => usedId = 0 /\ chainEnd \in {0, 1} /\ freed = chainEnd + 1

\* Every published chain that was not recycled costs two descriptors, and the
\* device is at most as far as the driver.
CountInv ==
  /\ freeCount = QSize - 2 * Unrecycled
  /\ Ahead(usedIdx) <= Ahead(devSeen) /\ Ahead(devSeen) <= Ahead(availIdx)
  /\ dev \in {"idle", "interrupt"} => Ahead(devSeen) = Ahead(usedIdx)
  /\ dev \in {"work", "push"} => Ahead(devSeen) = Ahead(usedIdx) + 1
  /\ pc \in {"recycle", "follow"} => Ahead(doneIdx) \in 1..Ahead(usedIdx)

\* Both hold until alloc_desc() has nothing to give or recycle_used() nothing to recycle.
DescInv == derailed \/ (TableInv /\ CountInv)

\* Differences of indices, and the index after one.
LEMMA Difference ==
  ASSUME NEW m \in Nat \ {0}, NEW x \in 0..(m - 1), NEW y \in 0..(m - 1)
  PROVE  (x - y) % m = IF x >= y THEN x - y ELSE x - y + m
<1>1. CASE x >= y
  BY <1>1
<1>2. CASE x < y
  <2>1. ((x - y + m) + m * (0 - 1)) % m = (x - y + m) % m
    BY <1>2
  <2> QED
    BY <1>2
<1> QED
  BY <1>1, <1>2

LEMMA Successor ==
  ASSUME NEW m \in Nat \ {0}, NEW x \in 0..(m - 1)
  PROVE  (x + 1) % m = IF x + 1 = m THEN 0 ELSE x + 1
<1>1. CASE x + 1 < m
  BY <1>1
<1>2. CASE x + 1 = m
  BY <1>2
<1> QED
  BY <1>1, <1>2

\* How far one index is ahead of another, and what an increment of either does to that.
LEMMA Distance ==
  ASSUME NEW m \in Nat \ {0}, NEW t \in 0..(m - 1), NEW a \in 0..(m - 1)
  PROVE  /\ (a - t) % m \in 0..(m - 1)
         /\ (a - t) % m = 0 <=> a = t
         /\ ((a - t) % m) + 1 < m => (((a + 1) % m) - t) % m = ((a - t) % m) + 1
         /\ (a - t) % m >= 1 => (a - ((t + 1) % m)) % m = ((a - t) % m) - 1
<1> DEFINE d == (a - t) % m  a1 == (a + 1) % m  t1 == (t + 1) % m
<1>1. d = IF a >= t THEN a - t ELSE a - t + m
  BY Difference
<1>2. a1 = IF a + 1 = m THEN 0 ELSE a + 1
  BY Successor
<1>3. t1 = IF t + 1 = m THEN 0 ELSE t + 1
  BY Successor
<1> HIDE DEF d, a1, t1
<1>4. a1 \in 0..(m - 1) /\ t1 \in 0..(m - 1)
  BY <1>2, <1>3
<1>5. (a1 - t) % m = IF a1 >= t THEN a1 - t ELSE a1 - t + m
  BY <1>4, Difference
<1>6. (a - t1) % m = IF a >= t1 THEN a - t1 ELSE a - t1 + m
  BY <1>4, Difference
<1>7. d \in 0..(m - 1) /\ (d = 0 <=> a = t)
  <2>1. CASE a >= t
    BY <1>1, <2>1
  <2>2. CASE a < t
    <3>1. d = a - t + m
      BY <1>1, <2>2
    <3>2. a - t + m \in 1..(m - 1) /\ a # t
      BY <2>2
    <3> QED
      BY <3>1, <3>2
  <2> QED
    BY <2>1, <2>2
<1>8. d + 1 < m => (a1 - t) % m = d + 1
  <2>1. CASE a + 1 = m
    BY <1>1, <1>2, <1>5, <2>1
  <2>2. CASE a + 1 # m
    BY <1>1, <1>2, <1>5, <2>2
  <2> QED
    BY <2>1, <2>2
<1>9. d >= 1 => (a - t1) % m = d - 1
  <2>1. CASE t + 1 = m
    BY <1>1, <1>3, <1>6, <2>1
  <2>2. CASE t + 1 # m
    BY <1>1, <1>3, <1>6, <2>2
  <2> QED
    BY <2>1, <2>2
<1> QED
  BY <1>7, <1>8, <1>9 DEF d, a1, t1

\* The same for the indices of the rings.
LEMMA AheadOf ==
  ASSUME NEW a \in RingIdx, usedTail \in RingIdx
  PROVE  /\ Ahead(a) \in 0..(IdxMod - 1)
         /\ Ahead(a) = 0 <=> a = usedTail
         /\ Ahead(a) + 1 < IdxMod => Ahead(Advance(a, 1)) = Ahead(a) + 1
         /\ Ahead(a) >= 1 => (a - Advance(usedTail, 1)) % IdxMod = Ahead(a) - 1
<1>1. IdxMod \in Nat \ {0} /\ a \in 0..(IdxMod - 1) /\ usedTail \in 0..(IdxMod - 1)
  BY QueueAssumption DEF RingIdx
<1>2. /\ (a - usedTail) % IdxMod \in 0..(IdxMod - 1)
      /\ (a - usedTail) % IdxMod = 0 <=> a = usedTail
      /\ ((a - usedTail) % IdxMod) + 1 < IdxMod =>
           (((a + 1) % IdxMod) - usedTail) % IdxMod = ((a - usedTail) % IdxMod) + 1
      /\ (a - usedTail) % IdxMod >= 1 =>
           (a - ((usedTail + 1) % IdxMod)) % IdxMod = ((a - usedTail) % IdxMod) - 1
  BY ONLY <1>1, Distance
<1>3. Advance(a, 1) = (a + 1) % IdxMod /\ Advance(usedTail, 1) = (usedTail + 1) % IdxMod
  BY DEF Advance
<1>4. Ahead(a) = (a - usedTail) % IdxMod
  BY DEF Ahead
<1>5. Ahead(Advance(a, 1)) = (((a + 1) % IdxMod) - usedTail) % IdxMod
  BY <1>3 DEF Ahead
<1> QED
  BY ONLY <1>1, <1>2, <1>3, <1>4, <1>5

\* A step that only moves the driver on, or the device, leaves the table as it is.
LEMMA TableKept ==
  ASSUME TableInv, UNCHANGED <<desc, availRing, usedRing, devHead, freeList, usedId, chainEnd, freed>>,
         pc' = "follow" => pc = "follow", NothingSent => pc' \in {"idle", "alloc"}
  PROVE  TableInv'
<1>1. OneChainKept => OneChainKept'
  BY DEF OneChainKept, ListFrom, Untouched, freeList
<1>2. NothingSent => NothingSent'
  BY DEF NothingSent, freeList
<1> QED
  BY <1>1, <1>2 DEF TableInv

\* alloc_desc() twice: the chain 0 -> 1 again, or two descriptors nobody has used.
LEMMA TableAlloc ==
  ASSUME TypeOK, TableInv, AllocDescs
  PROVE  TableInv' /\ freeCount' = freeCount - 2
<1>1. PICK d0 \in Index : d0 = firstFree /\ desc[d0].next \in Index /\ freeCount >= 2
  BY DEF AllocDescs, BeyondTable, TypeOK, Desc
<1>2. PICK d1 \in Index : d1 = desc[d0].next
  BY <1>1
<1>3. /\ desc' = [desc EXCEPT ![d0] = RequestDesc(frame), ![d1] = ResponseDesc(frame)]
      /\ firstFree' = desc[d1].next /\ freeCount' = freeCount - 2 /\ pc' = "avail"
      /\ availRing' = availRing /\ usedRing' = usedRing /\ devHead' = devHead
  BY <1>1, <1>2 DEF AllocDescs, used, device
<1>4. /\ 0 \in Index /\ 1 \in Index /\ Threaded(0) = 1
      /\ QSize \in Nat /\ QSize >= 2 /\ freeCount \in Nat /\ desc \in [Index -> Desc]
  <2>1. QSize \in Nat /\ QSize >= 2
    BY QueueAssumption
  <2>2. 0 \in Index /\ 1 \in Index /\ Threaded(0) = 1
    BY <2>1 DEF Index, Threaded
  <2> QED
    BY <2>1, <2>2 DEF TypeOK
<1>5. OneChainKept'
  <2>1. CASE d0 = 0
    <3>1. d1 = 1
      BY <1>1, <1>2, <1>4, <2>1 DEF TableInv, NothingSent, OneChainKept
    <3>2. desc'[0] = RequestDesc(frame) /\ desc'[1] = ResponseDesc(frame)
      BY <1>3, <1>4, <2>1, <3>1
    <3>3. \A i \in Index \ {0, 1} : desc'[i] = desc[i]
      BY <1>3, <1>4, <2>1, <3>1
    <3>4. ListFrom(desc[1].next, freeCount - 2)
      <4>1. CASE NothingSent
        <5>1. desc[1].next = Threaded(1)
          BY <1>4, <4>1 DEF NothingSent
        <5>2. CASE QSize = 2
          BY <5>1, <5>2 DEF ListFrom, Threaded
        <5>3. CASE QSize > 2
          <6>1. Threaded(1) = 2 /\ freeCount = QSize
            BY <1>4, <4>1, <5>3 DEF NothingSent, Threaded
          <6>2. Untouched(2)
            BY <1>4, <4>1, <5>3 DEF Untouched, NothingSent, Index
          <6>3. desc[1].next = 2 /\ freeCount - 2 <= QSize - 2
            BY <1>4, <5>1, <6>1
          <6> QED
            BY <6>2, <6>3 DEF ListFrom
        <5> QED
          BY <1>4, <5>2, <5>3
      <4>2. CASE OneChainKept
        BY <4>2 DEF OneChainKept
      <4> QED
        BY <4>1, <4>2 DEF TableInv
    <3>5. ListFrom(firstFree, freeCount)'
      <4>1. \A i \in 2..(QSize - 1) : desc'[i] = desc[i]
        BY <3>3 DEF Index
      <4>2. \A j : Untouched(j) => Untouched(j)'
        BY <4>1 DEF Untouched
      <4>3. firstFree' = desc[1].next /\ freeCount' = freeCount - 2
        BY <1>3, <3>1
      <4> QED
        BY <3>4, <4>2, <4>3 DEF ListFrom
    <3> QED
      BY <3>2, <3>5 DEF OneChainKept, RequestDesc, ResponseDesc, ListFrom
  <2>2. CASE d0 # 0
    <3>1. OneChainKept /\ Untouched(d0) /\ freeCount <= QSize - d0 /\ desc[1].next = NoNext
      BY <1>1, <2>2 DEF TableInv, NothingSent, OneChainKept, ListFrom, NoNext, Index
    <3>2. d0 \in 2..(QSize - 2) /\ d1 = d0 + 1 /\ desc[d1].next = Threaded(d1)
      <4>1. d0 \in 2..(QSize - 2)
        BY <1>1, <1>4, <3>1 DEF Untouched
      <4>2. \A i \in d0..(QSize - 1) : desc[i].next = Threaded(i)
        BY <3>1 DEF Untouched
      <4>3. Threaded(d0) = d0 + 1 /\ d0 \in d0..(QSize - 1) /\ d0 + 1 \in d0..(QSize - 1)
        BY <1>4, <4>1 DEF Threaded
      <4> QED
        BY <1>2, <4>1, <4>2, <4>3
    <3>3. \A i \in Index \ {d0, d1} : desc'[i] = desc[i]
      BY <1>3, <1>4
    <3>4. desc'[0] = desc[0] /\ desc'[1] = desc[1]
      BY <1>4, <3>2, <3>3
    <3>5. ListFrom(firstFree, freeCount)'
      <4>1. CASE d1 = QSize - 1
        BY <1>3, <1>4, <3>2, <4>1 DEF ListFrom, Threaded
      <4>2. CASE d1 # QSize - 1
        <5>1. firstFree' = d1 + 1
          BY <1>3, <1>4, <3>2, <4>2 DEF Threaded
        <5>2. \A i \in (d1 + 1)..(QSize - 1) : desc'[i].next = Threaded(i)
          <6>1. TAKE i \in (d1 + 1)..(QSize - 1)
          <6>2. i \in d0..(QSize - 1) /\ i \in Index \ {d0, d1}
            BY <1>4, <3>2 DEF Index
          <6> QED
            BY <3>1, <3>3, <6>2 DEF Untouched
        <5>3. d1 + 1 \in 2..(QSize - 1) /\ freeCount - 2 <= QSize - (d1 + 1)
          BY <1>4, <3>1, <3>2, <4>2
        <5>4. Untouched(d1 + 1)'
          BY <5>2, <5>3 DEF Untouched
        <5> QED
          BY <1>3, <5>1, <5>3, <5>4 DEF ListFrom
      <4> QED
        BY <4>1, <4>2
    <3>6. ListFrom(desc[1].next, freeCount - 2)'
      BY <3>1, <3>4 DEF ListFrom
    <3> QED
      BY <3>1, <3>4, <3>5, <3>6 DEF OneChainKept
  <2> QED
    BY <2>1, <2>2
<1> QED
  BY <1>3, <1>5 DEF TableInv

\* recycle_used() gives back the chain 0 -> 1, whose two descriptors it counts.
LEMMA TableFree ==
  ASSUME TypeOK, TableInv, FreeChain
  PROVE  TableInv' /\ freeCount' = freeCount + 2
<1> USE QueueAssumption DEF FreeChain, TypeOK
<1>1. OneChainKept
  BY DEF TableInv, NothingSent
<1>2. chainEnd = 1 /\ freed = 2 /\ usedId = 0
  BY <1>1 DEF TableInv, OneChainKept
<1>3. 0 \in Index /\ 1 \in Index
  BY DEF Index
<1>4. /\ desc' = [desc EXCEPT ![1].next = firstFree] /\ firstFree' = 0 /\ freeCount' = freeCount + 2
      /\ pc' # "follow" /\ availRing' = availRing /\ usedRing' = usedRing /\ devHead' = devHead
  BY <1>2 DEF device, used
<1>5. desc'[1].next = firstFree /\ desc'[1].flags = desc[1].flags /\ \A i \in Index \ {1} : desc'[i] = desc[i]
  BY <1>3, <1>4 DEF Desc
<1>6. ListFrom(desc[1].next, freeCount - 2)'
  <2>1. (freeCount - 2)' = freeCount
    BY <1>4
  <2> QED
    BY <1>1, <1>5, <2>1 DEF OneChainKept, ListFrom, Untouched, Index
<1>7. OneChainKept'
  BY <1>1, <1>3, <1>4, <1>5, <1>6 DEF OneChainKept, ListFrom
<1> QED
  BY <1>4, <1>7 DEF TableInv

\* setup_queue() threads the table and counts every descriptor as free.
LEMMA TableInit == Init => TableInv /\ CountInv
<1> SUFFICES ASSUME Init PROVE TableInv /\ CountInv
  OBVIOUS
<1>1. \A i \in Index : Threaded(i) = (i + 1) % QSize
  <2>1. TAKE i \in Index
  <2>2. QSize \in Nat \ {0} /\ i \in 0..(QSize - 1)
    BY QueueAssumption DEF Index
  <2> QED
    BY <2>2, Successor DEF Threaded
<1>2. TableInv
  BY <1>1 DEF Init, TableInv, NothingSent
<1>3. Ahead(0) = 0
  <2>1. IdxMod \in Nat \ {0} /\ 0 \in 0..(IdxMod - 1)
    BY QueueAssumption
  <2> QED
    BY <2>1, Difference DEF Init, Ahead
<1>4. CountInv
  BY <1>3, QueueAssumption DEF Init, CountInv, Unrecycled, Ahead
<1> QED
  BY <1>2, <1>4

\* Every step that does not derail keeps the one chain, and the list within the table.
LEMMA TableNext ==
  ASSUME TInv, TableInv, [Next]_vars, ~derailed'
  PROVE  TableInv'
<1>0. TypeOK /\ (OneChainKept \/ NothingSent)
  BY DEF TInv, TableInv
<1>1. ASSUME NEW c \in Commands, NEW f \in Frames, Send(c, f)
      PROVE  TableInv'
  BY <1>1, TableKept DEF Send, rings, used, device, recycler
<1>2. CASE AllocDescs
  BY <1>2, TableAlloc DEF TInv
<1>3. CASE AllocShort
  BY <1>3 DEF AllocShort
<1>12. CASE AllocBeyond
  <2>1. ~NothingSent
    <3>1. QSize \in Nat /\ QSize >= 2
      BY QueueAssumption
    <3>2. 0 \in Index /\ 1 \in Index /\ Threaded(0) = 1
      BY <3>1 DEF Index, Threaded
    <3>3. NothingSent => freeCount = QSize /\ firstFree = 0 /\ desc[0].next = 1
      BY <3>2 DEF NothingSent
    <3> QED
      BY <1>12, <3>1, <3>2, <3>3 DEF AllocBeyond, BeyondTable, NoNext
  <2> QED
    BY <1>12, <2>1, TableKept DEF AllocBeyond, rings, used, device, recycler, freeList
<1>4. CASE QueueAvail
  <2>1. OneChainKept
    BY <1>4 DEF QueueAvail, TableInv, NothingSent
  <2>2. \A i \in Index : PublishedRing[i] \in {availRing[i], 0}
    BY <2>1, OneChain DEF TInv, OneChainKept
  <2>3. \A i \in Index : availRing'[i] = 0 /\ usedRing'[i] = 0
    BY <1>4, <2>2 DEF QueueAvail, TableInv, used
  <2>4. OneChainKept'
    BY <1>4, <2>1 DEF QueueAvail, OneChainKept, ListFrom, Untouched, freeList
  <2> QED
    BY <1>4, <2>3, <2>4 DEF QueueAvail, TableInv, device
<1>5. CASE PublishIdx \/ NotifyQueue \/ PollResponse \/ IrqHandler \/ ReadUsedIdx \/ Renotify
  <2>1. ~NothingSent /\ pc' # "follow"
    BY <1>5 DEF PublishIdx, NotifyQueue, PollResponse, IrqHandler, ReadUsedIdx, Renotify, NothingSent
  <2>2. UNCHANGED <<desc, availRing, usedRing, devHead, freeList, usedId, chainEnd, freed>>
    BY <1>5 DEF PublishIdx, NotifyQueue, PollResponse, IrqHandler, ReadUsedIdx, Renotify, rings,
       used, device, recycler
  <2> QED
    BY <2>1, <2>2, TableKept
<1>6. CASE TakeUsed
  <2>1. OneChainKept
    BY <1>6 DEF TakeUsed, TableInv, NothingSent
  <2>2. usedRing[usedTail % QSize] = 0
    <3>1. usedTail % QSize \in Index
      BY SlotType DEF TInv, TypeOK, RingIdx
    <3> QED
      BY <3>1 DEF TableInv
  <2>3. usedId' = 0 /\ chainEnd' = 0 /\ freed' = 1
    BY <1>6, <2>2 DEF TakeUsed
  <2>4. OneChainKept'
    BY <1>6, <2>1 DEF TakeUsed, OneChainKept, ListFrom, Untouched, freeList, rings
  <2> QED
    BY <1>6, <2>3, <2>4 DEF TakeUsed, TableInv, device, rings, used
<1>7. CASE FollowChain
  <2>1. OneChainKept
    BY <1>7 DEF FollowChain, TableInv, NothingSent
  <2>2. chainEnd = 0 /\ freed = 1 /\ usedId = 0
    BY <1>7, <2>1 DEF FollowChain, TableInv, OneChainKept
  <2>3. chainEnd' = 1 /\ freed' = 2 /\ usedId' = 0
    BY <1>7, <2>1, <2>2 DEF FollowChain, Counted, OneChainKept
  <2>4. OneChainKept'
    BY <1>7, <2>1 DEF FollowChain, OneChainKept, ListFrom, Untouched, freeList, rings
  <2> QED
    BY <1>7, <2>3, <2>4 DEF FollowChain, TableInv, device, rings, used
<1>8. CASE FreeChain
  BY <1>8, TableFree DEF TInv
<1>9. CASE DeviceTake
  <2>1. devHead' = 0
    <3>1. devSeen % QSize \in Index
      BY SlotType DEF TInv, TypeOK, RingIdx
    <3> QED
      BY <1>9, <3>1 DEF DeviceTake, TableInv
  <2>2. (NothingSent => NothingSent') /\ (OneChainKept => OneChainKept')
    BY <1>9 DEF DeviceTake, OneChainKept, NothingSent, ListFrom, Untouched, driver, freeList, rings
  <2> QED
    BY <1>9, <2>1, <2>2 DEF DeviceTake, TableInv, driver, recycler, rings, used
<1>10. CASE DevicePush
  <2>1. \A i \in Index : usedRing'[i] = 0
    BY <1>10 DEF DevicePush, TableInv, TInv, TypeOK
  <2>2. (NothingSent => NothingSent') /\ (OneChainKept => OneChainKept')
    BY <1>10 DEF DevicePush, OneChainKept, NothingSent, ListFrom, Untouched, driver, freeList, rings
  <2> QED
    BY <1>10, <2>1, <2>2 DEF DevicePush, TableInv, driver, recycler, rings
<1>11. CASE DeviceSleep \/ DeviceRespond \/ DeviceInterrupt \/ ConfigChange \/ UNCHANGED vars
  <2>1. UNCHANGED <<desc, availRing, usedRing, devHead, freeList, usedId, chainEnd, freed, pc>>
    BY <1>11 DEF DeviceSleep, DeviceRespond, DeviceInterrupt, ConfigChange, vars, rings, used,
       device, recycler, driver
  <2>2. NothingSent => pc' \in {"idle", "alloc"}
    BY <2>1 DEF NothingSent
  <2> QED
    BY <2>1, <2>2, TableKept
<1> QED
  BY <1>1, <1>2, <1>3, <1>4, <1>5, <1>6, <1>7, <1>8, <1>9, <1>10, <1>11, <1>12
     DEF Next, DriverStep, DeviceStep

\* The ring is no shorter than the table, so that what is published fits.
LEMMA IndexRoom == QSize \in Nat /\ QSize >= 2 /\ IdxMod \in Nat /\ IdxMod >= QSize
<1>1. QSize \in Nat /\ QSize >= 2 /\ IdxMod \in Nat \ {0} /\ IdxMod % QSize = 0
  BY QueueAssumption
<1>2. ASSUME IdxMod < QSize PROVE FALSE
  <2>1. QSize \in Nat \ {0} /\ IdxMod \in 0..(QSize - 1) /\ 0 \in 0..(QSize - 1)
    BY <1>1, <1>2
  <2>2. (IdxMod - 0) % QSize = IdxMod
    BY <2>1, Difference
  <2> QED
    BY <1>1, <2>2
<1> QED
  BY <1>1, <1>2

\* Two indices as far ahead are the same.
LEMMA AheadSame ==
  ASSUME NEW a \in RingIdx, NEW b \in RingIdx, usedTail \in RingIdx, Ahead(a) = Ahead(b)
  PROVE  a = b
<1>1. IdxMod \in Nat \ {0} /\ a \in 0..(IdxMod - 1) /\ b \in 0..(IdxMod - 1) /\ usedTail \in 0..(IdxMod - 1)
  BY QueueAssumption DEF RingIdx
<1>2. Ahead(a) = IF a >= usedTail THEN a - usedTail ELSE a - usedTail + IdxMod
  BY <1>1, Difference DEF Ahead
<1>3. Ahead(b) = IF b >= usedTail THEN b - usedTail ELSE b - usedTail + IdxMod
  BY <1>1, Difference DEF Ahead
<1>4. (IF a >= usedTail THEN a - usedTail ELSE a - usedTail + IdxMod)
        = (IF b >= usedTail THEN b - usedTail ELSE b - usedTail + IdxMod)
  BY <1>2, <1>3
<1> QED
  BY ONLY <1>1, <1>4

\* When a used entry is recycled every index is one less ahead.
LEMMA AheadRecycled ==
  ASSUME usedTail \in RingIdx, usedTail' = Advance(usedTail, 1),
         NEW a \in RingIdx, Ahead(a) >= 1
  PROVE  /\ (a - usedTail') % IdxMod = Ahead(a) - 1
         /\ Ahead(a) = 1 => a = Advance(usedTail, 1)
<1>1. (a - usedTail') % IdxMod = Ahead(a) - 1 /\ Ahead(a) \in 0..(IdxMod - 1)
  BY AheadOf
<1>2. Ahead(a) = 1 => a = Advance(usedTail, 1)
  <2>1. IdxMod \in Nat \ {0} /\ a \in 0..(IdxMod - 1) /\ usedTail' \in 0..(IdxMod - 1)
    BY QueueAssumption, NextIdxType DEF RingIdx
  <2>2. (a - usedTail') % IdxMod = 0 <=> a = usedTail'
    BY <2>1, Distance
  <2> QED
    BY <1>1, <2>2
<1> QED
  BY <1>1, <1>2

\* Every step that does not derail keeps the count of the free descriptors and the order
\* of the indices.
LEMMA CountNext ==
  ASSUME TInv, TableInv, CountInv, [Next]_vars, ~derailed'
  PROVE  CountInv'
<1> DEFINE a == Ahead(availIdx)  s == Ahead(devSeen)  u == Ahead(usedIdx)  c == Ahead(doneIdx)
<1>0. /\ Unrecycled = a + (IF pc \in {"avail", "publish"} THEN 1 ELSE 0)
      /\ Unrecycled' = Ahead(availIdx)' + (IF pc' \in {"avail", "publish"} THEN 1 ELSE 0)
  BY DEF Unrecycled, Ahead
<1>1. /\ availIdx \in RingIdx /\ devSeen \in RingIdx /\ usedIdx \in RingIdx /\ doneIdx \in RingIdx
      /\ usedTail \in RingIdx /\ freeCount \in Nat /\ TypeOK
  BY DEF TInv, TypeOK
<1>2. /\ a \in 0..(IdxMod - 1) /\ s \in 0..(IdxMod - 1)
      /\ u \in 0..(IdxMod - 1) /\ c \in 0..(IdxMod - 1)
  BY <1>1, AheadOf
<1>3. /\ freeCount = QSize - 2 * Unrecycled /\ u <= s /\ s <= a
      /\ dev \in {"idle", "interrupt"} => s = u
      /\ dev \in {"work", "push"} => s = u + 1
      /\ pc \in {"recycle", "follow"} => c \in 1..u
  BY DEF CountInv
<1>4. QSize \in Nat /\ QSize >= 2 /\ IdxMod \in Nat /\ IdxMod >= QSize
  BY IndexRoom
<1>5. ASSUME UNCHANGED <<freeCount, availIdx, devSeen, usedIdx, doneIdx, usedTail>>,
             pc' \in {"avail", "publish"} <=> pc \in {"avail", "publish"},
             pc' \in {"recycle", "follow"} => pc \in {"recycle", "follow"},
             dev' \in {"idle", "interrupt"} <=> dev \in {"idle", "interrupt"},
             dev' \in {"work", "push"} <=> dev \in {"work", "push"}
      PROVE  CountInv'
  BY <1>5 DEF CountInv, Unrecycled, Ahead
<1>6. ASSUME NEW k \in Commands, NEW f \in Frames, Send(k, f)
      PROVE  CountInv'
  BY <1>5, <1>6 DEF Send, rings, used, device, recycler, freeList
<1>7. CASE AllocDescs
  <2>1. freeCount' = freeCount - 2
    BY <1>1, <1>7, TableAlloc
  <2>2. UNCHANGED <<availIdx, devSeen, usedIdx, doneIdx, usedTail, dev>> /\ pc = "alloc" /\ pc' = "avail"
    BY <1>7 DEF AllocDescs, used, device, recycler
  <2>3. freeCount' = QSize - 2 * (a + 1)
    BY <1>0, <1>2, <1>3, <1>4, <2>1, <2>2
  <2> HIDE DEF a, s, u, c
  <2>4. Ahead(availIdx)' = a /\ Ahead(devSeen)' = s /\ Ahead(usedIdx)' = u
    BY <2>2 DEF Ahead, a, s, u
  <2> QED
    BY <1>0, <1>3, <2>2, <2>3, <2>4 DEF CountInv
<1>8. CASE AllocShort \/ AllocBeyond \/ QueueAvail \/ NotifyQueue \/ PollResponse \/ IrqHandler
           \/ TakeUsed \/ FollowChain \/ Renotify
  BY <1>5, <1>8 DEF AllocShort, AllocBeyond, QueueAvail, NotifyQueue, PollResponse, IrqHandler, TakeUsed,
     FollowChain, Renotify, rings, used, device, recycler, freeList, caller
<1>9. CASE PublishIdx
  <2>1. pc = "publish" /\ pc' = "notify" /\ availIdx' = Advance(availIdx, 1)
        /\ UNCHANGED <<freeCount, devSeen, usedIdx, doneIdx, usedTail, dev>>
    <3>1. AvailHead = Advance(availIdx, 1)
      BY <1>1, <1>9, OneChain DEF PublishIdx, TableInv, NothingSent, OneChainKept
    <3> QED
      BY <1>9, <3>1 DEF PublishIdx, used, device, recycler, freeList
  <2>2. freeCount = QSize - 2 * (a + 1) /\ a + 1 < IdxMod
    BY <1>0, <1>1, <1>2, <1>3, <1>4, <2>1
  <2>3. Ahead(availIdx)' = a + 1
    <3>1. Ahead(Advance(availIdx, 1)) = a + 1
      BY <1>1, <2>2, AheadOf
    <3> QED
      BY <2>1, <3>1 DEF Ahead
  <2> HIDE DEF a, s, u, c
  <2>4. Ahead(devSeen)' = s /\ Ahead(usedIdx)' = u
    BY <2>1 DEF Ahead, s, u
  <2> QED
    BY <1>0, <1>2, <1>3, <2>1, <2>2, <2>3, <2>4 DEF CountInv
<1>10. CASE ReadUsedIdx
  <2>1. pc = "done" /\ doneIdx' = usedIdx /\ pc' = "recycle" /\ usedIdx # usedTail
        /\ UNCHANGED <<freeCount, availIdx, devSeen, usedIdx, usedTail, dev>>
    BY <1>10 DEF ReadUsedIdx, rings, used, device, freeList
  <2>2. u >= 1
    BY <1>1, <1>2, <2>1, AheadOf
  <2> HIDE DEF a, s, u, c
  <2>3. Ahead(availIdx)' = a /\ Ahead(devSeen)' = s /\ Ahead(usedIdx)' = u /\ Ahead(doneIdx)' = u
    BY <2>1 DEF Ahead, a, s, u
  <2>4. pc' = "recycle" => Ahead(doneIdx)' \in 1..Ahead(usedIdx)'
    BY <1>2, <2>1, <2>2, <2>3
  <2>5. freeCount' = QSize - 2 * a
    BY <1>0, <1>2, <1>3, <2>1 DEF a
  <2>6. Unrecycled' = a
    BY <1>0, <1>2, <2>1, <2>3
  <2> QED
    BY <1>3, <2>1, <2>3, <2>4, <2>5, <2>6 DEF CountInv
<1>11. CASE FreeChain
  <2>1. freeCount' = freeCount + 2
    BY <1>1, <1>11, TableFree
  <2>2. pc = "follow" /\ usedTail' = Advance(usedTail, 1)
        /\ UNCHANGED <<availIdx, devSeen, usedIdx, doneIdx, dev>>
        /\ pc' = IF doneIdx = usedTail' THEN "renotify" ELSE "recycle"
    BY <1>11 DEF FreeChain, used, device, LastUsed
  <2>3. c \in 1..u /\ u >= 1 /\ s >= 1 /\ a >= 1
    BY <1>2, <1>3, <2>2
  <2>4. Ahead(availIdx)' = a - 1 /\ Ahead(devSeen)' = s - 1
        /\ Ahead(usedIdx)' = u - 1 /\ Ahead(doneIdx)' = c - 1
        /\ (c = 1 => doneIdx = usedTail')
    BY <1>1, <1>2, <2>2, <2>3, AheadRecycled DEF Ahead
  <2>5. freeCount = QSize - 2 * a
    BY <1>0, <1>2, <1>3, <2>2
  <2> HIDE DEF a, s, u, c
  <2>6. Unrecycled' = a - 1
    BY <1>0, <1>2, <2>2, <2>4
  <2>7. freeCount' = QSize - 2 * Unrecycled'
    BY <1>2, <1>4, <2>1, <2>5, <2>6
  <2>8. pc' \in {"recycle", "follow"} => Ahead(doneIdx)' \in 1..Ahead(usedIdx)'
    BY <1>2, <2>2, <2>3, <2>4
  <2> QED
    BY <1>2, <1>3, <2>2, <2>4, <2>7, <2>8 DEF CountInv
<1>12. CASE DeviceTake
  <2>1. dev = "idle" /\ dev' = "work" /\ devSeen # availIdx /\ devSeen' = Advance(devSeen, 1)
        /\ UNCHANGED <<pc, freeCount, availIdx, usedIdx, doneIdx, usedTail>>
    BY <1>12 DEF DeviceTake, rings, used, driver, recycler, freeList
  <2>2. s # a
    BY <1>1, <2>1, AheadSame
  <2>3. Ahead(devSeen)' = s + 1
    <3>1. Ahead(Advance(devSeen, 1)) = s + 1
      BY <1>1, <1>2, <1>3, <1>4, <2>2, AheadOf
    <3> QED
      BY <2>1, <3>1 DEF Ahead
  <2> HIDE DEF a, s, u, c
  <2>4. Ahead(availIdx)' = a /\ Ahead(usedIdx)' = u /\ Ahead(doneIdx)' = c /\ Unrecycled' = Unrecycled
    BY <1>0, <2>1 DEF Unrecycled, Ahead, a, u, c
  <2> QED
    BY <1>2, <1>3, <2>1, <2>2, <2>3, <2>4 DEF CountInv
<1>13. CASE DevicePush
  <2>1. dev = "push" /\ dev' = "interrupt" /\ usedIdx' = Advance(usedIdx, 1)
        /\ UNCHANGED <<pc, freeCount, availIdx, devSeen, doneIdx, usedTail>>
    BY <1>13 DEF DevicePush, rings, driver, recycler, freeList
  <2>2. Ahead(usedIdx)' = u + 1
    <3>1. Ahead(Advance(usedIdx, 1)) = u + 1
      BY <1>1, <1>2, <1>3, <1>4, <2>1, AheadOf
    <3> QED
      BY <2>1, <3>1 DEF Ahead
  <2> HIDE DEF a, s, u, c
  <2>3. Ahead(availIdx)' = a /\ Ahead(devSeen)' = s /\ Ahead(doneIdx)' = c /\ Unrecycled' = Unrecycled
    BY <1>0, <2>1 DEF Unrecycled, Ahead, a, s, c
  <2> QED
    BY <1>2, <1>3, <2>1, <2>2, <2>3 DEF CountInv
<1>14. CASE DeviceSleep \/ DeviceRespond \/ DeviceInterrupt \/ ConfigChange \/ UNCHANGED vars
  BY <1>5, <1>14 DEF DeviceSleep, DeviceRespond, DeviceInterrupt, ConfigChange, vars, rings, used,
     device, driver, recycler, freeList
<1> QED
  BY <1>6, <1>7, <1>8, <1>9, <1>10, <1>11, <1>12, <1>13, <1>14 DEF Next, DriverStep, DeviceStep

\* Types hold in every state, the table and the number of free descriptors until the
\* driver derails.
LEMMA CountInvariant == Spec => [](TInv /\ DescInv)
<1>1. Init => TInv /\ DescInv
  BY TypeInit, TableInit DEF DescInv
<1>2. ASSUME TInv, DescInv, [Next]_vars
      PROVE  TInv' /\ DescInv'
  <2>1. derailed => derailed'
    BY <1>2 DEF Next, vars, driver, device, history, DriverStep, DeviceStep, Send, AllocDescs,
       AllocShort, AllocBeyond, QueueAvail, PublishIdx, NotifyQueue, PollResponse, IrqHandler,
       ReadUsedIdx, TakeUsed, FollowChain, FreeChain, Renotify, DeviceTake, DeviceSleep,
       DeviceRespond, DevicePush, DeviceInterrupt, ConfigChange
  <2>2. CASE ~derailed'
    BY <1>2, <2>1, <2>2, TypeNext, TableNext, CountNext DEF DescInv
  <2>3. CASE derailed'
    BY <1>2, <2>3, TypeNext DEF DescInv
  <2> QED
    BY <2>2, <2>3
<1> QED
  BY <1>1, <1>2, PTL DEF Spec

\* Whatever irq_handler() has missed, the count of the free descriptors stays right as
\* long as it has something to give and recycle_used() something to recycle: each of the
\* chains that are still out has cost it two.
THEOREM CountExact == Spec => []FreeCountExact
<1>1. DescInv => FreeCountExact
  BY DEF DescInv, CountInv, FreeCountExact
<1> QED
  BY <1>1, CountInvariant, PTL

-----------------------------------------------------------------------------
(* The free list, as long as every answer was recycled.                    *)

\* Behind the chain 0 -> 1 the list is the rest of the table, in order.
RestThreaded ==
  /\ \A i \in 2..(QSize - 1) : desc[i].next = Threaded(i)
  /\ (IF HoldsChain THEN firstFree ELSE desc[1].next) = Threaded(1)

ListInv == lost \/ RestThreaded

\* setup_queue() threads all of it.
LEMMA ListInit == Init => ListInv
<1> SUFFICES ASSUME Init PROVE RestThreaded
  BY DEF ListInv
<1>1. \A i \in Index : desc[i].next = Threaded(i)
  <2>1. TAKE i \in Index
  <2>2. QSize \in Nat \ {0} /\ i \in 0..(QSize - 1)
    BY QueueAssumption DEF Index
  <2> QED
    BY <2>2, Successor DEF Threaded, Init
<1>2. 1 \in Index /\ \A i \in 2..(QSize - 1) : i \in Index
  BY QueueAssumption DEF Index
<1> QED
  BY <1>1, <1>2 DEF RestThreaded, HoldsChain, Init

\* alloc_desc() takes the chain 0 -> 1 from the front, recycle_used() puts it there.
LEMMA ListNext == QInv /\ QInv' /\ ListInv /\ [Next]_vars => ListInv'
<1> SUFFICES ASSUME QInv, QInv', ListInv, [Next]_vars, ~lost'
             PROVE  RestThreaded'
  BY DEF ListInv
<1>1. ~lost
  BY DEF Next, vars, driver, device, history, DriverStep, DeviceStep, Send, AllocDescs, AllocShort,
     AllocBeyond, QueueAvail, PublishIdx, NotifyQueue, PollResponse, IrqHandler, ReadUsedIdx, TakeUsed,
     FollowChain, FreeChain, Renotify, DeviceTake, DeviceSleep, DeviceRespond, DevicePush,
     DeviceInterrupt, ConfigChange
<1>2. TypeOK /\ ServingInv /\ RestThreaded
  BY <1>1 DEF QInv, TInv, ListInv
<1>3. pc' # "fault" /\ ~derailed'
  BY DEF QInv, ServingInv
<1>4. 0 \in Index /\ 1 \in Index /\ \A i \in 2..(QSize - 1) : i \in Index \ {0, 1}
  BY QueueAssumption DEF Index
<1>5. ASSUME UNCHANGED <<desc, firstFree>>, HoldsChain' <=> HoldsChain
      PROVE  RestThreaded'
  BY <1>2, <1>5 DEF RestThreaded
<1>6. ASSUME NEW c \in Commands, NEW f \in Frames, Send(c, f)
      PROVE  RestThreaded'
  BY <1>5, <1>6 DEF Send, rings, freeList, HoldsChain
<1>7. CASE AllocDescs
  <2>1. firstFree = 0 /\ desc[0].next = 1 /\ ~HoldsChain /\ HoldsChain'
    BY <1>2, <1>7 DEF AllocDescs, ServingInv, ChainInv, HoldsChain
  <2>2. firstFree' = desc[1].next /\ \A i \in Index \ {0, 1} : desc'[i] = desc[i]
    BY <1>2, <1>7, <2>1 DEF AllocDescs, TypeOK
  <2> QED
    BY <1>2, <1>4, <2>1, <2>2 DEF RestThreaded
<1>8. CASE QueueAvail \/ PublishIdx \/ NotifyQueue \/ PollResponse \/ IrqHandler
           \/ ReadUsedIdx \/ TakeUsed \/ FollowChain
  <2>1. UNCHANGED <<desc, firstFree>>
    BY <1>8 DEF QueueAvail, PublishIdx, NotifyQueue, PollResponse, IrqHandler,
       ReadUsedIdx, TakeUsed, FollowChain, rings, freeList
  <2>2. HoldsChain /\ HoldsChain'
    BY <1>8 DEF QueueAvail, PublishIdx, NotifyQueue, PollResponse, IrqHandler,
       ReadUsedIdx, TakeUsed, FollowChain, HoldsChain
  <2> QED
    BY <1>5, <2>1, <2>2
<1>9. CASE FreeChain
  <2>1. chainEnd = 1 /\ HoldsChain
    BY <1>2, <1>9 DEF FreeChain, ServingInv, ChainInv, HoldsChain, RequestDesc
  <2>2. ~HoldsChain'
    <3>1. doneIdx = Advance(usedTail, 1)
      BY <1>2, <1>9 DEF FreeChain, ServingInv, DeviceInv, Recycling
    <3> QED
      BY <1>9, <3>1 DEF FreeChain, LastUsed, HoldsChain
  <2>3. desc'[1].next = firstFree /\ \A i \in Index \ {0, 1} : desc'[i] = desc[i]
    BY <1>2, <1>4, <1>9, <2>1 DEF FreeChain, TypeOK, Desc
  <2> QED
    BY <1>2, <1>4, <2>1, <2>2, <2>3 DEF RestThreaded
<1>10. CASE Renotify \/ DeviceStep \/ ConfigChange \/ UNCHANGED vars
  BY <1>5, <1>10 DEF Renotify, DeviceStep, DeviceTake, DeviceSleep, DeviceRespond, DevicePush,
     DeviceInterrupt, ConfigChange, vars, driver, rings, freeList, HoldsChain
<1>11. CASE AllocShort \/ AllocBeyond
  BY <1>3, <1>11 DEF AllocShort, AllocBeyond
<1> QED
  BY <1>6, <1>7, <1>8, <1>9, <1>10, <1>11 DEF Next, DriverStep

\* FreeAt follows the list: it is the one function that solves its recursion.
LEMMA FreeAtIs ==
  ASSUME NEW g, g = [n \in 0..QSize |-> IF n = 0 THEN firstFree ELSE desc[g[n - 1]].next]
  PROVE  \A n \in 0..QSize : FreeAt[n] = g[n]
<1>1. FreeAt = [n \in 0..QSize |-> IF n = 0 THEN firstFree ELSE desc[FreeAt[n - 1]].next]
  <2> DEFINE F(f) == [n \in 0..QSize |-> IF n = 0 THEN firstFree ELSE desc[f[n - 1]].next]
  <2>1. FreeAt = CHOOSE f : f = F(f)
    BY DEF FreeAt
  <2>2. \E f : f = F(f)
    OBVIOUS
  <2> HIDE DEF F
  <2>3. (CHOOSE f : f = F(f)) = F(CHOOSE f : f = F(f))
    BY <2>2
  <2>4. FreeAt = F(FreeAt)
    BY <2>1, <2>3
  <2> QED
    BY <2>4 DEF F
<1> DEFINE S == {n \in 0..QSize : FreeAt[n] = g[n]}
<1>2. QSize \in Nat
  BY QueueAssumption
<1>3. 0 \in S
  <2>1. 0 \in 0..QSize
    BY <1>2
  <2>2. FreeAt[0] = firstFree
    BY <1>1, <2>1
  <2>3. g[0] = firstFree
    BY <2>1
  <2> QED
    BY <2>1, <2>2, <2>3
<1>4. \A n \in 0..(QSize - 1) : n \in S => n + 1 \in S
  <2> SUFFICES ASSUME NEW n \in 0..(QSize - 1), FreeAt[n] = g[n]
               PROVE  n + 1 \in 0..QSize /\ FreeAt[n + 1] = g[n + 1]
    OBVIOUS
  <2>1. n + 1 \in 0..QSize /\ n + 1 # 0 /\ (n + 1) - 1 = n
    BY <1>2
  <2>2. FreeAt[n + 1] = desc[FreeAt[n]].next
    <3> HIDE DEF FreeAt
    <3> QED
      BY <1>1, <2>1
  <2>3. g[n + 1] = desc[g[n]].next
    BY <2>1
  <2> QED
    BY <2>1, <2>2, <2>3
<1> HIDE DEF S
<1>5. 0..QSize \subseteq S
  BY <1>2, <1>3, <1>4, BoundedInduction
<1> QED
  BY <1>5 DEF S

\* How many numbers there are from a to b.
LEMMA CountOf ==
  ASSUME NEW a \in Nat, NEW b \in Nat, a <= b + 1
  PROVE  Cardinality(a..b) = b - a + 1
<1>1. \A x, y \in Int : Cardinality(x..y) = IF x > y THEN 0 ELSE y - x + 1
  BY FS_Interval
<1>2. a \in Int /\ b \in Int
  OBVIOUS
<1>3. Cardinality(a..b) = IF a > b THEN 0 ELSE b - a + 1
  BY <1>1, <1>2
<1> QED
  BY <1>3

\* Between two commands the list is the whole table.
LEMMA WholeTableFree ==
  ASSUME TypeOK, ServingInv, RestThreaded, ~HoldsChain
  PROVE  FreeList = Index /\ freeCount = QSize
<1>1. QSize \in Nat /\ QSize >= 2
  BY QueueAssumption
<1>2. pc \in {"idle", "alloc", "renotify"}
  BY DEF TypeOK, ServingInv, HoldsChain
<1>3. firstFree = 0 /\ freeCount = QSize /\ desc[0].next = Threaded(0)
  BY <1>1, <1>2 DEF ServingInv, ChainInv, Threaded
<1>4. \A i \in Index : desc[i].next = Threaded(i)
  <2>1. TAKE i \in Index
  <2>2. i = 0 \/ i = 1 \/ i \in 2..(QSize - 1)
    BY <1>1 DEF Index
  <2> QED
    BY <1>3, <2>2 DEF RestThreaded
<1> DEFINE g == [n \in 0..QSize |-> IF n = QSize THEN 0 ELSE n]
<1>5. g = [n \in 0..QSize |-> IF n = 0 THEN firstFree ELSE desc[g[n - 1]].next]
  <2>1. ASSUME NEW n \in 0..QSize
        PROVE  (IF n = QSize THEN 0 ELSE n) = (IF n = 0 THEN firstFree ELSE desc[g[n - 1]].next)
    <3>1. CASE n = 0
      BY <1>1, <1>3, <3>1
    <3>2. CASE n # 0
      <4>1. n - 1 \in 0..QSize /\ n - 1 # QSize /\ n - 1 \in Index
        BY <1>1, <3>2 DEF Index
      <4>2. g[n - 1] = n - 1
        BY <4>1
      <4>3. desc[n - 1].next = Threaded(n - 1)
        BY <1>4, <4>1
      <4>4. Threaded(n - 1) = IF n = QSize THEN 0 ELSE n
        BY <1>1 DEF Threaded
      <4> HIDE DEF g
      <4> QED
        BY <3>2, <4>2, <4>3, <4>4
    <3> QED
      BY <3>1, <3>2
  <2> QED
    BY <2>1
<1> HIDE DEF g
<1>6. \A n \in 0..QSize : FreeAt[n] = g[n]
  BY <1>5, FreeAtIs
<1>7. \A n \in Index : FreeAt[n] = n
  BY <1>1, <1>6 DEF g, Index
<1>8. FreeList = {FreeAt[n] : n \in Index}
  BY <1>3 DEF FreeList, Index
<1>9. FreeList = Index
  BY <1>7, <1>8
<1> QED
  BY <1>3, <1>9

\* During a command it is what is behind the descriptors 0 and 1.
LEMMA RestFree ==
  ASSUME TypeOK, ServingInv, RestThreaded, HoldsChain
  PROVE  FreeList = 2..(QSize - 1) /\ freeCount = QSize - 2
<1>1. QSize \in Nat /\ QSize >= 2
  BY QueueAssumption
<1>2. firstFree = Threaded(1) /\ freeCount = QSize - 2 /\ desc[0].next = 1 /\ desc[1].next = NoNext
  BY DEF RestThreaded, ServingInv, ChainInv, RequestDesc, ResponseDesc
<1>3. \A i \in 2..(QSize - 1) : desc[i].next = Threaded(i)
  BY DEF RestThreaded
<1> DEFINE g == [n \in 0..QSize |-> IF n <= QSize - 3 THEN n + 2
                                   ELSE IF n = QSize - 2 THEN 0
                                   ELSE IF n = QSize - 1 THEN 1 ELSE NoNext]
<1>4. g = [n \in 0..QSize |-> IF n = 0 THEN firstFree ELSE desc[g[n - 1]].next]
  <2>0. \A k \in 0..QSize : g[k] = IF k <= QSize - 3 THEN k + 2
                                   ELSE IF k = QSize - 2 THEN 0
                                   ELSE IF k = QSize - 1 THEN 1 ELSE NoNext
    OBVIOUS
  <2> HIDE DEF g
  <2>1. ASSUME NEW n \in 0..QSize
        PROVE  g[n] = (IF n = 0 THEN firstFree ELSE desc[g[n - 1]].next)
    <3>1. CASE n = 0
      <4>1. Threaded(1) = IF QSize = 2 THEN 0 ELSE 2
        BY <1>1 DEF Threaded
      <4>2. g[0] = IF QSize = 2 THEN 0 ELSE 2
        <5>1. 0 \in 0..QSize /\ (0 <= QSize - 3 <=> QSize # 2)
          BY <1>1
        <5> QED
          BY <1>1, <2>0, <5>1
      <4> QED
        BY <1>2, <3>1, <4>1, <4>2
    <3>2. CASE n # 0 /\ n - 1 <= QSize - 3
      <4>1. g[n - 1] = n + 1 /\ n + 1 \in 2..(QSize - 1)
        <5>1. n - 1 \in 0..QSize /\ n + 1 \in 2..(QSize - 1)
          BY <1>1, <3>2
        <5> QED
          BY <2>0, <3>2, <5>1
      <4>2. desc[n + 1].next = Threaded(n + 1)
        BY <1>3, <4>1
      <4>3. Threaded(n + 1) = IF n <= QSize - 3 THEN n + 2 ELSE 0
        BY <1>1, <3>2 DEF Threaded
      <4>4. g[n] = IF n <= QSize - 3 THEN n + 2 ELSE 0
        BY <1>1, <2>0, <3>2
      <4> QED
        BY <3>2, <4>1, <4>2, <4>3, <4>4
    <3>3. CASE n # 0 /\ n - 1 = QSize - 2
      <4>1. g[n - 1] = 0 /\ g[n] = 1
        BY <1>1, <2>0, <3>3
      <4> QED
        BY <1>2, <3>3, <4>1
    <3>4. CASE n # 0 /\ n - 1 = QSize - 1
      <4>1. g[n - 1] = 1 /\ g[n] = NoNext
        BY <1>1, <2>0, <3>4
      <4> QED
        BY <1>2, <3>4, <4>1
    <3>5. n = 0 \/ n - 1 <= QSize - 3 \/ n - 1 = QSize - 2 \/ n - 1 = QSize - 1
      BY <1>1
    <3> QED
      BY <3>1, <3>2, <3>3, <3>4, <3>5
  <2>2. g = [n \in 0..QSize |-> g[n]]
    BY DEF g
  <2> QED
    BY <2>1, <2>2
<1> HIDE DEF g
<1>5. \A n \in 0..QSize : FreeAt[n] = g[n]
  BY <1>4, FreeAtIs
<1>6. \A n \in 0..(QSize - 3) : FreeAt[n] = n + 2
  BY <1>1, <1>5 DEF g
<1>7. FreeList = {FreeAt[n] : n \in 0..(QSize - 3)}
  <2>1. freeCount - 1 = QSize - 3
    BY <1>1, <1>2
  <2> QED
    BY <2>1 DEF FreeList
<1>8. FreeList = {n + 2 : n \in 0..(QSize - 3)}
  BY <1>6, <1>7
<1>9. {n + 2 : n \in 0..(QSize - 3)} = 2..(QSize - 1)
  <2>1. ASSUME NEW i \in 2..(QSize - 1) PROVE i \in {n + 2 : n \in 0..(QSize - 3)}
    <3>1. i - 2 \in 0..(QSize - 3) /\ i = (i - 2) + 2
      BY <1>1
    <3> QED
      BY <3>1
  <2>2. ASSUME NEW n \in 0..(QSize - 3) PROVE n + 2 \in 2..(QSize - 1)
    BY <1>1
  <2> QED
    BY <2>1, <2>2
<1> QED
  BY <1>2, <1>8, <1>9

\* As long as irq_handler() has recycled every answer, no descriptor is lost and
\* none is on the free list twice: between two commands all of them are free, and
\* during a command all but the two descriptors that it uses.
THEOREM FreeListRight == Spec => []FreeListIntact
<1>1. QInv /\ ListInv => FreeListIntact
  <2> SUFFICES ASSUME TypeOK, ServingInv, RestThreaded
               PROVE  /\ Cardinality(FreeList) = freeCount
                      /\ FreeList = Index \ (IF HoldsChain THEN {0, 1} ELSE {})
    BY DEF QInv, TInv, ListInv, FreeListIntact
  <2>1. QSize \in Nat /\ QSize >= 2
    BY QueueAssumption
  <2>2. CASE HoldsChain
    <3>1. FreeList = 2..(QSize - 1) /\ freeCount = QSize - 2
      BY <2>2, RestFree
    <3>2. Cardinality(2..(QSize - 1)) = QSize - 2
      <4>1. 2 \in Nat /\ QSize - 1 \in Nat /\ 2 <= (QSize - 1) + 1
        BY <2>1
      <4>2. Cardinality(2..(QSize - 1)) = (QSize - 1) - 2 + 1
        BY <4>1, CountOf
      <4> QED
        BY <2>1, <4>2
    <3>3. Index \ {0, 1} = 2..(QSize - 1)
      BY <2>1 DEF Index
    <3> QED
      BY <2>2, <3>1, <3>2, <3>3
  <2>3. CASE ~HoldsChain
    <3>1. FreeList = Index /\ freeCount = QSize
      BY <2>3, WholeTableFree
    <3>2. Cardinality(Index) = QSize
      <4>1. 0 \in Nat /\ QSize - 1 \in Nat /\ 0 <= (QSize - 1) + 1
        BY <2>1
      <4>2. Cardinality(0..(QSize - 1)) = (QSize - 1) - 0 + 1
        BY <4>1, CountOf
      <4> QED
        BY <2>1, <4>2 DEF Index
    <3> QED
      BY <2>3, <3>1, <3>2
  <2> QED
    BY <2>2, <2>3
<1> QED
  BY <1>1, ListInit, ListNext, QueueInvariant, PTL DEF Spec

\* What the run checks of the table, in one: its entries always stay in the table; as
\* long as every answer was recycled no descriptor is lost or on the free list twice;
\* and the count is exact, after a loss as well, until the driver derails.
THEOREM TableSound == Spec => []DescriptorsIntact
<1>1. TypeOK /\ FreeListIntact /\ FreeCountExact => DescriptorsIntact
  BY DEF DescriptorsIntact
<1> QED
  BY <1>1, TypeCorrect, FreeListRight, CountExact, PTL
=============================================================================
