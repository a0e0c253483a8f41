------------------------------ MODULE VirtQueue ------------------------------
(***************************************************************************)
(* The control queue of the virtio GPU driver (kern/virtio-gpu.c and       *)
(* kern/virtio-queue.h) and the device at its other end.                   *)
(*                                                                         *)
(* send_and_recieve() publishes a request and a response buffer, both on   *)
(* the stack of its caller, polls the response for a non-zero type and     *)
(* then runs irq_handler() by hand to give the descriptors back.  The      *)
(* device runs concurrently: it writes the response, then the used ring,   *)
(* then the interrupt status, and may report a configuration change at any *)
(* time.                                                                   *)
(***************************************************************************)
EXTENDS Integers, FiniteSets

CONSTANTS
  QSize,         \* VIRTQ_SIZE
  IdxMod,        \* the ring indices are 16 bits wide: 2^16
  Commands,      \* the commands the driver sends
  Frames,        \* the stack frames their two buffers may lie in
  None,          \* no command, a response of type 0
  MaxFree,       \* a bound: no command is sent with more descriptors counted as free
  SerialIsr,     \* the device completes a request before it lets the driver
                 \* read the interrupt status
  ConfigEvents   \* the device reports configuration changes

ASSUME QueueAssumption ==
  /\ QSize \in Nat /\ QSize >= 2 /\ IdxMod \in Nat \ {0}
  /\ IdxMod % QSize = 0 /\ MaxFree \in Nat
ASSUME CommandAssumption == None \notin Commands
ASSUME FrameAssumption == None \notin Frames
ASSUME DeviceAssumption == SerialIsr \in BOOLEAN /\ ConfigEvents \in BOOLEAN

Index    == 0..(QSize - 1)
RingIdx  == 0..(IdxMod - 1)
NoNext   == -1                        \* desc->next = -1
Flags    == {"NEXT", "WRITE"}         \* VIRTQ_DESC_F_*
IsrBits  == {"NOTIFY", "CONFIG"}      \* VIRTIO_PCI_ISR_*
Buffers  == {"request", "response"}   \* the two buffers in a stack frame
Desc     == [buf : Buffers, frame : Frames \cup {None}, flags : SUBSET Flags,
             next : Index \cup {NoNext}]

VARIABLES
  (* shared memory *)
  desc,        \* the descriptor table
  availRing,   \* avail.ring
  availIdx,    \* avail.idx
  usedEvent,   \* avail.used_event
  usedRing,    \* the ids in used.ring
  usedIdx,     \* used.idx
  request,     \* the command in the request buffer of each frame
  response,    \* the command the response buffer of each frame answers
  (* registers of the device *)
  isr,         \* interrupt status, cleared by reading it
  kicked,      \* a write to notify_reg the device has still to act upon
  (* the driver *)
  pc,          \* where send_and_recieve() is
  cmd, frame,  \* its current command and the frame of its two buffers
  firstFree, freeCount,    \* desc_first_free, desc_free_count
  usedTail,    \* used_tail, of which only the low 16 bits are ever looked at
  doneIdx,     \* recycle_used()'s done_idx
  usedId, chainEnd, freed, \* its id, end and freed_count
  lost,        \* history: irq_handler() once returned without recycling
  derailed,    \* history: alloc_desc() once had nothing to give, or recycle_used()
               \* nothing to recycle
  (* the device *)
  dev,         \* what it does with the chain it took last
  devHead, devSeen, devFrame, devCmd   \* that chain, and the next entry to take

caller   == <<cmd, frame>>
freeList == <<firstFree, freeCount>>
recycler == <<usedTail, doneIdx, usedId, chainEnd, freed>>
history  == <<lost, derailed>>
driver == <<pc, caller, freeList, recycler, history>>
device == <<dev, devHead, devSeen, devFrame, devCmd>>
rings  == <<desc, availRing, availIdx, usedEvent>>
used   == <<usedRing, usedIdx>>
memory == <<request, response>>
vars   == <<rings, used, memory, isr, kicked, driver, device>>

-----------------------------------------------------------------------------
(* The driver.                                                             *)

MutantKeepsAnswer(f) == response[f]
BlankResponse(f) == None

\* A command function sets up its two buffers and calls send_and_recieve().
Send(c, f) ==
  /\ pc = "idle" /\ freeCount <= MaxFree
  /\ request'  = [request EXCEPT ![f] = c]
  /\ response' = [response EXCEPT ![f] = BlankResponse(f)]
  /\ cmd' = c /\ frame' = f /\ pc' = "alloc"
  /\ UNCHANGED <<rings, used, isr, kicked, freeList, recycler, history, device>>

RequestDesc(f)  == [buf |-> "request", frame |-> f, flags |-> {"NEXT"}, next |-> 1]
ResponseDesc(f) == [buf |-> "response", frame |-> f, flags |-> {"WRITE"}, next |-> NoNext]

\* The next descriptor is not in the table: the list ended with desc->next = -1
\* before desc_free_count did.
BeyondTable == /\ freeCount >= 1
               /\ ~\E d \in Index : d = firstFree /\ (freeCount >= 2 => desc[d].next # NoNext)

\* alloc_desc() twice: both descriptors come off the free list.
AllocDescs ==
  LET d0 == firstFree
      d1 == desc[d0].next
  IN  /\ pc = "alloc" /\ freeCount >= 2 /\ ~BeyondTable
      /\ desc'      = [desc EXCEPT ![d0] = RequestDesc(frame), ![d1] = ResponseDesc(frame)]
      /\ firstFree' = desc[d1].next
      /\ freeCount' = freeCount - 2
      /\ pc' = "avail"
      /\ UNCHANGED <<availRing, availIdx, usedEvent, used, memory, isr, kicked, caller,
                     recycler, history, device>>

\* alloc_desc() returns NULL, the second time or both.  send_and_recieve() writes
\* through it all the same, into the page at address 0, which is mapped, and goes on.
AllocShort ==
  /\ pc = "alloc" /\ freeCount < 2 /\ ~BeyondTable
  /\ IF freeCount = 1
     THEN /\ desc' = [desc EXCEPT ![firstFree] = RequestDesc(frame)]
          /\ firstFree' = desc[firstFree].next
     ELSE UNCHANGED <<desc, firstFree>>
  /\ freeCount' = 0 /\ derailed' = TRUE /\ pc' = "avail"
  /\ UNCHANGED <<availRing, availIdx, usedEvent, used, memory, isr, kicked, caller,
                 recycler, lost, device>>

\* It writes a descriptor far behind the table, over whatever is there.
AllocBeyond ==
  /\ pc = "alloc" /\ BeyondTable
  /\ pc' = "fault"
  /\ UNCHANGED <<rings, used, memory, isr, kicked, caller, freeList, recycler, history, device>>

\* queue_avail(queue, 2) looks for chains among the descriptors 0 and 1,
\* whichever descriptors alloc_desc() has returned.
Scanned     == 0..1
ChainEnds   == {i \in Scanned : "NEXT" \notin desc[i].flags}
ChainAt(e)  == CHOOSE s \in 0..e : /\ \A i \in s..(e - 1) : "NEXT" \in desc[i].flags
                                   /\ s = 0 \/ "NEXT" \notin desc[s - 1].flags
Rank(e)     == Cardinality({i \in ChainEnds : i < e})
Advance(i, n) == (i + n) % IdxMod

PublishedRing ==
  [i \in Index |-> LET es == {e \in ChainEnds : Advance(availIdx, Rank(e)) % QSize = i}
                   IN  IF es = {} THEN availRing[i] ELSE ChainAt(CHOOSE e \in es : TRUE)]

MutantEventAhead == Advance(availIdx, Cardinality(ChainEnds))
LastPublished == Advance(availIdx, Cardinality(ChainEnds) - 1)

QueueAvail ==
  /\ pc = "avail"
  /\ availRing' = PublishedRing
  /\ usedEvent' = LastPublished
  /\ pc' = "publish"
  /\ UNCHANGED <<desc, availIdx, used, memory, isr, kicked, caller, freeList, recycler,
                 history, device>>

MutantIdxKept == availIdx
AvailHead == Advance(availIdx, Cardinality(ChainEnds))

\* The store-release of avail.idx, after the ring is written.
PublishIdx ==
  /\ pc = "publish"
  /\ availIdx' = AvailHead
  /\ pc' = "notify"
  /\ UNCHANGED <<desc, availRing, usedEvent, used, memory, isr, kicked, caller, freeList,
                 recycler, history, device>>

NotifyQueue ==
  /\ pc = "notify"
  /\ kicked' = TRUE /\ pc' = "poll"
  /\ UNCHANGED <<rings, used, memory, isr, caller, freeList, recycler, history, device>>

\* The loop on the type of the response.
PollResponse ==
  /\ pc = "poll" /\ response[frame] # None
  /\ pc' = "irq"
  /\ UNCHANGED <<rings, used, memory, isr, kicked, caller, freeList, recycler, history, device>>

\* irq_handler(): a configuration change is handled instead of, not next to,
\* a used buffer, and reading the register has cleared both.
Recycles(bits) == "NOTIFY" \in bits /\ "CONFIG" \notin bits

IrqHandler ==
  /\ pc = "irq"
  /\ SerialIsr => dev = "idle"
  /\ isr' = {}
  /\ pc' = IF Recycles(isr) THEN "done" ELSE "idle"
  /\ lost' = (lost \/ ~Recycles(isr))
  /\ UNCHANGED <<rings, used, memory, kicked, caller, freeList, recycler, derailed, device>>

\* recycle_used() begins.  Its loop looks for the end after a round, not before: with
\* nothing new in the used ring it goes round all the 2^16 indices and frees the old
\* entries again and again.
ReadUsedIdx ==
  /\ pc = "done"
  /\ doneIdx' = usedIdx /\ pc' = "recycle"
  /\ derailed' = (derailed \/ usedIdx = usedTail)
  /\ UNCHANGED <<rings, used, memory, isr, kicked, caller, freeList, usedTail, usedId,
                 chainEnd, freed, lost, device>>

\* One iteration takes the next used entry, ...
TakeUsed ==
  /\ pc = "recycle"
  /\ usedId' = usedRing[usedTail % QSize] /\ chainEnd' = usedId' /\ freed' = 1
  /\ pc' = "follow"
  /\ UNCHANGED <<rings, used, memory, isr, kicked, caller, freeList, usedTail, doneIdx,
                 history, device>>

MutantFreesHeadOnly(n) == n
Counted(n) == n + 1

\* ... follows the chain to its last descriptor ...
FollowChain ==
  /\ pc = "follow" /\ "NEXT" \in desc[chainEnd].flags
  /\ chainEnd' = desc[chainEnd].next /\ freed' = Counted(freed)
  /\ UNCHANGED <<pc, rings, used, memory, isr, kicked, caller, freeList, usedTail, doneIdx,
                 usedId, history, device>>

MutantStopsLate(tail) == Advance(tail, 2) = doneIdx
LastUsed(tail) == Advance(tail, 1) = doneIdx

\* ... and puts the chain in front of the free list.
FreeChain ==
  /\ pc = "follow" /\ "NEXT" \notin desc[chainEnd].flags
  /\ desc'      = [desc EXCEPT ![chainEnd].next = firstFree]
  /\ firstFree' = usedId
  /\ freeCount' = freeCount + freed
  /\ usedTail'  = Advance(usedTail, 1)
  /\ pc' = IF LastUsed(usedTail) THEN "renotify" ELSE "recycle"
  /\ UNCHANGED <<availRing, availIdx, usedEvent, used, memory, isr, kicked, caller,
                 doneIdx, usedId, chainEnd, freed, history, device>>

\* irq_handler() kicks the queue once more, and the command is over.
Renotify ==
  /\ pc = "renotify"
  /\ kicked' = TRUE /\ pc' = "idle"
  /\ UNCHANGED <<rings, used, memory, isr, caller, freeList, recycler, history, device>>

DriverStep == \/ AllocDescs \/ AllocShort \/ AllocBeyond \/ QueueAvail \/ PublishIdx \/ NotifyQueue
              \/ PollResponse \/ IrqHandler \/ ReadUsedIdx \/ TakeUsed \/ FollowChain
              \/ FreeChain \/ Renotify

-----------------------------------------------------------------------------
(* The device, as the driver relies on it.                                 *)

\* Every chain of this driver is one descriptor, or two.
ChainLast(head) == IF "NEXT" \in desc[head].flags THEN desc[head].next ELSE head

\* What the device finds in the buffer of a descriptor.
Contents(d) ==
  IF d.frame = None THEN None
  ELSE IF d.buf = "request" THEN request[d.frame] ELSE response[d.frame]

\* Once kicked it takes the next entry of the avail ring, reads the request
\* from the first descriptor of the chain and remembers the response buffer.
DeviceTake ==
  LET head == availRing[devSeen % QSize]
  IN  /\ dev = "idle" /\ kicked /\ devSeen # availIdx
      /\ devHead'  = head
      /\ devCmd'   = Contents(desc[head])
      /\ devFrame' = desc[ChainLast(head)].frame
      /\ devSeen'  = Advance(devSeen, 1)
      /\ dev' = "work"
      /\ UNCHANGED <<rings, used, memory, isr, kicked, driver>>

DeviceSleep ==
  /\ dev = "idle" /\ kicked /\ devSeen = availIdx
  /\ kicked' = FALSE
  /\ UNCHANGED <<rings, used, memory, isr, driver, device>>

\* It writes the response where the chain says.
DeviceRespond ==
  /\ dev = "work"
  /\ response' = IF devFrame = None THEN response ELSE [response EXCEPT ![devFrame] = devCmd]
  /\ dev' = "push"
  /\ UNCHANGED <<rings, used, request, isr, kicked, driver, devHead, devSeen, devFrame, devCmd>>

DevicePush ==
  /\ dev = "push"
  /\ usedRing' = [usedRing EXCEPT ![usedIdx % QSize] = devHead]
  /\ usedIdx'  = Advance(usedIdx, 1)
  /\ dev' = "interrupt"
  /\ UNCHANGED <<rings, memory, isr, kicked, driver, devHead, devSeen, devFrame, devCmd>>

\* virtq_need_event(): the index has just moved past the one asked for.
NeedEvent(event, new, old) == (new - event - 1) % IdxMod < (new - old) % IdxMod

DeviceInterrupt ==
  /\ dev = "interrupt"
  /\ isr' = IF NeedEvent(usedEvent, usedIdx, Advance(usedIdx, IdxMod - 1))
            THEN isr \cup {"NOTIFY"} ELSE isr
  /\ dev' = "idle"
  /\ UNCHANGED <<rings, used, memory, kicked, driver, devHead, devSeen, devFrame, devCmd>>

ConfigChange ==
  /\ ConfigEvents
  /\ isr' = isr \cup {"CONFIG"}
  /\ UNCHANGED <<rings, used, memory, kicked, driver, device>>

DeviceStep == DeviceTake \/ DeviceSleep \/ DeviceRespond \/ DevicePush \/ DeviceInterrupt

-----------------------------------------------------------------------------
\* setup_queue(): the table is zeroed static memory, threaded from 0 upwards.
Init ==
  /\ desc = [i \in Index |-> [buf |-> "request", frame |-> None, flags |-> {},
                            next |-> (i + 1) % QSize]]
  /\ availRing = [i \in Index |-> 0] /\ availIdx = 0 /\ usedEvent = 0
  /\ usedRing = [i \in Index |-> 0] /\ usedIdx = 0
  /\ request = [f \in Frames |-> None] /\ response = [f \in Frames |-> None]
  /\ isr = {} /\ kicked = FALSE
  /\ pc = "idle" /\ cmd = None /\ frame = None
  /\ firstFree = 0 /\ freeCount = QSize /\ usedTail = 0 /\ doneIdx = 0
  /\ lost = FALSE /\ derailed = FALSE
  /\ usedId = 0 /\ chainEnd = 0 /\ freed = 0
  /\ dev = "idle" /\ devHead = 0 /\ devSeen = 0 /\ devFrame = None /\ devCmd = None

Next ==
  \/ \E c \in Commands, f \in Frames : Send(c, f)
  \/ DriverStep \/ DeviceStep \/ ConfigChange

\* Both processors run; which commands are sent, and when the configuration
\* changes, is up to others.
Spec == Init /\ [][Next]_vars /\ WF_vars(DriverStep) /\ WF_vars(DeviceStep)

-----------------------------------------------------------------------------
(* Properties.                                                             *)

\* Every variable keeps its type.
TypeOK ==
  /\ desc \in [Index -> Desc] /\ availRing \in [Index -> Index] /\ usedRing \in [Index -> Index]
  /\ availIdx \in RingIdx /\ usedIdx \in RingIdx /\ usedEvent \in RingIdx
  /\ request \in [Frames -> Commands \cup {None}] /\ response \in [Frames -> Commands \cup {None}]
  /\ isr \subseteq IsrBits /\ kicked \in BOOLEAN /\ lost \in BOOLEAN /\ derailed \in BOOLEAN
  /\ pc \in {"idle", "alloc", "avail", "publish", "notify", "poll", "irq", "done",
             "recycle", "follow", "renotify", "fault"}
  /\ cmd \in Commands \cup {None} /\ frame \in Frames \cup {None}
  /\ firstFree \in Index \cup {NoNext} /\ freeCount \in Nat
  /\ usedId \in Index /\ chainEnd \in Index /\ freed \in Nat
  /\ usedTail \in RingIdx /\ doneIdx \in RingIdx
  /\ dev \in {"idle", "work", "push", "interrupt"} /\ devHead \in Index /\ devSeen \in RingIdx
  /\ devFrame \in Frames \cup {None} /\ devCmd \in Commands \cup {None}

\* The free list: freeCount descriptors, following `next' from firstFree.
FreeAt[n \in 0..QSize] == IF n = 0 THEN firstFree ELSE desc[FreeAt[n - 1]].next
FreeList == {FreeAt[n] : n \in 0..(freeCount - 1)}
HoldsChain == pc \in {"avail", "publish", "notify", "poll", "irq", "done", "recycle", "follow"}

\* As long as irq_handler() has recycled every answer, no descriptor is lost or
\* on the free list twice: between two commands all of them are free, and
\* during a command all but the two descriptors 0 and 1.
FreeListIntact ==
  ~lost => /\ Cardinality(FreeList) = freeCount
           /\ FreeList = Index \ (IF HoldsChain THEN {0, 1} ELSE {})

\* Until an answer goes unrecycled, what the device works on is the request the
\* driver waits for: it never follows a chain left over from an earlier command.
DeviceServesCurrent ==
  ~lost /\ dev = "work" => devCmd = cmd /\ devFrame = frame

\* ... and it writes a response only while the function whose stack frame holds
\* that buffer is still waiting in its polling loop.
WritesIntoLiveFrame ==
  ~lost /\ dev = "work" => pc \in {"notify", "poll"} /\ response[frame] = None

\* The response send_and_recieve() returns with answers the command it sent,
\* whatever happened before: the polled buffer was cleared by its caller.
AnswerMatchesCommand ==
  pc \in {"irq", "done", "recycle", "follow", "renotify"} /\ ~lost => response[frame] = cmd

\* The driver never passes what the device has used, and it catches up with it
\* before the next command: no used entry is recycled twice, or never.
UsedTailCatchesUp ==
  ~lost => /\ pc = "idle" => usedTail = usedIdx
           /\ pc \in {"recycle", "follow"} => usedTail # doneIdx
           /\ (usedIdx - usedTail) % IdxMod \in {0, 1}

\* How many chains are out: published, or about to be, and not recycled.
Unrecycled == ((availIdx - usedTail) % IdxMod) + (IF pc \in {"avail", "publish"} THEN 1 ELSE 0)

\* Even when answers went unrecycled the count of the free descriptors is right: each
\* chain that is still out costs two.  That ends when alloc_desc() has none left and
\* its NULL is used, or recycle_used() runs with nothing to recycle.
FreeCountExact == ~derailed => freeCount = QSize - 2 * Unrecycled

\* Running out of descriptors, off the table and past the used index are all
\* consequences of an answer that went unrecycled, never of the commands alone.
FaultsOnlyAfterLoss == derailed \/ pc = "fault" => lost

\* Every command ends, unless an answer went unrecycled once: that is the one
\* way send_and_recieve() can come to spin on its response for ever.
CommandsEndUnlessLost == (pc # "idle" ~> pc = "idle") \/ <>lost

\* Every command ends, and the driver never runs out of descriptors.
CommandsEnd == pc # "idle" ~> pc = "idle"

\* A device that finishes a request before it answers a read of the interrupt
\* status, and reports no configuration change, makes irq_handler() recycle
\* every answer.
NoneLost == ~lost

\* Descriptor numbers stay within the table, between alloc_desc() and recycle_used()
\* every descriptor is in the chain or on the free list, and the count says so.
DescriptorsIntact == TypeOK /\ FreeListIntact /\ FreeCountExact

\* A request is answered by its own response, written while it is waited for.
RequestsAnswered == DeviceServesCurrent /\ WritesIntoLiveFrame /\ AnswerMatchesCommand

\* recycle_used() takes each used entry once, and what goes wrong in the driver
\* goes wrong because irq_handler() has missed one.
RecyclingSound == UsedTailCatchesUp /\ FaultsOnlyAfterLoss
=============================================================================
