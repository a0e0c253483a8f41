---------------------------- MODULE ConsoleProofs ----------------------------
(***************************************************************************)
(* Proofs about the console: ConsRing, its types, the order of what it     *)
(* returns, and that it implements LossyQueue, for every size of the ring; *)
(* Keyboard, for any keys and any number of bytes on the way; LineEditor,  *)
(* for any size of the buffer and any prompt; and the parsing of           *)
(* command lines in Monitor, for every set of lines and any MAXARGS.       *)
(***************************************************************************)
EXTENDS ConsRing, Keyboard, LineEditor, Monitor, NatInduction, SequenceTheorems,
        FiniteSetTheorems, TLAPS

\* The next position of cons_getc(), without the remainder.
LEMMA Successor ==
  ASSUME NEW r \in Slots
  PROVE  (r + 1) % CONSBUFSIZE = IF r + 1 = CONSBUFSIZE THEN 0 ELSE r + 1
<1>1. CASE r + 1 = CONSBUFSIZE  BY <1>1, SizeAssumption DEF Slots
<1>2. CASE r + 1 # CONSBUFSIZE  BY <1>2, SizeAssumption DEF Slots
<1>. QED  BY <1>1, <1>2

\* What lies between two positions.
LEMMA Distance ==
  ASSUME NEW r \in Slots, NEW w \in Slots
  PROVE  (IF w >= r THEN w - r ELSE w - r + CONSBUFSIZE) \in Nat
  BY SizeAssumption DEF Slots

\* The markers for no byte and no character are no characters.
LEMMA Markers == Zero \notin Chars /\ None \notin Chars /\ Zero # None
  BY DEF Zero, None, Chars, Devices

-----------------------------------------------------------------------------
(* What is between the two positions is newer than what was returned,      *)
(* older than what the devices hold, and in the order of arrival.          *)

InRing == \A i \in 1..Pending :
  LET c == buf[Slot(rpos, i)]
  IN  c \in Chars /\ last[c.dev] < c.n /\ c.n <= stored[c.dev]

Ascending == \A i, j \in 1..Pending :
  i < j /\ buf[Slot(rpos, i)].dev = buf[Slot(rpos, j)].dev
    => buf[Slot(rpos, i)].n < buf[Slot(rpos, j)].n

AtDevices == \A d \in Devices :
  /\ last[d] <= stored[d] /\ stored[d] <= sent[d]
  /\ waiting[d] \in Chars =>
       waiting[d] = [dev |-> d, n |-> sent[d]] /\ stored[d] < sent[d]

IInv == TypeOK /\ InRing /\ Ascending /\ AtDevices

\* The ring starts empty.
LEMMA InitIInv == Init => IInv
<1>. SUFFICES ASSUME Init PROVE IInv  OBVIOUS
<1>1. TypeOK
  <2>1. lapped \in BOOLEAN  BY Zenon DEF Init
  <2>2. buf \in [Slots -> Chars \cup {Zero}] /\ rpos \in Slots /\ wpos \in Slots
    BY SizeAssumption DEF Init, Slots
  <2>. QED  BY <2>1, <2>2, SentAssumption DEF Init, TypeOK
<1>2. Pending = 0  BY DEF Init, Pending
<1>3. InRing /\ Ascending  BY <1>2 DEF InRing, Ascending
<1>4. AtDevices
  BY Markers DEF Init, AtDevices
<1>. QED  BY <1>1, <1>3, <1>4 DEF IInv

\* A step that leaves the ring and what was put into and returned from it alone.
LEMMA RingKept ==
  ASSUME InRing, Ascending, UNCHANGED <<buf, rpos, wpos, stored, last>>
  PROVE  InRing' /\ Ascending'
  BY DEF InRing, Ascending, Pending, Slot

\* cons_intr() appends to what is pending, or laps it.
LEMMA Appended ==
  ASSUME TypeOK, NEW d \in Devices, Store(d), waiting[d] # Zero
  PROVE  /\ Pending \in Nat /\ Pending < CONSBUFSIZE
         /\ \A i \in 1..Pending : Slot(rpos, i) \in Slots
         /\ \A i \in 1..Pending : Slot(rpos, i) # wpos
         /\ Slot(rpos, Pending + 1) = wpos
         /\ Pending' = IF Pending = CONSBUFSIZE - 1 THEN 0 ELSE Pending + 1
<1>1. rpos \in Slots /\ wpos \in Slots /\ rpos' = rpos /\ wpos' = Wrapped(wpos + 1)
  BY DEF TypeOK, Store
<1>2. CASE wpos >= rpos
  BY <1>1, <1>2, SizeAssumption DEF Pending, Slot, Slots, Wrapped
<1>3. CASE wpos < rpos
  BY <1>1, <1>3, SizeAssumption DEF Pending, Slot, Slots, Wrapped
<1>. QED  BY <1>1, <1>2, <1>3 DEF Slots

\* cons_getc() takes the first of what is pending.
LEMMA Removed ==
  ASSUME TypeOK, Grab, rpos # wpos
  PROVE  /\ Pending \in Nat \ {0} /\ Pending' = Pending - 1 /\ Pending < CONSBUFSIZE
         /\ \A i \in 1..Pending : Slot(rpos, i) \in Slots
         /\ Slot(rpos, 1) = rpos
         /\ \A i \in 1..Pending' : Slot(rpos', i) = Slot(rpos, i + 1)
<1>1. rpos \in Slots /\ wpos \in Slots /\ wpos' = wpos
  BY DEF TypeOK, Grab
<1>2. rpos' = IF rpos + 1 = CONSBUFSIZE THEN 0 ELSE rpos + 1
  BY <1>1, Successor DEF Grab, NextRpos
<1>3. CASE wpos >= rpos
  BY <1>1, <1>2, <1>3, SizeAssumption DEF Pending, Slot, Slots
<1>4. CASE wpos < rpos
  BY <1>1, <1>2, <1>4, SizeAssumption DEF Pending, Slot, Slots
<1>. QED  BY <1>1, <1>3, <1>4 DEF Slots

\* A byte that arrives is newer than everything before.
LEMMA ArriveIInv ==
  ASSUME IInv, NEW d \in Devices, Arrive(d)
  PROVE  IInv'
<1>1. sent[d] \in 0..MaxSent /\ sent[d] + 1 \in 1..MaxSent
  BY SentAssumption DEF IInv, TypeOK, Arrive
<1>2. PICK c \in {Zero, [dev |-> d, n |-> sent[d] + 1]} :
        waiting' = [waiting EXCEPT ![d] = c]
  BY DEF Arrive, IInv, TypeOK
<1>3. c \in Chars \cup {Zero}
  BY <1>1, <1>2 DEF Chars
<1>4. TypeOK'
  BY <1>1, <1>2, <1>3 DEF IInv, TypeOK, Arrive
<1>5. InRing' /\ Ascending'
  BY RingKept DEF IInv, Arrive
<1>6. AtDevices'
  <2>. SUFFICES ASSUME NEW e \in Devices
       PROVE  /\ last'[e] <= stored'[e] /\ stored'[e] <= sent'[e]
              /\ waiting'[e] \in Chars =>
                   waiting'[e] = [dev |-> e, n |-> sent'[e]] /\ stored'[e] < sent'[e]
    BY DEF AtDevices
  <2>1. /\ stored' = stored /\ last' = last /\ sent' = [sent EXCEPT ![d] = @ + 1]
        /\ stored[e] \in Nat /\ last[e] \in Nat /\ sent[e] \in Nat
        /\ sent \in [Devices -> 0..MaxSent] /\ waiting \in [Devices -> Chars \cup {Zero, None}]
        /\ last[e] <= stored[e] /\ stored[e] <= sent[e]
    BY SentAssumption DEF IInv, TypeOK, AtDevices, Arrive
  <2>2. CASE e = d
    BY <1>2, <2>1, <2>2, Markers
  <2>3. CASE e # d
    BY <1>2, <2>1, <2>3 DEF IInv, AtDevices
  <2>. QED  BY <2>2, <2>3
<1>. QED  BY <1>4, <1>5, <1>6 DEF IInv

\* cons_intr() puts a character behind all the others.
LEMMA StoreIInv ==
  ASSUME IInv, NEW d \in Devices, Store(d)
  PROVE  IInv'
<1>1. waiting[d] \in Chars \cup {Zero}
  BY DEF IInv, TypeOK, Store
<1>2. CASE waiting[d] = Zero
  <2>1. TypeOK'
    BY <1>2, Markers DEF IInv, TypeOK, Store
  <2>2. InRing' /\ Ascending'
    BY <1>2, RingKept DEF IInv, Store
  <2>3. AtDevices'
    BY <1>2, Markers DEF IInv, AtDevices, Store, TypeOK
  <2>. QED  BY <2>1, <2>2, <2>3 DEF IInv
<1>3. CASE waiting[d] \in Chars
  <2>. DEFINE c == waiting[d]
  <2>0. c # Zero /\ c \in Chars
    BY <1>3, Markers
  <2>1. c = [dev |-> d, n |-> sent[d]] /\ stored[d] < sent[d]
    BY <1>3 DEF IInv, AtDevices
  <2>2. /\ buf' = [buf EXCEPT ![wpos] = c] /\ wpos' = Wrapped(wpos + 1)
        /\ stored' = [stored EXCEPT ![d] = c.n] /\ waiting' = [waiting EXCEPT ![d] = None]
        /\ lapped' = (lapped \/ wpos' = rpos)
        /\ UNCHANGED <<rpos, pc, got, sent, last>>
    BY <2>0 DEF Store
  <2>3. c.n \in 1..MaxSent /\ c.dev = d /\ c.n = sent[d]
    BY <2>0, <2>1 DEF Chars
  <2>4. TypeOK'
    <3>1. wpos' \in Slots
      BY <2>2, SizeAssumption DEF IInv, TypeOK, Slots, Wrapped
    <3>2. buf' \in [Slots -> Chars \cup {Zero}]
      BY <2>0, <2>2 DEF IInv, TypeOK
    <3>3. stored' \in [Devices -> 0..MaxSent]
      BY <2>2, <2>3, SentAssumption DEF IInv, TypeOK
    <3>4. waiting' \in [Devices -> Chars \cup {Zero, None}]
      BY <2>2 DEF IInv, TypeOK
    <3>5. lapped' \in BOOLEAN
      BY <2>2, Zenon DEF IInv, TypeOK
    <3>. QED  BY <2>2, <3>1, <3>2, <3>3, <3>4, <3>5 DEF IInv, TypeOK
  <2>5. AtDevices'
    BY <2>2, <2>3, SentAssumption, Markers DEF IInv, AtDevices, TypeOK
  <2>6. /\ Pending \in Nat /\ Pending < CONSBUFSIZE
        /\ \A i \in 1..Pending : Slot(rpos, i) \in Slots
        /\ \A i \in 1..Pending : Slot(rpos, i) # wpos
        /\ Slot(rpos, Pending + 1) = wpos
        /\ Pending' = IF Pending = CONSBUFSIZE - 1 THEN 0 ELSE Pending + 1
    BY <2>0, Appended DEF IInv
  <2>7. wpos \in Slots /\ buf \in [Slots -> Chars \cup {Zero}]
    BY DEF IInv, TypeOK
  <2>8. CASE Pending = CONSBUFSIZE - 1
    BY <2>6, <2>8, <2>4, <2>5 DEF IInv, InRing, Ascending
  <2>9. CASE Pending # CONSBUFSIZE - 1
    <3>1. Pending' = Pending + 1
      BY <2>6, <2>9
    <3>2. \A i \in 1..Pending : buf'[Slot(rpos', i)] = buf[Slot(rpos, i)]
      BY <2>2, <2>6, <2>7
    <3>3. buf'[Slot(rpos', Pending + 1)] = c
      BY <2>2, <2>6, <2>7
    <3>4. \A i \in 1..Pending' : i \in 1..Pending \/ i = Pending + 1
      BY <2>6, <3>1
    <3>5. InRing'
      <4>. SUFFICES ASSUME NEW i \in 1..Pending'
           PROVE  /\ buf'[Slot(rpos', i)] \in Chars
                  /\ last'[buf'[Slot(rpos', i)].dev] < buf'[Slot(rpos', i)].n
                  /\ buf'[Slot(rpos', i)].n <= stored'[buf'[Slot(rpos', i)].dev]
        BY DEF InRing
      <4>1. CASE i \in 1..Pending
        <5>. DEFINE b == buf[Slot(rpos, i)]
        <5>1. b \in Chars /\ last[b.dev] < b.n /\ b.n <= stored[b.dev]
          BY <4>1 DEF IInv, InRing
        <5>2. b.n \in Nat /\ b.dev \in Devices
          BY <5>1, SentAssumption DEF Chars
        <5>3. b.n <= stored'[b.dev]
          BY <2>1, <2>2, <2>3, <5>1, <5>2, SentAssumption DEF IInv, TypeOK
        <5>. QED  BY <2>2, <3>2, <4>1, <5>1, <5>3
      <4>2. CASE i = Pending + 1
        <5>1. last[d] < c.n /\ stored'[d] = c.n
          BY <2>1, <2>2, <2>3, SentAssumption DEF IInv, TypeOK, AtDevices
        <5>. QED  BY <2>0, <2>2, <2>3, <3>3, <4>2, <5>1
      <4>. QED  BY <3>4, <4>1, <4>2
    <3>6. Ascending'
      <4>. SUFFICES ASSUME NEW i \in 1..Pending', NEW j \in 1..Pending', i < j,
                           buf'[Slot(rpos', i)].dev = buf'[Slot(rpos', j)].dev
           PROVE  buf'[Slot(rpos', i)].n < buf'[Slot(rpos', j)].n
        BY DEF Ascending
      <4>1. i \in 1..Pending
        BY <2>6, <3>1
      <4>2. CASE j \in 1..Pending
        BY <3>2, <4>1, <4>2 DEF IInv, Ascending
      <4>3. CASE j = Pending + 1
        <5>1. buf[Slot(rpos, i)] \in Chars /\ buf[Slot(rpos, i)].n <= stored[buf[Slot(rpos, i)].dev]
          BY <4>1 DEF IInv, InRing
        <5>2. buf[Slot(rpos, i)].dev = d
          BY <2>3, <3>2, <3>3, <4>1, <4>3
        <5>3. buf[Slot(rpos, i)].n < c.n
          BY <2>1, <2>3, <5>1, <5>2, SentAssumption DEF IInv, TypeOK, Chars
        <5>. QED  BY <3>2, <3>3, <4>1, <4>3, <5>3
      <4>. QED  BY <3>4, <4>2, <4>3
    <3>. QED  BY <2>4, <2>5, <3>5, <3>6 DEF IInv
  <2>. QED  BY <2>8, <2>9
<1>. QED  BY <1>1, <1>2, <1>3

\* cons_getc() returns the first one, which is newer than the last.
LEMMA GrabIInv ==
  ASSUME IInv, Grab
  PROVE  IInv' /\ (got' # Zero => got'.n > last[got'.dev])
<1>1. CASE rpos = wpos
  <2>1. TypeOK'
    BY <1>1 DEF IInv, TypeOK, Grab
  <2>2. InRing' /\ Ascending'
    BY <1>1, RingKept DEF IInv, Grab
  <2>3. AtDevices'
    BY <1>1 DEF IInv, AtDevices, Grab
  <2>. QED  BY <1>1, <2>1, <2>2, <2>3 DEF IInv, Grab
<1>2. CASE rpos # wpos
  <2>. DEFINE c == buf[rpos]
  <2>1. /\ Pending \in Nat \ {0} /\ Pending' = Pending - 1 /\ Pending < CONSBUFSIZE
        /\ \A i \in 1..Pending : Slot(rpos, i) \in Slots
        /\ Slot(rpos, 1) = rpos
        /\ \A i \in 1..Pending' : Slot(rpos', i) = Slot(rpos, i + 1)
    BY <1>2, Removed DEF IInv
  <2>2. /\ got' = c /\ last' = [last EXCEPT ![c.dev] = c.n]
        /\ UNCHANGED <<buf, wpos, waiting, sent, stored, lapped>>
        /\ pc' = "caller"
    BY <1>2 DEF Grab, Oldest
  <2>3. c \in Chars /\ last[c.dev] < c.n /\ c.n <= stored[c.dev]
    BY <2>1 DEF IInv, InRing
  <2>4. c.dev \in Devices /\ c.n \in 1..MaxSent
    BY <2>3 DEF Chars
  <2>5. TypeOK'
    <3>1. rpos' \in Slots
      BY <1>2, Successor, SizeAssumption DEF IInv, TypeOK, Grab, NextRpos, Slots
    <3>2. last' \in [Devices -> 0..MaxSent]
      BY <2>2, <2>4, SentAssumption DEF IInv, TypeOK
    <3>. QED  BY <2>2, <2>3, <3>1, <3>2 DEF IInv, TypeOK
  <2>6. AtDevices'
    BY <2>2, <2>3, <2>4, SentAssumption DEF IInv, TypeOK, AtDevices
  <2>7. \A i \in 1..Pending' :
         i + 1 \in 1..Pending /\ buf'[Slot(rpos', i)] = buf[Slot(rpos, i + 1)]
    BY <2>1, <2>2
  <2>8. InRing'
    <3>. SUFFICES ASSUME NEW i \in 1..Pending'
         PROVE  /\ buf'[Slot(rpos', i)] \in Chars
                /\ last'[buf'[Slot(rpos', i)].dev] < buf'[Slot(rpos', i)].n
                /\ buf'[Slot(rpos', i)].n <= stored'[buf'[Slot(rpos', i)].dev]
      BY DEF InRing
    <3>. DEFINE b == buf[Slot(rpos, i + 1)]
    <3>1. b \in Chars /\ last[b.dev] < b.n /\ b.n <= stored[b.dev]
      BY <2>7 DEF IInv, InRing
    <3>2. b.dev = c.dev => c.n < b.n
      <4>1. 1 \in 1..Pending /\ i + 1 \in 1..Pending /\ 1 < i + 1
        BY <2>1, <2>7
      <4>. QED  BY <2>1, <4>1 DEF IInv, Ascending
    <3>3. b.dev \in Devices
      BY <3>1 DEF Chars
    <3>4. last'[b.dev] < b.n
      BY <2>2, <2>4, <3>1, <3>2, <3>3, SentAssumption DEF IInv, TypeOK
    <3>. QED  BY <2>2, <2>7, <3>1, <3>4
  <2>9. Ascending'
    <3>. SUFFICES ASSUME NEW i \in 1..Pending', NEW j \in 1..Pending', i < j,
                         buf'[Slot(rpos', i)].dev = buf'[Slot(rpos', j)].dev
         PROVE  buf'[Slot(rpos', i)].n < buf'[Slot(rpos', j)].n
      BY DEF Ascending
    <3>1. i + 1 \in 1..Pending /\ j + 1 \in 1..Pending /\ i + 1 < j + 1
      BY <2>1, <2>7
    <3>2. buf'[Slot(rpos', i)] = buf[Slot(rpos, i + 1)] /\ buf'[Slot(rpos', j)] = buf[Slot(rpos, j + 1)]
      BY <2>7
    <3>. QED  BY <3>1, <3>2 DEF IInv, Ascending
  <2>. QED  BY <2>2, <2>3, <2>4, <2>5, <2>6, <2>8, <2>9, SentAssumption DEF IInv, TypeOK
<1>. QED  BY <1>1, <1>2

\* What the steps of cons_getc() between its loops, and stuttering, keep.
LEMMA ControlIInv ==
  ASSUME IInv, UNCHANGED <<buf, rpos, wpos, got, waiting, sent, stored, last, lapped>>,
         pc' \in {"caller", "serial", "kbd", "grab"}
  PROVE  IInv'
<1>1. TypeOK'  BY DEF IInv, TypeOK
<1>2. InRing' /\ Ascending'  BY RingKept DEF IInv
<1>3. AtDevices'  BY DEF IInv, AtDevices
<1>. QED  BY <1>1, <1>2, <1>3 DEF IInv

\* IInv is inductive.
LEMMA NextIInv == IInv /\ [Next]_vars => IInv'
<1>. SUFFICES ASSUME IInv, [Next]_vars PROVE IInv'  OBVIOUS
<1>1. CASE CallGetc  BY <1>1, ControlIInv DEF CallGetc
<1>2. CASE SerialIntr
  BY <1>2, StoreIInv, ControlIInv DEF SerialIntr, Devices
<1>3. CASE KbdIntr
  BY <1>3, StoreIInv, ControlIInv DEF KbdIntr, Devices
<1>4. CASE Grab  BY <1>4, GrabIInv
<1>5. ASSUME NEW d \in Devices, Arrive(d) PROVE IInv'
  BY <1>5, ArriveIInv
<1>6. CASE UNCHANGED vars
  BY <1>6, ControlIInv DEF vars, IInv, TypeOK
<1>. QED  BY <1>1, <1>2, <1>3, <1>4, <1>5, <1>6 DEF Next, cons_getc

\* IInv holds throughout.
LEMMA Invariance == Spec => []IInv
  BY InitIInv, NextIInv, PTL DEF Spec

\* Neither position ever leaves the ring, and every variable keeps its type.
THEOREM TypeCorrect == Spec => []TypeOK
<1>1. IInv => TypeOK  BY DEF IInv
<1>. QED  BY <1>1, Invariance, PTL

\* Whatever the size of the ring and however often it overflows, cons_getc()
\* returns the characters of a device in order and none of them twice.
THEOREM InOrder == Spec => ReturnedInOrder
<1>1. IInv /\ [Next]_vars => [Returns /\ got' # Zero => got'.n > last[got'.dev]]_vars
  <2>. SUFFICES ASSUME IInv, Next, Returns, got' # Zero
       PROVE  got'.n > last[got'.dev]
    BY DEF vars, Returns
  <2>1. Grab
    BY DEF Next, cons_getc, CallGetc, SerialIntr, KbdIntr, Store, Arrive, Returns
  <2>. QED  BY <2>1, GrabIInv
<1>. QED  BY <1>1, Invariance, PTL DEF Spec, ReturnedInOrder

-----------------------------------------------------------------------------
(* The refinement.                                                         *)

\* What is pending is a sequence of characters.
LEMMA ContentType ==
  ASSUME IInv
  PROVE  /\ Content \in Seq(Chars) /\ Len(Content) = Pending /\ Pending \in Nat
         /\ \A i \in 1..Pending : Content[i] = buf[Slot(rpos, i)]
<1>1. Pending \in Nat
  BY SizeAssumption DEF IInv, TypeOK, Pending, Slots
<1>2. \A i \in 1..Pending : buf[Slot(rpos, i)] \in Chars
  BY DEF IInv, InRing
<1>. QED  BY <1>1, <1>2 DEF Content

\* The same of the next state.
LEMMA ContentTypeNext ==
  ASSUME IInv'
  PROVE  /\ Content' \in Seq(Chars) /\ Len(Content') = Pending'
         /\ \A i \in 1..Pending' : Content'[i] = buf'[Slot(rpos', i)]
<1>0. rpos' \in Slots /\ wpos' \in Slots
  BY DEF IInv, TypeOK
<1>1. Pending' \in Nat
  BY <1>0, Distance DEF Pending
<1>2. \A i \in 1..Pending' : buf'[Slot(rpos', i)] \in Chars
  BY DEF IInv, InRing
<1>3. Content' = [i \in 1..Pending' |-> buf'[Slot(rpos', i)]]
  BY DEF Content
<1>. QED  BY <1>1, <1>2, <1>3

\* cons_intr() is Put for a character, and nothing for a zero.
LEMMA StorePuts ==
  ASSUME IInv, IInv', NEW d \in Devices, Store(d)
  PROVE  (\E c \in Chars : Abs!Put(c)) \/ UNCHANGED <<Content, got>>
<1>1. CASE waiting[d] = Zero
  BY <1>1 DEF Store, Content, Pending, Slot
<1>2. CASE waiting[d] # Zero
  <2>. DEFINE c == waiting[d]
  <2>1. c \in Chars
    BY <1>2 DEF IInv, TypeOK, Store
  <2>2. buf' = [buf EXCEPT ![wpos] = c] /\ got' = got
    BY <1>2 DEF Store
  <2>3. /\ Pending \in Nat /\ Pending < CONSBUFSIZE
        /\ \A i \in 1..Pending : Slot(rpos, i) \in Slots
        /\ \A i \in 1..Pending : Slot(rpos, i) # wpos
        /\ Slot(rpos, Pending + 1) = wpos
        /\ Pending' = IF Pending = CONSBUFSIZE - 1 THEN 0 ELSE Pending + 1
    BY <1>2, Appended DEF IInv
  <2>4. wpos \in Slots /\ buf \in [Slots -> Chars \cup {Zero}]
    BY DEF IInv, TypeOK
  <2>5. /\ Content \in Seq(Chars) /\ Len(Content) = Pending
        /\ \A i \in 1..Pending : Content[i] = buf[Slot(rpos, i)]
    BY ContentType
  <2>6. /\ Content' \in Seq(Chars) /\ Len(Content') = Pending'
        /\ \A i \in 1..Pending' : Content'[i] = buf'[Slot(rpos', i)]
    BY ContentTypeNext
  <2>7. CASE Pending = CONSBUFSIZE - 1
    <3>1. Content' = <<>>
      BY <2>3, <2>6, <2>7, EmptySeq
    <3>. QED  BY <2>1, <2>2, <2>5, <2>7, <3>1 DEF Abs!Put
  <2>8. CASE Pending # CONSBUFSIZE - 1
    <3>. DEFINE A == Append(Content, c)
    <3>1. /\ A \in Seq(Chars) /\ Len(A) = Pending + 1
          /\ \A i \in 1..Pending : A[i] = Content[i]
          /\ A[Pending + 1] = c
      BY <2>1, <2>5, AppendProperties
    <3>. HIDE DEF A
    <3>2. Pending' = Pending + 1
      BY <2>3, <2>8
    <3>3. rpos' = rpos
      BY DEF Store
    <3>4. \A i \in 1..(Pending + 1) : Content'[i] = buf'[Slot(rpos, i)]
      BY <2>6, <3>2, <3>3
    <3>5. \A i \in 1..Pending : Content'[i] = A[i]
      <4>. SUFFICES ASSUME NEW i \in 1..Pending PROVE Content'[i] = A[i]
        OBVIOUS
      <4>1. Content'[i] = buf'[Slot(rpos, i)]  BY <2>3, <3>4
      <4>2. buf'[Slot(rpos, i)] = buf[Slot(rpos, i)]  BY <2>2, <2>3, <2>4
      <4>. QED  BY <2>5, <3>1, <4>1, <4>2
    <3>6. Content'[Pending + 1] = A[Pending + 1]
      <4>1. Content'[Pending + 1] = buf'[wpos]  BY <2>3, <3>4
      <4>. QED  BY <2>2, <2>4, <3>1, <4>1
    <3>7. \A i \in 1..Len(A) : Content'[i] = A[i]
      BY <2>3, <3>1, <3>5, <3>6
    <3>8. Content' = A
      BY <2>6, <3>1, <3>2, <3>7, SeqEqual
    <3>. QED  BY <2>1, <2>2, <2>5, <2>8, <3>8 DEF A, Abs!Put
  <2>. QED  BY <2>7, <2>8
<1>. QED  BY <1>1, <1>2

\* The end of cons_getc() is Take, or TakeNothing when the positions are equal.
LEMMA GrabTakes ==
  ASSUME IInv, IInv', Grab
  PROVE  Abs!Take \/ Abs!TakeNothing
<1>0. /\ Content \in Seq(Chars) /\ Len(Content) = Pending /\ Pending \in Nat
      /\ \A i \in 1..Pending : Content[i] = buf[Slot(rpos, i)]
  BY ContentType
<1>1. CASE rpos = wpos
  <2>1. Pending = 0  BY <1>1 DEF Pending, IInv, TypeOK, Slots
  <2>2. Content = <<>>  BY <1>0, <2>1, EmptySeq
  <2>3. got' = Zero /\ Content' = Content
    BY <1>1 DEF Grab, Content, Pending, Slot
  <2>. QED  BY <2>2, <2>3 DEF Abs!TakeNothing
<1>2. CASE rpos # wpos
  <2>1. /\ Pending \in Nat \ {0} /\ Pending' = Pending - 1
        /\ Slot(rpos, 1) = rpos
        /\ \A i \in 1..Pending' : Slot(rpos', i) = Slot(rpos, i + 1)
    BY <1>2, Removed DEF IInv
  <2>2. got' = buf[rpos] /\ buf' = buf
    BY <1>2 DEF Grab, Oldest
  <2>3. /\ Content' \in Seq(Chars) /\ Len(Content') = Pending'
        /\ \A i \in 1..Pending' : Content'[i] = buf'[Slot(rpos', i)]
    BY ContentTypeNext
  <2>4. Content # <<>> /\ Head(Content) = buf[rpos]
    BY <1>0, <2>1
  <2>5. /\ Tail(Content) \in Seq(Chars) /\ Len(Tail(Content)) = Pending'
        /\ \A i \in 1..Pending' : Tail(Content)[i] = Content[i + 1]
    BY <1>0, <2>1, <2>4, HeadTailProperties
  <2>6. \A i \in 1..Pending' : Content'[i] = Tail(Content)[i]
    <3> SUFFICES ASSUME NEW i \in 1..Pending' PROVE Content'[i] = Tail(Content)[i]
      OBVIOUS
    <3>1. i + 1 \in 1..Pending
      BY <2>1
    <3>2. Content'[i] = buf[Slot(rpos, i + 1)]
      BY <2>1, <2>2, <2>3
    <3>3. Tail(Content)[i] = buf[Slot(rpos, i + 1)]
      BY <1>0, <2>5, <3>1
    <3>. QED  BY <3>2, <3>3
  <2>7. Content' = Tail(Content)
    BY <2>3, <2>5, <2>6, SeqEqual
  <2>. QED  BY <2>2, <2>4, <2>7 DEF Abs!Take
<1>. QED  BY <1>1, <1>2

\* The ring buffer of the console is, for every size, a queue of one place less
\* that loses all that waits when one more comes.
THEOREM Refinement == Spec => ImplementsQueue
<1>1. Init => Abs!Init
  <2>. SUFFICES ASSUME Init PROVE Content = <<>> /\ got = Zero
    BY DEF Abs!Init
  <2>1. IInv  BY InitIInv
  <2>2. Pending = 0  BY DEF Init, Pending
  <2>. QED  BY <2>1, <2>2, ContentType, EmptySeq DEF Init
<1>2. IInv /\ IInv' /\ [Next]_vars => [Abs!Next]_<<Content, got>>
  <2>. SUFFICES ASSUME IInv, IInv', [Next]_vars
       PROVE  Abs!Next \/ UNCHANGED <<Content, got>>
    OBVIOUS
  <2>1. ASSUME NEW d \in Devices, Store(d) PROVE Abs!Next \/ UNCHANGED <<Content, got>>
    BY <2>1, StorePuts DEF Abs!Next
  <2>2. CASE Grab  BY <2>2, GrabTakes DEF Abs!Next
  <2>3. CASE UNCHANGED <<buf, rpos, wpos, got>>
    BY <2>3 DEF Content, Pending, Slot
  <2>4. CASE SerialIntr
    BY <2>1, <2>3, <2>4 DEF SerialIntr, Devices
  <2>5. CASE KbdIntr
    BY <2>1, <2>3, <2>5 DEF KbdIntr, Devices
  <2>6. CASE CallGetc \/ (\E d \in Devices : Arrive(d)) \/ UNCHANGED vars
    BY <2>3, <2>6 DEF CallGetc, Arrive, vars
  <2>. QED  BY <2>2, <2>4, <2>5, <2>6 DEF Next, cons_getc
<1>. QED  BY <1>1, <1>2, Invariance, PTL DEF Spec, ImplementsQueue, Abs!Spec

\* The ring for any size: its positions stay inside and what comes out is in order.
THEOREM RingCorrect == Spec => RingSound
<1>. QED  BY TypeCorrect, InOrder, PTL DEF RingSound

-----------------------------------------------------------------------------
(* The keyboard, however many bytes wait and keys are held.  A place is a  *)
(* key, whether it goes down, and which byte of its code is meant.         *)

Codes(p)  == IF p[2] THEN Make[p[1]] ELSE Break[p[1]]
Code(p)   == Codes(p)[p[3]]
Places    == {p \in Keys \X BOOLEAN \X Nat : p[3] \in 1..Len(Codes(p))}
Final(p)  == p[3] = Len(Codes(p))
Esc(p)    == p[3] > 1 /\ Codes(p)[p[3] - 1] = E0
ByteAt(p) == [code |-> Code(p), key |-> p[1], press |-> p[2], last |-> Final(p)]

\* The code that the decoder looks up, and the modifier the key stands for.
Looked(p) == IF Code(p) >= 128 THEN IF Esc(p) THEN Code(p) ELSE Code(p) - 128
                               ELSE IF Esc(p) THEN Code(p) + 128 ELSE Code(p)
Signal(p) == {Modifier(p[1])} \cap Modifiers

\* What the byte at a place does to the decoder.
Reads(p) ==
  /\ Code(p) \in 0..255
  /\ Code(p) = E0 => ~Esc(p) /\ ~Final(p) /\ p[1] \notin {"CapsLock", "Pause"}
  /\ p[1] = "Pause" => p[2] /\ p[3] \in 1..6 /\ ~Esc(p) /\ (Final(p) <=> p[3] = 6)
  /\ Code(p) # E0 =>
       /\ Code(p) >= 128 <=> ~p[2] \/ (p[1] = "Pause" /\ p[3] \notin {2, 3})
       /\ shiftcode(Looked(p)) = IF p[1] = "Pause" THEN IF p[3] \in {2, 5} THEN {"CTL"} ELSE {}
                                 ELSE IF Final(p) THEN Signal(p) ELSE {}
       /\ Code(p) < 128 =>
            /\ togglecode(Looked(p)) = IF p[1] = "CapsLock" THEN {"CAPSLOCK"}
                                       ELSE IF p[1] = "Pause" /\ p[3] = 3 THEN {"NUMLOCK"} ELSE {}
            /\ Looked(p) = 30 <=> p[1] = "A"
            /\ Looked(p) # 83
            /\ Looked(p) = 211 <=> p[1] = "Delete" /\ Final(p)
            /\ p[1] \in {"A", "CapsLock"} => Final(p)

\* Codes of one byte, of two, of four, and that of Pause.
LEMMA OneByte ==
  ASSUME NEW p \in Places, NEW c \in Nat, Codes(p) = <<c>>
  PROVE  p[3] = 1 /\ Code(p) = c /\ ~Esc(p) /\ Final(p)
<1>1. p[3] \in 1..1 /\ Len(Codes(p)) = 1
  BY DEF Places
<1>2. p[3] = 1 /\ Codes(p)[1] = c
  BY <1>1
<1> QED BY <1>1, <1>2 DEF Code, Esc, Final

\* An escape and a code.
LEMMA TwoBytes ==
  ASSUME NEW p \in Places, NEW c \in Nat, Codes(p) = <<E0, c>>
  PROVE  \/ p[3] = 1 /\ Code(p) = 224 /\ ~Esc(p) /\ ~Final(p)
         \/ p[3] = 2 /\ Code(p) = c /\ Esc(p) /\ Final(p)
<1>1. p[3] \in 1..2 /\ Len(Codes(p)) = 2
  BY DEF Places
<1>2. Codes(p)[1] = 224 /\ Codes(p)[2] = c
  BY DEF E0
<1> QED BY <1>1, <1>2 DEF Code, Esc, Final, E0

\* A fake shift, or its end, around a grey key.
LEMMA FourBytes ==
  ASSUME NEW p \in Places, NEW c \in Nat, NEW d \in Nat, c # 224, Codes(p) = <<E0, c, E0, d>>
  PROVE  \/ p[3] \in {1, 3} /\ Code(p) = 224 /\ ~Esc(p) /\ ~Final(p)
         \/ p[3] = 2 /\ Code(p) = c /\ Esc(p) /\ ~Final(p)
         \/ p[3] = 4 /\ Code(p) = d /\ Esc(p) /\ Final(p)
<1>1. p[3] \in 1..4 /\ Len(Codes(p)) = 4
  BY DEF Places
<1>2. Codes(p)[1] = 224 /\ Codes(p)[2] = c /\ Codes(p)[3] = 224 /\ Codes(p)[4] = d
  BY DEF E0
<1>3. p[3] = 1 \/ p[3] = 2 \/ p[3] = 3 \/ p[3] = 4
  BY <1>1
<1> QED BY <1>1, <1>2, <1>3 DEF Code, Esc, Final, E0

\* Pause sends all of its bytes when it goes down, and begins with E1.
LEMMA PauseBytes ==
  ASSUME NEW p \in Places, Codes(p) = Make.Pause
  PROVE  /\ p[3] \in 1..6 /\ ~Esc(p) /\ (Final(p) <=> p[3] = 6)
         /\ Code(p) = CASE p[3] = 1 -> 225 [] p[3] = 2 -> 29 [] p[3] = 3 -> 69
                         [] p[3] = 4 -> 225 [] p[3] = 5 -> 157 [] p[3] = 6 -> 197
<1>1. Codes(p) = <<225, 29, 69, 225, 157, 197>>
  BY DEF Make
<1>2. p[3] \in 1..6 /\ Len(Codes(p)) = 6
  BY <1>1 DEF Places
<1>3. /\ Codes(p)[1] = 225 /\ Codes(p)[2] = 29 /\ Codes(p)[3] = 69
      /\ Codes(p)[4] = 225 /\ Codes(p)[5] = 157 /\ Codes(p)[6] = 197
  BY <1>1
<1>4. p[3] = 1 \/ p[3] = 2 \/ p[3] = 3 \/ p[3] = 4 \/ p[3] = 5 \/ p[3] = 6
  BY <1>2
<1> QED BY <1>2, <1>3, <1>4 DEF Code, Esc, Final, E0

\* The tables give what Reads says, of every byte of every key.
LEMMA CodeTable ==
  ASSUME NEW p \in Places
  PROVE  Reads(p)
<1> USE DEF shiftcode, togglecode, Looked, Reads
<1>1. p[1] \in AllKeys /\ p[2] \in BOOLEAN /\ p[3] \in 1..Len(Codes(p))
  BY KeysAssumption DEF Places
<1>2. CASE p[1] = "LShift"
  <2>1. Signal(p) = {"SHIFT"}
    BY <1>2 DEF Signal, Modifier, Modifiers
  <2>2. CASE p[2]
    <3>1. Codes(p) = <<42>>
      BY <1>2, <2>2 DEF Codes, Make
    <3> QED BY <1>2, <2>1, <2>2, <3>1, OneByte DEF E0
  <2>3. CASE ~p[2]
    <3>1. Codes(p) = <<170>>
      BY <1>2, <2>3 DEF Codes, Break
    <3> QED BY <1>2, <2>1, <2>3, <3>1, OneByte DEF E0
  <2> QED BY <1>1, <2>2, <2>3
<1>3. CASE p[1] = "RShift"
  <2>1. Signal(p) = {"SHIFT"}
    BY <1>3 DEF Signal, Modifier, Modifiers
  <2>2. CASE p[2]
    <3>1. Codes(p) = <<54>>
      BY <1>3, <2>2 DEF Codes, Make
    <3> QED BY <1>3, <2>1, <2>2, <3>1, OneByte DEF E0
  <2>3. CASE ~p[2]
    <3>1. Codes(p) = <<182>>
      BY <1>3, <2>3 DEF Codes, Break
    <3> QED BY <1>3, <2>1, <2>3, <3>1, OneByte DEF E0
  <2> QED BY <1>1, <2>2, <2>3
<1>4. CASE p[1] = "LCtrl"
  <2>1. Signal(p) = {"CTL"}
    BY <1>4 DEF Signal, Modifier, Modifiers
  <2>2. CASE p[2]
    <3>1. Codes(p) = <<29>>
      BY <1>4, <2>2 DEF Codes, Make
    <3> QED BY <1>4, <2>1, <2>2, <3>1, OneByte DEF E0
  <2>3. CASE ~p[2]
    <3>1. Codes(p) = <<157>>
      BY <1>4, <2>3 DEF Codes, Break
    <3> QED BY <1>4, <2>1, <2>3, <3>1, OneByte DEF E0
  <2> QED BY <1>1, <2>2, <2>3
<1>5. CASE p[1] = "RCtrl"
  <2>1. Signal(p) = {"CTL"}
    BY <1>5 DEF Signal, Modifier, Modifiers
  <2>2. CASE p[2]
    <3>1. Codes(p) = <<E0, 29>>
      BY <1>5, <2>2 DEF Codes, Make
    <3> QED BY <1>5, <2>1, <2>2, <3>1, TwoBytes DEF E0
  <2>3. CASE ~p[2]
    <3>1. Codes(p) = <<E0, 157>>
      BY <1>5, <2>3 DEF Codes, Break
    <3> QED BY <1>5, <2>1, <2>3, <3>1, TwoBytes DEF E0
  <2> QED BY <1>1, <2>2, <2>3
<1>6. CASE p[1] = "LAlt"
  <2>1. Signal(p) = {"ALT"}
    BY <1>6 DEF Signal, Modifier, Modifiers
  <2>2. CASE p[2]
    <3>1. Codes(p) = <<56>>
      BY <1>6, <2>2 DEF Codes, Make
    <3> QED BY <1>6, <2>1, <2>2, <3>1, OneByte DEF E0
  <2>3. CASE ~p[2]
    <3>1. Codes(p) = <<184>>
      BY <1>6, <2>3 DEF Codes, Break
    <3> QED BY <1>6, <2>1, <2>3, <3>1, OneByte DEF E0
  <2> QED BY <1>1, <2>2, <2>3
<1>7. CASE p[1] = "RAlt"
  <2>1. Signal(p) = {"ALT"}
    BY <1>7 DEF Signal, Modifier, Modifiers
  <2>2. CASE p[2]
    <3>1. Codes(p) = <<E0, 56>>
      BY <1>7, <2>2 DEF Codes, Make
    <3> QED BY <1>7, <2>1, <2>2, <3>1, TwoBytes DEF E0
  <2>3. CASE ~p[2]
    <3>1. Codes(p) = <<E0, 184>>
      BY <1>7, <2>3 DEF Codes, Break
    <3> QED BY <1>7, <2>1, <2>3, <3>1, TwoBytes DEF E0
  <2> QED BY <1>1, <2>2, <2>3
<1>8. CASE p[1] = "CapsLock"
  <2>1. Signal(p) = {}
    BY <1>8 DEF Signal, Modifier, Modifiers
  <2>2. CASE p[2]
    <3>1. Codes(p) = <<58>>
      BY <1>8, <2>2 DEF Codes, Make
    <3> QED BY <1>8, <2>1, <2>2, <3>1, OneByte DEF E0
  <2>3. CASE ~p[2]
    <3>1. Codes(p) = <<186>>
      BY <1>8, <2>3 DEF Codes, Break
    <3> QED BY <1>8, <2>1, <2>3, <3>1, OneByte DEF E0
  <2> QED BY <1>1, <2>2, <2>3
<1>9. CASE p[1] = "A"
  <2>1. Signal(p) = {}
    BY <1>9 DEF Signal, Modifier, Modifiers
  <2>2. CASE p[2]
    <3>1. Codes(p) = <<30>>
      BY <1>9, <2>2 DEF Codes, Make
    <3> QED BY <1>9, <2>1, <2>2, <3>1, OneByte DEF E0
  <2>3. CASE ~p[2]
    <3>1. Codes(p) = <<158>>
      BY <1>9, <2>3 DEF Codes, Break
    <3> QED BY <1>9, <2>1, <2>3, <3>1, OneByte DEF E0
  <2> QED BY <1>1, <2>2, <2>3
<1>10. CASE p[1] = "Delete"
  <2>1. Signal(p) = {}
    BY <1>10 DEF Signal, Modifier, Modifiers
  <2>2. CASE p[2]
    <3>1. Codes(p) = <<E0, 42, E0, 83>>
      BY <1>10, <2>2 DEF Codes, Make
    <3> QED BY <1>10, <2>1, <2>2, <3>1, FourBytes DEF E0
  <2>3. CASE ~p[2]
    <3>1. Codes(p) = <<E0, 211, E0, 170>>
      BY <1>10, <2>3 DEF Codes, Break
    <3> QED BY <1>10, <2>1, <2>3, <3>1, FourBytes DEF E0
  <2> QED BY <1>1, <2>2, <2>3
<1>11. CASE p[1] = "Pause"
  <2>1. CASE ~p[2]
    <3>1. Codes(p) = <<>>
      BY <1>11, <2>1 DEF Codes, Break
    <3> QED BY <1>1, <3>1
  <2>2. CASE p[2]
    <3>1. Codes(p) = Make.Pause
      BY <1>11, <2>2 DEF Codes
    <3>2. p[3] = 1 \/ p[3] = 2 \/ p[3] = 3 \/ p[3] = 4 \/ p[3] = 5 \/ p[3] = 6
      BY <3>1, PauseBytes
    <3> QED BY <1>11, <2>2, <3>1, <3>2, PauseBytes DEF E0
  <2> QED BY <1>1, <2>1, <2>2
<1> QED
  BY <1>1, <1>2, <1>3, <1>4, <1>5, <1>6, <1>7, <1>8, <1>9, <1>10, <1>11 DEF AllKeys

-----------------------------------------------------------------------------
(* Between two codes the modifiers that are on are those of keys that are  *)
(* down; within one the escape is that of the byte before, and Pause holds *)
(* Ctrl down for three of its bytes.                                       *)

On        == {Modifier(k) : k \in down}
Ghost(p)  == IF p[1] = "Pause" /\ p[3] \in {3, 4, 5} THEN {"CTL"} ELSE {}
Idle      == whole /\ "E0ESC" \notin shift /\ shift \cap Modifiers \subseteq On
Within(p) == /\ whole <=> p[3] = 1
             /\ "E0ESC" \in shift <=> Esc(p)
             /\ shift \cap Modifiers \subseteq On \cup Ghost(p)
Ahead(p)  == <<p[1], p[2], p[3] + 1>>

\* The bytes that wait are those of codes, each complete but for the first.
Wired    == [code : 0..255, key : Keys, press : BOOLEAN, last : BOOLEAN]
Spells(w, f) ==
  /\ f \in Seq(Places) /\ Len(f) = Len(w)
  /\ \A i \in 1..Len(f) : w[i] = ByteAt(f[i])
  /\ \A i \in 1..Len(f) : IF Final(f[i]) THEN i < Len(f) => f[i + 1][3] = 1
                                       ELSE i < Len(f) /\ f[i + 1] = Ahead(f[i])

WireInv == \E f : Spells(wire, f) /\ IF f = <<>> THEN Idle ELSE Within(f[1])

Types ==
  /\ shift \subseteq Modifiers \cup {"CAPSLOCK", "NUMLOCK", "E0ESC"}
  /\ result \in {"none", "NO", "a", "A", "^A", ".", "KEY_DEL", "reboot"}
  /\ held \subseteq Keys /\ down \subseteq Keys /\ wire \in Seq(Wired)
  /\ whole \in BOOLEAN /\ caps \in {0, 1}
  /\ caps = 1 <=> "CAPSLOCK" \in shift

KInv == Types /\ WireInv

\* A place where a code starts is one where no code is under way.
LEMMA StartIsIdle ==
  ASSUME NEW p \in Places, p[3] = 1
  PROVE  Within(p) <=> Idle
BY DEF Within, Idle, Esc, Ghost

\* What a character and a reboot need, of the byte that is read.
Char(p) ==
  result' # "NO" =>
    /\ p[2] /\ Final(p)
    /\ result' \in {"KEY_DEL", "reboot"} => p[1] = "Delete"
    /\ result' \in {"a", "A", "^A"} => p[1] = "A"
    /\ result' = "^A" => "CTL" \in On
    /\ result' = "A" /\ caps = 0 => "SHIFT" \in On
    /\ result' = "a" /\ caps = 1 => "SHIFT" \in On
    /\ result' # "."
    /\ result' = "reboot" => {"CTL", "ALT"} \subseteq On

\* The state after the byte at p.
Onward(p) == IF Final(p) THEN Idle' ELSE Within(Ahead(p))'

Kept ==
  /\ shift' \subseteq Modifiers \cup {"CAPSLOCK", "NUMLOCK", "E0ESC"}
  /\ result' \in {"none", "NO", "a", "A", "^A", ".", "KEY_DEL", "reboot"}
  /\ caps' = 1 <=> "CAPSLOCK" \in shift'

\* The place after the one at hand.
LEMMA AheadIs ==
  ASSUME NEW p \in Places, ~Final(p)
  PROVE  /\ Ahead(p) \in Places /\ Ahead(p)[1] = p[1] /\ Ahead(p)[2] = p[2] /\ Ahead(p)[3] = p[3] + 1
         /\ p[3] \in Nat /\ p[3] >= 1
         /\ Esc(Ahead(p)) <=> Code(p) = E0
<1>1. /\ p[1] \in Keys /\ p[2] \in BOOLEAN /\ p[3] \in Nat /\ p[3] \in 1..Len(Codes(p))
  BY DEF Places
<1>2. Ahead(p)[1] = p[1] /\ Ahead(p)[2] = p[2] /\ Ahead(p)[3] = p[3] + 1
  BY DEF Ahead
<1>3. Codes(Ahead(p)) = Codes(p)
  BY <1>2 DEF Codes
<1>4. Len(Codes(p)) \in Nat
  <2>1. p[1] \in AllKeys
    BY <1>1, KeysAssumption
  <2> QED BY <1>1, <2>1, SMTT(30) DEF Codes, Make, Break, AllKeys
<1>5. p[3] + 1 \in 1..Len(Codes(p))
  BY <1>1, <1>4 DEF Final
<1>6. Ahead(p) \in Places
  <2>1. Ahead(p) \in Keys \X BOOLEAN \X Nat
    BY <1>1 DEF Ahead
  <2> QED BY <1>2, <1>3, <1>5, <2>1 DEF Places
<1>7. (p[3] + 1) - 1 = p[3] /\ p[3] + 1 > 1
  BY <1>1
<1>8. Esc(Ahead(p)) <=> Code(p) = E0
  BY <1>2, <1>3, <1>7 DEF Esc, Code
<1> QED BY <1>1, <1>2, <1>6, <1>8

\* An escape.
LEMMA EscapeRead ==
  ASSUME Types, NEW p \in Places, Within(p), wire # <<>>, Head(wire) = ByteAt(p), kbd_proc_data, Code(p) = E0
  PROVE  Onward(p) /\ Kept /\ Char(p)
<1>1. ~Esc(p) /\ ~Final(p) /\ p[1] \notin {"CapsLock", "Pause"}
  BY CodeTable DEF Reads
<1>2. shift' = shift \cup {"E0ESC"} /\ result' = "NO" /\ whole' = Final(p) /\ down' = down /\ caps' = caps
  BY <1>1 DEF kbd_proc_data, ByteAt
<1>3. Ahead(p)[1] = p[1] /\ Ahead(p)[3] = p[3] + 1 /\ p[3] \in Nat /\ p[3] >= 1 /\ Esc(Ahead(p))
  BY <1>1, AheadIs
<1>4. Ghost(Ahead(p)) = {} /\ Ghost(p) = {}
  BY <1>1, <1>3 DEF Ghost
<1>5. shift' \cap Modifiers = shift \cap Modifiers
  BY <1>2 DEF Modifiers
<1>6. Within(Ahead(p))'
  BY <1>1, <1>2, <1>3, <1>4, <1>5 DEF Within, On
<1>7. Kept
  BY <1>2 DEF Kept, Types, Modifiers
<1> QED BY <1>1, <1>2, <1>6, <1>7 DEF Onward, Char

\* When its last byte was read, a key is down or up.
LEMMA KeyKnown ==
  ASSUME NEW p \in Places, down' = IF p[2] THEN down \cup {p[1]} ELSE down \ {p[1]}
  PROVE  IF p[2] THEN On' = On \cup {Modifier(p[1])} ELSE On \ {Modifier(p[1])} \subseteq On'
<1>1. CASE p[2]
  BY <1>1 DEF On
<1>2. CASE ~p[2]
  BY <1>2 DEF On
<1> QED BY <1>1, <1>2

\* A byte with the eighth bit: a key was released, or a part of Pause.
LEMMA ReleaseRead ==
  ASSUME Types, NEW p \in Places, Within(p), wire # <<>>, Head(wire) = ByteAt(p), kbd_proc_data,
         Code(p) # E0, Code(p) >= 128
  PROVE  Onward(p) /\ Kept /\ Char(p)
<1> DEFINE sc == shiftcode(Looked(p))
<1>1. /\ ~p[2] \/ (p[1] = "Pause" /\ p[3] \notin {2, 3})
      /\ sc = IF p[1] = "Pause" THEN IF p[3] \in {2, 5} THEN {"CTL"} ELSE {}
              ELSE IF Final(p) THEN Signal(p) ELSE {}
      /\ p[1] = "Pause" => p[2] /\ p[3] \in 1..6 /\ ~Esc(p) /\ (Final(p) <=> p[3] = 6)
  BY CodeTable DEF Reads
<1>2. ReleasedCode(Code(p)) = Looked(p)
  BY DEF ReleasedCode, Looked, Within
<1>3. /\ shift' = shift \ (sc \cup {"E0ESC"}) /\ result' = "NO" /\ whole' = Final(p) /\ caps' = caps
      /\ down' = IF ~Final(p) THEN down ELSE IF p[2] THEN down \cup {p[1]} ELSE down \ {p[1]}
  <2>1. Head(wire).code = Code(p) /\ Head(wire).key = p[1] /\ Head(wire).press = p[2] /\ Head(wire).last = Final(p)
    BY DEF ByteAt
  <2>2. shift' = AfterRelease(Code(p)) /\ result' = "NO"
    BY <2>1 DEF kbd_proc_data
  <2>3. /\ whole' = Final(p) /\ caps' = IF p[2] /\ p[1] = "CapsLock" THEN 1 - caps ELSE caps
        /\ down' = IF ~Final(p) THEN down ELSE IF p[2] THEN down \cup {p[1]} ELSE down \ {p[1]}
    BY <2>1 DEF kbd_proc_data
  <2>4. ~(p[2] /\ p[1] = "CapsLock")
    BY <1>1
  <2> QED BY <1>2, <2>2, <2>3, <2>4 DEF AfterRelease
<1>4. sc \subseteq Modifiers
  BY <1>1 DEF Signal, Modifiers
<1> HIDE DEF sc
<1>5. shift' \cap Modifiers = (shift \cap Modifiers) \ sc /\ "E0ESC" \notin shift'
  BY <1>3 DEF Modifiers
<1>6. Kept
  BY <1>3, <1>4 DEF Kept, Types, Modifiers
<1>7. CASE Final(p)
  <2>1. Ghost(p) = {}
    BY <1>1, <1>7 DEF Ghost
  <2>2. IF p[2] THEN On \subseteq On' ELSE On \ {Modifier(p[1])} \subseteq On'
    BY <1>3, <1>7, KeyKnown
  <2>3. ~p[2] => sc = Signal(p)
    BY <1>1, <1>7
  <2>4. shift' \cap Modifiers \subseteq On'
    BY <1>5, <2>1, <2>2, <2>3 DEF Within, Signal
  <2>5. Idle'
    BY <1>3, <1>5, <1>7, <2>4 DEF Idle
  <2> QED BY <1>3, <1>6, <1>7, <2>5 DEF Onward, Char
<1>8. CASE ~Final(p)
  <2>1. Ahead(p)[1] = p[1] /\ Ahead(p)[3] = p[3] + 1 /\ p[3] \in Nat /\ p[3] >= 1 /\ ~Esc(Ahead(p))
    BY <1>8, AheadIs
  <2>2. On' = On
    BY <1>3, <1>8 DEF On
  <2>3. Ghost(p) \ sc \subseteq Ghost(Ahead(p))
    <3>1. CASE p[1] # "Pause"
      BY <3>1 DEF Ghost
    <3>2. CASE p[1] = "Pause" /\ p[3] = 5
      BY <1>1, <3>2 DEF Ghost
    <3>3. CASE p[1] = "Pause" /\ p[3] # 5
      BY <1>1, <2>1, <3>3 DEF Ghost
    <3> QED BY <3>1, <3>2, <3>3
  <2>4. shift' \cap Modifiers \subseteq On' \cup Ghost(Ahead(p))
    BY <1>5, <2>2, <2>3 DEF Within
  <2>5. Ahead(p)[3] # 1
    BY <2>1
  <2>6. Within(Ahead(p))'
    BY <1>3, <1>5, <1>8, <2>1, <2>4, <2>5 DEF Within
  <2> QED BY <1>3, <1>6, <1>8, <2>6 DEF Onward, Char
<1> QED BY <1>7, <1>8

\* A byte without it: a key was pressed, or a part of Pause.
LEMMA PressRead ==
  ASSUME Types, NEW p \in Places, Within(p), wire # <<>>, Head(wire) = ByteAt(p), kbd_proc_data,
         Code(p) # E0, Code(p) < 128
  PROVE  Onward(p) /\ Kept /\ Char(p)
<1> DEFINE sc == shiftcode(Looked(p))
           tc == togglecode(Looked(p))
           c  == charcode(shift', Looked(p))
<1>0. Code(p) \in 0..255 /\ ~(Code(p) >= 128)
  <2>1. Code(p) \in 0..255
    BY CodeTable DEF Reads
  <2>2. \A x \in 0..255 : x < 128 => ~(x >= 128)
    OBVIOUS
  <2> QED BY <2>1, <2>2
<1>1. /\ p[2] /\ (p[1] = "Pause" => p[3] \in {2, 3})
      /\ sc = IF p[1] = "Pause" THEN IF p[3] \in {2, 5} THEN {"CTL"} ELSE {}
              ELSE IF Final(p) THEN Signal(p) ELSE {}
      /\ p[1] = "Pause" => ~Final(p)
      /\ tc = IF p[1] = "CapsLock" THEN {"CAPSLOCK"}
               ELSE IF p[1] = "Pause" /\ p[3] = 3 THEN {"NUMLOCK"} ELSE {}
      /\ Looked(p) = 30 <=> p[1] = "A"
      /\ Looked(p) # 83
      /\ Looked(p) = 211 <=> p[1] = "Delete" /\ Final(p)
      /\ p[1] \in {"A", "CapsLock"} => Final(p)
  <2>1. p[2] /\ (p[1] = "Pause" => p[3] \in {2, 3})
    BY <1>0, CodeTable DEF Reads, Places
  <2>2. p[1] = "Pause" => ~Final(p)
    BY <2>1, CodeTable DEF Reads
  <2> QED BY <2>1, <2>2, CodeTable DEF Reads
<1>2. PressedCode(Code(p)) = Looked(p)
  BY <1>0 DEF PressedCode, Looked, Within
<1>3. /\ shift' = Toggle((shift \ {"E0ESC"}) \cup sc, tc)
      /\ whole' = Final(p)
      /\ down' = IF ~Final(p) THEN down ELSE down \cup {p[1]}
      /\ caps' = IF p[1] = "CapsLock" THEN 1 - caps ELSE caps
  <2>1. Head(wire).code = Code(p) /\ Head(wire).key = p[1] /\ Head(wire).press = p[2] /\ Head(wire).last = Final(p)
    BY DEF ByteAt
  <2>2. shift' = AfterPress(Code(p))
    BY <1>0, <2>1 DEF kbd_proc_data
  <2>3. /\ whole' = Final(p) /\ caps' = IF p[2] /\ p[1] = "CapsLock" THEN 1 - caps ELSE caps
        /\ down' = IF ~Final(p) THEN down ELSE IF p[2] THEN down \cup {p[1]} ELSE down \ {p[1]}
    BY <2>1 DEF kbd_proc_data
  <2> QED BY <1>1, <1>2, <2>2, <2>3 DEF AfterPress
<1>4. LET d == IF "CAPSLOCK" \in shift' THEN Swapped(c) ELSE c
      IN  result' = IF {"CTL", "ALT"} \subseteq shift' /\ d = "KEY_DEL" THEN "reboot" ELSE d
  BY <1>0, <1>2 DEF kbd_proc_data, ByteAt, Decoded, RebootFlags
<1>5. sc \subseteq Modifiers /\ tc \subseteq {"CAPSLOCK", "NUMLOCK"}
  BY <1>1 DEF Signal, Modifiers
<1>6. c = IF p[1] = "A" THEN IF "CTL" \in shift' THEN "^A" ELSE IF "SHIFT" \in shift' THEN "A" ELSE "a"
          ELSE IF p[1] = "Delete" /\ Final(p) THEN "KEY_DEL" ELSE "NO"
  BY <1>1 DEF charcode
<1> HIDE DEF sc, tc, c
<1>7. shift' \cap Modifiers = (shift \cap Modifiers) \cup sc /\ "E0ESC" \notin shift'
  BY <1>3, <1>5 DEF Modifiers, Toggle
<1>8. shift' \subseteq Modifiers \cup {"CAPSLOCK", "NUMLOCK", "E0ESC"}
  BY <1>3, <1>5 DEF Types, Modifiers, Toggle
<1>9. caps' = 1 <=> "CAPSLOCK" \in shift'
  <2>1. "CAPSLOCK" \notin sc
    BY <1>5 DEF Modifiers
  <2>2. "CAPSLOCK" \in tc <=> p[1] = "CapsLock"
    BY <1>1
  <2>3. "CAPSLOCK" \in shift' <=> ("CAPSLOCK" \in shift <=> "CAPSLOCK" \notin tc)
    BY <1>3, <2>1 DEF Toggle
  <2>4. caps \in {0, 1} /\ (caps = 1 <=> "CAPSLOCK" \in shift)
    BY DEF Types
  <2> QED BY <1>3, <2>2, <2>3, <2>4
<1>10. Kept
  <2>1. c \in {"NO", "a", "A", "^A", "KEY_DEL"}
    BY <1>6
  <2>2. Swapped(c) \in {"NO", "a", "A", "^A", "KEY_DEL"}
    BY <2>1 DEF Swapped
  <2> QED BY <1>4, <1>8, <1>9, <2>1, <2>2 DEF Kept
<1>11. Char(p)
  <2>1. CASE p[1] = "A"
    <3>1. sc = {} /\ Ghost(p) = {} /\ Final(p) /\ p[2] /\ caps' = caps
      BY <1>1, <1>3, <2>1 DEF Signal, Modifier, Modifiers, Ghost
    <3>2. "CTL" \in shift' => "CTL" \in On
      BY <1>7, <3>1 DEF Within, Modifiers
    <3>3. "SHIFT" \in shift' => "SHIFT" \in On
      BY <1>7, <3>1 DEF Within, Modifiers
    <3>4. c = IF "CTL" \in shift' THEN "^A" ELSE IF "SHIFT" \in shift' THEN "A" ELSE "a"
      BY <1>6, <2>1
    <3>5. result' = IF "CAPSLOCK" \in shift' THEN Swapped(c) ELSE c
      BY <1>4, <3>4 DEF Swapped
    <3>6. caps \in {0, 1}
      BY DEF Types
    <3> QED BY <1>9, <2>1, <3>1, <3>2, <3>3, <3>4, <3>5, <3>6 DEF Char, Swapped
  <2>2. CASE p[1] = "Delete" /\ Final(p)
    <3>1. c = "KEY_DEL" /\ p[2]
      BY <1>1, <1>6, <2>2
    <3>2. result' \in {"KEY_DEL", "reboot"} /\ (result' = "reboot" => {"CTL", "ALT"} \subseteq shift')
      BY <1>4, <3>1 DEF Swapped
    <3>3. sc = {} /\ Ghost(p) = {}
      BY <1>1, <2>2 DEF Signal, Modifier, Modifiers, Ghost
    <3>4. {"CTL", "ALT"} \subseteq shift' => {"CTL", "ALT"} \subseteq On
      BY <1>7, <3>3 DEF Within, Modifiers
    <3> QED BY <2>2, <3>1, <3>2, <3>4 DEF Char
  <2>3. CASE p[1] # "A" /\ ~(p[1] = "Delete" /\ Final(p))
    <3>1. c = "NO"
      BY <1>6, <2>3
    <3>2. result' = "NO"
      BY <1>4, <3>1 DEF Swapped
    <3> QED BY <3>2 DEF Char
  <2> QED BY <2>1, <2>2, <2>3
<1>12. CASE Final(p)
  <2>1. Ghost(p) = {}
    BY <1>1, <1>12 DEF Ghost
  <2>2. On' = On \cup {Modifier(p[1])}
    BY <1>1, <1>3, <1>12, KeyKnown
  <2>3. sc \subseteq {Modifier(p[1])}
    BY <1>1, <1>12 DEF Signal
  <2>4. shift' \cap Modifiers \subseteq On'
    BY <1>7, <2>1, <2>2, <2>3 DEF Within
  <2>5. Idle'
    BY <1>3, <1>7, <1>12, <2>4 DEF Idle
  <2> QED BY <1>10, <1>11, <1>12, <2>5 DEF Onward
<1>13. CASE ~Final(p)
  <2>1. Ahead(p)[1] = p[1] /\ Ahead(p)[3] = p[3] + 1 /\ p[3] \in Nat /\ p[3] >= 1 /\ ~Esc(Ahead(p))
    BY <1>13, AheadIs
  <2>2. On' = On
    BY <1>3, <1>13 DEF On
  <2>3. Ghost(p) \cup sc \subseteq Ghost(Ahead(p))
    <3>1. CASE p[1] # "Pause"
      BY <1>1, <1>13, <3>1 DEF Ghost
    <3>2. CASE p[1] = "Pause"
      BY <1>1, <2>1, <3>2 DEF Ghost
    <3> QED BY <3>1, <3>2
  <2>4. shift' \cap Modifiers \subseteq On' \cup Ghost(Ahead(p))
    BY <1>7, <2>2, <2>3 DEF Within
  <2>5. Ahead(p)[3] # 1
    BY <2>1
  <2>6. Within(Ahead(p))'
    BY <1>3, <1>7, <1>13, <2>1, <2>4, <2>5 DEF Within
  <2> QED BY <1>10, <1>11, <1>13, <2>6 DEF Onward
<1> QED BY <1>12, <1>13
\* Each byte that is read leads on to the next, and says no more than its key.
LEMMA ByteRead ==
  ASSUME Types, NEW p \in Places, Within(p), wire # <<>>, Head(wire) = ByteAt(p), kbd_proc_data
  PROVE  Onward(p) /\ Kept /\ Char(p)
<1>1. Code(p) \in 0..255
  BY CodeTable DEF Reads
<1>2. Code(p) = E0 \/ Code(p) >= 128 \/ Code(p) < 128
  <2>1. \A x \in 0..255 : x >= 128 \/ x < 128
    OBVIOUS
  <2> QED BY <1>1, <2>1
<1> QED BY <1>2, EscapeRead, ReleaseRead, PressRead

\* The bytes of a code, one after the other.
LEMMA Spelled ==
  ASSUME NEW k \in Keys, NEW press \in BOOLEAN
  PROVE  LET codes == IF press THEN Make[k] ELSE Break[k]
             w == Bytes(k, codes, press)
             f == [i \in 1..Len(codes) |-> <<k, press, i>>]
         IN  Spells(w, f) /\ w \in Seq(Wired) /\ Len(w) \in Nat /\ (f # <<>> => f[1][3] = 1)
<1> DEFINE codes == IF press THEN Make[k] ELSE Break[k]
           n == Len(codes)
           w == Bytes(k, codes, press)
           f == [i \in 1..n |-> <<k, press, i>>]
<1>1. n \in Nat
  <2>1. k \in AllKeys
    BY KeysAssumption
  <2> QED BY <2>1 DEF Make, Break, AllKeys
<1>2. \A i \in 1..n : Codes(<<k, press, i>>) = codes
  BY DEF Codes
<1> HIDE DEF codes
<1>3. \A i \in 1..n : <<k, press, i>> \in Places /\ Code(<<k, press, i>>) = codes[i] /\ (Final(<<k, press, i>>) <=> i = n)
  BY <1>1, <1>2 DEF Places, Code, Final
<1>4. \A i \in 1..n : w[i] = ByteAt(f[i]) /\ f[i] = <<k, press, i>> /\ f[i] \in Places
  <2> TAKE i \in 1..n
  <2>1. f[i] = <<k, press, i>>
    OBVIOUS
  <2>2. w[i] = [code |-> codes[i], key |-> k, press |-> press, last |-> i = Len(codes)]
    BY DEF Bytes
  <2> HIDE DEF w, f
  <2> QED BY <1>2, <1>3, <2>1, <2>2 DEF ByteAt, Final, Code
<1>5. w = [i \in 1..n |-> w[i]]
  BY DEF Bytes
<1>6. \A i \in 1..n : w[i] \in Wired
  <2> TAKE i \in 1..n
  <2> HIDE DEF w, f
  <2>1. f[i] \in Places /\ w[i] = ByteAt(f[i])
    BY <1>4
  <2>2. Code(f[i]) \in 0..255
    BY <2>1, CodeTable DEF Reads
  <2>3. f[i][1] \in Keys /\ f[i][2] \in BOOLEAN
    BY <2>1 DEF Places
  <2>4. \A p \in Places : Code(p) \in 0..255 /\ p[1] \in Keys /\ p[2] \in BOOLEAN => ByteAt(p) \in Wired
    <3>1. \A c \in 0..255, x \in Keys, y, z \in BOOLEAN : [code |-> c, key |-> x, press |-> y, last |-> z] \in Wired
      BY SMT DEF Wired
    <3> TAKE p \in Places
    <3> HAVE Code(p) \in 0..255 /\ p[1] \in Keys /\ p[2] \in BOOLEAN
    <3>2. Final(p) \in BOOLEAN
      BY Zenon DEF Final
    <3> QED BY <3>1, <3>2, Zenon DEF ByteAt
  <2> QED BY <2>1, <2>2, <2>3, <2>4
<1>7. w \in Seq(Wired) /\ Len(w) = n
  <2> HIDE DEF w
  <2> QED BY <1>1, <1>5, <1>6
<1>8. f \in Seq(Places) /\ Len(f) = n
  BY <1>1, <1>3
<1>9. ASSUME NEW i \in 1..n
      PROVE  IF Final(f[i]) THEN i < n => f[i + 1][3] = 1 ELSE i < n /\ f[i + 1] = Ahead(f[i])
  <2>1. CASE i = n
    BY <1>1, <1>3, <1>4, <2>1
  <2>2. CASE i # n
    <3>1. i < n /\ i + 1 \in 1..n /\ ~Final(f[i])
      BY <1>1, <1>3, <1>4, <2>2
    <3>2. f[i + 1] = Ahead(f[i])
      BY <3>1 DEF Ahead
    <3> QED BY <3>1, <3>2
  <2> QED BY <2>1, <2>2
<1>10. f # <<>> => f[1][3] = 1
  BY <1>1, <1>8
<1> HIDE DEF w, f
<1>11. Spells(w, f)
  BY <1>4, <1>7, <1>8, <1>9 DEF Spells
<1> QED BY <1>1, <1>7, <1>10, <1>11 DEF w, f, codes

\* One spelling after another is a spelling.
LEMMA SpellsOn ==
  ASSUME NEW v, NEW w, NEW f, NEW g, v \in Seq(Wired), w \in Seq(Wired), Spells(v, f), Spells(w, g), g # <<>> => g[1][3] = 1
  PROVE  Spells(v \o w, f \o g)
<1>1. /\ f \in Seq(Places) /\ g \in Seq(Places) /\ Len(f) = Len(v) /\ Len(g) = Len(w)
      /\ Len(f) \in Nat /\ Len(g) \in Nat
  BY DEF Spells
<1>2. f \o g \in Seq(Places) /\ Len(f \o g) = Len(f) + Len(g) /\ Len(v \o w) = Len(f) + Len(g)
  BY <1>1, ConcatProperties
<1>3. \A i \in 1..Len(f) : (f \o g)[i] = f[i] /\ (v \o w)[i] = v[i]
  BY <1>1
<1>4. \A i \in 1..Len(g) : (f \o g)[i + Len(f)] = g[i] /\ (v \o w)[i + Len(f)] = w[i]
  BY <1>1
<1>5. ASSUME NEW i \in 1..(Len(f) + Len(g))
      PROVE  /\ (v \o w)[i] = ByteAt((f \o g)[i])
             /\ IF Final((f \o g)[i]) THEN i < Len(f) + Len(g) => (f \o g)[i + 1][3] = 1
                ELSE i < Len(f) + Len(g) /\ (f \o g)[i + 1] = Ahead((f \o g)[i])
  <2>1. CASE i < Len(f)
    <3>1. i \in 1..Len(f) /\ i + 1 \in 1..Len(f)
      BY <1>1, <2>1
    <3>2. v[i] = ByteAt(f[i]) /\ IF Final(f[i]) THEN f[i + 1][3] = 1 ELSE f[i + 1] = Ahead(f[i])
      BY <2>1, <3>1 DEF Spells
    <3>3. i < Len(f) + Len(g)
      BY <1>1, <2>1
    <3> QED BY <1>3, <3>1, <3>2, <3>3
  <2>2. CASE i = Len(f)
    <3>1. i \in 1..Len(f)
      BY <1>1, <2>2
    <3>2. v[i] = ByteAt(f[i]) /\ Final(f[i])
      BY <1>1, <2>2, <3>1 DEF Spells
    <3>3. ASSUME i < Len(f) + Len(g)
          PROVE  (f \o g)[i + 1][3] = 1
      <4>1. 1 \in 1..Len(g) /\ i + 1 = 1 + Len(f) /\ g # <<>>
        BY <1>1, <2>2, <3>3
      <4> QED BY <1>4, <4>1
    <3> QED BY <1>3, <3>1, <3>2, <3>3
  <2>3. CASE i > Len(f)
    <3> DEFINE j == i - Len(f)
    <3>1. j \in 1..Len(g) /\ i = j + Len(f)
      BY <1>1, <2>3
    <3>2. w[j] = ByteAt(g[j]) /\ IF Final(g[j]) THEN j < Len(g) => g[j + 1][3] = 1 ELSE j < Len(g) /\ g[j + 1] = Ahead(g[j])
      BY <3>1 DEF Spells
    <3>3. (i < Len(f) + Len(g) <=> j < Len(g)) /\ (j < Len(g) => j + 1 \in 1..Len(g) /\ i + 1 = (j + 1) + Len(f))
      BY <1>1, <3>1
    <3> HIDE DEF j
    <3> QED BY <1>4, <3>1, <3>2, <3>3
  <2> QED BY <1>1, <2>1, <2>2, <2>3
<1> QED BY <1>2, <1>5 DEF Spells

\* What is left when the first byte was read.
LEMMA SpellsTail ==
  ASSUME NEW w, NEW f, w \in Seq(Wired), w # <<>>, Spells(w, f)
  PROVE  /\ f # <<>> /\ f[1] \in Places /\ Head(w) = ByteAt(f[1])
         /\ Spells(Tail(w), Tail(f))
         /\ IF Tail(f) = <<>> THEN Final(f[1])
            ELSE Tail(f)[1] = f[2] /\ f[2] \in Places
                 /\ IF Final(f[1]) THEN f[2][3] = 1 ELSE f[2] = Ahead(f[1])
<1>1. f \in Seq(Places) /\ Len(f) = Len(w) /\ Len(f) \in Nat /\ Len(f) >= 1 /\ f # <<>>
  BY DEF Spells
<1>2. f[1] \in Places /\ Head(w) = ByteAt(f[1])
  BY <1>1 DEF Spells
<1>3. /\ Tail(f) \in Seq(Places) /\ Len(Tail(f)) = Len(f) - 1 /\ Len(Tail(w)) = Len(f) - 1
      /\ \A i \in 1..(Len(f) - 1) : Tail(f)[i] = f[i + 1] /\ Tail(w)[i] = w[i + 1]
  BY <1>1
<1>4. ASSUME NEW i \in 1..(Len(f) - 1)
      PROVE  /\ Tail(w)[i] = ByteAt(Tail(f)[i])
             /\ IF Final(Tail(f)[i]) THEN i < Len(f) - 1 => Tail(f)[i + 1][3] = 1
                ELSE i < Len(f) - 1 /\ Tail(f)[i + 1] = Ahead(Tail(f)[i])
  <2>1. i + 1 \in 1..Len(f) /\ (i < Len(f) - 1 <=> i + 1 < Len(f)) /\ (i < Len(f) - 1 => i + 1 \in 1..(Len(f) - 1))
    BY <1>1
  <2>2. /\ w[i + 1] = ByteAt(f[i + 1])
        /\ IF Final(f[i + 1]) THEN i + 1 < Len(f) => f[(i + 1) + 1][3] = 1
           ELSE i + 1 < Len(f) /\ f[(i + 1) + 1] = Ahead(f[i + 1])
    BY <2>1 DEF Spells
  <2> QED BY <1>3, <2>1, <2>2
<1>5. Spells(Tail(w), Tail(f))
  BY <1>1, <1>3, <1>4 DEF Spells
<1>6. CASE Len(f) = 1
  <2>0. Len(Tail(f)) = 0
    BY <1>3, <1>6
  <2>1. Tail(f) = <<>>
    BY <1>3, <2>0, EmptySeq
  <2>2. Final(f[1])
    BY <1>1, <1>6 DEF Spells
  <2> QED BY <1>1, <1>2, <1>5, <2>1, <2>2
<1>7. CASE Len(f) > 1
  <2>1. 1 \in 1..(Len(f) - 1) /\ 2 \in 1..Len(f)
    BY <1>1, <1>7
  <2>2. Len(Tail(f)) # 0
    <3>1. \A m \in Nat : m > 1 => m - 1 # 0
      OBVIOUS
    <3> QED BY <1>1, <1>3, <1>7, <3>1, Zenon
  <2>3. \A s : s = <<>> => Len(s) = 0
    OBVIOUS
  <2>4. Tail(f) # <<>>
    <3> SUFFICES ASSUME Tail(f) = <<>> PROVE FALSE
      OBVIOUS
    <3> QED BY <2>2, <2>3
  <2>5. Tail(f)[1] = f[1 + 1] /\ 1 + 1 = 2
    BY <1>3, <2>1
  <2>6. f[2] \in Places
    BY <1>1, <2>1
  <2>7. IF Final(f[1]) THEN f[2][3] = 1 ELSE f[2] = Ahead(f[1])
    <3>1. 1 \in 1..Len(f) /\ 1 + 1 = 2 /\ 1 < Len(f)
      BY <1>1, <1>7
    <3>2. IF Final(f[1]) THEN 1 < Len(f) => f[1 + 1][3] = 1 ELSE 1 < Len(f) /\ f[1 + 1] = Ahead(f[1])
      BY <3>1 DEF Spells
    <3> QED BY <3>1, <3>2
  <2> QED BY <1>1, <1>2, <1>5, <2>4, <2>5, <2>6, <2>7
<1> QED BY <1>1, <1>6, <1>7

-----------------------------------------------------------------------------
(* The steps.                                                              *)

\* No byte is on the way yet.
LEMMA KeyboardStarts == KeyboardInit => KInv
<1> SUFFICES ASSUME KeyboardInit PROVE KInv
  OBVIOUS
<1>1. Types
  BY DEF KeyboardInit, Types
<1>2. Spells(wire, <<>>) /\ Idle
  BY DEF KeyboardInit, Spells, Idle
<1> QED BY <1>1, <1>2 DEF KInv, WireInv

\* A key goes down or up: its code waits behind the others.
LEMMA KeyTouched ==
  ASSUME KInv, NEW k \in Keys, Press(k) \/ Release(k)
  PROVE  KInv'
<1>1. PICK press \in BOOLEAN :
        /\ wire' = wire \o Bytes(k, IF press THEN Make[k] ELSE Break[k], press)
        /\ held' \in {held \cup {k}, held \ {k}}
        /\ UNCHANGED <<shift, result, down, whole, caps>>
  <2>1. CASE Press(k)
    <3>1. wire' = wire \o Bytes(k, IF TRUE THEN Make[k] ELSE Break[k], TRUE)
      BY <2>1 DEF Press
    <3> QED BY <2>1, <3>1 DEF Press
  <2>2. CASE Release(k)
    <3>1. wire' = wire \o Bytes(k, IF FALSE THEN Make[k] ELSE Break[k], FALSE)
      BY <2>2 DEF Release
    <3> QED BY <2>2, <3>1 DEF Release
  <2> QED BY <2>1, <2>2
<1> DEFINE w == Bytes(k, IF press THEN Make[k] ELSE Break[k], press)
<1>2. PICK g : Spells(w, g) /\ w \in Seq(Wired) /\ (g # <<>> => g[1][3] = 1)
  BY Spelled
<1> HIDE DEF w
<1>3. wire' = wire \o w /\ wire \in Seq(Wired)
  BY <1>1 DEF w, KInv, Types
<1>4. PICK f : Spells(wire, f) /\ IF f = <<>> THEN Idle ELSE Within(f[1])
  BY DEF KInv, WireInv
<1>5. Spells(wire', f \o g)
  BY <1>2, <1>3, <1>4, SpellsOn
<1>6. Types'
  <2>1. wire' \in Seq(Wired)
    BY <1>2, <1>3, ConcatProperties
  <2>2. held' \subseteq Keys
    BY <1>1 DEF KInv, Types
  <2> QED BY <1>1, <2>1, <2>2 DEF KInv, Types
<1>7. On' = On
  BY <1>1 DEF On
<1>8. f \in Seq(Places) /\ g \in Seq(Places)
  BY <1>2, <1>4 DEF Spells
<1>9. CASE f = <<>>
  <2>1. f \o g = g
    BY <1>8, <1>9
  <2>2. Idle'
    BY <1>1, <1>4, <1>7, <1>9 DEF Idle
  <2>3. g # <<>> => g[1] \in Places /\ g[1][3] = 1
    BY <1>2, <1>8
  <2>4. g # <<>> => Within(g[1])'
    <3> SUFFICES ASSUME g # <<>> PROVE Within(g[1])'
      OBVIOUS
    <3>1. Within(g[1])
      BY <1>4, <1>9, <2>3, StartIsIdle
    <3> QED BY <1>1, <1>7, <3>1 DEF Within
  <2> QED BY <1>5, <1>6, <2>1, <2>2, <2>4 DEF KInv, WireInv
<1>10. CASE f # <<>>
  <2>1. f \o g # <<>> /\ (f \o g)[1] = f[1]
    BY <1>8, <1>10
  <2>2. Within(f[1])'
    BY <1>1, <1>4, <1>7, <1>10 DEF Within
  <2> QED BY <1>5, <1>6, <2>1, <2>2 DEF KInv, WireInv
<1> QED BY <1>9, <1>10

\* A byte is decoded: what is left of the wire spells codes, too.
LEMMA Decoding ==
  ASSUME KInv, kbd_proc_data
  PROVE  KInv' /\ \E p \in Places : Head(wire) = ByteAt(p) /\ Char(p)
<1>1. PICK f : Spells(wire, f) /\ IF f = <<>> THEN Idle ELSE Within(f[1])
  BY DEF KInv, WireInv
<1>2. Types /\ wire \in Seq(Wired) /\ wire # <<>> /\ wire' = Tail(wire) /\ held' = held
  BY DEF KInv, Types, kbd_proc_data
<1> DEFINE p == f[1]
<1>3. /\ f # <<>> /\ p \in Places /\ Head(wire) = ByteAt(p)
      /\ Spells(wire', Tail(f))
      /\ IF Tail(f) = <<>> THEN Final(p)
         ELSE Tail(f)[1] = f[2] /\ f[2] \in Places
              /\ IF Final(p) THEN f[2][3] = 1 ELSE f[2] = Ahead(p)
  BY <1>1, <1>2, SpellsTail
<1> HIDE DEF p
<1>4. Onward(p) /\ Kept /\ Char(p)
  BY <1>1, <1>2, <1>3, ByteRead DEF p
<1>5. Types'
  <2>1. wire' \in Seq(Wired)
    BY <1>2
  <2>2. p[1] \in Keys
    BY <1>3 DEF Places
  <2>3. Head(wire).key = p[1] /\ Head(wire).last \in BOOLEAN
    <3>1. Head(wire) \in Wired
      BY <1>2, HeadTailProperties
    <3> QED BY <1>3, <3>1 DEF ByteAt, Wired
  <2>4. down' \subseteq Keys
    BY <1>2, <2>2, <2>3 DEF kbd_proc_data, Types
  <2>5. whole' \in BOOLEAN /\ caps' \in {0, 1}
    BY <1>2, <2>3 DEF kbd_proc_data, Types
  <2> QED BY <1>2, <1>4, <2>1, <2>4, <2>5 DEF Types, Kept
<1>6. WireInv'
  <2>1. CASE Tail(f) = <<>>
    BY <1>3, <1>4, <2>1 DEF Onward, WireInv
  <2>2. CASE Tail(f) # <<>> /\ Final(p)
    <3>1. Idle' /\ f[2] \in Places /\ f[2][3] = 1 /\ Tail(f)[1] = f[2]
      BY <1>3, <1>4, <2>2 DEF Onward
    <3>2. Within(f[2])'
      BY <3>1 DEF Within, Idle, Esc, Ghost
    <3> QED BY <1>3, <2>2, <3>1, <3>2 DEF WireInv
  <2>3. CASE Tail(f) # <<>> /\ ~Final(p)
    <3>1. Within(Ahead(p))' /\ f[2] = Ahead(p) /\ Tail(f)[1] = f[2]
      BY <1>3, <1>4, <2>3 DEF Onward
    <3> QED BY <1>3, <2>3, <3>1 DEF WireInv
  <2> QED BY <2>1, <2>2, <2>3
<1> QED BY <1>3, <1>4, <1>5, <1>6 DEF KInv

\* Every step keeps what waits the codes of keys, with the decoder at the first of them.
LEMMA KeyboardStep == KInv /\ [KeyboardNext]_kbVars => KInv'
<1> SUFFICES ASSUME KInv, [KeyboardNext]_kbVars PROVE KInv'
  OBVIOUS
<1>1. CASE UNCHANGED kbVars
  BY <1>1 DEF kbVars, KInv, Types, WireInv, Idle, Within, On
<1> QED BY <1>1, KeyTouched, Decoding DEF KeyboardNext

\* The invariant has the properties of states.
LEMMA StateSound == KInv => KeyboardTypeOK /\ NoStuckModifier
<1> SUFFICES ASSUME KInv PROVE KeyboardTypeOK /\ NoStuckModifier
  OBVIOUS
<1>1. \A i \in DOMAIN wire : wire[i] \in Wired
  BY DEF KInv, Types
<1>2. KeyboardTypeOK
  BY <1>1 DEF KInv, Types, Wired, KeyboardTypeOK
<1>3. whole => Idle
  <2> SUFFICES ASSUME whole PROVE Idle
    OBVIOUS
  <2>1. PICK f : Spells(wire, f) /\ IF f = <<>> THEN Idle ELSE Within(f[1])
    BY DEF KInv, WireInv
  <2>2. CASE f # <<>>
    <3>1. f[1] \in Places /\ f[1][3] = 1
      BY <2>1, <2>2 DEF Spells, Within
    <3> QED BY <2>1, <2>2, <3>1, StartIsIdle
  <2> QED BY <2>1, <2>2
<1>4. NoStuckModifier
  BY <1>3 DEF NoStuckModifier, Idle, On
<1> QED BY <1>2, <1>4

\* ... and its steps those of steps.
LEMMA StepSound ==
  ASSUME KInv, [KeyboardNext]_kbVars
  PROVE  /\ Decodes /\ result' # "NO" =>
              \E p \in Places : Head(wire) = ByteAt(p) /\ Char(p)
         /\ result' = "reboot" /\ result # "reboot" =>
              \E p \in Places : Head(wire) = ByteAt(p) /\ Char(p)
<1>1. CASE kbd_proc_data
  BY <1>1, Decoding
<1>2. CASE UNCHANGED kbVars \/ \E k \in Keys : Press(k) \/ Release(k)
  <2>1. result' = result
    BY <1>2 DEF kbVars, Press, Release
  <2>2. ~Decodes
    <3> SUFFICES ASSUME Decodes PROVE FALSE
      OBVIOUS
    <3>1. wire \in Seq(Wired) /\ wire # <<>> /\ Len(wire') = Len(wire) - 1 /\ Len(wire) \in Nat
      BY DEF KInv, Types, Decodes
    <3>2. CASE UNCHANGED kbVars
      BY <3>1, <3>2 DEF kbVars
    <3>3. ASSUME NEW k \in Keys, Press(k) \/ Release(k)
          PROVE  FALSE
      <4>1. PICK w : w \in Seq(Wired) /\ Len(w) \in Nat /\ wire' = wire \o w
        <5>1. CASE Press(k)
          <6>1. wire' = wire \o Bytes(k, IF TRUE THEN Make[k] ELSE Break[k], TRUE)
            BY <5>1 DEF Press
          <6> QED BY <6>1, Spelled
        <5>2. CASE Release(k)
          <6>1. wire' = wire \o Bytes(k, IF FALSE THEN Make[k] ELSE Break[k], FALSE)
            BY <5>2 DEF Release
          <6> QED BY <6>1, Spelled
        <5> QED BY <3>3, <5>1, <5>2
      <4>2. Len(wire') = Len(wire) + Len(w)
        BY <3>1, <4>1
      <4> QED BY <3>1, <4>1, <4>2
    <3> QED BY <1>2, <3>2, <3>3
  <2> QED BY <2>1, <2>2
<1> QED BY <1>1, <1>2 DEF KeyboardNext

\* kbd_proc_data() follows the codes of any keyboard of these keys, however many
\* bytes wait: no modifier stays on after its key, a character and a reboot come only
\* from the keys that stand for them, and it reboots only with both Ctrl and Alt.
THEOREM KeysAreRead == KeyboardSpec => KeyboardSound
<1>1. KeyboardSpec => []KInv
  BY KeyboardStarts, KeyboardStep, PTL DEF KeyboardSpec
<1>2. KeyboardSpec => CharsOfKeys
  <2>1. KInv /\ [KeyboardNext]_kbVars =>
          [ LET b == Head(wire)
                OnKey(m) == \E k \in down : Modifier(k) = m
            IN  Decodes /\ result' # "NO" =>
                  /\ b.press /\ b.last
                  /\ result' \in {"KEY_DEL", "reboot"} => b.key = "Delete"
                  /\ result' \in {"a", "A", "^A"} => b.key = "A"
                  /\ result' = "^A" => OnKey("CTL")
                  /\ result' = "A" /\ caps = 0 => OnKey("SHIFT")
                  /\ result' = "a" /\ caps = 1 => OnKey("SHIFT")
                  /\ result' # "." ]_kbVars
    <3> SUFFICES ASSUME KInv, [KeyboardNext]_kbVars, Decodes, result' # "NO"
                 PROVE  LET b == Head(wire)
                            OnKey(m) == \E k \in down : Modifier(k) = m
                        IN  /\ b.press /\ b.last
                            /\ result' \in {"KEY_DEL", "reboot"} => b.key = "Delete"
                            /\ result' \in {"a", "A", "^A"} => b.key = "A"
                            /\ result' = "^A" => OnKey("CTL")
                            /\ result' = "A" /\ caps = 0 => OnKey("SHIFT")
                            /\ result' = "a" /\ caps = 1 => OnKey("SHIFT")
                            /\ result' # "."
      OBVIOUS
    <3>1. PICK p \in Places : Head(wire) = ByteAt(p) /\ Char(p)
      BY StepSound
    <3>2. Head(wire).key = p[1] /\ Head(wire).press = p[2] /\ Head(wire).last = Final(p)
      BY <3>1 DEF ByteAt
    <3> QED BY <3>1, <3>2 DEF Char, On
  <2> QED BY <1>1, <2>1, PTL DEF KeyboardSpec, CharsOfKeys
<1>3. KeyboardSpec => RebootNeedsAllThree
  <2>1. KInv /\ [KeyboardNext]_kbVars =>
          [ result' = "reboot" /\ result # "reboot" =>
              /\ Head(wire).key = "Delete" /\ Head(wire).press
              /\ \A m \in {"CTL", "ALT"} : \E k \in down : Modifier(k) = m ]_kbVars
    <3> SUFFICES ASSUME KInv, [KeyboardNext]_kbVars, result' = "reboot", result # "reboot"
                 PROVE  /\ Head(wire).key = "Delete" /\ Head(wire).press
                        /\ \A m \in {"CTL", "ALT"} : \E k \in down : Modifier(k) = m
      OBVIOUS
    <3>1. PICK p \in Places : Head(wire) = ByteAt(p) /\ Char(p)
      BY StepSound
    <3>2. Head(wire).key = p[1] /\ Head(wire).press = p[2]
      BY <3>1 DEF ByteAt
    <3>3. p[1] = "Delete" /\ p[2] /\ {"CTL", "ALT"} \subseteq On
      BY <3>1 DEF Char
    <3> QED BY <3>2, <3>3 DEF On
  <2> QED BY <1>1, <2>1, PTL DEF KeyboardSpec, RebootNeedsAllThree
<1>4. KeyboardSpec => [](KeyboardTypeOK /\ NoStuckModifier)
  BY <1>1, StateSound, PTL
<1> QED BY <1>2, <1>3, <1>4 DEF KeyboardSound

-----------------------------------------------------------------------------
(* The line editor, for any size of the buffer and any prompt.  The        *)
(* terminal is a record of column and row, as in LineEditor.               *)

Shades == Letters \cup {Blank}

\* The cursor is never further than the prompt and the line together, and before the
\* line everything behind it is blank.
CursorInv ==
  /\ reading => col <= start + length
  /\ ~reading => col <= MaxPrompt /\ \A p \in Columns : p >= col => row[p] = Blank

LineInv == LineEditorTypeOK /\ CursorInv /\ EchoMatchesLine

LEMMA Widths ==
  /\ BUFLEN \in Nat /\ BUFLEN >= 1 /\ MaxPrompt \in Nat
  /\ Columns = 0..(MaxPrompt + BUFLEN - 1) /\ BufIdx = 0..(BUFLEN - 1)
BY BufAssumption DEF Columns, BufIdx

\* Letters are no controls, and what is neither is drawn.
LEMMA CharsApart == "BS" \notin Shades /\ "NL" \notin Shades /\ Blank \in Shades
BY DEF Shades, Letters, Blank

\* What the terminal does with a character it draws, with a backspace and at an erasure.
LEMMA Drawn ==
  ASSUME NEW t, NEW c \in Shades
  PROVE  Shown(t, c) = [col |-> t.col + 1, row |-> [t.row EXCEPT ![t.col] = c]]
BY CharsApart DEF Shown

LEMMA ShadesPass ==
  ASSUME NEW c \in Shades
  PROVE  SevenBits(c) = c
BY DEF SevenBits, Shades, Letters, Blank

\* The eighth bit dropped, a character is a letter or one of two controls.
LEMMA SevenBitsType ==
  ASSUME NEW c \in AllInputs, c \notin {"BS", "DEL", "NL", "CR", "ESC"}
  PROVE  SevenBits(c) \in Letters \cup {"BS", "NL"}
BY DEF SevenBits, AllInputs, Letters

\* BS, blank, BS: the cursor is one to the left, and the character there is gone.
LEMMA Erased ==
  ASSUME col \in Columns, row \in [Columns -> Shades], col > 0
  PROVE  cons_putc(cons_putc(cons_putc(Now, "BS"), Blank), "BS")
           = [col |-> col - 1, row |-> [row EXCEPT ![col - 1] = Blank]]
<1>1. cons_putc(Now, "BS") = [col |-> col - 1, row |-> row]
  BY DEF cons_putc, SevenBits, Shown, Now
<1>2. cons_putc([col |-> col - 1, row |-> row], Blank)
        = [col |-> (col - 1) + 1, row |-> [row EXCEPT ![col - 1] = Blank]]
  BY Drawn, ShadesPass, CharsApart DEF cons_putc
<1>3. (col - 1) + 1 = col
  BY Widths
<1>4. cons_putc([col |-> col, row |-> [row EXCEPT ![col - 1] = Blank]], "BS")
        = [col |-> col - 1, row |-> [row EXCEPT ![col - 1] = Blank]]
  BY DEF cons_putc, SevenBits, Shown
<1> QED
  BY <1>1, <1>2, <1>3, <1>4

\* At the left edge the cursor stays, and the first character is gone.
LEMMA ErasedAtEdge ==
  ASSUME row \in [Columns -> Shades], col = 0
  PROVE  cons_putc(cons_putc(cons_putc(Now, "BS"), Blank), "BS")
           = [col |-> 0, row |-> [row EXCEPT ![0] = Blank]]
<1>1. cons_putc(Now, "BS") = [col |-> 0, row |-> row]
  BY DEF cons_putc, SevenBits, Shown, Now
<1>2. cons_putc([col |-> 0, row |-> row], Blank) = [col |-> 1, row |-> [row EXCEPT ![0] = Blank]]
  BY Drawn, ShadesPass, CharsApart DEF cons_putc
<1>3. cons_putc([col |-> 1, row |-> [row EXCEPT ![0] = Blank]], "BS")
        = [col |-> 0, row |-> [row EXCEPT ![0] = Blank]]
  BY DEF cons_putc, SevenBits, Shown
<1> QED
  BY <1>1, <1>2, <1>3

LEMMA LineInit == LineEditorInit => LineInv
<1> SUFFICES ASSUME LineEditorInit PROVE LineInv
  OBVIOUS
<1>1. 0 \in Columns /\ 0 \in BufIdx /\ 0 \in 0..MaxPrompt
  BY Widths
<1>2. row \in [Columns -> Letters \cup {Blank}] /\ before = row
  BY DEF LineEditorInit
<1>3. line \in [BufIdx -> AllInputs \cup {"NUL"}]
  BY DEF LineEditorInit
<1>4. LineEditorTypeOK
  BY <1>1, <1>2, <1>3 DEF LineEditorInit, LineEditorTypeOK
<1> QED
  BY <1>4, Widths DEF LineEditorInit, LineInv, CursorInv, EchoMatchesLine

\* What the kernel writes keeps the row blank behind the cursor.
LEMMA OutputStep ==
  ASSUME LineInv, NEW c \in Letters \cup {"NL"}, cputchar(c)
  PROVE  LineInv'
<1> USE DEF LineInv
<1>1. ~reading /\ UNCHANGED <<line, length, reading, start, before, plain>>
  BY DEF cputchar
<1>2. col \in Columns /\ row \in [Columns -> Shades]
  BY DEF LineEditorTypeOK, Shades
<1>3. CASE c = "NL"
  <2>1. col' = 0 /\ row' = [p \in Columns |-> Blank]
    BY <1>3 DEF cputchar, Show, cons_putc, SevenBits, Shown
  <2> QED
    BY <1>1, <2>1, Widths DEF LineEditorTypeOK, CursorInv, EchoMatchesLine
<1>4. CASE c \in Letters
  <2>1. col < MaxPrompt /\ c \in Shades
    BY <1>4 DEF cputchar, Letters, Shades
  <2>2. col' = col + 1 /\ row' = [row EXCEPT ![col] = c]
    BY <2>1, Drawn, ShadesPass DEF cputchar, Show, cons_putc, Now
  <2>3. col' \in Columns /\ col' <= MaxPrompt
    BY <1>2, <2>1, <2>2, Widths
  <2>4. row' \in [Columns -> Shades]
    BY <1>2, <2>1, <2>2
  <2>5. \A p \in Columns : p >= col' => row'[p] = Blank
    BY <1>1, <1>2, <2>2, Widths DEF CursorInv
  <2> QED
    BY <1>1, <2>3, <2>4, <2>5 DEF LineEditorTypeOK, CursorInv, EchoMatchesLine, Shades
<1> QED
  BY <1>3, <1>4

\* The line begins where the cursor is.
LEMMA BeginStep ==
  ASSUME LineInv, StartReading
  PROVE  LineInv'
<1> USE DEF LineInv, StartReading
<1>1. start' = col /\ start' \in 0..MaxPrompt /\ 0 \in BufIdx
  BY Widths DEF LineEditorTypeOK, CursorInv
<1>2. LineEditorTypeOK'
  BY <1>1 DEF LineEditorTypeOK
<1>3. EchoMatchesLine'
  BY <1>1, Widths DEF EchoMatchesLine, CursorInv, LineEditorTypeOK
<1>4. CursorInv'
  BY <1>1, Widths DEF CursorInv
<1> QED
  BY <1>2, <1>3, <1>4

\* A character that is stored is shown, one that is not is not.
LEMMA InsertStep ==
  ASSUME LineInv, reading, NEW c \in AllInputs, c \notin {"BS", "DEL", "NL", "CR", "ESC"},
         Insert(c)
  PROVE  LineInv'
<1> USE DEF LineInv
<1> DEFINE s == SevenBits(c)
<1>1. CASE ~Fits
  BY <1>1 DEF Insert, LineEditorTypeOK, CursorInv, EchoMatchesLine
<1>2. CASE Fits
  <2>1. /\ line' = [line EXCEPT ![length] = c] /\ length' = length + 1
        /\ plain' = (plain /\ s \notin {"BS", "NL"})
        /\ UNCHANGED <<reading, start, before>>
        /\ col' = Shown(Now, s).col /\ row' = Shown(Now, s).row
    BY <1>2 DEF Insert, Show, cons_putc
  <2>2. /\ col \in Columns /\ row \in [Columns -> Shades] /\ length \in BufIdx
        /\ length < BUFLEN - 1 /\ start \in 0..MaxPrompt /\ col <= start + length
    BY <1>2 DEF LineEditorTypeOK, CursorInv, Fits, Shades
  <2>3. s \in Letters \cup {"BS", "NL"}
    BY SevenBitsType
  <2> HIDE DEF s
  <2>4. /\ col' \in Columns /\ row' \in [Columns -> Shades] /\ col' <= col + 1
        /\ s \in Letters => col' = col + 1 /\ row' = [row EXCEPT ![col] = s]
    <3>1. CASE s = "BS"
      BY <2>1, <2>2, <3>1, Widths DEF Shown, Now, Letters
    <3>2. CASE s = "NL"
      BY <2>1, <2>2, <3>2, Widths DEF Shown, Now, Letters, Shades
    <3>3. CASE s \in Letters
      <4>1. s \in Shades
        BY <3>3 DEF Shades
      <4>2. col' = col + 1 /\ row' = [row EXCEPT ![col] = s]
        BY <2>1, <4>1, Drawn DEF Now
      <4> QED
        BY <2>2, <4>1, <4>2, Widths
    <3> QED
      BY <2>3, <3>1, <3>2, <3>3
  <2>5. LineEditorTypeOK' /\ CursorInv'
    <3>1. length' \in BufIdx /\ col' <= start' + length'
      BY <2>1, <2>2, <2>4, Widths
    <3>2. line' \in [BufIdx -> AllInputs \cup {"NUL"}]
      BY <2>1 DEF LineEditorTypeOK
    <3>3. plain' \in BOOLEAN /\ reading' = reading
      BY <2>1 DEF LineEditorTypeOK
    <3> QED
      BY <2>1, <2>4, <3>1, <3>2, <3>3 DEF LineEditorTypeOK, CursorInv, Shades
  <2>6. EchoMatchesLine'
    <3>1. SUFFICES ASSUME plain'
                   PROVE  /\ col' = start + length'
                          /\ \A p \in Columns :
                               row'[p] = IF p < start THEN before[p]
                                         ELSE IF p < col' THEN SevenBits(line'[p - start]) ELSE Blank
      BY <2>1 DEF EchoMatchesLine
    <3>2. plain /\ s \in Letters
      BY <2>1, <2>3, <3>1
    <3>3. col = start + length
      BY <3>2 DEF EchoMatchesLine
    <3>4. ASSUME NEW p \in Columns
          PROVE  row'[p] = IF p < start THEN before[p]
                           ELSE IF p < col' THEN SevenBits(line'[p - start]) ELSE Blank
      <4>1. row[p] = IF p < start THEN before[p]
                     ELSE IF p < col THEN SevenBits(line[p - start]) ELSE Blank
        BY <3>2 DEF EchoMatchesLine
      <4>2. CASE p = col
        <5>1. row'[p] = s /\ p - start = length /\ line'[length] = c
          BY <2>1, <2>2, <2>4, <3>2, <3>3, <4>2, Widths DEF LineEditorTypeOK
        <5> QED
          BY <2>2, <2>4, <3>2, <3>3, <4>2, <5>1, Widths DEF s
      <4>3. CASE p < col
        <5>1. row'[p] = row[p] /\ p < col'
          BY <2>2, <2>4, <3>2, <4>3, Widths
        <5>2. p >= start => p - start \in BufIdx /\ p - start # length
          BY <2>2, <3>3, <4>3, Widths
        <5>3. p >= start => line'[p - start] = line[p - start]
          BY <2>1, <5>2 DEF LineEditorTypeOK
        <5> QED
          BY <2>2, <4>1, <4>3, <5>1, <5>3, Widths
      <4>4. CASE p > col
        BY <2>2, <2>4, <3>2, <3>3, <4>1, <4>4, Widths
      <4> QED
        BY <2>2, <4>2, <4>3, <4>4, Widths
    <3> QED
      BY <2>1, <2>2, <2>4, <3>2, <3>3, <3>4, Widths
  <2> QED
    BY <2>5, <2>6
<1> QED
  BY <1>1, <1>2

\* An erased character is off the terminal and off the line.
LEMMA EraseStep ==
  ASSUME LineInv, reading, Erase
  PROVE  LineInv'
<1> USE DEF LineInv
<1>1. CASE ~Erasable
  BY <1>1 DEF Erase, LineEditorTypeOK, CursorInv, EchoMatchesLine
<1>2. CASE Erasable
  <2>1. /\ col \in Columns /\ row \in [Columns -> Shades] /\ length \in BufIdx
        /\ length > 0 /\ start \in 0..MaxPrompt /\ col <= start + length
    BY <1>2 DEF LineEditorTypeOK, CursorInv, Erasable, Shades
  <2>2. length' = length - 1 /\ UNCHANGED <<line, reading, start, before, plain>>
    BY <1>2 DEF Erase
  <2>3. Show(cons_putc(cons_putc(cons_putc(Now, "BS"), Blank), "BS"))
    BY <1>2 DEF Erase
  <2>4. ASSUME col > 0
        PROVE  col' = col - 1 /\ row' = [row EXCEPT ![col - 1] = Blank]
    <3>1. Show([col |-> col - 1, row |-> [row EXCEPT ![col - 1] = Blank]])
      BY ONLY <2>1, <2>3, <2>4, Erased
    <3> QED
      BY <3>1 DEF Show
  <2>5. ASSUME col = 0
        PROVE  col' = 0 /\ row' = [row EXCEPT ![0] = Blank]
    <3>1. Show([col |-> 0, row |-> [row EXCEPT ![0] = Blank]])
      BY ONLY <2>1, <2>3, <2>5, ErasedAtEdge
    <3> QED
      BY <3>1 DEF Show
  <2>6. col' \in Columns /\ row' \in [Columns -> Shades] /\ col' <= start + length'
    BY <2>1, <2>2, <2>4, <2>5, Widths, CharsApart
  <2>7. LineEditorTypeOK' /\ CursorInv'
    <3>1. length' \in BufIdx
      BY <2>1, <2>2, Widths
    <3> QED
      BY <2>2, <2>6, <3>1 DEF LineEditorTypeOK, CursorInv, Shades
  <2>8. EchoMatchesLine'
    <3>1. SUFFICES ASSUME plain
                   PROVE  /\ col' = start + length'
                          /\ \A p \in Columns :
                               row'[p] = IF p < start THEN before[p]
                                         ELSE IF p < col' THEN SevenBits(line[p - start]) ELSE Blank
      BY <2>2 DEF EchoMatchesLine
    <3>2. col = start + length
      BY <3>1 DEF EchoMatchesLine
    <3>3. col' = col - 1 /\ row' = [row EXCEPT ![col - 1] = Blank]
      BY <2>1, <2>4, <3>2, Widths
    <3>4. ASSUME NEW p \in Columns
          PROVE  row'[p] = IF p < start THEN before[p]
                           ELSE IF p < col' THEN SevenBits(line[p - start]) ELSE Blank
      <4>1. row[p] = IF p < start THEN before[p]
                     ELSE IF p < col THEN SevenBits(line[p - start]) ELSE Blank
        BY <3>1 DEF EchoMatchesLine
      <4>2. CASE p = col - 1
        BY <2>1, <3>2, <3>3, <4>2, Widths
      <4>3. CASE p # col - 1
        BY <2>1, <3>2, <3>3, <4>1, <4>3, Widths
      <4> QED
        BY <4>2, <4>3
    <3> QED
      BY <2>1, <2>2, <3>2, <3>3, <3>4, Widths
  <2> QED
    BY <2>7, <2>8
<1> QED
  BY <1>1, <1>2

\* The line ends with a new row.
LEMMA FinishStep ==
  ASSUME LineInv, Finish
  PROVE  LineInv'
<1> USE DEF LineInv
<1>1. col' = 0 /\ row' = [p \in Columns |-> Blank]
  BY DEF Finish, Show, cons_putc, SevenBits, Shown
<1>2. LineEditorTypeOK'
  <2>1. col' \in Columns /\ row' \in [Columns -> Letters \cup {Blank}]
    BY <1>1, Widths
  <2>2. line' \in [BufIdx -> AllInputs \cup {"NUL"}]
    BY DEF Finish, LineEditorTypeOK
  <2> QED
    BY <2>1, <2>2 DEF Finish, LineEditorTypeOK
<1> QED
  BY <1>1, <1>2, Widths DEF Finish, CursorInv, EchoMatchesLine

\* Every step keeps the row in order.
LEMMA LineStep == LineInv /\ [LineEditorNext]_leVars => LineInv'
<1> SUFFICES ASSUME LineInv, [LineEditorNext]_leVars PROVE LineInv'
  OBVIOUS
<1>1. ASSUME NEW c \in Letters \cup {"NL"}, cputchar(c)
      PROVE  LineInv'
  BY <1>1, OutputStep
<1>2. CASE StartReading
  BY <1>2, BeginStep
<1>3. CASE UNCHANGED leVars
  BY <1>3 DEF leVars, LineInv, LineEditorTypeOK, CursorInv, EchoMatchesLine
<1>4. ASSUME NEW c \in Inputs, Key(c)
      PROVE  LineInv'
  <2>1. c \in AllInputs /\ reading
    BY <1>4, InputAssumption DEF Key
  <2>2. CASE c \in {"BS", "DEL"}
    BY <1>4, <2>1, <2>2, EraseStep DEF Key
  <2>3. CASE c \in {"NL", "CR"}
    BY <1>4, <2>3, FinishStep DEF Key
  <2>4. CASE c = "ESC"
    BY <1>3, <1>4, <2>4 DEF Key
  <2>5. CASE c \notin {"BS", "DEL", "NL", "CR", "ESC"}
    BY <1>4, <2>1, <2>5, InsertStep DEF Key
  <2> QED
    BY <2>2, <2>3, <2>4, <2>5
<1> QED
  BY <1>1, <1>2, <1>3, <1>4 DEF LineEditorNext

\* For a buffer of any size and any prompt: what readline() has in its buffer is what
\* the terminal shows behind the prompt, through erasures and at the end of the buffer,
\* and the line leaves room for its terminating zero.
THEOREM LineIsShown == LineEditorSpec => []TerminalShowsLine
<1>1. LineInv => TerminalShowsLine
  BY DEF LineInv, TerminalShowsLine
<1> QED
  BY <1>1, LineInit, LineStep, PTL DEF LineEditorSpec

-----------------------------------------------------------------------------
(* The monitor, for any lines, commands and MAXARGS.                       *)

LineLen == Len(typed)
Parsing == {"gobble", "scan", "lookup"}

\* The white space that has been passed is cut away, and nothing else changed.
CutInv ==
  /\ Len(chars) = LineLen + 1 /\ chars \in Seq(Characters \cup {"0"}) /\ chars[LineLen + 1] = "0"
  /\ \A i \in 1..LineLen : chars[i] = IF typed[i] = "w" /\ i < at_char THEN "0" ELSE typed[i]

\* The word that starts at i ends before e.
EndsBefore(i, e) ==
  /\ e \in (i + 1)..(LineLen + 1) /\ (e = LineLen + 1 \/ typed[e] = "w")
  /\ \A j \in i..(e - 1) : typed[j] # "w"

\* The arguments so far are the words so far, in order.
ArgvInv ==
  /\ \A k \in 1..Len(argv) : argv[k] \in Starts(typed) /\ argv[k] <= at_char
  /\ \A k \in 2..Len(argv) : argv[k - 1] < argv[k]
  /\ \A k \in 1..Len(argv) : (mnPc = "scan" => k < Len(argv)) => \E e \in 1..at_char : EndsBefore(argv[k], e)
  /\ \A i \in Starts(typed) : i < at_char => \E k \in 1..Len(argv) : argv[k] = i

\* Between words the next character is at the start of one, or white, or the end.
GobbleInv ==
  mnPc = "gobble" =>
    /\ at_char = 1 \/ typed[at_char - 1] = "w" \/ at_char = LineLen + 1 \/ typed[at_char] = "w"
    /\ \A k \in 1..Len(argv) : argv[k] < at_char

\* Within a word that began at the last argument.
ScanInv ==
  mnPc = "scan" =>
    /\ Len(argv) > 0
    /\ \A j \in argv[Len(argv)]..(at_char - 1) : typed[j] # "w"

MonitorInv ==
  /\ mnPc \in Parsing \cup {"readline", "exit"}
  /\ typed \in Seq(Characters) /\ argv \in Seq(Nat) /\ Len(argv) < MAXARGS
  /\ mnPc \in Parsing =>
       /\ at_char \in 1..(LineLen + 1) /\ CutInv /\ ArgvInv /\ GobbleInv /\ ScanInv
  /\ mnPc = "lookup" => at_char = LineLen + 1

LEMMA MonitorStarts == MonitorInit => MonitorInv
BY ArgsAssumption DEF MonitorInit, MonitorInv, Parsing

\* The character at hand has not been cut.
LEMMA AtHand ==
  ASSUME MonitorInv, mnPc \in Parsing
  PROVE  /\ LineLen \in Nat /\ at_char \in 1..(LineLen + 1) /\ Len(argv) \in Nat
         /\ IF at_char = LineLen + 1 THEN chars[at_char] = "0"
            ELSE at_char \in 1..LineLen /\ chars[at_char] = typed[at_char] /\ chars[at_char] # "0"
<1>1. LineLen \in Nat /\ at_char \in 1..(LineLen + 1) /\ CutInv /\ typed \in Seq(Characters) /\ Len(argv) \in Nat
  BY DEF MonitorInv, LineLen
<1>2. ASSUME at_char # LineLen + 1
      PROVE  at_char \in 1..LineLen /\ chars[at_char] = typed[at_char] /\ chars[at_char] # "0"
  <2>1. at_char \in 1..LineLen
    BY <1>1, <1>2
  <2>2. chars[at_char] = typed[at_char]
    BY <1>1, <2>1 DEF CutInv
  <2>3. typed[at_char] \in Characters
    BY <1>1, <2>1 DEF LineLen
  <2> QED BY <2>1, <2>2, <2>3, LinesAssumption
<1> QED BY <1>1, <1>2 DEF CutInv

LEMMA StartsAre ==
  ASSUME LineLen \in Nat, NEW i
  PROVE  i \in Starts(typed) <=> i \in 1..LineLen /\ typed[i] # "w" /\ (i = 1 \/ typed[i - 1] = "w")
BY DEF Starts, LineLen

LEMMA ReadLineInv == ASSUME MonitorInv, ReadLine PROVE MonitorInv'
<1> USE DEF ReadLine
<1>1. /\ typed' \in Seq(Characters) /\ chars' = Append(typed', "0") /\ at_char' = 1 /\ argv' = <<>>
      /\ mnPc' = "gobble" /\ Len(typed') \in Nat
  BY LinesAssumption
<1>2. CutInv'
  <2>1. /\ Len(chars') = Len(typed') + 1 /\ chars' \in Seq(Characters \cup {"0"})
        /\ chars'[Len(typed') + 1] = "0" /\ \A i \in 1..Len(typed') : chars'[i] = typed'[i]
    BY <1>1
  <2> QED BY <1>1, <2>1 DEF CutInv, LineLen
<1>3. ArgvInv' /\ GobbleInv' /\ ScanInv'
  BY <1>1 DEF ArgvInv, GobbleInv, ScanInv, Starts
<1> QED BY <1>1, <1>2, <1>3, ArgsAssumption DEF MonitorInv, Parsing, LineLen

LEMMA GobbleStep == ASSUME MonitorInv, Gobble PROVE MonitorInv'
<1> USE DEF Gobble
<1>1. /\ mnPc = "gobble" /\ mnPc' = "gobble" /\ UNCHANGED <<typed, argv>> /\ LineLen' = LineLen
      /\ at_char' = at_char + 1 /\ chars' = [chars EXCEPT ![at_char] = "0"] /\ chars[at_char] = "w"
  BY DEF Cut, LineLen
<1>2. LineLen \in Nat /\ at_char \in 1..LineLen /\ typed[at_char] = "w" /\ CutInv /\ ArgvInv /\ GobbleInv
  BY <1>1, AtHand DEF MonitorInv, Parsing
<1>3. CutInv'
  BY <1>1, <1>2 DEF CutInv
<1>4. ArgvInv'
  <2>1. \A i \in Starts(typed) : i < at_char + 1 => i < at_char
    BY <1>2 DEF Starts, LineLen
  <2>2. \A k \in 1..Len(argv) : argv[k] <= at_char + 1
    BY <1>2 DEF ArgvInv, Starts
  <2>3. \A k \in 1..Len(argv) : (mnPc' = "scan" => k < Len(argv)) => \E e \in 1..(at_char + 1) : EndsBefore(argv[k], e)
    BY <1>1, <1>2 DEF ArgvInv
  <2>4. \A i, e : EndsBefore(i, e)' <=> EndsBefore(i, e)
    BY <1>1 DEF EndsBefore
  <2> QED BY <1>1, <1>2, <2>1, <2>2, <2>3, <2>4 DEF ArgvInv
<1>5. GobbleInv' /\ ScanInv'
  <2>1. \A k \in 1..Len(argv) : argv[k] \in Nat /\ argv[k] < at_char
    BY <1>1, <1>2 DEF GobbleInv, ArgvInv, Starts
  <2> QED BY <1>1, <1>2, <2>1 DEF GobbleInv, ScanInv
<1> QED BY <1>1, <1>2, <1>3, <1>4, <1>5 DEF MonitorInv, Parsing

LEMMA NextArgInv == ASSUME MonitorInv, NextArg PROVE MonitorInv'
<1>1. /\ mnPc = "gobble" /\ chars[at_char] # "w" /\ UNCHANGED <<typed, chars, at_char>> /\ LineLen' = LineLen
  BY DEF NextArg, LineLen
<1>2. LineLen \in Nat /\ at_char \in 1..(LineLen + 1) /\ CutInv /\ ArgvInv /\ GobbleInv /\ Len(argv) \in Nat
      /\ typed \in Seq(Characters) /\ argv \in Seq(Nat)
  BY <1>1, AtHand DEF MonitorInv, Parsing
<1>3. \A i, e : EndsBefore(i, e)' <=> EndsBefore(i, e)
  BY <1>1 DEF EndsBefore
<1>4. CutInv'
  BY <1>1, <1>2 DEF CutInv
<1>5. CASE mnPc' = "lookup" /\ UNCHANGED argv /\ chars[at_char] = "0"
  <2>1. at_char = LineLen + 1
    BY <1>1, <1>5, AtHand DEF Parsing
  <2>2. ArgvInv'
    BY <1>1, <1>2, <1>3, <1>5 DEF ArgvInv
  <2> QED BY <1>1, <1>2, <1>4, <1>5, <2>1, <2>2 DEF MonitorInv, GobbleInv, ScanInv, Parsing
<1>6. CASE mnPc' = "readline" /\ UNCHANGED argv
  BY <1>1, <1>6 DEF MonitorInv, Parsing
<1>7. CASE mnPc' = "scan" /\ argv' = Append(argv, at_char) /\ ~TooMany(Len(argv)) /\ chars[at_char] # "0"
  <2>1. at_char \in 1..LineLen /\ typed[at_char] # "w"
    BY <1>1, <1>7, AtHand DEF Parsing
  <2>2. at_char \in Starts(typed)
    BY <1>1, <1>2, <2>1, StartsAre DEF GobbleInv
  <2>3. argv' \in Seq(Nat) /\ Len(argv') = Len(argv) + 1 /\ Len(argv') \in Nat /\ argv'[Len(argv')] = at_char
        /\ \A k \in 1..Len(argv) : argv'[k] = argv[k]
    BY <1>2, <1>7
  <2>4. Len(argv') < MAXARGS
    BY <1>2, <1>7, <2>3, ArgsAssumption DEF TooMany, MonitorInv
  <2>5. \A k \in 1..Len(argv') : argv'[k] \in Starts(typed) /\ argv'[k] <= at_char
    <3> SUFFICES ASSUME NEW k \in 1..Len(argv') PROVE argv'[k] \in Starts(typed) /\ argv'[k] <= at_char
      OBVIOUS
    <3>1. CASE k = Len(argv')
      BY <1>2, <2>2, <2>3, <3>1
    <3>2. CASE k # Len(argv')
      <4>1. k \in 1..Len(argv)
        BY <1>2, <2>3, <3>2
      <4>2. argv'[k] = argv[k]
        BY <2>3, <4>1
      <4>3. argv[k] \in Starts(typed) /\ argv[k] <= at_char
        BY <1>2, <4>1 DEF ArgvInv
      <4> QED BY <4>2, <4>3
    <3> QED BY <3>1, <3>2
  <2>6. \A k \in 2..Len(argv') : argv'[k - 1] < argv'[k]
    <3> SUFFICES ASSUME NEW k \in 2..Len(argv') PROVE argv'[k - 1] < argv'[k]
      OBVIOUS
    <3>1. CASE k = Len(argv')
      <4>1. k - 1 \in 1..Len(argv) /\ argv'[k - 1] = argv[k - 1]
        BY <1>2, <2>3, <3>1
      <4>2. argv[k - 1] < at_char
        BY <1>1, <1>2, <4>1 DEF GobbleInv
      <4> QED BY <2>3, <3>1, <4>1, <4>2
    <3>2. CASE k # Len(argv')
      <4>1. k \in 2..Len(argv) /\ k \in 1..Len(argv) /\ k - 1 \in 1..Len(argv)
        BY <1>2, <2>3, <3>2
      <4>2. argv'[k - 1] = argv[k - 1] /\ argv'[k] = argv[k]
        BY <2>3, <4>1
      <4> QED BY <1>2, <4>1, <4>2 DEF ArgvInv
    <3> QED BY <3>1, <3>2
  <2>7. \A k \in 1..Len(argv) : \E e \in 1..at_char : EndsBefore(argv[k], e)
    BY <1>1, <1>2 DEF ArgvInv
  <2>8. \A i \in Starts(typed) : i < at_char => \E k \in 1..Len(argv') : argv'[k] = i
    <3> SUFFICES ASSUME NEW i \in Starts(typed), i < at_char
                 PROVE  \E k \in 1..Len(argv') : argv'[k] = i
      OBVIOUS
    <3>1. PICK k \in 1..Len(argv) : argv[k] = i
      BY <1>2 DEF ArgvInv
    <3>2. argv'[k] = i
      BY <2>3, <3>1
    <3>3. k \in 1..Len(argv')
      BY <1>2, <2>3
    <3> QED BY <3>2, <3>3
  <2>9. ArgvInv'
    BY <1>1, <1>2, <1>3, <1>7, <2>3, <2>5, <2>6, <2>7, <2>8 DEF ArgvInv
  <2>10. ScanInv' /\ GobbleInv'
    BY <1>1, <1>2, <1>7, <2>3 DEF ScanInv, GobbleInv
  <2> QED BY <1>1, <1>2, <1>4, <1>7, <2>3, <2>4, <2>9, <2>10 DEF MonitorInv, Parsing
<1> QED BY <1>5, <1>6, <1>7 DEF NextArg

LEMMA ScanArgInv == ASSUME MonitorInv, ScanArg PROVE MonitorInv'
<1>1. mnPc = "scan" /\ UNCHANGED <<typed, chars, argv>> /\ LineLen' = LineLen
  BY DEF ScanArg, LineLen
<1>2. LineLen \in Nat /\ at_char \in 1..(LineLen + 1) /\ CutInv /\ ArgvInv /\ ScanInv /\ Len(argv) \in Nat
      /\ typed \in Seq(Characters) /\ argv \in Seq(Nat)
  BY <1>1, AtHand DEF MonitorInv, Parsing
<1>3. \A i, e : EndsBefore(i, e)' <=> EndsBefore(i, e)
  BY <1>1 DEF EndsBefore
<1> DEFINE newest == argv[Len(argv)]
<1>4. /\ Len(argv) \in 1..Len(argv) /\ newest \in 1..LineLen /\ newest <= at_char /\ typed[newest] # "w"
      /\ \A j \in newest..(at_char - 1) : typed[j] # "w"
  BY <1>1, <1>2 DEF ScanInv, ArgvInv, Starts, LineLen
<1> HIDE DEF newest
<1>5. CASE mnPc' = "gobble" /\ UNCHANGED at_char /\ chars[at_char] \in {"0", "w"}
  <2>1. at_char = LineLen + 1 \/ typed[at_char] = "w"
    BY <1>1, <1>5, AtHand DEF Parsing
  <2>2. newest < at_char
    BY <1>2, <1>4, <2>1
  <2>3. EndsBefore(newest, at_char)
    BY <1>2, <1>4, <2>1, <2>2 DEF EndsBefore
  <2>4. \A k \in 1..Len(argv) : \E e \in 1..at_char : EndsBefore(argv[k], e)
    <3> SUFFICES ASSUME NEW k \in 1..Len(argv) PROVE \E e \in 1..at_char : EndsBefore(argv[k], e)
      OBVIOUS
    <3>1. CASE k = Len(argv)
      BY <1>2, <2>3, <3>1 DEF newest
    <3>2. CASE k # Len(argv)
      BY <1>2, <3>2 DEF ArgvInv
    <3> QED BY <3>1, <3>2
  <2>5. \A k \in 1..Len(argv) : argv[k] < at_char
    <3> SUFFICES ASSUME NEW k \in 1..Len(argv) PROVE argv[k] < at_char
      OBVIOUS
    <3>1. argv[k] \in 1..LineLen /\ typed[argv[k]] # "w" /\ argv[k] <= at_char
      BY <1>2 DEF ArgvInv, Starts, LineLen
    <3> QED BY <1>2, <2>1, <3>1
  <2>6. ArgvInv'
    BY <1>1, <1>2, <1>3, <1>5, <2>4 DEF ArgvInv
  <2>7. CutInv' /\ GobbleInv' /\ ScanInv'
    BY <1>1, <1>2, <1>5, <2>1, <2>5 DEF CutInv, GobbleInv, ScanInv
  <2> QED BY <1>1, <1>2, <1>5, <2>6, <2>7 DEF MonitorInv, Parsing
<1>6. CASE UNCHANGED mnPc /\ at_char' = at_char + 1 /\ chars[at_char] \notin {"0", "w"}
  <2>1. at_char \in 1..LineLen /\ typed[at_char] # "w"
    BY <1>1, <1>6, AtHand DEF Parsing
  <2>2. \A j \in newest..at_char : typed[j] # "w"
    BY <1>2, <1>4, <2>1
  <2>3. \A i \in Starts(typed) : i < at_char + 1 => \E k \in 1..Len(argv) : argv[k] = i
    <3> SUFFICES ASSUME NEW i \in Starts(typed), i < at_char + 1 PROVE \E k \in 1..Len(argv) : argv[k] = i
      OBVIOUS
    <3>1. i \in 1..LineLen /\ (i = 1 \/ typed[i - 1] = "w")
      BY <1>2, StartsAre
    <3>2. CASE i < at_char
      BY <1>2, <3>2 DEF ArgvInv
    <3>3. CASE i = at_char
      <4>1. i = newest
        BY <1>2, <1>4, <2>2, <3>1, <3>3
      <4> QED BY <1>4, <4>1 DEF newest
    <3> QED BY <2>1, <3>1, <3>2, <3>3
  <2>4. \A k \in 1..Len(argv) : argv[k] \in Starts(typed) /\ argv[k] <= at_char + 1
    BY <1>2, <2>1 DEF ArgvInv, Starts, LineLen
  <2>5. ArgvInv'
    <3>1. \A k \in 1..Len(argv) : (mnPc' = "scan" => k < Len(argv)) => \E e \in 1..(at_char + 1) : EndsBefore(argv[k], e)
      BY <1>1, <1>2, <1>6 DEF ArgvInv
    <3> QED BY <1>1, <1>2, <1>3, <1>6, <2>3, <2>4, <3>1 DEF ArgvInv
  <2>6. CutInv'
    <3>1. \A i \in 1..LineLen : typed[i] = "w" => (i < at_char <=> i < at_char + 1)
      BY <2>1
    <3> QED BY <1>1, <1>2, <1>6, <3>1 DEF CutInv
  <2>7. ScanInv' /\ GobbleInv'
    <3>1. \A j \in newest..((at_char + 1) - 1) : typed[j] # "w"
      BY <2>1, <2>2
    <3> QED BY <1>1, <1>2, <1>6, <3>1 DEF ScanInv, GobbleInv, newest
  <2> QED BY <1>1, <1>2, <1>6, <2>1, <2>5, <2>6, <2>7 DEF MonitorInv, Parsing
<1> QED BY <1>5, <1>6 DEF ScanArg

LEMMA MonitorStep == MonitorInv /\ [MonitorNext]_mnVars => MonitorInv'
<1> SUFFICES ASSUME MonitorInv, [MonitorNext]_mnVars PROVE MonitorInv'
  OBVIOUS
<1>1. CASE Lookup
  BY <1>1 DEF Lookup, MonitorInv, Parsing
<1>2. CASE UNCHANGED mnVars
  BY <1>2 DEF mnVars, MonitorInv, CutInv, ArgvInv, GobbleInv, ScanInv, EndsBefore, LineLen
<1> QED BY <1>1, <1>2, ReadLineInv, GobbleStep, NextArgInv, ScanArgInv DEF MonitorNext

-----------------------------------------------------------------------------
(* What follows.                                                           *)

\* A command finds each argument with the zero behind it, and the word it was.
LEMMA WholeWord ==
  ASSUME MonitorInv, mnPc = "lookup", NEW i \in 1..LineLen, NEW e, EndsBefore(i, e)
  PROVE  Len(StringAt(chars, i)) = Cardinality(WordFrom(typed, i))
<1>1. LineLen \in Nat /\ CutInv /\ at_char = LineLen + 1 /\ typed \in Seq(Characters)
  BY DEF MonitorInv, Parsing, LineLen
<1>2. e \in (i + 1)..(LineLen + 1) /\ \A j \in i..(e - 1) : typed[j] # "w"
  BY DEF EndsBefore
<1>3. chars[e] = "0" /\ \A k \in i..(e - 1) : chars[k] # "0"
  <2>1. chars[e] = "0"
    BY <1>1, <1>2 DEF EndsBefore, CutInv
  <2>2. ASSUME NEW k \in i..(e - 1) PROVE chars[k] # "0"
    <3>1. k \in 1..LineLen /\ typed[k] # "w" /\ typed[k] \in Characters
      BY <1>1, <1>2 DEF LineLen
    <3> QED BY <1>1, <3>1, LinesAssumption DEF CutInv
  <2> QED BY <2>1, <2>2
<1> DEFINE Ends(f) == chars[f] = "0" /\ \A k \in i..(f - 1) : chars[k] # "0"
           end == CHOOSE f \in i..Len(chars) : Ends(f)
<1>4. end = e
  <2>1. e \in i..Len(chars) /\ Ends(e)
    BY <1>1, <1>2, <1>3 DEF CutInv
  <2>2. ASSUME NEW f \in i..Len(chars), Ends(f) PROVE f = e
    <3>1. ~(f < e) /\ ~(e < f)
      BY <1>2, <1>3, <2>1, <2>2
    <3> QED BY <1>2, <3>1
  <2> HIDE DEF Ends
  <2> QED BY <2>1, <2>2
<1>5. StringAt(chars, i) = SubSeq(chars, i, e - 1)
  BY <1>4 DEF StringAt
<1>6. Len(StringAt(chars, i)) = e - i
  BY <1>1, <1>2, <1>5 DEF CutInv
<1>7. WordFrom(typed, i) = i..(e - 1)
  <2>1. \A k \in i..(e - 1) : k \in WordFrom(typed, i)
    BY <1>1, <1>2 DEF WordFrom, LineLen
  <2>2. \A k \in WordFrom(typed, i) : k \in i..(e - 1)
    BY <1>1, <1>2 DEF WordFrom, LineLen, EndsBefore
  <2> QED BY <2>1, <2>2
<1>8. Cardinality(i..(e - 1)) = e - i
  BY <1>2, FS_Interval
<1> QED BY <1>6, <1>7, <1>8

\* For every line, however its words and white space lie, and for every MAXARGS:
\* a command gets the words of the line, whole and in order, and argv[] has room
\* for the NULL behind them.
THEOREM LinesParsed == MonitorSpec => []ArgsWhole
<1>1. MonitorInv => ArgsWhole
  <2> SUFFICES ASSUME MonitorInv, mnPc = "lookup"
               PROVE  /\ {argv[k] : k \in 1..Len(argv)} = Starts(typed)
                      /\ \A k \in 2..Len(argv) : argv[k - 1] < argv[k]
                      /\ \A k \in 1..Len(argv) :
                           Len(StringAt(chars, argv[k])) = Cardinality(WordFrom(typed, argv[k]))
    BY DEF MonitorInv, ArgsWhole, ArgsAreWords, ArgvFits
  <2>1. ArgvInv /\ at_char = LineLen + 1 /\ LineLen \in Nat
    BY DEF MonitorInv, Parsing, LineLen
  <2>2. {argv[k] : k \in 1..Len(argv)} = Starts(typed)
    <3>1. \A k \in 1..Len(argv) : argv[k] \in Starts(typed)
      BY <2>1 DEF ArgvInv
    <3>2. ASSUME NEW i \in Starts(typed) PROVE \E k \in 1..Len(argv) : argv[k] = i
      <4>1. i < at_char
        BY <2>1, StartsAre
      <4> QED BY <2>1, <4>1 DEF ArgvInv
    <3> QED BY <3>1, <3>2
  <2>3. ASSUME NEW k \in 1..Len(argv)
        PROVE  Len(StringAt(chars, argv[k])) = Cardinality(WordFrom(typed, argv[k]))
    <3>1. argv[k] \in 1..LineLen /\ \E e : EndsBefore(argv[k], e)
      BY <2>1 DEF ArgvInv, Starts, LineLen
    <3> QED BY <3>1, WholeWord
  <2> QED BY <2>1, <2>2, <2>3 DEF ArgvInv
<1> QED BY MonitorStarts, MonitorStep, <1>1, PTL DEF MonitorSpec
==============================================================================
