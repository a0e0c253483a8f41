------------------------------ MODULE PmapProofs ------------------------------
(***************************************************************************)
(* The free lists and the descriptors of the physical memory tree, for any *)
(* tree, descriptors and memory map.  list_append() does not write the     *)
(* link back to the new element, so that only the first element of a list  *)
(* can be taken out without harm: under OnlyFirstTaken, which memory above *)
(* BOOT_MEM_SIZE can violate, the lists hold exactly the free pages and no *)
(* descriptor is lost.  If the entries of the memory map fit together, the *)
(* tree says of each page what they say.  If all allocatable memory is     *)
(* boot memory and a pool pays for two lookups, OnlyFirstTaken holds too,  *)
(* and the boot can fail only for want of memory.                          *)
(***************************************************************************)
EXTENDS Pmap, NatInduction, SequenceTheorems, FiniteSetTheorems

-----------------------------------------------------------------------------
(* The lists.  A list is a sequence s of nodes; all of them lead back to   *)
(* the head, because each was the first when it was put in.                *)

ListClass == 0..(MaxClass - 1)

Chain(l, N, c, s) ==
  /\ l[ListHead(c)] = [next |-> IF s = <<>> THEN ListHead(c) ELSE s[1], prev |-> ListHead(c)]
  /\ \A i \in 1..Len(s) :
       l[s[i]] = [next |-> IF i = Len(s) THEN ListHead(c) ELSE s[i + 1], prev |-> ListHead(c)]
  /\ \A i, j \in 1..Len(s) : s[i] = s[j] => i = j
  /\ \A n \in N : (n.class = c /\ l[n] # Self(n)) <=> \E i \in 1..Len(s) : s[i] = n

ListsAre(l, N) ==
  /\ l = [x \in N \cup Heads |-> l[x]]
  /\ \A c \in ListClass : \E s \in Seq(N) : Chain(l, N, c, s)
  /\ \A n \in N : n.class = MaxClass => l[n] = Self(n)

LEMMA PmapClasses ==
  /\ MaxClass \in Nat /\ PoolClass \in Class /\ ConstClass \in Class
  /\ ListClass \subseteq Class /\ ListClass \subseteq Nat /\ Class \subseteq Nat
  /\ \A c \in Class : c \in ListClass \/ c = MaxClass
  /\ \A c \in Class : ClassSize[c] \in Nat /\ ClassSize[c] > 0
  /\ \A c \in Class : c > 0 => c - 1 \in ListClass /\ ClassSize[c] = 2 * ClassSize[c - 1]
<1>1. /\ MaxClass \in Nat /\ PoolClass \in Class /\ ConstClass \in Class
      /\ ClassSize \in [Class -> Nat \ {0}]
      /\ \A c \in 1..MaxClass : ClassSize[c] = 2 * ClassSize[c - 1]
  BY ClassAssumption
<1>2. \A c \in Class : ClassSize[c] \in Nat /\ ClassSize[c] > 0
  BY <1>1
<1>3. \A c \in Class : c \in Nat /\ c <= MaxClass
  BY <1>1 DEF Class
<1> QED BY <1>1, <1>2, <1>3 DEF Class, ListClass

\* A list head is not a node, and there is one for each class.
LEMMA HeadIs ==
  /\ Heads = {ListHead(c) : c \in ListClass}
  /\ \A c \in ListClass : ListHead(c) \notin BlockType
  /\ \A c, d : ListHead(c) = ListHead(d) => c = d
  /\ \A n \in BlockType : n.class \in Class /\ n.addr \in Nat /\ n = Block(n.class, n.addr)
BY DEF Heads, ListClass, ListHead, Block, BlockType

LEMMA ChainKept ==
  ASSUME NEW N \in SUBSET BlockType, NEW l, NEW g, NEW c \in ListClass, NEW s \in Seq(N),
         Chain(l, N, c, s), g[ListHead(c)] = l[ListHead(c)],
         \A n \in N : n.class = c => g[n] = l[n]
  PROVE  Chain(g, N, c, s)
<1>1. \A i \in 1..Len(s) : s[i] \in N
  OBVIOUS
<1>2. \A i \in 1..Len(s) : s[i].class = c
  BY <1>1 DEF Chain
<1> QED BY <1>1, <1>2 DEF Chain

\* Where a node that is on a list and is led to by its predecessor stands.
LEMMA FirstIs ==
  ASSUME NEW N \in SUBSET BlockType, NEW l, ListsAre(l, N), NEW x \in N, l[x] # Self(x),
         l[l[x].prev].next = x
  PROVE  /\ x.class \in ListClass
         /\ \E s \in Seq(N) : Chain(l, N, x.class, s) /\ s # <<>> /\ s[1] = x
<1> DEFINE c == x.class  h == ListHead(c)
<1>1. c \in ListClass
  BY PmapClasses, HeadIs DEF ListsAre
<1>2. PICK s \in Seq(N) : Chain(l, N, c, s)
  BY <1>1 DEF ListsAre
<1>3. PICK i \in 1..Len(s) : s[i] = x
  BY <1>2 DEF Chain
<1>4. l[x].prev = h
  <2> HIDE DEF h
  <2>1. l[s[i]] = [next |-> IF i = Len(s) THEN h ELSE s[i + 1], prev |-> h]
    BY <1>2 DEF Chain, h
  <2> QED BY <1>3, <2>1
<1>5. s # <<>> /\ s[1] = x
  BY <1>2, <1>3, <1>4 DEF Chain
<1> QED BY <1>1, <1>2, <1>5

LEMMA PrevIs ==
  ASSUME NEW N \in SUBSET BlockType, NEW l, ListsAre(l, N), NEW x \in N
  PROVE  l[x].prev \in N \cup Heads
<1>1. CASE l[x] = Self(x)
  BY <1>1 DEF Self
<1>2. CASE l[x] # Self(x)
  <2> DEFINE c == x.class  h == ListHead(c)
  <2>1. c \in ListClass
    BY <1>2, PmapClasses, HeadIs DEF ListsAre
  <2>2. PICK s \in Seq(N) : Chain(l, N, c, s)
    BY <2>1 DEF ListsAre
  <2>3. PICK i \in 1..Len(s) : s[i] = x
    BY <1>2, <2>2 DEF Chain
  <2>4. l[s[i]] = [next |-> IF i = Len(s) THEN h ELSE s[i + 1], prev |-> h]
    BY <2>2 DEF Chain
  <2>5. h \in Heads
    BY <2>1, HeadIs
  <2> HIDE DEF h
  <2> QED BY <2>3, <2>4, <2>5
<1> QED BY <1>1, <1>2

\* list_del() of the first element of a list, or of one that is on none.
LEMMA DelFirst ==
  ASSUME NEW N \in SUBSET BlockType, NEW l, ListsAre(l, N), NEW x \in N,
         l[l[x].prev].next = x, NEW g, g = list_del(l, x)
  PROVE  ListsAre(g, N) /\ g[x] = Self(x) /\ \A n \in N : n # x => g[n] = l[n]
<1> DEFINE p == l[x].prev  q == l[x].next
           l1 == [l EXCEPT ![p].next = q]  l2 == [l1 EXCEPT ![q].prev = p]
<1>1. g = [l2 EXCEPT ![x] = Self(x)]
  BY DEF list_del
<1>2. CASE l[x] = Self(x)
  <2>1. p = x /\ q = x /\ l[x] = [next |-> x, prev |-> x]
    BY <1>2 DEF Self
  <2>2. [l[x] EXCEPT !.next = x] = l[x] /\ [l[x] EXCEPT !.prev = x] = l[x]
    BY <2>1
  <2>3. l1 = l
    <3>1. l1 = [l EXCEPT ![x] = [l[x] EXCEPT !.next = x]]
      BY <2>1
    <3> QED BY <2>2, <3>1 DEF ListsAre
  <2>4. l2 = l
    <3>1. l2 = [l EXCEPT ![x] = [l[x] EXCEPT !.prev = x]]
      BY <2>1, <2>3
    <3> QED BY <2>2, <3>1 DEF ListsAre
  <2>5. g = l
    <3>1. [l EXCEPT ![x] = l[x]] = l
      BY DEF ListsAre
    <3> QED BY <1>1, <1>2, <2>4, <3>1
  <2> QED BY <1>2, <2>5
<1>3. CASE l[x] # Self(x)
  <2> DEFINE c == x.class  h == ListHead(c)
  <2>1. c \in ListClass
    BY <1>3, FirstIs
  <2>2. PICK s \in Seq(N) : Chain(l, N, c, s) /\ s # <<>> /\ s[1] = x
    BY <1>3, FirstIs
  <2>3. h \in Heads /\ h \notin N /\ h \in DOMAIN l /\ x \in DOMAIN l /\ x # h
    BY <2>1, HeadIs DEF ListsAre
  <2>4. Len(s) \in Nat /\ Len(s) >= 1 /\ 1 \in 1..Len(s)
    BY <2>2
  <2>17. Len(s) = 1 \/ Len(s) > 1
    <3>1. \A n \in Nat : n >= 1 => n = 1 \/ n > 1
      OBVIOUS
    <3> QED BY <2>4, <3>1
  <2>5. p = h /\ q = IF Len(s) = 1 THEN h ELSE s[2]
    <3> HIDE DEF h
    <3>1. l[s[1]] = [next |-> IF 1 = Len(s) THEN h ELSE s[1 + 1], prev |-> h]
      BY <2>2, <2>4 DEF Chain, h
    <3>2. 1 + 1 = 2
      OBVIOUS
    <3> QED BY <2>2, <3>1, <3>2
  <2>6. l[h] = [next |-> x, prev |-> h]
    BY <2>2 DEF Chain
  <2>7. Len(s) > 1 => 2 \in 1..Len(s) /\ s[2] \in N /\ s[2] # x /\ s[2] # h /\ s[2] \in DOMAIN l
                      /\ l[s[2]] = [next |-> l[s[2]].next, prev |-> h]
    <3> SUFFICES ASSUME Len(s) > 1
                 PROVE  2 \in 1..Len(s) /\ s[2] \in N /\ s[2] # x /\ s[2] # h /\ s[2] \in DOMAIN l
                        /\ l[s[2]] = [next |-> l[s[2]].next, prev |-> h]
      OBVIOUS
    <3>1. 2 \in 1..Len(s)
      BY <2>4
    <3>2. s[2] \in N /\ s[2] # x
      BY <2>2, <2>4, <3>1 DEF Chain
    <3>3. s[2] \in DOMAIN l /\ s[2] # h
      BY <2>3, <3>2 DEF ListsAre
    <3>4. l[s[2]] = [next |-> l[s[2]].next, prev |-> h]
      <4>1. l[s[2]] = [next |-> IF 2 = Len(s) THEN h ELSE s[2 + 1], prev |-> h]
        BY <2>2, <3>1 DEF Chain
      <4> HIDE DEF h
      <4> QED BY <4>1
    <3> QED BY <3>1, <3>2, <3>3, <3>4
  <2> DEFINE k == [next |-> q, prev |-> h]
  <2>8. l1 = [l EXCEPT ![h] = k]
    <3>1. l1 = [l EXCEPT ![h] = [l[h] EXCEPT !.next = q]]
      BY <2>5
    <3>2. [l[h] EXCEPT !.next = q] = k
      <4> HIDE DEF h, q
      <4> QED BY <2>6
    <3> QED BY <3>1, <3>2
  <2>16. l1 = [y \in DOMAIN l1 |-> l1[y]] /\ DOMAIN l1 = DOMAIN l
    BY <2>8 DEF ListsAre
  <2>9. l2 = l1
    <3>1. CASE Len(s) = 1
      <4>1. q = h /\ l1[h] = k /\ k = [next |-> h, prev |-> h]
        BY <2>3, <2>5, <2>8, <3>1
      <4>2. [l1[h] EXCEPT !.prev = h] = l1[h]
        BY <4>1
      <4>3. l2 = [l1 EXCEPT ![h] = [l1[h] EXCEPT !.prev = h]]
        BY <2>5, <4>1
      <4> QED BY <2>3, <2>16, <4>2, <4>3
    <3>2. CASE Len(s) > 1
      <4>1. q = s[2] /\ l1[q] = l[q] /\ l1[q] = [next |-> l[q].next, prev |-> h]
        BY <2>5, <2>7, <2>8, <3>2
      <4> DEFINE r == [l1[q] EXCEPT !.prev = h]
      <4>2. r = l1[q]
        BY <4>1
      <4>3. l2 = [l1 EXCEPT ![q] = r]
        BY <2>5
      <4>4. q \in DOMAIN l1
        BY <2>7, <2>16, <3>2, <4>1
      <4> HIDE DEF l1, l2, q, r
      <4>5. [l1 EXCEPT ![q] = l1[q]] = l1
        BY <2>16, <4>4
      <4> QED BY <4>2, <4>3, <4>5
    <3> QED BY <2>17, <3>1, <3>2
  <2> HIDE DEF l1, l2, p, q, k
  <2>10. /\ DOMAIN g = N \cup Heads /\ g = [y \in N \cup Heads |-> g[y]]
         /\ g[x] = Self(x) /\ g[h] = k
         /\ \A y \in N \cup Heads : y # x /\ y # h => g[y] = l[y]
    BY <1>1, <2>3, <2>8, <2>9 DEF ListsAre
  <2> DEFINE t == Tail(s)
  <2>11. t \in Seq(N) /\ Len(t) = Len(s) - 1 /\ \A i \in 1..Len(t) : t[i] = s[i + 1] /\ i + 1 \in 1..Len(s)
    BY <2>2, <2>4
  <2> HIDE DEF t
  <2>12. Chain(g, N, c, t)
    <3>1. g[h] = [next |-> IF t = <<>> THEN h ELSE t[1], prev |-> h]
      <4>1. CASE Len(s) = 1
        <5>1. t = <<>>
          BY <2>11, <4>1
        <5> QED BY <2>5, <2>10, <4>1, <5>1 DEF k
      <4>2. CASE Len(s) > 1
        <5>1. t # <<>> /\ t[1] = s[2]
          BY <2>11, <4>2
        <5>2. q = s[2]
          BY <2>5, <4>2
        <5>3. g[h] = [next |-> t[1], prev |-> h]
          BY <2>10, <5>1, <5>2 DEF k
        <5> HIDE DEF h
        <5>4. (IF t = <<>> THEN h ELSE t[1]) = t[1]
          BY <5>1
        <5> QED BY <5>3, <5>4
      <4> QED BY <2>17, <4>1, <4>2
    <3>2. ASSUME NEW i \in 1..Len(t)
          PROVE  g[t[i]] = [next |-> IF i = Len(t) THEN h ELSE t[i + 1], prev |-> h]
      <4>1. t[i] = s[i + 1] /\ i + 1 \in 1..Len(s) /\ i + 1 # 1
        BY <2>11
      <4>2. t[i] # x /\ t[i] \in N
        BY <2>2, <2>4, <4>1 DEF Chain
      <4>3. g[t[i]] = l[s[i + 1]]
        BY <2>3, <2>10, <4>1, <4>2
      <4>4. l[s[i + 1]] = [next |-> IF i + 1 = Len(s) THEN h ELSE s[(i + 1) + 1], prev |-> h]
        BY <2>2, <4>1 DEF Chain
      <4>5. (i + 1 = Len(s) <=> i = Len(t)) /\ (i # Len(t) => t[i + 1] = s[(i + 1) + 1])
        BY <2>4, <2>11
      <4> QED BY <4>3, <4>4, <4>5
    <3>3. \A i, j \in 1..Len(t) : t[i] = t[j] => i = j
      <4> SUFFICES ASSUME NEW i \in 1..Len(t), NEW j \in 1..Len(t), t[i] = t[j] PROVE i = j
        OBVIOUS
      <4>1. i + 1 \in 1..Len(s) /\ j + 1 \in 1..Len(s) /\ s[i + 1] = s[j + 1]
        BY <2>11
      <4>2. i + 1 = j + 1
        BY <2>2, <4>1 DEF Chain
      <4> QED BY <4>2
    <3>4. ASSUME NEW n \in N PROVE (n.class = c /\ g[n] # Self(n)) <=> \E i \in 1..Len(t) : t[i] = n
      <4>1. CASE n = x
        <5>1. \A i \in 1..Len(t) : t[i] # x
          <6> SUFFICES ASSUME NEW i \in 1..Len(t) PROVE t[i] # x
            OBVIOUS
          <6>1. t[i] = s[i + 1] /\ i + 1 \in 1..Len(s) /\ i + 1 # 1
            BY <2>11
          <6> QED BY <2>2, <2>4, <6>1 DEF Chain
        <5> QED BY <2>10, <4>1, <5>1
      <4>2. CASE n # x
        <5>1. g[n] = l[n]
          BY <2>3, <2>10, <4>2
        <5>2. (n.class = c /\ l[n] # Self(n)) <=> \E i \in 1..Len(s) : s[i] = n
          BY <2>2 DEF Chain
        <5>3. ASSUME NEW i \in 1..Len(s), s[i] = n PROVE \E j \in 1..Len(t) : t[j] = n
          <6>1. i # 1
            BY <2>2, <4>2, <5>3
          <6>2. i - 1 \in 1..Len(t) /\ (i - 1) + 1 = i
            BY <2>4, <2>11, <6>1
          <6> QED BY <2>11, <5>3, <6>2
        <5>4. ASSUME NEW j \in 1..Len(t), t[j] = n PROVE \E i \in 1..Len(s) : s[i] = n
          BY <2>11, <5>4
        <5> QED BY <5>1, <5>2, <5>3, <5>4
      <4> QED BY <4>1, <4>2
    <3> QED BY <3>1, <3>2, <3>3, <3>4 DEF Chain
  <2>13. ASSUME NEW d \in ListClass PROVE \E u \in Seq(N) : Chain(g, N, d, u)
    <3>1. CASE d = c
      BY <2>11, <2>12, <3>1
    <3>2. CASE d # c
      <4>1. PICK u \in Seq(N) : Chain(l, N, d, u)
        BY DEF ListsAre
      <4>2. ListHead(d) \in Heads /\ ListHead(d) # h /\ ListHead(d) # x
        BY <3>2, HeadIs
      <4>3. g[ListHead(d)] = l[ListHead(d)] /\ \A n \in N : n.class = d => g[n] = l[n]
        BY <2>3, <2>10, <3>2, <4>2
      <4> QED BY <4>1, <4>3, ChainKept
    <3> QED BY <3>1, <3>2
  <2>14. \A n \in N : n # x => g[n] = l[n]
    BY <2>3, <2>10
  <2>15. \A n \in N : n.class = MaxClass => g[n] = Self(n)
    BY <2>10, <2>14 DEF ListsAre
  <2> QED BY <2>10, <2>13, <2>14, <2>15 DEF ListsAre
<1> QED BY <1>2, <1>3

\* A node that list_del() may be applied to, and what it leaves.
FirstOf(l, N, x) == N \in SUBSET BlockType /\ ListsAre(l, N) /\ x \in N /\ l[l[x].prev].next = x
Deleted(g, l, N, x) == ListsAre(g, N) /\ g[x] = Self(x) /\ \A n \in N : n # x => g[n] = l[n]

LEMMA DelFirstOf ==
  ASSUME NEW l, NEW N, NEW x, FirstOf(l, N, x)
  PROVE  Deleted(list_del(l, x), l, N, x)
<1> PICK g : g = list_del(l, x)
  OBVIOUS
<1>1. N \in SUBSET BlockType /\ ListsAre(l, N) /\ x \in N /\ l[l[x].prev].next = x
  BY DEF FirstOf
<1>2. ListsAre(g, N) /\ g[x] = Self(x) /\ \A n \in N : n # x => g[n] = l[n]
  BY <1>1, DelFirst
<1> QED BY <1>2 DEF Deleted

\* list_append() of a node that is on no list puts it first.
LEMMA AppendOne ==
  ASSUME NEW N \in SUBSET BlockType, NEW l, ListsAre(l, N), NEW x \in N,
         l[x] = Self(x), x.class \in ListClass, NEW g, g = list_append(l, ListHead(x.class), x)
  PROVE  ListsAre(g, N) /\ g[x] # Self(x) /\ \A n \in N : n # x => g[n] = l[n]
<1> DEFINE c == x.class  h == ListHead(c)
<1>1. c \in ListClass /\ h \in Heads /\ h \notin N /\ x # h
  BY HeadIs
<1>2. PICK s \in Seq(N) : Chain(l, N, c, s)
  BY <1>1 DEF ListsAre
<1> DEFINE q == IF s = <<>> THEN h ELSE s[1]
<1>3. l[h] = [next |-> q, prev |-> h]
  BY <1>2 DEF Chain
<1> HIDE DEF q
<1> DEFINE k == [next |-> q, prev |-> h]  j == [next |-> x, prev |-> h]
           l1 == [l EXCEPT ![x] = k]
<1>4. h \in DOMAIN l /\ x \in DOMAIN l /\ DOMAIN l = N \cup Heads
  BY <1>1 DEF ListsAre
<1>5. g = [l1 EXCEPT ![h] = j]
  <2>1. g = [l EXCEPT ![x] = [next |-> l[h].next, prev |-> h], ![h].next = x]
    BY DEF list_append
  <2>2. [next |-> l[h].next, prev |-> h] = k
    <3> HIDE DEF h
    <3> QED BY <1>3
  <2>3. g = [l1 EXCEPT ![h] = [l1[h] EXCEPT !.next = x]]
    BY <2>1, <2>2
  <2>4. l1[h] = l[h]
    <3> HIDE DEF h, k
    <3> QED BY <1>1, <1>4
  <2>5. [l[h] EXCEPT !.next = x] = j
    <3> HIDE DEF h
    <3> QED BY <1>3
  <2> QED BY <2>3, <2>4, <2>5
<1> HIDE DEF k, j, h
<1>6. /\ g = [y \in N \cup Heads |-> g[y]] /\ g[x] = k /\ g[h] = j
      /\ \A y \in N \cup Heads : y # x /\ y # h => g[y] = l[y]
  BY <1>1, <1>4, <1>5
<1>7. \A n \in N : n # x => g[n] = l[n]
  BY <1>1, <1>6
<1>8. k # Self(x)
  BY <1>1 DEF k, Self
<1> DEFINE t == <<x>> \o s
<1>9. t \in Seq(N) /\ Len(t) = Len(s) + 1 /\ t[1] = x /\ t # <<>> /\ Len(s) \in Nat
      /\ \A i \in 1..Len(s) : t[i + 1] = s[i] /\ i + 1 \in 1..Len(t)
  BY <1>2
<1>10. \A i \in 1..Len(t) : i = 1 \/ (i - 1 \in 1..Len(s) /\ t[i] = s[i - 1])
  <2> SUFFICES ASSUME NEW i \in 1..Len(t), i # 1 PROVE i - 1 \in 1..Len(s) /\ t[i] = s[i - 1]
    OBVIOUS
  <2>1. i - 1 \in 1..Len(s) /\ (i - 1) + 1 = i
    BY <1>9
  <2> QED BY <1>9, <2>1
<1> HIDE DEF t
<1>11. \A i \in 1..Len(s) : s[i] # x /\ s[i] \in N
  BY <1>2 DEF Chain
<1>12. Chain(g, N, c, t)
  <2>1. g[h] = [next |-> IF t = <<>> THEN h ELSE t[1], prev |-> h]
    <3>1. (IF t = <<>> THEN h ELSE t[1]) = x
      BY <1>9
    <3> QED BY <1>6, <3>1 DEF j
  <2>2. ASSUME NEW i \in 1..Len(t)
        PROVE  g[t[i]] = [next |-> IF i = Len(t) THEN h ELSE t[i + 1], prev |-> h]
    <3>1. CASE i = 1
      <4>1. (IF i = Len(t) THEN h ELSE t[i + 1]) = q
        <5>1. CASE s = <<>>
          <6>1. Len(s) = 0
            BY <5>1
          <6> QED BY <1>9, <3>1, <5>1, <6>1 DEF q
        <5>2. CASE s # <<>>
          <6>1. Len(s) # 0
            BY <1>2, <5>2, EmptySeq
          <6>2. 1 \in 1..Len(s)
            BY <1>9, <6>1
          <6>3. t[1 + 1] = s[1] /\ i # Len(t)
            BY <1>9, <3>1, <6>2
          <6> QED BY <3>1, <5>2, <6>3 DEF q
        <5> QED BY <5>1, <5>2
      <4> QED BY <1>6, <1>9, <3>1, <4>1 DEF k
    <3>2. CASE i # 1
      <4>1. i - 1 \in 1..Len(s) /\ t[i] = s[i - 1]
        BY <1>10, <3>2
      <4>2. g[t[i]] = l[s[i - 1]]
        BY <1>7, <1>11, <4>1
      <4>3. l[s[i - 1]] = [next |-> IF i - 1 = Len(s) THEN h ELSE s[(i - 1) + 1], prev |-> h]
        BY <1>2, <4>1 DEF Chain, h
      <4>4. (i - 1 = Len(s) <=> i = Len(t)) /\ (i # Len(t) => t[i + 1] = s[(i - 1) + 1])
        <5>1. i - 1 = Len(s) <=> i = Len(t)
          BY <1>9
        <5>2. i # Len(t) => i \in 1..Len(s) /\ (i - 1) + 1 = i
          BY <1>9
        <5> QED BY <1>9, <5>1, <5>2
      <4> QED BY <4>2, <4>3, <4>4
    <3> QED BY <3>1, <3>2
  <2>3. \A i, m \in 1..Len(t) : t[i] = t[m] => i = m
    <3> SUFFICES ASSUME NEW i \in 1..Len(t), NEW m \in 1..Len(t), t[i] = t[m] PROVE i = m
      OBVIOUS
    <3>1. CASE i = 1 \/ m = 1
      <4>1. t[i] = x /\ t[m] = x
        BY <1>9, <3>1
      <4>2. i # 1 => t[i] # x
        BY <1>10, <1>11
      <4>3. m # 1 => t[m] # x
        BY <1>10, <1>11
      <4> QED BY <4>1, <4>2, <4>3
    <3>2. CASE i # 1 /\ m # 1
      <4>1. i - 1 = m - 1
        BY <1>2, <1>10, <3>2 DEF Chain
      <4> QED BY <4>1
    <3> QED BY <3>1, <3>2
  <2>4. ASSUME NEW n \in N PROVE (n.class = c /\ g[n] # Self(n)) <=> \E i \in 1..Len(t) : t[i] = n
    <3>1. CASE n = x
      <4>1. 1 \in 1..Len(t) /\ t[1] = n
        BY <1>9, <3>1
      <4> QED BY <1>6, <1>8, <3>1, <4>1
    <3>2. CASE n # x
      <4>1. g[n] = l[n]
        BY <1>7, <3>2
      <4>2. (n.class = c /\ l[n] # Self(n)) <=> \E i \in 1..Len(s) : s[i] = n
        BY <1>2 DEF Chain
      <4>3. ASSUME NEW i \in 1..Len(s), s[i] = n PROVE \E m \in 1..Len(t) : t[m] = n
        <5>1. i + 1 \in 1..Len(t) /\ t[i + 1] = s[i]
          BY <1>9
        <5> QED BY <4>3, <5>1
      <4>4. ASSUME NEW m \in 1..Len(t), t[m] = n PROVE \E i \in 1..Len(s) : s[i] = n
        <5>1. m # 1
          BY <1>9, <3>2, <4>4
        <5> QED BY <1>10, <4>4, <5>1
      <4> QED BY <4>1, <4>2, <4>3, <4>4
    <3> QED BY <3>1, <3>2
  <2> QED BY <2>1, <2>2, <2>3, <2>4 DEF Chain, h
<1>13. ASSUME NEW d \in ListClass PROVE \E u \in Seq(N) : Chain(g, N, d, u)
  <2>1. CASE d = c
    BY <1>9, <1>12, <2>1
  <2>2. CASE d # c
    <3>1. PICK u \in Seq(N) : Chain(l, N, d, u)
      BY DEF ListsAre
    <3>2. ListHead(d) \in Heads /\ ListHead(d) # h /\ ListHead(d) # x
      BY <2>2, HeadIs DEF h
    <3>3. g[ListHead(d)] = l[ListHead(d)] /\ \A n \in N : n.class = d => g[n] = l[n]
      BY <1>6, <1>7, <2>2, <3>2
    <3> QED BY <3>1, <3>3, ChainKept
  <2> QED BY <2>1, <2>2
<1>14. \A n \in N : n.class = MaxClass => g[n] = Self(n)
  <2>1. x.class # MaxClass
    BY <1>1, PmapClasses DEF ListClass
  <2> QED BY <1>7, <2>1 DEF ListsAre
<1> QED BY <1>6, <1>7, <1>8, <1>13, <1>14 DEF ListsAre

\* New nodes are on no list.
LEMMA ExtendLists ==
  ASSUME NEW N \in SUBSET BlockType, NEW l, ListsAre(l, N), NEW M \in SUBSET BlockType,
         \A k \in M : k \notin N, NEW g, g = [y \in (N \cup M) \cup Heads |-> g[y]],
         \A y \in M : g[y] = Self(y), \A y \in N \cup Heads : g[y] = l[y]
  PROVE  ListsAre(g, N \cup M)
<1>2. /\ g = [y \in (N \cup M) \cup Heads |-> g[y]]
      /\ \A y \in M : g[y] = Self(y)
      /\ \A y \in N \cup Heads : g[y] = l[y]
  OBVIOUS
<1>3. ASSUME NEW c \in ListClass PROVE \E s \in Seq(N \cup M) : Chain(g, N \cup M, c, s)
  <2>1. PICK s \in Seq(N) : Chain(l, N, c, s)
    BY DEF ListsAre
  <2>2. s \in Seq(N \cup M) /\ \A i \in 1..Len(s) : s[i] \in N
    BY <2>1
  <2>3. ListHead(c) \in Heads
    BY HeadIs
  <2>4. g[ListHead(c)] = l[ListHead(c)]
    BY <1>2, <2>3
  <2>5. \A i \in 1..Len(s) : g[s[i]] = l[s[i]]
    BY <1>2, <2>2
  <2>6. \A n \in N \cup M : (n.class = c /\ g[n] # Self(n)) <=> \E i \in 1..Len(s) : s[i] = n
    <3> SUFFICES ASSUME NEW n \in N \cup M
                 PROVE  (n.class = c /\ g[n] # Self(n)) <=> \E i \in 1..Len(s) : s[i] = n
      OBVIOUS
    <3>1. CASE n \in N
      <4>1. (n.class = c /\ l[n] # Self(n)) <=> \E i \in 1..Len(s) : s[i] = n
        BY <2>1, <3>1 DEF Chain
      <4>2. g[n] = l[n]
        BY <1>2, <3>1
      <4> QED BY <4>1, <4>2
    <3>2. CASE n \in M
      <4>1. g[n] = Self(n)
        BY <1>2, <3>2
      <4>2. ~ \E i \in 1..Len(s) : s[i] = n
        BY <2>2, <3>2
      <4> QED BY <4>1, <4>2
    <3> QED BY <3>1, <3>2
  <2>7. Chain(g, N \cup M, c, s)
    BY <2>1, <2>4, <2>5, <2>6 DEF Chain
  <2> QED BY <2>2, <2>7
<1>4. \A n \in N \cup M : n.class = MaxClass => g[n] = Self(n)
  BY <1>2 DEF ListsAre
<1> QED BY <1>2, <1>3, <1>4 DEF ListsAre

\* Nor does a list miss a node that was on none.
LEMMA RemoveLists ==
  ASSUME NEW N \in SUBSET BlockType, NEW l, ListsAre(l, N), NEW m \in N, l[m] = Self(m),
         NEW g, g = [y \in (N \ {m}) \cup Heads |-> l[y]]
  PROVE  ListsAre(g, N \ {m}) /\ \A n \in N \ {m} : g[n] = l[n]
<1>1. \A y \in (N \ {m}) \cup Heads : g[y] = l[y]
  OBVIOUS
<1>2. ASSUME NEW c \in ListClass PROVE \E s \in Seq(N \ {m}) : Chain(g, N \ {m}, c, s)
  <2>1. PICK s \in Seq(N) : Chain(l, N, c, s)
    BY DEF ListsAre
  <2>2. \A i \in 1..Len(s) : s[i] \in N \ {m}
    BY <2>1 DEF Chain
  <2>3. s \in Seq(N \ {m})
    BY <2>1, <2>2, ElementOfSeq, LenProperties
  <2>4. g[ListHead(c)] = l[ListHead(c)]
    BY <1>1, HeadIs
  <2>5. \A i \in 1..Len(s) : g[s[i]] = l[s[i]]
    BY <1>1, <2>2
  <2>6. \A n \in N \ {m} : (n.class = c /\ g[n] # Self(n)) <=> \E i \in 1..Len(s) : s[i] = n
    BY <1>1, <2>1 DEF Chain
  <2>7. Chain(g, N \ {m}, c, s)
    BY <2>1, <2>4, <2>5, <2>6 DEF Chain
  <2> QED BY <2>3, <2>7
<1> QED BY <1>1, <1>2 DEF ListsAre


-----------------------------------------------------------------------------
(* The geometry of the blocks.                                             *)

Aligned(n) == n.addr % ClassSize[n.class] = 0

\* Products of natural numbers.
LEMMA Products ==
  /\ \A h \in Nat \ {0} : \A u, v \in Nat : h * u < h * v => u < v
  /\ \A h \in Nat \ {0} : \A u, v \in Nat : h * u = h * v => u = v
  /\ \A h, u, v \in Nat : h * (u + v) = h * u + h * v
  /\ \A h, u, v \in Nat : u <= v => h * u <= h * v
  /\ \A h \in Nat \ {0}, a \in Nat : a % h = 0 <=> \E k \in Nat : a = h * k
  /\ \A h, u, v \in Nat : h * (u * v) = (h * u) * v /\ h * u \in Nat
<1>1. \A h, u, v \in Nat : h * (u + v) = h * u + h * v /\ h * u \in Nat
  OBVIOUS
<1>2. ASSUME NEW h \in Nat \ {0}, NEW u \in Nat, NEW v \in Nat PROVE u <= v => h * u <= h * v
  <2>1. ASSUME u <= v PROVE h * u <= h * v
    <3>1. v - u \in Nat /\ v = u + (v - u)
      BY <2>1
    <3>2. h * v = h * u + h * (v - u) /\ h * (v - u) \in Nat
      BY <1>1, <3>1
    <3> QED BY <1>1, <3>2
  <2> QED BY <2>1
<1>3. ASSUME NEW h \in Nat \ {0}, NEW u \in Nat, NEW v \in Nat, u < v PROVE h * u < h * v
  <2>1. u + 1 <= v /\ u + 1 \in Nat
    BY <1>3
  <2>2. h * (u + 1) = h * u + h * 1
    BY <1>1
  <2>3. h * (u + 1) <= h * v
    BY <1>2, <2>1
  <2>4. h * 1 = h /\ h > 0
    OBVIOUS
  <2>5. h * u \in Nat /\ h * v \in Nat
    BY <1>1
  <2> QED BY <2>2, <2>3, <2>4, <2>5
<1>4. ASSUME NEW h \in Nat \ {0}, NEW u \in Nat, NEW v \in Nat, h * u < h * v PROVE u < v
  <2>1. v <= u => h * v <= h * u
    BY <1>2
  <2>2. h * u \in Nat /\ h * v \in Nat
    BY <1>1
  <2> QED BY <1>4, <2>1, <2>2
<1>5. ASSUME NEW h \in Nat \ {0}, NEW u \in Nat, NEW v \in Nat, h * u = h * v PROVE u = v
  <2>1. (u < v => h * u < h * v) /\ (v < u => h * v < h * u)
    BY <1>3
  <2>2. h * u \in Nat /\ h * v \in Nat
    BY <1>1
  <2> QED BY <1>5, <2>1, <2>2
<1>6. ASSUME NEW h \in Nat \ {0}, NEW a \in Nat PROVE a % h = 0 <=> \E k \in Nat : a = h * k
  <2>1. a % h = 0 => a \div h \in Nat /\ a = h * (a \div h)
    OBVIOUS
  <2>2. \A k \in Nat : a = h * k => a % h = 0
    OBVIOUS
  <2> QED BY <2>1, <2>2
<1>7. \A h, u, v \in Nat : h * (u * v) = (h * u) * v
  OBVIOUS
<1>8. \A u, v \in Nat : 0 * u <= 0 * v
  OBVIOUS
<1>9. \A h, u, v \in Nat : u <= v => h * u <= h * v
  BY <1>2, <1>8
<1> QED BY <1>1, <1>4, <1>5, <1>6, <1>7, <1>9

\* A larger class is a multiple of a smaller one.
LEMMA ClassSizes ==
  ASSUME NEW c \in Class, NEW d \in Class, c <= d
  PROVE  /\ \E k \in Nat \ {0} : ClassSize[d] = ClassSize[c] * k
         /\ ClassSize[c] <= ClassSize[d]
         /\ c < d => ClassSize[c] < ClassSize[d]

<1>1. \A e \in Class : ClassSize[e] \in Nat \ {0}
  BY PmapClasses
<1>2. MaxClass \in Nat /\ c \in Nat /\ d \in Nat /\ d <= MaxClass
  BY PmapClasses DEF Class
<1> DEFINE T == {i \in 0..(MaxClass - c) : \E k \in Nat \ {0} : ClassSize[c + i] = ClassSize[c] * k /\ (i > 0 => k > 1)}
<1>3. 0 \in T
  <2>1. c + 0 = c /\ ClassSize[c] \in Nat /\ ClassSize[c] = ClassSize[c] * 1
    BY <1>1, <1>2
  <2> QED BY <1>2, <2>1, PmapClasses DEF Class
<1>4. ASSUME NEW i \in 0..((MaxClass - c) - 1), i \in T PROVE i + 1 \in T
  <2>1. PICK k \in Nat \ {0} : ClassSize[c + i] = ClassSize[c] * k
    BY <1>4
  <2>2. c + i \in Nat /\ c + (i + 1) \in Class /\ c + (i + 1) > 0 /\ (c + (i + 1)) - 1 = c + i /\ i + 1 \in 0..(MaxClass - c)
    BY <1>2, PmapClasses DEF Class
  <2>3. ClassSize[c + (i + 1)] = 2 * ClassSize[c + i]
    BY <2>2, PmapClasses
  <2>4. \A h, e \in Nat : 2 * (h * e) = h * (2 * e)
    OBVIOUS
  <2>5. ClassSize[c + (i + 1)] = ClassSize[c] * (2 * k)
    BY <1>1, <2>1, <2>3, <2>4
  <2>6. 2 * k \in Nat \ {0} /\ 2 * k > 1
    OBVIOUS
  <2> QED BY <2>2, <2>5, <2>6
<1>5. MaxClass - c \in Nat
  BY <1>2
<1> HIDE DEF T
<1>6. d - c \in T
  <2>1. 0..(MaxClass - c) \subseteq T
    BY <1>3, <1>4, <1>5, BoundedInduction
  <2>2. d - c \in 0..(MaxClass - c)
    BY <1>2
  <2> QED BY <2>1, <2>2
<1>7. PICK k \in Nat \ {0} : ClassSize[c + (d - c)] = ClassSize[c] * k /\ (d - c > 0 => k > 1)
  BY <1>6 DEF T
<1>8. c + (d - c) = d /\ (c < d => d - c > 0)
  BY <1>2
<1>9. ClassSize[d] = ClassSize[c] * k /\ (c < d => k > 1)
  BY <1>7, <1>8
<1>10. \A h \in Nat \ {0}, u \in Nat \ {0} : h <= h * u /\ (u > 1 => h < h * u)
  <2> SUFFICES ASSUME NEW h \in Nat \ {0}, NEW u \in Nat \ {0} PROVE h <= h * u /\ (u > 1 => h < h * u)
    OBVIOUS
  <2>1. u - 1 \in Nat /\ u = (u - 1) + 1
    OBVIOUS
  <2>2. h * u = h * (u - 1) + h * 1 /\ h * 1 = h /\ h * (u - 1) \in Nat
    BY <2>1, Products
  <2>3. u > 1 => h * (u - 1) >= h
    <3>1. u > 1 => h * 1 <= h * (u - 1)
      BY <2>1, Products
    <3> QED BY <2>2, <3>1
  <2> QED BY <2>2, <2>3
<1> QED BY <1>1, <1>9, <1>10

\* The end of a block, and the two halves of a block.
LEMMA BlockEnd ==
  ASSUME NEW n \in BlockType
  PROVE  /\ n.class \in Class /\ n.addr \in Nat /\ ClassSize[n.class] \in Nat \ {0}
         /\ EndOf(n) \in Nat /\ EndOf(n) = n.addr + ClassSize[n.class] /\ n.addr < EndOf(n)
<1>1. n.class \in Class /\ n.addr \in Nat
  BY DEF BlockType
<1>2. ClassSize[n.class] \in Nat /\ ClassSize[n.class] > 0
  BY <1>1, PmapClasses
<1> QED BY <1>1, <1>2 DEF EndOf

LEMMA Halves ==
  ASSUME NEW n \in BlockType, n.class > 0
  PROVE  /\ n.class - 1 \in ListClass /\ n.class - 1 \in Class /\ ClassSize[n.class - 1] \in Nat \ {0}
         /\ ClassSize[n.class] = ClassSize[n.class - 1] + ClassSize[n.class - 1]
         /\ Left(n) \in BlockType /\ Left(n).class = n.class - 1 /\ Left(n).addr = n.addr
         /\ Right(n) \in BlockType /\ Right(n).class = n.class - 1
         /\ Right(n).addr = n.addr + ClassSize[n.class - 1]
         /\ EndOf(Left(n)) = Right(n).addr /\ EndOf(Right(n)) = EndOf(n)
         /\ Left(n) # Right(n) /\ Left(n) # n /\ Right(n) # n
<1>1. n.class \in Class /\ n.addr \in Nat
  BY BlockEnd
<1>2. n.class - 1 \in ListClass /\ n.class - 1 \in Class /\ ClassSize[n.class - 1] \in Nat \ {0}
      /\ ClassSize[n.class] = ClassSize[n.class - 1] + ClassSize[n.class - 1] /\ n.class \in Nat
  <2>1. n.class \in Nat /\ n.class - 1 \in ListClass /\ ClassSize[n.class] = 2 * ClassSize[n.class - 1]
    BY <1>1, PmapClasses
  <2>2. n.class - 1 \in Class
    BY <2>1, PmapClasses
  <2>3. ClassSize[n.class - 1] \in Nat /\ ClassSize[n.class - 1] > 0
    BY <2>2, PmapClasses
  <2> QED BY <2>1, <2>2, <2>3
<1> DEFINE c == n.class - 1  w == ClassSize[c]
<1>3. n.addr + w \in Nat /\ n.addr + w # n.addr /\ c # n.class
  BY <1>1, <1>2
<1>4. /\ Left(n) \in BlockType /\ Left(n).class = c /\ Left(n).addr = n.addr
      /\ Right(n) \in BlockType /\ Right(n).class = c /\ Right(n).addr = n.addr + w
  BY <1>1, <1>2, <1>3 DEF Left, Right, Block, BlockType
<1>5. EndOf(Left(n)) = Right(n).addr /\ EndOf(Right(n)) = EndOf(n)
  BY <1>1, <1>2, <1>4 DEF EndOf
<1> QED BY <1>1, <1>2, <1>3, <1>4, <1>5

LEMMA BlocksEqual ==
  ASSUME NEW a \in BlockType, NEW b \in BlockType, a.class = b.class, a.addr = b.addr
  PROVE  a = b
BY DEF BlockType

LEMMA HalvesAligned ==
  ASSUME NEW n \in BlockType, n.class > 0, Aligned(n)
  PROVE  Aligned(Left(n)) /\ Aligned(Right(n))
<1> DEFINE w == ClassSize[n.class - 1]
<1>1. w \in Nat \ {0} /\ ClassSize[n.class] = w + w /\ n.addr \in Nat
  BY Halves, BlockEnd
<1> HIDE DEF w
<1>2. PICK k \in Nat : n.addr = (w + w) * k
  <2>1. w + w \in Nat \ {0} /\ n.addr % (w + w) = 0
    BY <1>1 DEF Aligned
  <2> QED BY <1>1, <2>1, Products
<1>3. \A h, u \in Nat : (h + h) * u = h * (u + u) /\ h * (u + u) + h = h * ((u + u) + 1)
  OBVIOUS
<1>4. n.addr = w * (k + k) /\ n.addr + w = w * ((k + k) + 1) /\ k + k \in Nat /\ (k + k) + 1 \in Nat /\ n.addr + w \in Nat
  BY <1>1, <1>2, <1>3
<1>5. n.addr % w = 0 /\ (n.addr + w) % w = 0
  BY <1>1, <1>4, Products
<1> QED BY <1>5, Halves DEF Aligned, w

\* A block of the tree is a half of one block only.
LEMMA OneParent ==
  ASSUME NEW p \in BlockType, NEW q \in BlockType, p.class > 0, q.class > 0, Aligned(p), Aligned(q),
         NEW m, m \in {Left(p), Right(p)}, m \in {Left(q), Right(q)}
  PROVE  p = q
<1>1. p.class = q.class
  <2>1. p.class \in Nat /\ q.class \in Nat /\ p.class - 1 = m.class /\ q.class - 1 = m.class
    BY Halves, BlockEnd, PmapClasses
  <2> QED BY <2>1
<1> DEFINE w == ClassSize[p.class - 1]
<1>2. w \in Nat \ {0} /\ ClassSize[p.class] = w + w /\ p.addr \in Nat /\ q.addr \in Nat
  BY Halves, BlockEnd
<1>3. (m.addr = p.addr \/ m.addr = p.addr + w) /\ (m.addr = q.addr \/ m.addr = q.addr + w)
  BY <1>1, Halves
<1>4. p.addr % (w + w) = 0 /\ q.addr % (w + w) = 0
  BY <1>1, <1>2 DEF Aligned
<1> HIDE DEF w
<1>5. PICK j \in Nat, k \in Nat : p.addr = (w + w) * j /\ q.addr = (w + w) * k
  <2>1. w + w \in Nat \ {0}
    BY <1>2
  <2>2. \E k \in Nat : p.addr = (w + w) * k
    BY <1>2, <1>4, <2>1, Products
  <2>3. \E k \in Nat : q.addr = (w + w) * k
    BY <1>2, <1>4, <2>1, Products
  <2> QED BY <2>2, <2>3
<1>6. \A h, u \in Nat : (h + h) * u = h * (u + u) /\ h * (u + u) + h = h * ((u + u) + 1)
  OBVIOUS
<1>7. /\ p.addr = w * (j + j) /\ p.addr + w = w * ((j + j) + 1)
      /\ q.addr = w * (k + k) /\ q.addr + w = w * ((k + k) + 1)
      /\ j + j \in Nat /\ (j + j) + 1 \in Nat /\ k + k \in Nat /\ (k + k) + 1 \in Nat
  BY <1>2, <1>5, <1>6
<1>8. j + j # (k + k) + 1 /\ k + k # (j + j) + 1
  OBVIOUS
<1>9. p.addr # q.addr + w /\ q.addr # p.addr + w
  BY <1>2, <1>7, <1>8, Products
<1>10. p.addr = q.addr
  BY <1>2, <1>3, <1>9
<1> QED BY <1>1, <1>10, BlocksEqual

\* Of two aligned blocks that share an address the smaller one is inside the other.
LEMMA Nested ==
  ASSUME NEW a \in BlockType, NEW b \in BlockType, Aligned(a), Aligned(b), a.class <= b.class,
         NEW t \in Nat, a.addr <= t, t < EndOf(a), b.addr <= t, t < EndOf(b)
  PROVE  Within(a, b)
<1> DEFINE w == ClassSize[a.class]
<1>1. w \in Nat \ {0} /\ a.addr \in Nat /\ b.addr \in Nat /\ EndOf(a) = a.addr + w
      /\ a.class \in Class /\ b.class \in Class /\ ClassSize[b.class] \in Nat \ {0}
      /\ EndOf(b) = b.addr + ClassSize[b.class]
  BY BlockEnd
<1>2. PICK k \in Nat \ {0} : ClassSize[b.class] = w * k
  BY <1>1, ClassSizes
<1>21. \A h \in Nat \ {0}, u \in Nat : u % h = 0 => \E v \in Nat : u = h * v
  BY Products
<1>22. a.addr % w = 0 /\ b.addr % ClassSize[b.class] = 0
  BY DEF Aligned
<1>3. PICK i \in Nat : a.addr = w * i
  BY <1>1, <1>21, <1>22
<1>4. PICK j \in Nat : b.addr = ClassSize[b.class] * j
  BY <1>1, <1>21, <1>22
<1> HIDE DEF w
<1>5. \A h, u, v \in Nat : (h * u) * v = h * (u * v)
  OBVIOUS
<1>6. k * j \in Nat /\ b.addr = w * (k * j)
  BY <1>1, <1>2, <1>4, <1>5
<1> DEFINE g == k * j
<1> HIDE DEF g
<1>7. g \in Nat /\ b.addr = w * g /\ EndOf(b) = w * (g + k) /\ EndOf(a) = w * (i + 1)
  BY <1>1, <1>2, <1>3, <1>6, Products DEF g
<1>8. g + k \in Nat /\ i + 1 \in Nat /\ w * (g + k) \in Nat /\ w * g \in Nat /\ w * (i + 1) \in Nat /\ w * i \in Nat
  BY <1>1, <1>7, Products
<1>9. w * i < w * (g + k) /\ w * g < w * (i + 1)
  BY <1>3, <1>7, <1>8
<1>10. i < g + k /\ g < i + 1
  BY <1>1, <1>7, <1>8, <1>9, Products
<1>11. i + 1 <= g + k /\ g <= i
  BY <1>7, <1>10
<1>12. w * (i + 1) <= w * (g + k) /\ w * g <= w * i
  BY <1>1, <1>7, <1>8, <1>11, Products
<1> QED BY <1>3, <1>7, <1>12 DEF Within


LEMMA MiddleIs ==
  ASSUME NEW n \in BlockType
  PROVE  /\ Middle(n) \in Nat /\ Middle(n) = 2 * n.addr + ClassSize[n.class] /\ n.addr \in Nat
         /\ Middle(n) = n.addr + EndOf(n)
         /\ n.class > 0 => Middle(n) = 2 * Right(n).addr
<1>1. n.addr \in Nat /\ ClassSize[n.class] \in Nat /\ EndOf(n) = n.addr + ClassSize[n.class]
  BY BlockEnd
<1>2. ASSUME n.class > 0 PROVE Middle(n) = 2 * Right(n).addr
  <2> DEFINE w == ClassSize[n.class - 1]
  <2>1. w \in Nat /\ ClassSize[n.class] = w + w /\ Right(n).addr = n.addr + w
    BY <1>2, Halves
  <2> HIDE DEF w
  <2> QED BY <1>1, <2>1 DEF Middle
<1> QED BY <1>1, <1>2 DEF Middle

\* A block inside another one is of a smaller class.
LEMMA Smaller ==
  ASSUME NEW a \in BlockType, NEW b \in BlockType, Within(a, b), a # b
  PROVE  a.class < b.class
<1>1. a.class \in Nat /\ b.class \in Nat /\ a.class \in Class /\ b.class \in Class
  BY BlockEnd, PmapClasses
<1>2. ClassSize[a.class] <= ClassSize[b.class]
  BY BlockEnd DEF Within
<1>3. ~(b.class < a.class)
  <2>1. b.class < a.class => ClassSize[b.class] < ClassSize[a.class]
    BY <1>1, ClassSizes
  <2> QED BY <1>2, <2>1, BlockEnd
<1>4. a.class # b.class
  <2>1. ASSUME a.class = b.class PROVE a.addr = b.addr
    BY <2>1, BlockEnd DEF Within
  <2> QED BY <2>1, BlocksEqual
<1> QED BY <1>1, <1>3, <1>4

LEMMA WithinTransitive ==
  ASSUME NEW a \in BlockType, NEW b \in BlockType, NEW c \in BlockType, Within(a, b), Within(b, c)
  PROVE  Within(a, c)
<1>1. a.addr \in Nat /\ b.addr \in Nat /\ c.addr \in Nat /\ EndOf(a) \in Nat /\ EndOf(b) \in Nat /\ EndOf(c) \in Nat
  BY BlockEnd
<1> QED BY <1>1 DEF Within

LEMMA HalvesWithin ==
  ASSUME NEW n \in BlockType, n.class > 0
  PROVE  Within(Left(n), n) /\ Within(Right(n), n)
<1> DEFINE w == ClassSize[n.class - 1]
<1>1. w \in Nat /\ n.addr \in Nat /\ EndOf(n) = n.addr + (w + w)
  BY Halves, BlockEnd
<1>2. Left(n).addr = n.addr /\ Right(n).addr = n.addr + w /\ EndOf(Left(n)) = n.addr + w /\ EndOf(Right(n)) = EndOf(n)
  BY Halves
<1> HIDE DEF w
<1> QED BY <1>1, <1>2 DEF Within

\* What is inside a block and smaller lies in one of its halves.
LEMMA InHalf ==
  ASSUME NEW x \in BlockType, NEW n \in BlockType, Aligned(x), Aligned(n), Within(x, n), x # n
  PROVE  /\ n.class > 0
         /\ (Within(x, Left(n)) /\ Middle(x) < Middle(n)) \/ (Within(x, Right(n)) /\ Middle(x) > Middle(n))
<1>1. x.class \in Nat /\ n.class \in Nat /\ x.class < n.class
  BY Smaller, BlockEnd, PmapClasses
<1>2. n.class > 0 /\ x.class <= n.class - 1
  BY <1>1
<1>3. x.addr \in Nat /\ EndOf(x) \in Nat /\ n.addr \in Nat /\ x.addr < EndOf(x) /\ EndOf(n) \in Nat
      /\ n.addr <= x.addr /\ EndOf(x) <= EndOf(n)
  BY BlockEnd DEF Within
<1> DEFINE h == Right(n).addr
<1>4. /\ Left(n) \in BlockType /\ Right(n) \in BlockType /\ Aligned(Left(n)) /\ Aligned(Right(n))
      /\ Left(n).class = n.class - 1 /\ Right(n).class = n.class - 1 /\ Left(n).addr = n.addr
      /\ EndOf(Left(n)) = h /\ EndOf(Right(n)) = EndOf(n) /\ h \in Nat /\ Middle(n) = 2 * h
  BY <1>2, Halves, HalvesAligned, MiddleIs, BlockEnd
<1> HIDE DEF h
<1>5. Middle(x) = x.addr + EndOf(x)
  BY MiddleIs
<1>6. CASE x.addr < h
  <2>1. Within(x, Left(n))
    BY <1>2, <1>3, <1>4, <1>6, Nested
  <2>2. EndOf(x) <= h
    BY <1>4, <2>1 DEF Within
  <2>3. Middle(x) < Middle(n)
    <3>1. \A a, e, k \in Nat : a < k /\ e <= k => a + e < 2 * k
      OBVIOUS
    <3>2. x.addr + EndOf(x) < 2 * h
      BY <1>3, <1>4, <1>6, <2>2, <3>1
    <3> QED BY <1>4, <1>5, <3>2
  <2> QED BY <1>2, <2>1, <2>3
<1>7. CASE ~(x.addr < h)
  <2>0. h <= x.addr /\ x.addr < EndOf(Right(n)) /\ Right(n).addr <= x.addr
    BY <1>3, <1>4, <1>7 DEF h
  <2>1. Within(x, Right(n))
    BY <1>2, <1>3, <1>4, <2>0, Nested
  <2> QED BY <1>2, <1>3, <1>4, <1>5, <2>0, <2>1
<1> QED BY <1>6, <1>7

\* The parent of a block that lies below n is n or lies below n, on the same side.
LEMMA ParentWithin ==
  ASSUME NEW x \in BlockType, NEW n \in BlockType, Aligned(x), Aligned(n), x.class > 0, x # n,
         NEW m, m \in {Left(x), Right(x)}, Within(m, n), m # n
  PROVE  /\ Within(x, n)
         /\ Middle(x) < Middle(n) <=> Middle(m) < Middle(n)
         /\ m = Left(x) => Middle(m) < Middle(x)
<1>1. m \in BlockType /\ Aligned(m) /\ Within(m, x) /\ m # x /\ m.class = x.class - 1 /\ m.class \in Nat /\ x.class \in Nat /\ n.class \in Nat
  BY Halves, HalvesAligned, HalvesWithin, BlockEnd, PmapClasses
<1>2. m.class < n.class
  BY <1>1, Smaller
<1>3. x.class <= n.class
  BY <1>1, <1>2
<1>4. Within(x, n)
  <2>1. m.addr \in Nat /\ x.addr <= m.addr /\ m.addr < EndOf(x) /\ n.addr <= m.addr /\ m.addr < EndOf(n)
    <3>1. m.addr \in Nat /\ m.addr < EndOf(m) /\ EndOf(m) \in Nat /\ EndOf(x) \in Nat /\ EndOf(n) \in Nat
      BY <1>1, BlockEnd
    <3> QED BY <1>1, <3>1 DEF Within
  <2> QED BY <1>3, <2>1, Nested
<1>5. /\ n.class > 0
      /\ (Within(x, Left(n)) /\ Middle(x) < Middle(n)) \/ (Within(x, Right(n)) /\ Middle(x) > Middle(n))
  BY <1>4, InHalf
<1>6. (Within(m, Left(n)) /\ Middle(m) < Middle(n)) \/ (Within(m, Right(n)) /\ Middle(m) > Middle(n))
  BY <1>1, InHalf
<1> DEFINE h == Right(n).addr
<1>7. EndOf(Left(n)) = h /\ h \in Nat /\ m.addr \in Nat /\ m.addr < EndOf(m) /\ EndOf(m) \in Nat
      /\ x.addr <= m.addr /\ EndOf(m) <= EndOf(x) /\ x.addr \in Nat /\ EndOf(x) \in Nat
  BY <1>1, <1>5, Halves, BlockEnd DEF Within
<1> HIDE DEF h
<1>8. ~(Within(x, Left(n)) /\ Within(m, Right(n))) /\ ~(Within(x, Right(n)) /\ Within(m, Left(n)))
  BY <1>7 DEF Within, h
<1>9. Middle(x) \in Nat /\ Middle(m) \in Nat /\ Middle(n) \in Nat
  BY <1>1, MiddleIs
<1>10. Middle(x) < Middle(n) <=> Middle(m) < Middle(n)
  BY <1>5, <1>6, <1>8, <1>9
<1>11. ASSUME m = Left(x) PROVE Middle(m) < Middle(x)
  <2>1. m # x /\ Within(m, x)
    BY <1>1
  <2>2. ~(Middle(m) > Middle(x) /\ Within(m, Right(x)))
    <3>1. m.addr = x.addr /\ Right(x).addr = x.addr + ClassSize[x.class - 1] /\ ClassSize[x.class - 1] \in Nat \ {0} /\ x.addr \in Nat
      BY <1>11, Halves, BlockEnd
    <3> QED BY <3>1 DEF Within
  <2> QED BY <1>1, <2>2, InHalf
<1> QED BY <1>4, <1>10, <1>11


\* A set of blocks inside n has one with the greatest middle.
LEMMA Highest ==
  ASSUME NEW n \in BlockType, NEW S \in SUBSET BlockType, S # {}, \A m \in S : Within(m, n)
  PROVE  \E m \in S : \A k \in S : Middle(k) <= Middle(m)
<1> DEFINE b == 2 * EndOf(n)  T == {b - Middle(m) : m \in S}
<1>1. b \in Nat /\ EndOf(n) \in Nat
  BY BlockEnd
<1>2. \A m \in S : Middle(m) \in Nat /\ Middle(m) <= b
  <2> SUFFICES ASSUME NEW m \in S PROVE Middle(m) \in Nat /\ Middle(m) <= b
    OBVIOUS
  <2>1. Middle(m) = m.addr + EndOf(m) /\ m.addr < EndOf(m) /\ EndOf(m) \in Nat /\ m.addr \in Nat
    BY MiddleIs, BlockEnd
  <2>2. EndOf(m) <= EndOf(n)
    BY DEF Within
  <2> QED BY <1>1, <2>1, <2>2
<1> HIDE DEF b
<1>3. T \in SUBSET Nat /\ T # {}
  BY <1>1, <1>2
<1>4. PICK t \in T : \A u \in T : t <= u
  BY <1>3, LeastNatural
<1>5. PICK m \in S : t = b - Middle(m)
  OBVIOUS
<1>6. ASSUME NEW k \in S PROVE Middle(k) <= Middle(m)
  <2>1. b - Middle(m) <= b - Middle(k)
    BY <1>4, <1>5
  <2> QED BY <1>1, <1>2, <2>1
<1> QED BY <1>6

\* free_desc_rec() frees the last node that is left on the side it is at.
LEMMA NextFreedIs ==
  ASSUME Nodes \subseteq BlockType, NEW n \in Nodes, Below(n) # {}
  PROVE  /\ NextFreed(n) \in Below(n)
         /\ \A x \in Below(n) : (Middle(x) < Middle(n) <=> Middle(NextFreed(n)) < Middle(n))
                                 => Middle(x) <= Middle(NextFreed(n))
<1> DEFINE lows == {m \in Below(n) : Middle(m) < Middle(n)}
           from == IF lows # {} THEN lows ELSE Below(n)
<1>1. from \in SUBSET BlockType /\ from # {} /\ \A m \in from : Within(m, n) /\ m \in Below(n)
  BY DEF Below
<1>2. \E m \in from : \A k \in from : Middle(k) <= Middle(m)
  BY <1>1, Highest
<1>3. NextFreed(n) = CHOOSE m \in from : \A k \in from : Middle(k) <= Middle(m)
  BY DEF NextFreed
<1>4. NextFreed(n) \in from /\ \A k \in from : Middle(k) <= Middle(NextFreed(n))
  <2> HIDE DEF from
  <2> QED BY <1>2, <1>3
<1>5. ASSUME NEW x \in Below(n), Middle(x) < Middle(n) <=> Middle(NextFreed(n)) < Middle(n)
      PROVE  x \in from
  BY <1>4, <1>5
<1> QED BY <1>1, <1>4, <1>5

\* The children of a node lie below it.
LEMMA KidsBelow ==
  ASSUME Nodes \subseteq BlockType, NEW n \in Nodes
  PROVE  Kids(n) \subseteq Below(n)
<1>1. CASE n.class = 0
  BY <1>1 DEF Kids
<1>2. CASE n.class # 0
  <2>0. n \in BlockType
    OBVIOUS
  <2>1. n.class \in Nat /\ n.class > 0
    <3>1. n.class \in Class
      BY <2>0, BlockEnd
    <3>2. n.class \in Nat
      BY <3>1, PmapClasses
    <3>3. \A a \in Nat : a # 0 => a > 0
      OBVIOUS
    <3> QED BY <1>2, <3>2, <3>3
  <2> QED BY <2>1, Halves, HalvesWithin DEF Kids, Below
<1> QED BY <1>1, <1>2


-----------------------------------------------------------------------------
(* The inductive invariant: a node is on a list exactly if it is free and  *)
(* no call holds it, a node has both its children or none, and a node      *)
(* other than the root has a parent.  The last two wait while              *)
(* free_desc_rec() clears what is below the node that is retyped.          *)

FrameType == [node : BlockType, class : Class, addr : Nat, type : PageState,
              why : {"attach", "pool", "const"}, pooled : BOOLEAN]

TypeInv ==
  /\ Nodes \subseteq BlockType /\ IsFiniteSet(Nodes)
  /\ tree \in [Nodes -> [state : PageState, refc : Nat]]
  /\ regions \in Seq(Region) /\ cur \in Nat \ {0} /\ start \in Nat
  /\ consts \in Seq(Nat) /\ stack \in Seq(FrameType)
  /\ panicked \in BOOLEAN

RegionInv ==
  \A i \in 1..Len(regions) : regions[i].end + ClassSize[0] <= ClassSize[MaxClass]

FramesOk(s, N, more) ==
  \A i \in 1..Len(s) :
    /\ s[i].node \in N
    /\ s[i].why # "pool" => i = Len(s)
    /\ s[i].type # PARTIAL => s[i].why = "attach"
    /\ s[i].type = ALLOCATABLE => s[i].class < MaxClass
    /\ s[i].why = "const" => more

FrameInv == FramesOk(stack, Nodes, consts # <<>>) /\ refs \in Seq(Nodes)

OnList(n) == link[n] # Self(n)

ListInv ==
  /\ ListsAre(link, Nodes)
  /\ \A n \in Nodes : OnList(n) => WasFree(n)
  /\ \A n \in Nodes \ InFlight : WasFree(n) => OnList(n)

Clearing(x) == Retyping /\ Within(x, Top.node)

TreeInv ==
  /\ Root \in Nodes /\ tree[Root].state # ALLOCATABLE
  /\ \A n \in Nodes : Aligned(n)

Whole ==
  /\ \A m \in Nodes \ {Root} : \E p \in Nodes : p.class > 0 /\ m \in {Left(p), Right(p)}
  /\ \A x \in Nodes : x.class > 0 => (Right(x) \in Nodes <=> Left(x) \in Nodes)

FamilyInv ==
  /\ \A m \in Nodes \ {Root} :
       \/ \E p \in Nodes : p.class > 0 /\ m \in {Left(p), Right(p)}
       \/ Retyping /\ m \in Below(Top.node)
  /\ \A x \in Nodes : x.class > 0 =>
       /\ Right(x) \in Nodes => Left(x) \in Nodes \/ (Retyping /\ x = Top.node)
       /\ Left(x) \in Nodes => Right(x) \in Nodes \/ Clearing(x)

PmapInv ==
  TypeInv /\ RegionInv /\ FrameInv /\ ListInv /\ TreeInv /\ (~panicked => FamilyInv)


-----------------------------------------------------------------------------
(* FreeList() walks along a list once and finds its elements in order.     *)

\* One step round a circle of m places.
LEMMA NextPlace ==
  ASSUME NEW m \in Nat, m > 0, NEW i \in Nat, i > 0
  PROVE  /\ i % m \in 0..(m - 1) /\ (i - 1) % m \in 0..(m - 1)
         /\ i % m = IF (i - 1) % m = m - 1 THEN 0 ELSE ((i - 1) % m) + 1
<1> DEFINE j == i - 1  q == j \div m  r == j % m
<1>1. j \in Nat /\ q \in Nat /\ r \in 0..(m - 1) /\ j = m * q + r /\ i % m \in 0..(m - 1)
  OBVIOUS
<1> HIDE DEF q, r
<1>2. i = (m * q + r) + 1
  BY <1>1
<1>3. CASE r = m - 1
  <2>1. m * (q + 1) = m * q + m * 1 /\ m * 1 = m /\ m * q \in Nat
    BY <1>1, Products
  <2>2. i = m * (q + 1) + 0 /\ 0 \in 0..(m - 1) /\ q + 1 \in Nat
    BY <1>1, <1>2, <1>3, <2>1
  <2>3. i % m = 0
    BY <2>2, QuotientIs
  <2> QED BY <1>1, <1>3, <2>3 DEF r
<1>4. CASE r # m - 1
  <2>1. m * q \in Nat
    BY <1>1, Products
  <2>2. i = m * q + (r + 1) /\ r + 1 \in 0..(m - 1)
    BY <1>1, <1>2, <1>4, <2>1
  <2>3. i % m = r + 1
    BY <1>1, <2>2, QuotientIs
  <2> QED BY <1>1, <1>4, <2>3 DEF r
<1> QED BY <1>3, <1>4

LEMMA FreeListIs ==
  ASSUME Nodes \subseteq BlockType, IsFiniteSet(Nodes),
         NEW c \in ListClass, NEW s \in Seq(Nodes), Chain(link, Nodes, c, s)
  PROVE  FreeList(c) = s
<1> DEFINE C == {n \in Nodes : n.class = c}  bound == Cardinality(C) + 1
           h == ListHead(c)  k == Len(s)  m == k + 1
           F(f) == [i \in 0..bound |-> IF i = 0 THEN h ELSE link[f[i - 1]].next]
           w == [i \in 0..bound |-> IF i % m = 0 THEN h ELSE s[i % m]]
           walk == CHOOSE f : f = F(f)
<1>1. k \in Nat /\ m \in Nat /\ m > 0 /\ m = k + 1 /\ \A i \in 1..k : s[i] \in C /\ s[i] \in Nodes
  BY DEF Chain
<1>2. Cardinality(C) \in Nat /\ k <= Cardinality(C)
  <2>1. IsFiniteSet(C) /\ Cardinality(C) \in Nat
    BY FS_Subset, FS_CardinalityType
  <2> DEFINE f == [i \in 1..k |-> s[i]]
  <2>2. f \in Injection(1..k, C)
    BY <1>1 DEF Injection, IsInjective, Chain
  <2>3. Cardinality(1..k) <= Cardinality(C)
    BY <2>1, <2>2, FS_Injection
  <2>4. Cardinality(1..k) = k
    <3>1. Cardinality(1..k) = IF 1 > k THEN 0 ELSE k - 1 + 1
      BY <1>1, FS_Interval
    <3> HIDE DEF k
    <3> QED BY <1>1, <3>1
  <2> QED BY <2>1, <2>3, <2>4
<1>3. bound \in Nat /\ m <= bound
  BY <1>1, <1>2
<1>4. link[h].next = IF k = 0 THEN h ELSE s[1]
  <2>1. link[h] = [next |-> IF s = <<>> THEN h ELSE s[1], prev |-> h]
    BY DEF Chain
  <2>2. s = <<>> <=> k = 0
    BY EmptySeq
  <2> HIDE DEF h
  <2> QED BY <2>1, <2>2
<1>5. ASSUME NEW i \in 1..k PROVE link[s[i]].next = IF i = k THEN h ELSE s[i + 1]
  <2>1. link[s[i]] = [next |-> IF i = k THEN h ELSE s[i + 1], prev |-> h]
    BY DEF Chain
  <2> HIDE DEF h
  <2> QED BY <2>1
<1>6. \A i \in 1..k : s[i] # h
  BY <1>1, HeadIs
<1> HIDE DEF C, bound, h, k, m
<1>7. w = F(w)
  <2>1. ASSUME NEW i \in 0..bound PROVE w[i] = IF i = 0 THEN h ELSE link[w[i - 1]].next
    <3>1. CASE i = 0
      <4>1. 0 % m = 0
        BY <1>1
      <4> QED BY <2>1, <3>1, <4>1
    <3>2. CASE i # 0
      <4> DEFINE r == (i - 1) % m  t == i % m
      <4>1. i \in Nat /\ i > 0 /\ i - 1 \in 0..bound
        BY <1>3, <3>2
      <4>2. t \in 0..k /\ r \in 0..k /\ t = IF r = k THEN 0 ELSE r + 1
        <5>1. m - 1 = k
          BY <1>1
        <5> QED BY <1>1, <4>1, <5>1, NextPlace
      <4>3. w[i] = IF t = 0 THEN h ELSE s[t]
        OBVIOUS
      <4>4. w[i - 1] = IF r = 0 THEN h ELSE s[r]
        BY <4>1
      <4> HIDE DEF r, t, w
      <4>5. CASE r = 0
        <5>1. link[w[i - 1]].next = IF k = 0 THEN h ELSE s[1]
          BY <1>4, <4>4, <4>5
        <5>2. k = 0 => t = 0
          BY <4>2, <4>5
        <5>3. k # 0 => t = 1
          BY <1>1, <4>2, <4>5
        <5> QED BY <3>2, <4>3, <5>1, <5>2, <5>3
      <4>6. CASE r # 0
        <5>1. r \in 1..k
          BY <1>1, <4>2, <4>6
        <5>2. link[w[i - 1]].next = IF r = k THEN h ELSE s[r + 1]
          BY <1>5, <4>4, <4>6, <5>1
        <5>3. r = k => t = 0
          BY <4>2
        <5>4. r # k => t = r + 1 /\ t # 0
          BY <1>1, <4>2, <5>1
        <5> QED BY <3>2, <4>3, <5>2, <5>3, <5>4
      <4> QED BY <4>5, <4>6
    <3> QED BY <3>1, <3>2
  <2>2. w = [i \in 0..bound |-> w[i]]
    OBVIOUS
  <2> HIDE DEF w
  <2> QED BY <2>1, <2>2
<1> HIDE DEF w
<1>8. walk = F(walk)
  <2> HIDE DEF F
  <2> QED BY <1>7
<1> HIDE DEF walk
<1>9. \A i \in 0..bound : walk[i] = w[i]
  <2> DEFINE T == {i \in 0..bound : walk[i] = w[i]}
  <2>1. 0 \in T
    <3>1. 0 \in 0..bound
      BY <1>3
    <3>2. walk[0] = h
      BY <1>8, <3>1
    <3>3. w[0] = h
      BY <1>7, <3>1
    <3> QED BY <3>1, <3>2, <3>3
  <2>2. ASSUME NEW n \in 0..(bound - 1), n \in T PROVE n + 1 \in T
    <3>1. n + 1 \in 0..bound /\ n + 1 # 0 /\ (n + 1) - 1 = n /\ walk[n] = w[n]
      BY <1>3, <2>2
    <3>2. walk[n + 1] = link[walk[n]].next
      BY <1>8, <3>1
    <3>3. w[n + 1] = link[w[n]].next
      BY <1>7, <3>1
    <3> QED BY <3>1, <3>2, <3>3
  <2> HIDE DEF T
  <2>3. 0..bound \subseteq T
    BY <1>3, <2>1, <2>2, BoundedInduction
  <2> QED BY <2>3 DEF T
<1>10. \A i \in 1..k : i \in 0..bound /\ walk[i] = s[i]
  <2> SUFFICES ASSUME NEW i \in 1..k PROVE i \in 0..bound /\ walk[i] = s[i]
    OBVIOUS
  <2>1. i \in 0..bound /\ i \in Nat /\ i < m /\ i # 0
    BY <1>1, <1>3
  <2>2. i % m = i
    BY <1>1, <2>1
  <2> QED BY <1>9, <2>1, <2>2 DEF w
<1>11. walk[m] = h /\ m \in 1..bound
  <2>1. m \in 1..bound
    BY <1>1, <1>3
  <2>2. m % m = 0
    BY <1>1
  <2>3. w[m] = h
    BY <2>1, <2>2 DEF w
  <2> QED BY <1>9, <2>1, <2>3
<1> DEFINE ends == {i \in 1..bound : walk[i] = h}
           len  == IF ends = {} THEN bound ELSE (CHOOSE i \in ends : \A j \in ends : i <= j) - 1
<1>12. len = k
  <2>1. m \in ends /\ \A j \in ends : m <= j
    <3>1. \A j \in 1..k : j \notin ends
      BY <1>6, <1>10
    <3>2. \A j \in ends : j \in Nat /\ j >= 1
      OBVIOUS
    <3>3. \A j \in ends : m <= j
      BY <1>1, <3>1, <3>2
    <3> QED BY <1>11, <3>3
  <2>2. (CHOOSE i \in ends : \A j \in ends : i <= j) = m
    <3>1. \A i, n \in ends : (\A j \in ends : i <= j) /\ (\A j \in ends : n <= j) => i = n
      <4>1. \A i \in ends : i \in Nat
        OBVIOUS
      <4> HIDE DEF ends
      <4>2. SUFFICES ASSUME NEW i \in ends, NEW n \in ends, \A j \in ends : i <= j, \A j \in ends : n <= j
                     PROVE  i = n
        OBVIOUS
      <4>3. i <= n /\ n <= i /\ i \in Nat /\ n \in Nat
        BY <4>1, <4>2
      <4> QED BY <4>3
    <3> HIDE DEF ends
    <3> QED BY <2>1, <3>1
  <2>3. ends # {}
    BY <2>1
  <2> DEFINE e == CHOOSE i \in ends : \A j \in ends : i <= j
  <2>4. len = e - 1
    BY <2>3
  <2>5. e = m
    BY <2>2
  <2> HIDE DEF e, ends, len
  <2>6. m - 1 = k
    BY <1>1
  <2> QED BY <2>4, <2>5, <2>6
<1>13. FreeList(c) = [i \in 1..len |-> walk[i]]
  BY DEF FreeList, walk, h, bound, C
<1> HIDE DEF len
<1>14. s = [i \in 1..k |-> s[i]]
  BY DEF k
<1> QED BY <1>10, <1>12, <1>13, <1>14


\* What is on a list is what the links say is.
LEMMA ListedIs ==
  ASSUME Nodes \subseteq BlockType, IsFiniteSet(Nodes), ListsAre(link, Nodes), NEW c \in ListClass
  PROVE  /\ \E s \in Seq(Nodes) : Chain(link, Nodes, c, s) /\ FreeList(c) = s
         /\ Listed(c) = {n \in Nodes : n.class = c /\ OnList(n)}
         /\ Cardinality(Listed(c)) = Len(FreeList(c))
<1>1. PICK s \in Seq(Nodes) : Chain(link, Nodes, c, s)
  BY DEF ListsAre
<1>2. FreeList(c) = s
  BY <1>1, FreeListIs
<1>3. Len(s) \in Nat /\ DOMAIN s = 1..Len(s)
  OBVIOUS
<1>4. Listed(c) = {s[i] : i \in 1..Len(s)}
  BY <1>2, <1>3 DEF Listed
<1>5. Listed(c) = {n \in Nodes : n.class = c /\ OnList(n)}
  <2>1. \A i \in 1..Len(s) : s[i] \in Nodes
    OBVIOUS
  <2> QED BY <1>1, <1>4, <2>1 DEF Chain, OnList
<1>6. Cardinality(Listed(c)) = Len(s)
  <2> DEFINE f == [i \in 1..Len(s) |-> s[i]]
  <2>1. f \in Bijection(1..Len(s), Listed(c))
    <3>1. f \in Injection(1..Len(s), Listed(c))
      BY <1>1, <1>4 DEF Injection, IsInjective, Chain
    <3>2. f \in Surjection(1..Len(s), Listed(c))
      BY <1>4 DEF Surjection
    <3> QED BY <3>1, <3>2 DEF Bijection
  <2>2. IsFiniteSet(1..Len(s)) /\ Cardinality(1..Len(s)) = Len(s)
    BY <1>3, FS_Interval
  <2> HIDE DEF f
  <2>3. ExistsBijection(1..Len(s), Listed(c))
    BY <2>1 DEF ExistsBijection
  <2> QED BY <2>2, <2>3, FS_Bijection
<1> QED BY <1>1, <1>2, <1>5, <1>6

\* alloc_page() takes a page that is on a list.
LEMMA PeerIs ==
  ASSUME Nodes \subseteq BlockType, IsFiniteSet(Nodes), ListsAre(link, Nodes),
         NEW class \in Class, NEW peer \in FindPeer(class)
  PROVE  /\ peer \in Nodes /\ OnList(peer) /\ FitsBootMem(peer, class) /\ class <= peer.class
         /\ FindPeer(class) = {peer}
<1> DEFINE fits(c) == {i \in DOMAIN FreeList(c) : FitsBootMem(FreeList(c)[i], class)}
           classes == {c \in class..(MaxClass - 1) : fits(c) # {}}
           c       == CHOOSE x \in classes : \A y \in classes : x <= y
           i       == CHOOSE x \in fits(c) : \A y \in fits(c) : x <= y
<1>1. FindPeer(class) = IF classes = {} THEN {} ELSE {FreeList(c)[i]}
  BY DEF FindPeer
<1>2. classes # {} /\ peer = FreeList(c)[i] /\ FindPeer(class) = {peer}
  <2> HIDE DEF classes, c, i
  <2> QED BY <1>1
<1>3. classes \subseteq ListClass /\ classes \subseteq Nat
  BY PmapClasses DEF Class, ListClass
<1>4. c \in classes
  <2>1. \E x \in classes : \A y \in classes : x <= y
    BY <1>2, <1>3, LeastNatural
  <2> HIDE DEF classes
  <2> QED BY <2>1
<1>5. c \in ListClass /\ fits(c) # {} /\ class <= c
  <2>1. \A x \in classes : x \in ListClass /\ fits(x) # {} /\ class <= x
    BY <1>3, PmapClasses DEF ListClass, Class
  <2> HIDE DEF classes, c
  <2> QED BY <1>4, <2>1
<1> HIDE DEF c
<1>6. PICK s \in Seq(Nodes) : Chain(link, Nodes, c, s) /\ FreeList(c) = s
  BY <1>5, ListedIs
<1>7. i \in fits(c)
  <2>1. fits(c) \subseteq Nat
    BY <1>6
  <2>2. \E x \in fits(c) : \A y \in fits(c) : x <= y
    BY <1>5, <2>1, LeastNatural
  <2> HIDE DEF fits
  <2> QED BY <2>2
<1>8. i \in DOMAIN FreeList(c) /\ FitsBootMem(FreeList(c)[i], class)
  BY <1>7
<1> HIDE DEF i
<1>9. peer \in Nodes
  BY <1>2, <1>6, <1>8
<1>10. peer.class = c /\ OnList(peer)
  <2>1. \E j \in 1..Len(s) : s[j] = peer
    BY <1>2, <1>6, <1>8
  <2> QED BY <1>6, <1>9, <2>1 DEF Chain, OnList
<1> QED BY <1>2, <1>5, <1>8, <1>9, <1>10


-----------------------------------------------------------------------------
(* The frames.                                                             *)

LEMMA TopIs ==
  ASSUME TypeInv, FrameInv, stack # <<>>
  PROVE  /\ Top \in FrameType /\ Top = stack[1] /\ 1 \in 1..Len(stack) /\ Len(stack) \in Nat
         /\ Top.node \in Nodes /\ Top.node \in BlockType /\ Top.class \in Class /\ Top.addr \in Nat
         /\ Top.type \in PageState
         /\ Top.type # PARTIAL => Top.why = "attach"
         /\ Top.why # "pool" => Len(stack) = 1
         /\ Top.type = ALLOCATABLE => Top.class < MaxClass
         /\ Top.node \in InFlight
<1>1. stack \in Seq(FrameType) /\ Nodes \subseteq BlockType
  BY DEF TypeInv
<1>2. 1 \in 1..Len(stack) /\ Len(stack) \in Nat /\ Top = stack[1] /\ stack[1] \in FrameType /\ DOMAIN stack = 1..Len(stack)
  BY <1>1 DEF Top
<1>3. Top.class \in Class /\ Top.addr \in Nat /\ Top.type \in PageState
  BY <1>2 DEF FrameType
<1>4. /\ stack[1].node \in Nodes
      /\ stack[1].why # "pool" => 1 = Len(stack)
      /\ stack[1].type # PARTIAL => stack[1].why = "attach"
      /\ stack[1].type = ALLOCATABLE => stack[1].class < MaxClass
  BY <1>2 DEF FrameInv, FramesOk
<1> QED BY <1>1, <1>2, <1>3, <1>4 DEF InFlight

LEMMA TailFrames ==
  ASSUME NEW N, NEW more, NEW s \in Seq(FrameType), s # <<>>, FramesOk(s, N, more)
  PROVE  Tail(s) \in Seq(FrameType) /\ FramesOk(Tail(s), N, more)
<1>1. Tail(s) \in Seq(FrameType) /\ Len(Tail(s)) = Len(s) - 1 /\ Len(s) \in Nat /\ Len(s) > 0
  OBVIOUS
<1>2. \A i \in 1..Len(Tail(s)) : Tail(s)[i] = s[i + 1] /\ i + 1 \in 1..Len(s) /\ (i + 1 = Len(s) => i = Len(Tail(s)))
  <2> SUFFICES ASSUME NEW i \in 1..Len(Tail(s))
               PROVE  Tail(s)[i] = s[i + 1] /\ i + 1 \in 1..Len(s) /\ (i + 1 = Len(s) => i = Len(Tail(s)))
    OBVIOUS
  <2>1. \A n, m \in Nat : m = n - 1 => \A k \in 1..m : k + 1 \in 1..n /\ (k + 1 = n => k = m)
    OBVIOUS
  <2>2. Len(Tail(s)) \in Nat
    BY <1>1
  <2>3. i + 1 \in 1..Len(s) /\ (i + 1 = Len(s) => i = Len(Tail(s)))
    BY <1>1, <2>1, <2>2
  <2>4. Tail(s)[i] = s[i + 1]
    BY <1>1
  <2> QED BY <2>3, <2>4
<1> QED BY <1>1, <1>2 DEF FramesOk

LEMMA NewTop ==
  ASSUME NEW N, NEW M, NEW more, NEW s \in Seq(FrameType), s # <<>>, FramesOk(s, N, more), N \subseteq M,
         NEW f \in FrameType, f.node \in M, f.type = Head(s).type, f.why = Head(s).why, f.class = Head(s).class
  PROVE  <<f>> \o Tail(s) \in Seq(FrameType) /\ FramesOk(<<f>> \o Tail(s), M, more)
<1> DEFINE t == <<f>> \o Tail(s)
<1>1. t \in Seq(FrameType) /\ Len(t) = Len(s) /\ Len(s) \in Nat /\ Len(s) > 0 /\ t[1] = f /\ Head(s) = s[1]
      /\ \A i \in 1..Len(s) : i # 1 => t[i] = s[i]
  OBVIOUS
<1> HIDE DEF t
<1>2. ASSUME NEW i \in 1..Len(t)
      PROVE  /\ t[i].node \in M
             /\ t[i].why # "pool" => i = Len(t)
             /\ t[i].type # PARTIAL => t[i].why = "attach"
             /\ t[i].type = ALLOCATABLE => t[i].class < MaxClass
             /\ t[i].why = "const" => more
  <2>1. /\ s[i].node \in N
        /\ s[i].why # "pool" => i = Len(s)
        /\ s[i].type # PARTIAL => s[i].why = "attach"
        /\ s[i].type = ALLOCATABLE => s[i].class < MaxClass
        /\ s[i].why = "const" => more
    BY <1>1 DEF FramesOk
  <2> QED BY <1>1, <2>1
<1>3. FramesOk(t, M, more)
  BY <1>2 DEF FramesOk
<1> QED BY <1>1, <1>3 DEF t

LEMMA PushFrame ==
  ASSUME NEW N, NEW more, NEW s \in Seq(FrameType), FramesOk(s, N, more), s # <<>>,
         NEW f \in FrameType, f.node \in N, f.type = PARTIAL, f.why = "pool"
  PROVE  <<f>> \o s \in Seq(FrameType) /\ FramesOk(<<f>> \o s, N, more)
<1> DEFINE t == <<f>> \o s
<1>1. t \in Seq(FrameType) /\ Len(t) = Len(s) + 1 /\ Len(s) \in Nat /\ t[1] = f
      /\ \A i \in 1..Len(t) : i # 1 => i - 1 \in 1..Len(s) /\ t[i] = s[i - 1]
  OBVIOUS
<1> HIDE DEF t
<1>2. ASSUME NEW i \in 1..Len(t)
      PROVE  /\ t[i].node \in N
             /\ t[i].why # "pool" => i = Len(t)
             /\ t[i].type # PARTIAL => t[i].why = "attach"
             /\ t[i].type = ALLOCATABLE => t[i].class < MaxClass
             /\ t[i].why = "const" => more
  <2>1. CASE i = 1
    BY <1>1, <2>1 DEF PARTIAL, ALLOCATABLE
  <2>2. CASE i # 1
    <3>1. i - 1 \in 1..Len(s) /\ t[i] = s[i - 1]
      BY <1>1, <2>2
    <3>2. /\ s[i - 1].node \in N
          /\ s[i - 1].why # "pool" => i - 1 = Len(s)
          /\ s[i - 1].type # PARTIAL => s[i - 1].why = "attach"
          /\ s[i - 1].type = ALLOCATABLE => s[i - 1].class < MaxClass
          /\ s[i - 1].why = "const" => more
      BY <3>1 DEF FramesOk
    <3>3. i - 1 = Len(s) => i = Len(t)
      BY <1>1
    <3> QED BY <3>1, <3>2, <3>3
  <2> QED BY <2>1, <2>2
<1>3. FramesOk(t, N, more)
  BY <1>2 DEF FramesOk
<1> QED BY <1>1, <1>3 DEF t

LEMMA FrameTyped ==
  ASSUME NEW n \in BlockType, NEW c \in Class, NEW a \in Nat, NEW t \in PageState,
         NEW w \in {"attach", "pool", "const"}
  PROVE  LET f == Frame(n, c, a, t, w)
         IN f \in FrameType /\ f.node = n /\ f.class = c /\ f.addr = a /\ f.type = t /\ f.why = w
BY DEF Frame, FrameType

\* Nothing is missing from the tree unless a node is retyped.
LEMMA WholeIs == FamilyInv /\ ~Retyping => Whole
BY DEF FamilyInv, Clearing, Whole

LEMMA WholeStep == Whole' => FamilyInv'
BY DEF FamilyInv, Whole

LEMMA NotRetyping ==
  ASSUME TypeInv, FrameInv, Descending
  PROVE  ~Retyping
<1>1. stack # <<>> /\ Top.node.class > Top.class
  BY DEF Descending, InLookup
<1>2. Top.node \in BlockType /\ Top.class \in Class
  BY <1>1, TopIs
<1>3. Top.node.class \in Class
  BY <1>2, BlockEnd
<1>4. Top.node.class \in Nat /\ Top.class \in Nat
  BY <1>2, <1>3, PmapClasses
<1>5. ~(Top.node.class <= Top.class)
  BY <1>1, <1>4
<1> QED BY <1>5 DEF Retyping, Arrived

-----------------------------------------------------------------------------
(* The steps that leave the tree and the links alone.                      *)

LEMMA QuietStep ==
  ASSUME PmapInv, UNCHANGED <<tree, link, regions>>, TypeInv', FrameInv', InFlight \subseteq InFlight',
         ~panicked' => ~panicked /\ ~Retyping
  PROVE  PmapInv'
<1>1. Nodes' = Nodes
  BY DEF Nodes
<1>2. \A n : WasFree(n)' <=> WasFree(n)
  BY <1>1 DEF WasFree, PageIsFree, Kids
<1>3. \A n : OnList(n)' <=> OnList(n)
  BY DEF OnList
<1>4. ListInv'
  BY <1>1, <1>2, <1>3 DEF PmapInv, ListInv
<1>5. TreeInv'
  BY <1>1 DEF PmapInv, TreeInv
<1>6. RegionInv'
  BY DEF PmapInv, RegionInv
<1>7. ASSUME ~panicked' PROVE FamilyInv'
  <2>1. FamilyInv /\ ~Retyping
    BY <1>7 DEF PmapInv
  <2>2. Whole'
    BY <1>1, <2>1, WholeIs DEF Whole
  <2> QED BY <2>2, WholeStep
<1> QED BY <1>4, <1>5, <1>6, <1>7 DEF PmapInv


\* The callers take the page that was looked up off the stack, to reference it.
LEMMA PopToRefs ==
  ASSUME PmapInv, stack # <<>>, refs = <<>>, Top.type = PARTIAL, UNCHANGED <<tree, link, regions, cur, start, panicked>>,
         refs' = <<Top.node>>, stack' = Tail(stack), consts' \in Seq(Nat),
         consts' = consts \/ Top.why = "const"
  PROVE  PmapInv'
<1>0. TypeInv /\ FrameInv /\ Nodes' = Nodes
  BY DEF PmapInv, Nodes
<1>1. Top.node \in Nodes /\ Top.node \in BlockType /\ Top = stack[1] /\ Len(stack) \in Nat
  BY <1>0, TopIs
<1>2. stack' \in Seq(FrameType) /\ FramesOk(stack', Nodes, consts' # <<>>)
  <2>1. stack \in Seq(FrameType) /\ FramesOk(stack, Nodes, consts # <<>>)
    BY <1>0 DEF TypeInv, FrameInv
  <2>2. Tail(stack) \in Seq(FrameType) /\ FramesOk(Tail(stack), Nodes, consts # <<>>)
    BY <2>1, TailFrames
  <2>3. CASE Top.why = "const"
    <3>1. Len(stack) = 1
      BY <1>0, <2>3, TopIs
    <3>2. Len(stack') = 0
      BY <2>1, <3>1
    <3> QED BY <2>2, <3>2 DEF FramesOk
  <2> QED BY <2>2, <2>3
<1>3. refs' \in Seq(Nodes)
  BY <1>1
<1>4. TypeInv'
  BY <1>0, <1>2, <1>3 DEF TypeInv
<1>5. FrameInv'
  BY <1>0, <1>2, <1>3 DEF FrameInv
<1>6. InFlight \subseteq InFlight'
  <2>1. \A i \in DOMAIN stack : i = 1 \/ (i - 1 \in DOMAIN Tail(stack) /\ Tail(stack)[i - 1] = stack[i])
    <3>1. stack \in Seq(FrameType)
      BY <1>0 DEF TypeInv
    <3> QED BY <3>1
  <2>2. DOMAIN refs = {} /\ 1 \in DOMAIN refs' /\ refs'[1] = Top.node
    BY <1>1
  <2>3. ASSUME NEW i \in DOMAIN stack PROVE stack[i].node \in InFlight'
    <3>1. CASE i = 1
      BY <1>1, <2>2, <3>1 DEF InFlight
    <3>2. CASE i # 1
      BY <2>1, <3>2 DEF InFlight
    <3> QED BY <3>1, <3>2
  <2> QED BY <2>2, <2>3 DEF InFlight
<1>7. ~Retyping
  BY DEF Retyping
<1> QED BY <1>4, <1>5, <1>6, <1>7, QuietStep

LEMMA AllocPoolStep ==
  ASSUME PmapInv, AllocPool
  PROVE  PmapInv'
<1>1. stack # <<>> /\ refs = <<>> /\ Top.why = "pool"
  BY DEF AllocPool, Arrived, InLookup
<1>2. Top.type = PARTIAL
  BY <1>1, TopIs DEF PmapInv
<1>3. consts' \in Seq(Nat)
  BY DEF AllocPool, PmapInv, TypeInv
<1> QED BY <1>1, <1>2, <1>3, PopToRefs DEF AllocPool

LEMMA RefConstPageStep ==
  ASSUME PmapInv, RefConstPage
  PROVE  PmapInv'
<1>1. stack # <<>> /\ refs = <<>> /\ Top.why = "const"
  BY DEF RefConstPage, Arrived, InLookup
<1>2. Top.type = PARTIAL
  BY <1>1, TopIs DEF PmapInv
<1>3. consts' \in Seq(Nat)
  <2>1. stack[1].why = "const" => consts # <<>>
    BY <1>1, TopIs DEF PmapInv, FrameInv, FramesOk
  <2>2. Top = stack[1] /\ consts \in Seq(Nat)
    BY <1>1, TopIs DEF PmapInv, TypeInv
  <2> QED BY <1>1, <2>1, <2>2 DEF RefConstPage
<1> QED BY <1>1, <1>2, <1>3, PopToRefs DEF RefConstPage

\* A lookup starts at the root.
LEMMA StartLookup ==
  ASSUME PmapInv, Idle, UNCHANGED <<tree, link, regions, cur, start, refs, consts, panicked>>,
         NEW c \in Class, NEW a \in Nat, NEW t \in PageState, NEW w \in {"attach", "pool", "const"},
         t # PARTIAL => w = "attach", t = ALLOCATABLE => c < MaxClass, w = "const" => consts # <<>>,
         stack' = <<Frame(Root, c, a, t, w)>>
  PROVE  PmapInv'
<1>0. TypeInv /\ Nodes' = Nodes /\ Root \in Nodes /\ Root \in BlockType
  BY DEF PmapInv, Nodes, TreeInv, TypeInv
<1>1. ~panicked /\ refs = <<>> /\ stack = <<>>
  BY DEF Idle
<1> DEFINE f == Frame(Root, c, a, t, w)
<1>2. f \in FrameType /\ f.node = Root /\ f.class = c /\ f.type = t /\ f.why = w
  BY <1>0, FrameTyped
<1> HIDE DEF f
<1>3. stack' = <<f>> /\ Len(stack') = 1 /\ stack'[1] = f /\ stack' \in Seq(FrameType)
  BY <1>2 DEF f
<1>4. TypeInv'
  BY <1>0, <1>3 DEF TypeInv
<1>5. FrameInv'
  <2>1. FramesOk(stack', Nodes', consts' # <<>>)
    BY <1>0, <1>2, <1>3 DEF FramesOk
  <2>2. refs' = <<>>
    BY <1>1
  <2> QED BY <2>1, <2>2 DEF FrameInv
<1>6. InFlight \subseteq InFlight'
  <2>1. DOMAIN stack = {} /\ DOMAIN refs = {}
    BY <1>1
  <2> QED BY <2>1 DEF InFlight
<1>7. ~Retyping
  BY <1>1 DEF Retyping, Arrived, InLookup
<1> QED BY <1>1, <1>4, <1>5, <1>6, <1>7, QuietStep

LEMMA RoundingIs ==
  /\ 0 \in Class /\ ClassSize[0] \in Nat \ {0}
  /\ \A a \in Nat : RoundDown(a) \in Nat /\ RoundDown(a) <= a /\ RoundUp(a) \in Nat /\ RoundUp(a) < a + ClassSize[0]
<1> DEFINE w == ClassSize[0]
<1>1. 0 \in Class /\ w \in Nat \ {0}
  BY PmapClasses DEF Class
<1> HIDE DEF w
<1>2. \A a \in Nat : a % w \in Nat /\ a % w <= a
  BY <1>1
<1>3. \A a \in Nat : RoundDown(a) \in Nat /\ RoundDown(a) <= a
  BY <1>2 DEF RoundDown, w
<1>4. ASSUME NEW a \in Nat PROVE RoundUp(a) \in Nat /\ RoundUp(a) < a + w
  <2> DEFINE b == a + w - 1
  <2>1. b \in Nat /\ b < a + w
    BY <1>1
  <2>2. RoundUp(a) = RoundDown(b)
    BY DEF RoundUp, w
  <2> HIDE DEF b
  <2>3. RoundDown(b) \in Nat /\ RoundDown(b) <= b
    BY <1>3, <2>1
  <2> QED BY <1>1, <2>1, <2>2, <2>3
<1> QED BY <1>1, <1>3, <1>4 DEF w

LEMMA AttachRegionStep ==
  ASSUME PmapInv, AttachRegion
  PROVE  PmapInv'
<1>1. PICK c \in Class : /\ Attachable(c)
                         /\ stack' = <<Frame(Root, c, start, regions[cur].type, "attach")>>
  BY DEF AttachRegion
<1>2. Idle /\ cur <= Len(regions)
  BY DEF AttachRegion, Attaching
<1>3. regions \in Seq(Region) /\ cur \in Nat \ {0} /\ start \in Nat
  BY DEF PmapInv, TypeInv
<1>4. cur \in 1..Len(regions) /\ regions[cur] \in Region
  BY <1>2, <1>3
<1> DEFINE t == regions[cur].type  e == regions[cur].end
<1>5. t \in PageState /\ t # PARTIAL /\ e \in Nat
  BY <1>4 DEF Region, PageState, PARTIAL, ALLOCATABLE, RESERVED
<1>6. ASSUME t = ALLOCATABLE PROVE c < MaxClass
  <2>1. e + ClassSize[0] <= ClassSize[MaxClass]
    BY <1>4, <1>6 DEF PmapInv, RegionInv
  <2>2. start + ClassSize[c] <= RoundUp(e)
    BY <1>1 DEF Attachable, RegionEnd, High
  <2>3. RoundUp(e) \in Nat /\ RoundUp(e) < e + ClassSize[0] /\ ClassSize[0] \in Nat
    BY <1>5, RoundingIs
  <2>4. MaxClass \in Class /\ ClassSize[MaxClass] \in Nat /\ ClassSize[c] \in Nat /\ MaxClass \in Nat
    BY PmapClasses DEF Class
  <2>5. ClassSize[c] < ClassSize[MaxClass]
    BY <1>3, <1>5, <2>1, <2>2, <2>3, <2>4
  <2>6. c # MaxClass
    BY <2>4, <2>5
  <2> QED BY <2>4, <2>6 DEF Class
<1>7. UNCHANGED <<tree, link, regions, cur, start, refs, consts, panicked>>
  BY DEF AttachRegion
<1> QED BY <1>1, <1>2, <1>3, <1>5, <1>6, <1>7, StartLookup

LEMMA LookupConstPageStep ==
  ASSUME PmapInv, LookupConstPage
  PROVE  PmapInv'
<1>1. Idle /\ consts # <<>> /\ UNCHANGED <<tree, link, regions, cur, start, refs, consts, panicked>>
      /\ stack' = <<Frame(Root, ConstClass, Head(consts), PARTIAL, "const")>>
  BY DEF LookupConstPage, Attached
<1>2. Head(consts) \in Nat
  BY <1>1 DEF PmapInv, TypeInv
<1>3. ConstClass \in Class /\ PARTIAL \in PageState /\ PARTIAL # ALLOCATABLE
  BY PmapClasses DEF PageState, PARTIAL, ALLOCATABLE
<1> QED BY <1>1, <1>2, <1>3, StartLookup

LEMMA NextRegionStep ==
  ASSUME PmapInv, NextRegion
  PROVE  PmapInv'
<1>0. TypeInv /\ FrameInv /\ Nodes' = Nodes /\ ~Retyping
  BY DEF PmapInv, NextRegion, Nodes, Attaching, Idle, Retyping, Arrived, InLookup
<1>1. regions \in Seq(Region) /\ cur \in Nat \ {0} /\ start \in Nat /\ cur <= Len(regions)
  BY <1>0 DEF TypeInv, NextRegion, Attaching
<1>2. cur' \in Nat \ {0} /\ start' \in Nat
  <2>1. CASE cur = Len(regions)
    BY <1>1, <2>1 DEF NextRegion
  <2>2. CASE cur # Len(regions)
    <3>1. cur + 1 \in 1..Len(regions)
      BY <1>1, <2>2
    <3>2. regions[cur + 1].start \in Nat
      <4>1. regions[cur + 1] \in Region
        BY <1>1, <3>1
      <4> QED BY <4>1 DEF Region
    <3>3. Low(cur + 1) \in Nat
      BY <3>2, RoundingIs DEF Low
    <3> QED BY <1>1, <2>2, <3>3 DEF NextRegion
  <2> QED BY <2>1, <2>2
<1>3. TypeInv'
  BY <1>0, <1>2 DEF TypeInv, NextRegion
<1>4. FrameInv'
  BY <1>0 DEF FrameInv, NextRegion
<1>5. InFlight' = InFlight
  BY DEF InFlight, NextRegion
<1> QED BY <1>0, <1>3, <1>4, <1>5, QuietStep DEF NextRegion

LEMMA PanicStep ==
  ASSUME PmapInv, Panic
  PROVE  PmapInv'
<1>0. TypeInv /\ FrameInv /\ Nodes' = Nodes
  BY DEF PmapInv, Panic, Nodes
<1>1. TypeInv'
  BY <1>0 DEF TypeInv, Panic
<1>2. FrameInv'
  BY <1>0 DEF FrameInv, Panic
<1>3. InFlight' = InFlight
  BY DEF InFlight, Panic
<1> QED BY <1>1, <1>2, <1>3, QuietStep DEF Panic


-----------------------------------------------------------------------------
(* The steps that take nodes out of lists.                                 *)

\* ensure_free_desc() takes a page off its list and holds it in a frame of its own.
LEMMA EnsureFreeDescStep ==
  ASSUME PmapInv, OnlyFirstTaken, EnsureFreeDesc
  PROVE  PmapInv'
<1>0. TypeInv /\ FrameInv /\ ListInv /\ TreeInv /\ Nodes' = Nodes /\ Nodes \subseteq BlockType /\ IsFiniteSet(Nodes)
  BY DEF PmapInv, EnsureFreeDesc, Nodes, TypeInv
<1>1. Descending /\ ~panicked /\ refs = <<>> /\ stack # <<>> /\ descr < DescrNeeded(Top) /\ ~Top.pooled /\ ~AllocatingPool
  BY DEF EnsureFreeDesc, Descending, InLookup
<1>2. PICK peer \in FindPeer(PoolClass) :
        /\ link' = list_del(link, peer)
        /\ stack' = <<Frame(peer, PoolClass, peer.addr, PARTIAL, "pool"),
                      [Top EXCEPT !.pooled = TRUE]>> \o Tail(stack)
  BY DEF EnsureFreeDesc, TakePool
<1>3. peer \in Nodes /\ peer \in BlockType /\ peer.addr \in Nat
  <2>1. PoolClass \in Class
    BY PmapClasses
  <2>2. peer \in Nodes
    BY <1>0, <2>1, PeerIs DEF ListInv
  <2> QED BY <1>0, <2>2, BlockEnd
<1>4. link[link[peer].prev].next = peer
  <2>1. peer \in Taken
    BY <1>1, <1>3 DEF Taken
  <2> QED BY <1>1, <2>1 DEF OnlyFirstTaken
<1>5. /\ ListsAre(link', Nodes) /\ link'[peer] = Self(peer)
      /\ \A n \in Nodes : n # peer => link'[n] = link[n]
  <2>1. ListsAre(link, Nodes) /\ Nodes \in SUBSET BlockType
    BY <1>0 DEF ListInv
  <2>2. link' = list_del(link, peer)
    BY <1>2
  <2> QED BY <1>3, <1>4, <2>1, <2>2, DelFirst
<1> DEFINE f == Frame(peer, PoolClass, peer.addr, PARTIAL, "pool")
           g == [Top EXCEPT !.pooled = TRUE]  t == <<g>> \o Tail(stack)
<1>6. f \in FrameType /\ f.node = peer /\ f.type = PARTIAL /\ f.why = "pool"
  <2>1. PoolClass \in Class /\ PARTIAL \in PageState
    BY PmapClasses DEF PageState
  <2> QED BY <1>3, <2>1, FrameTyped
<1>7. g \in FrameType /\ g.node = Top.node /\ g.type = Top.type /\ g.why = Top.why /\ g.class = Top.class
  <2>1. Top \in FrameType
    BY <1>0, <1>1, TopIs
  <2> QED BY <2>1 DEF FrameType
<1> HIDE DEF f, g
<1>8. t \in Seq(FrameType) /\ FramesOk(t, Nodes, consts # <<>>)
  <2>1. stack \in Seq(FrameType) /\ FramesOk(stack, Nodes, consts # <<>>) /\ Top.node \in Nodes /\ Top = Head(stack)
    BY <1>0, <1>1, TopIs DEF TypeInv, FrameInv, Top
  <2> QED BY <1>1, <1>7, <2>1, NewTop
<1>9. stack' = <<f>> \o t /\ t # <<>>
  <2>1. Tail(stack) \in Seq(FrameType)
    BY <1>0, <1>1 DEF TypeInv
  <2>2. stack' = <<f, g>> \o Tail(stack)
    BY <1>2 DEF f, g
  <2>3. <<f, g>> \o Tail(stack) = <<f>> \o (<<g>> \o Tail(stack))
    <3>2. <<f>> \in Seq(FrameType) /\ <<g>> \in Seq(FrameType) /\ <<f, g>> \in Seq(FrameType)
      BY <1>6, <1>7
    <3>1. <<f, g>> = <<f>> \o <<g>>
      <4> DEFINE u == <<f, g>>  w == <<f>> \o <<g>>
      <4>1. w \in Seq(FrameType) /\ Len(w) = 2 /\ w[1] = f /\ w[2] = g
        BY <3>2
      <4>2. u \in Seq(FrameType) /\ Len(u) = 2 /\ u[1] = f /\ u[2] = g
        BY <3>2
      <4> HIDE DEF u, w
      <4>3. \A i \in 1..2 : i = 1 \/ i = 2
        OBVIOUS
      <4>4. \A i \in 1..Len(u) : u[i] = w[i]
        BY <4>1, <4>2, <4>3
      <4>5. u = w
        BY <4>1, <4>2, <4>4, SeqEqual
      <4> QED BY <4>5 DEF u, w
    <3> QED BY <2>1, <3>1, <3>2, ConcatAssociative
  <2>4. Len(t) > 0
    BY <1>7, <2>1
  <2> QED BY <2>2, <2>3, <2>4
<1>10. stack' \in Seq(FrameType) /\ FramesOk(stack', Nodes, consts # <<>>)
  <2> HIDE DEF t
  <2> QED BY <1>3, <1>6, <1>8, <1>9, PushFrame
<1>11. TypeInv'
  BY <1>0, <1>10 DEF TypeInv, EnsureFreeDesc
<1>12. FrameInv'
  BY <1>0, <1>10 DEF FrameInv, EnsureFreeDesc
<1>13. InFlight' = InFlight \cup {peer}
  <2>1. DOMAIN stack' = 1..Len(stack') /\ DOMAIN stack = 1..Len(stack) /\ DOMAIN refs = {} /\ Len(stack') = Len(stack) + 1
        /\ Len(stack) \in Nat /\ Len(stack) > 0
        /\ stack'[1] = f /\ stack'[2] = g /\ \A i \in 3..Len(stack') : stack'[i] = stack[i - 1]
    <3>1. stack \in Seq(FrameType) /\ Tail(stack) \in Seq(FrameType) /\ stack' = <<f, g>> \o Tail(stack)
      BY <1>0, <1>1, <1>2 DEF TypeInv, f, g
    <3> QED BY <1>1, <1>6, <1>7, <3>1
  <2>2. \A i \in 1..Len(stack') : i = 1 \/ i = 2 \/ (i \in 3..Len(stack') /\ i - 1 \in 1..Len(stack))
    BY <2>1
  <2>3. \A i \in 1..Len(stack) : i = 1 \/ (i + 1 \in 3..Len(stack') /\ (i + 1) - 1 = i)
    BY <2>1
  <2>4. 1 \in 1..Len(stack') /\ 2 \in 1..Len(stack') /\ 1 \in 1..Len(stack) /\ stack[1] = Top
    BY <1>0, <1>1, <2>1, TopIs
  <2>5. refs' = refs /\ 3..Len(stack') \subseteq 1..Len(stack')
    BY <2>1 DEF EnsureFreeDesc
  <2>6. ASSUME NEW i \in 1..Len(stack') PROVE stack'[i].node \in InFlight \cup {peer}
    BY <1>6, <1>7, <2>1, <2>2, <2>4 DEF InFlight
  <2>7. ASSUME NEW i \in 1..Len(stack) PROVE stack[i].node \in InFlight'
    <3>1. CASE i = 1
      BY <1>7, <2>1, <2>4, <3>1 DEF InFlight
    <3>2. CASE i # 1
      <4>1. i + 1 \in 3..Len(stack') /\ (i + 1) - 1 = i
        BY <2>3, <3>2
      <4>2. i + 1 \in DOMAIN stack' /\ stack'[i + 1] = stack[i]
        BY <2>1, <2>5, <4>1
      <4> QED BY <4>2 DEF InFlight
    <3> QED BY <3>1, <3>2
  <2>8. peer \in InFlight'
    BY <1>6, <2>1, <2>4 DEF InFlight
  <2> QED BY <2>1, <2>5, <2>6, <2>7, <2>8 DEF InFlight
<1>14. \A n : WasFree(n)' <=> WasFree(n)
  BY <1>0 DEF WasFree, PageIsFree, Kids, EnsureFreeDesc
<1>15. ListInv'
  <2>1. \A n \in Nodes : OnList(n)' <=> (n # peer /\ OnList(n))
    BY <1>5 DEF OnList
  <2> QED BY <1>0, <1>5, <1>13, <1>14, <2>1 DEF ListInv
<1>16. TreeInv' /\ RegionInv'
  BY <1>0 DEF TreeInv, PmapInv, RegionInv, EnsureFreeDesc
<1>17. FamilyInv'
  <2>1. FamilyInv /\ ~Retyping
    BY <1>0, <1>1, NotRetyping DEF PmapInv
  <2>2. Whole'
    BY <1>0, <2>1, WholeIs DEF Whole
  <2> QED BY <2>2, WholeStep
<1> QED BY <1>11, <1>12, <1>15, <1>16, <1>17 DEF PmapInv


\* page_ref() references a node, taking it off its list if it is the first reference.
LEMMA PageRefStep ==
  ASSUME PmapInv, OnlyFirstTaken, PageRef
  PROVE  PmapInv'
<1> PICK n : n = Head(refs)
  OBVIOUS
<1> DEFINE kids == (IF Left(n) \in Nodes THEN <<Left(n)>> ELSE <<>>) \o
                   (IF Right(n) \in Nodes THEN <<Right(n)>> ELSE <<>>)
           more == IF tree[n].refc = 0 THEN (IF n.class = 0 THEN <<>> ELSE kids) ELSE <<>>
<1>0. /\ TypeInv /\ FrameInv /\ ListInv /\ TreeInv /\ Nodes \subseteq BlockType /\ IsFiniteSet(Nodes)
      /\ tree \in [Nodes -> [state : PageState, refc : Nat]] /\ refs \in Seq(Nodes)
  BY DEF PmapInv, TypeInv, FrameInv
<1>1. ~panicked /\ refs # <<>> /\ tree' = [tree EXCEPT ![n].refc = @ + 1] /\ UNCHANGED <<stack, panicked, regions, cur, start, consts>>
  BY DEF PageRef
<1>2. n \in Nodes /\ tree[n].state \in PageState /\ tree[n].refc \in Nat
  <2>1. n \in Nodes
    BY <1>0, <1>1
  <2> QED BY <1>0, <2>1
<1>3. more \in Seq(Nodes) /\ Len(more) \in Nat
  <2>1. kids \in Seq(Nodes)
    OBVIOUS
  <2> HIDE DEF kids
  <2> QED BY <2>1
<1>4. refs' = more \o Tail(refs)
  <2>1. CASE tree[n].refc = 0
    BY <2>1 DEF PageRef
  <2>2. CASE tree[n].refc # 0
    <3>1. refs' = Tail(refs)
      BY <2>2 DEF PageRef
    <3>2. <<>> \o Tail(refs) = Tail(refs)
      BY <1>0, <1>1
    <3> QED BY <2>2, <3>1, <3>2
  <2> QED BY <2>1, <2>2
<1> HIDE DEF more, kids
<1>5. /\ Nodes' = Nodes /\ tree' \in [Nodes -> [state : PageState, refc : Nat]]
      /\ \A m \in Nodes : tree'[m].state = tree[m].state
      /\ \A m \in Nodes : m # n => tree'[m] = tree[m]
      /\ tree'[n].refc = tree[n].refc + 1 /\ tree'[n].refc # 0
  <2> DEFINE r == [tree[n] EXCEPT !.refc = tree[n].refc + 1]
  <2>1. tree' = [tree EXCEPT ![n] = r]
    BY <1>1
  <2>2. tree[n] \in [state : PageState, refc : Nat]
    BY <1>0, <1>2
  <2>3. r \in [state : PageState, refc : Nat] /\ r.state = tree[n].state /\ r.refc = tree[n].refc + 1
    BY <1>2, <2>2
  <2> HIDE DEF r
  <2>4. tree'[n] = r /\ \A m \in Nodes : m # n => tree'[m] = tree[m]
    BY <1>0, <1>2, <2>1
  <2>5. DOMAIN tree' = Nodes
    BY <2>1 DEF Nodes
  <2>6. \A m \in Nodes : tree'[m] \in [state : PageState, refc : Nat]
    BY <1>0, <2>3, <2>4
  <2>7. tree' = [m \in Nodes |-> tree'[m]]
    BY <2>1, <2>5
  <2>8. tree[n].refc + 1 # 0
    BY <1>2
  <2>9. tree' \in [Nodes -> [state : PageState, refc : Nat]]
    BY <2>6, <2>7
  <2>10. Nodes' = Nodes
    BY <2>5 DEF Nodes
  <2> QED BY <2>3, <2>4, <2>8, <2>9, <2>10
<1>6. /\ ListsAre(link', Nodes)
      /\ \A m \in Nodes : m # n => link'[m] = link[m]
      /\ link'[n] = Self(n)
  <2>1. ListsAre(link, Nodes) /\ Nodes \in SUBSET BlockType
    BY <1>0 DEF ListInv
  <2>2. CASE tree[n].refc = 0
    <3>1. link' = list_del(link, n)
      BY <2>2 DEF PageRef
    <3>2. link[link[n].prev].next = n
      <4>1. n \in Taken
        BY <1>1, <1>2 DEF Taken
      <4> QED BY <1>1, <4>1 DEF OnlyFirstTaken
    <3> QED BY <1>2, <2>1, <3>1, <3>2, DelFirst
  <2>3. CASE tree[n].refc # 0
    <3>1. link' = link
      BY <2>3 DEF PageRef
    <3>2. ~OnList(n)
      BY <1>0, <1>2, <2>3 DEF ListInv, WasFree, PageIsFree
    <3> QED BY <2>1, <3>1, <3>2 DEF OnList
  <2> QED BY <2>2, <2>3
<1>7. Tail(refs) \in Seq(Nodes) /\ refs' \in Seq(Nodes)
  BY <1>0, <1>1, <1>3, <1>4
<1>8. TypeInv'
  BY <1>0, <1>1, <1>5 DEF TypeInv
<1>9. FrameInv'
  BY <1>0, <1>1, <1>5, <1>7 DEF FrameInv
<1>10. InFlight \ {n} \subseteq InFlight'
  <2>1. ASSUME NEW i \in DOMAIN refs, i # 1 PROVE refs[i] \in InFlight'
    <3> DEFINE j == Len(more) + (i - 1)
    <3>1. i \in 1..Len(refs) /\ Len(refs) \in Nat /\ i - 1 \in 1..Len(Tail(refs)) /\ Tail(refs)[i - 1] = refs[i]
      BY <1>0, <1>1, <2>1
    <3>2. refs'[j] = refs[i] /\ j \in DOMAIN refs'
      <4>1. more \in Seq(Nodes) /\ Tail(refs) \in Seq(Nodes) /\ Len(more) \in Nat /\ Len(Tail(refs)) \in Nat
        BY <1>3, <1>7
      <4>2. j \in 1..(Len(more) + Len(Tail(refs))) /\ j > Len(more) /\ j - Len(more) = i - 1
        BY <3>1, <4>1
      <4>3. refs' = more \o Tail(refs)
        BY <1>4
      <4> HIDE DEF j
      <4>4. \A s, u \in Seq(Nodes) : \A y \in 1..(Len(s) + Len(u)) :
              y > Len(s) => (s \o u)[y] = u[y - Len(s)] /\ y \in DOMAIN (s \o u)
        OBVIOUS
      <4>5. refs'[j] = Tail(refs)[j - Len(more)] /\ j \in DOMAIN refs'
        BY <4>1, <4>2, <4>3, <4>4
      <4> QED BY <3>1, <4>2, <4>5
    <3> QED BY <3>2 DEF InFlight
  <2>2. refs[1] = n
    BY <1>0, <1>1
  <2>3. ASSUME NEW i \in DOMAIN stack PROVE stack[i].node \in InFlight'
    BY <1>1 DEF InFlight
  <2> QED BY <2>1, <2>2, <2>3 DEF InFlight
<1>11. /\ ~WasFree(n)'
       /\ \A m \in Nodes : m # n => (WasFree(m)' <=> WasFree(m))
  BY <1>5 DEF WasFree, PageIsFree, Kids
<1>12. ListInv'
  <2>1. /\ ~OnList(n)' /\ \A m \in Nodes : m # n => (OnList(m)' <=> OnList(m))
    BY <1>6 DEF OnList
  <2> QED BY <1>0, <1>5, <1>6, <1>10, <1>11, <2>1 DEF ListInv
<1>13. TreeInv' /\ RegionInv'
  BY <1>0, <1>1, <1>5 DEF TreeInv, PmapInv, RegionInv
<1>14. FamilyInv'
  <2>1. FamilyInv /\ ~Retyping
    BY <1>1 DEF PmapInv, Retyping, Arrived, InLookup
  <2>2. Whole'
    BY <1>5, <2>1, WholeIs DEF Whole
  <2> QED BY <2>2, WholeStep
<1> QED BY <1>8, <1>9, <1>12, <1>13, <1>14 DEF PmapInv


\* The node that attach_region() has looked up is the only one that a call holds.
LEMMA RetypingIs ==
  ASSUME TypeInv, FrameInv, Retyping
  PROVE  /\ ~panicked /\ refs = <<>> /\ Len(stack) = 1 /\ stack # <<>> /\ stack[1] = Top
         /\ InFlight = {Top.node} /\ Top.node \in Nodes /\ Top.node \in BlockType
         /\ Top.type \in PageState /\ Top.type # PARTIAL /\ tree[Top.node].refc = 0
         /\ Top.type = ALLOCATABLE => Top.node.class < MaxClass
<1>1. ~panicked /\ refs = <<>> /\ stack # <<>> /\ Top.type # PARTIAL /\ tree[Top.node].refc = 0
      /\ Top.node.class <= Top.class
  BY DEF Retyping, Arrived, InLookup
<1>2. Top.why = "attach" /\ Len(stack) = 1 /\ Top = stack[1] /\ Top.node \in BlockType /\ Top.class \in Class
  BY <1>1, TopIs
<1>3. InFlight = {Top.node}
  <2>1. DOMAIN stack = {1}
    <3>1. stack \in Seq(FrameType)
      BY DEF TypeInv
    <3>2. 1..1 = {1}
      OBVIOUS
    <3> QED BY <1>2, <3>1, <3>2
  <2>2. DOMAIN refs = {}
    BY <1>1
  <2> QED BY <1>2, <2>1, <2>2 DEF InFlight
<1>4. Top.type = ALLOCATABLE => Top.node.class < MaxClass
  <2>1. Top.node.class \in Class
    BY <1>2, BlockEnd
  <2>2. Top.node.class \in Nat /\ Top.class \in Nat /\ MaxClass \in Nat
    BY <1>2, <2>1, PmapClasses
  <2>3. Top.type = ALLOCATABLE => Top.class < MaxClass
    BY <1>1, TopIs
  <2> QED BY <1>1, <2>2, <2>3
<1> QED BY <1>1, <1>2, <1>3, <1>4, TopIs

\* attach_region() gives the node its new state and, if it is free, puts it on its list.
LEMMA AttachStep ==
  ASSUME PmapInv, OnlyFirstTaken, Attach
  PROVE  PmapInv'
<1> PICK n, t : n = Top.node /\ t = NewType(n, Top.type)
  OBVIOUS
<1>0. /\ TypeInv /\ FrameInv /\ ListInv /\ TreeInv /\ Nodes \subseteq BlockType /\ IsFiniteSet(Nodes)
      /\ tree \in [Nodes -> [state : PageState, refc : Nat]] /\ ListsAre(link, Nodes)
  BY DEF PmapInv, TypeInv, ListInv
<1>1. /\ Retyping /\ Below(n) = {} /\ tree' = [tree EXCEPT ![n].state = t] /\ stack' = Tail(stack)
      /\ start' = NextStart(Top)
      /\ UNCHANGED <<descr, pools, regions, cur, consts, refs, panicked>>
  BY DEF Attach
<1>2. /\ ~panicked /\ refs = <<>> /\ Len(stack) = 1 /\ stack # <<>> /\ InFlight = {n} /\ n \in Nodes /\ n \in BlockType
      /\ Top.type \in PageState /\ Top.type # PARTIAL /\ tree[n].refc = 0
      /\ (Top.type = ALLOCATABLE => n.class < MaxClass)
  BY <1>0, <1>1, RetypingIs
<1>3. t \in PageState /\ (t = ALLOCATABLE => n.class < MaxClass) /\ n.class \in Class
  <2>1. RESERVED # ALLOCATABLE /\ RESERVED \in PageState
    BY DEF RESERVED, ALLOCATABLE, PageState
  <2> QED BY <1>2, <2>1, BlockEnd DEF NewType
<1>4. /\ Nodes' = Nodes /\ tree' \in [Nodes -> [state : PageState, refc : Nat]]
      /\ \A m \in Nodes : m # n => tree'[m] = tree[m]
      /\ tree'[n].refc = 0 /\ tree'[n].state = t
  <2> DEFINE r == [tree[n] EXCEPT !.state = t]
  <2>1. tree' = [tree EXCEPT ![n] = r]
    BY <1>1
  <2>2. tree[n] \in [state : PageState, refc : Nat]
    BY <1>0, <1>2
  <2>3. r \in [state : PageState, refc : Nat] /\ r.state = t /\ r.refc = 0
    BY <1>2, <1>3, <2>2
  <2> HIDE DEF r
  <2>4. tree'[n] = r /\ \A m \in Nodes : m # n => tree'[m] = tree[m]
    BY <1>0, <1>2, <2>1
  <2>5. DOMAIN tree' = Nodes
    BY <2>1 DEF Nodes
  <2>6. tree' \in [Nodes -> [state : PageState, refc : Nat]]
    BY <1>0, <2>1, <2>3
  <2>7. Nodes' = Nodes
    BY <2>5 DEF Nodes
  <2> QED BY <2>3, <2>4, <2>6, <2>7
<1> DEFINE l == list_del(link, n)
<1>5. ListsAre(l, Nodes) /\ l[n] = Self(n) /\ \A m \in Nodes : m # n => l[m] = link[m]
  <2>1. link[link[n].prev].next = n
    <3>1. n \in Taken
      BY <1>1, <1>2 DEF Taken
    <3> QED BY <1>2, <3>1 DEF OnlyFirstTaken
  <2>2. l = list_del(link, n) /\ Nodes \in SUBSET BlockType /\ ListsAre(link, Nodes) /\ n \in Nodes
    BY <1>0, <1>2
  <2> HIDE DEF l
  <2> QED BY <2>1, <2>2, DelFirst
<1>6. link' = IF t = ALLOCATABLE THEN list_append(l, ListHead(n.class), n) ELSE l
  BY DEF Attach
<1> HIDE DEF l
<1>7. /\ ListsAre(link', Nodes)
      /\ \A m \in Nodes : m # n => link'[m] = link[m]
      /\ link'[n] # Self(n) <=> t = ALLOCATABLE
  <2>1. CASE t = ALLOCATABLE
    <3>1. n.class \in ListClass
      <4>1. n.class # MaxClass
        BY <1>3, <2>1, PmapClasses
      <4> QED BY <1>3, <4>1, PmapClasses
    <3>2. link' = list_append(l, ListHead(n.class), n)
      BY <1>6, <2>1
    <3>3. ListsAre(link', Nodes) /\ link'[n] # Self(n) /\ \A m \in Nodes : m # n => link'[m] = l[m]
      <4>1. Nodes \in SUBSET BlockType /\ ListsAre(l, Nodes) /\ l[n] = Self(n) /\ n \in Nodes
        BY <1>0, <1>2, <1>5
      <4> QED BY <3>1, <3>2, <4>1, AppendOne
    <3> QED BY <1>5, <2>1, <3>3
  <2>2. CASE t # ALLOCATABLE
    BY <1>5, <1>6, <2>2
  <2> QED BY <2>1, <2>2
<1>8. stack' = <<>> /\ InFlight' = {}
  <2>1. stack' = <<>>
    <3>1. stack \in Seq(FrameType)
      BY <1>0 DEF TypeInv
    <3>2. stack' \in Seq(FrameType) /\ Len(stack') = 0
      BY <1>1, <1>2, <3>1
    <3> QED BY <3>2, EmptySeq
  <2> QED BY <1>1, <1>2, <2>1 DEF InFlight
<1>9. Kids(n) = {}
  BY <1>0, <1>1, <1>2, KidsBelow
<1>10. TypeInv'
  <2>1. start' \in Nat
    <3>1. start \in Nat /\ Top.class \in Class
      BY <1>0, <1>2, TopIs DEF TypeInv
    <3>2. ClassSize[Top.class] \in Nat
      BY <3>1, PmapClasses
    <3> QED BY <1>1, <3>1, <3>2 DEF NextStart
  <2>2. stack' \in Seq(FrameType)
    BY <1>8
  <2> QED BY <1>0, <1>1, <1>4, <2>1, <2>2 DEF TypeInv
<1>11. FrameInv'
  <2>1. Len(stack') = 0
    BY <1>8
  <2>2. FramesOk(stack', Nodes', consts' # <<>>)
    BY <2>1 DEF FramesOk
  <2> QED BY <1>0, <1>1, <1>4, <2>2 DEF FrameInv
<1>12. /\ WasFree(n)' <=> t = ALLOCATABLE
       /\ \A m \in Nodes : m # n => (WasFree(m)' <=> WasFree(m))
  BY <1>4, <1>9 DEF WasFree, PageIsFree, Kids
<1>13. ListInv'
  <2>1. /\ OnList(n)' <=> t = ALLOCATABLE
        /\ \A m \in Nodes : m # n => (OnList(m)' <=> OnList(m))
    BY <1>7 DEF OnList
  <2> QED BY <1>0, <1>2, <1>4, <1>7, <1>8, <1>12, <2>1 DEF ListInv
<1>14. TreeInv' /\ RegionInv'
  <2>1. tree'[Root].state # ALLOCATABLE
    <3>1. CASE n = Root
      <4>1. n.class = MaxClass /\ MaxClass \in Nat
        BY <3>1, PmapClasses DEF Root, Block
      <4>2. ~(n.class < MaxClass)
        BY <4>1
      <4> QED BY <1>3, <1>4, <3>1, <4>2
    <3>2. CASE n # Root
      BY <1>0, <1>4, <3>2 DEF TreeInv
    <3> QED BY <3>1, <3>2
  <2> QED BY <1>0, <1>1, <1>4, <2>1 DEF TreeInv, PmapInv, RegionInv
<1>15. FamilyInv'
  <2>1. FamilyInv
    BY <1>2 DEF PmapInv
  <2>2. \A m \in Nodes \ {Root} : \E p \in Nodes : p.class > 0 /\ m \in {Left(p), Right(p)}
    BY <1>1, <2>1 DEF FamilyInv
  <2>3. \A x \in Nodes : x.class > 0 => (Right(x) \in Nodes <=> Left(x) \in Nodes)
    <3> SUFFICES ASSUME NEW x \in Nodes, x.class > 0 PROVE Right(x) \in Nodes <=> Left(x) \in Nodes
      OBVIOUS
    <3>1. CASE x = n
      <4>1. x.class # 0
        BY <1>2, <1>3, <3>1, PmapClasses
      <4> QED BY <1>9, <3>1, <4>1 DEF Kids
    <3>2. CASE x # n
      <4>1. ~Within(x, n)
        BY <1>1, <3>2 DEF Below
      <4> QED BY <2>1, <3>2, <4>1 DEF FamilyInv, Clearing
    <3> QED BY <3>1, <3>2
  <2>4. Whole'
    BY <1>4, <2>2, <2>3 DEF Whole
  <2> QED BY <2>4, WholeStep
<1> QED BY <1>10, <1>11, <1>13, <1>14, <1>15 DEF PmapInv


\* free_desc_rec() frees a node whose parent keeps its other child or is the one retyped.
LEMMA FreedChild ==
  ASSUME Nodes \subseteq BlockType, \A y \in Nodes : Aligned(y), FamilyInv,
         NEW n \in Nodes, n = Top.node, NEW m, m = NextFreed(n), Below(n) # {}
  PROVE  /\ m \in Nodes /\ m # n /\ Within(m, n) /\ m # Root
         /\ \A x \in Nodes : x.class > 0 /\ x # n /\ m \in {Left(x), Right(x)}
              => x \in Below(n) /\ m = Right(x) /\ Left(x) \in Nodes \ {m}
<1>1. m \in Below(n)
  BY NextFreedIs
<1>2. m \in Nodes /\ m # n /\ Within(m, n) /\ m \in BlockType /\ n \in BlockType
  BY <1>1 DEF Below
<1>3. m # Root
  <2>1. m.class < n.class /\ n.class \in Class
    BY <1>2, Smaller, BlockEnd
  <2>2. n.class \in Nat /\ n.class <= MaxClass /\ MaxClass \in Nat
    BY <2>1, PmapClasses DEF Class
  <2>3. m.class \in Nat
    BY <1>2, BlockEnd, PmapClasses
  <2>4. m.class # MaxClass
    BY <2>1, <2>2, <2>3
  <2> QED BY <2>4 DEF Root, Block
<1>4. ASSUME NEW x \in Nodes, x.class > 0, x # n, m \in {Left(x), Right(x)}
      PROVE  x \in Below(n) /\ m = Right(x) /\ Left(x) \in Nodes \ {m}
  <2>0. x \in BlockType /\ Aligned(x) /\ Aligned(n)
    OBVIOUS
  <2>1. /\ Within(x, n)
        /\ Middle(x) < Middle(n) <=> Middle(m) < Middle(n)
        /\ m = Left(x) => Middle(m) < Middle(x)
    BY <1>2, <1>4, <2>0, ParentWithin
  <2>2. x \in Below(n)
    BY <1>4, <2>1 DEF Below
  <2>3. Middle(x) <= Middle(m)
    BY <2>1, <2>2, NextFreedIs
  <2>4. Middle(x) \in Nat /\ Middle(m) \in Nat
    BY <1>2, <2>0, MiddleIs
  <2>5. m # Left(x)
    BY <2>1, <2>3, <2>4
  <2>6. Left(x) \in Nodes
    BY <1>2, <1>4, <2>5 DEF FamilyInv
  <2> QED BY <1>4, <2>2, <2>5, <2>6
<1> QED BY <1>2, <1>3, <1>4

LEMMA FreeDescRecStep ==
  ASSUME PmapInv, OnlyFirstTaken, FreeDescRec
  PROVE  PmapInv'
<1> PICK n, m : n = Top.node /\ m = NextFreed(n)
  OBVIOUS
<1> DEFINE rest == Nodes \ {m}  l == list_del(link, m)
<1>0. /\ TypeInv /\ FrameInv /\ ListInv /\ TreeInv /\ Nodes \subseteq BlockType /\ IsFiniteSet(Nodes)
      /\ tree \in [Nodes -> [state : PageState, refc : Nat]] /\ ListsAre(link, Nodes) /\ \A y \in Nodes : Aligned(y)
  BY DEF PmapInv, TypeInv, ListInv, TreeInv
<1>1. /\ Retyping /\ Below(n) # {} /\ tree' = [x \in rest |-> tree[x]] /\ link' = [x \in rest \cup Heads |-> l[x]]
      /\ UNCHANGED <<regions, cur, start, consts, stack, refs, panicked>>
  BY DEF FreeDescRec
<1>2. /\ ~panicked /\ refs = <<>> /\ stack # <<>> /\ InFlight = {n} /\ n \in Nodes /\ n \in BlockType
      /\ stack[1] = Top /\ Len(stack) = 1 /\ Top' = Top
  BY <1>0, <1>1, RetypingIs DEF Top
<1>3. FamilyInv
  BY <1>2 DEF PmapInv
<1>4. /\ m \in Nodes /\ m # n /\ Within(m, n) /\ m # Root
      /\ \A x \in Nodes : x.class > 0 /\ x # n /\ m \in {Left(x), Right(x)}
           => x \in Below(n) /\ m = Right(x) /\ Left(x) \in Nodes \ {m}
  BY <1>0, <1>1, <1>2, <1>3, FreedChild
<1>5. /\ Nodes' = rest /\ tree' \in [rest -> [state : PageState, refc : Nat]]
      /\ \A x \in rest : tree'[x] = tree[x]
      /\ rest \subseteq BlockType /\ IsFiniteSet(rest)
  <2>1. Nodes' = rest
    BY <1>1 DEF Nodes
  <2>2. IsFiniteSet(rest)
    BY <1>0, FS_Subset
  <2> QED BY <1>0, <1>1, <2>1, <2>2
<1>6. /\ ListsAre(link', rest)
      /\ \A x \in rest : link'[x] = link[x]
  <2>1. link[link[m].prev].next = m
    <3>1. m \in Taken
      BY <1>1, <1>4 DEF Taken
    <3> QED BY <1>2, <3>1 DEF OnlyFirstTaken
  <2>2. l = list_del(link, m) /\ Nodes \in SUBSET BlockType /\ ListsAre(link, Nodes) /\ m \in Nodes
    BY <1>0, <1>4
  <2> HIDE DEF l
  <2>3. ListsAre(l, Nodes) /\ l[m] = Self(m) /\ \A x \in Nodes : x # m => l[x] = link[x]
    BY <2>1, <2>2, DelFirst
  <2>4. ListsAre(link', Nodes \ {m}) /\ \A x \in Nodes \ {m} : link'[x] = l[x]
    <3>1. link' = [x \in (Nodes \ {m}) \cup Heads |-> l[x]]
      BY <1>1
    <3>2. Nodes \in SUBSET BlockType /\ ListsAre(l, Nodes) /\ m \in Nodes /\ l[m] = Self(m)
      BY <2>2, <2>3
    <3> HIDE DEF rest
    <3> QED BY <3>1, <3>2, RemoveLists
  <2> QED BY <2>3, <2>4
<1> HIDE DEF l
<1>7. \A x \in rest : Kids(x)' = Kids(x) \ {m}
  BY <1>5 DEF Kids
<1>8. ASSUME NEW x \in rest, x # n, Kids(x)' = {} PROVE Kids(x) = {}
  <2> SUFFICES ASSUME Kids(x) # {} PROVE FALSE
    OBVIOUS
  <2>1. x.class \in Nat /\ x.class # 0
    <3>1. x.class \in Class
      BY <1>5, BlockEnd
    <3> QED BY <3>1, PmapClasses DEF Kids
  <2>2. m \in {Left(x), Right(x)}
    BY <1>7, <1>8 DEF Kids
  <2>3. x.class > 0
    BY <2>1
  <2>4. Left(x) \in Nodes \ {m}
    BY <1>4, <1>8, <2>2, <2>3
  <2>5. Left(x) \in Kids(x)'
    BY <1>7, <2>1, <2>4 DEF Kids
  <2> QED BY <1>8, <2>5
<1>9. /\ \A x \in rest : WasFree(x) => WasFree(x)'
      /\ \A x \in rest : x # n /\ WasFree(x)' => WasFree(x)
  BY <1>5, <1>7, <1>8 DEF WasFree, PageIsFree
<1>10. InFlight' = InFlight
  BY <1>1 DEF InFlight
<1>11. ListInv'
  <2>1. \A x \in rest : OnList(x)' <=> OnList(x)
    BY <1>6 DEF OnList
  <2> HIDE DEF rest
  <2>2. rest \subseteq Nodes
    BY DEF rest
  <2> QED BY <1>0, <1>2, <1>5, <1>6, <1>9, <1>10, <2>1, <2>2 DEF ListInv
<1>12. TypeInv'
  BY <1>0, <1>1, <1>5 DEF TypeInv
<1>13. FrameInv'
  <2>1. FramesOk(stack, Nodes, consts # <<>>)
    BY <1>0 DEF FrameInv
  <2>2. \A i \in 1..Len(stack) : stack[i].node \in rest
    <3>1. \A i \in 1..1 : i = 1
      OBVIOUS
    <3> QED BY <1>2, <1>4, <3>1
  <2>3. FramesOk(stack', Nodes', consts' # <<>>)
    BY <1>1, <1>5, <2>1, <2>2 DEF FramesOk
  <2>4. refs' \in Seq(rest)
    BY <1>1, <1>2
  <2> QED BY <1>5, <2>3, <2>4 DEF FrameInv
<1>14. TreeInv' /\ RegionInv'
  BY <1>0, <1>1, <1>4, <1>5 DEF TreeInv, PmapInv, RegionInv
<1>15. Retyping' /\ Below(n)' = Below(n) \ {m} /\ Top.node' = n
  BY <1>1, <1>2, <1>4, <1>5 DEF Retyping, Arrived, InLookup, Below
<1>16. FamilyInv'
  <2>1. ASSUME NEW k \in rest \ {Root}
        PROVE  \/ \E p \in rest : p.class > 0 /\ k \in {Left(p), Right(p)}
               \/ k \in Below(n)'
    <3>1. CASE k \in Below(n)
      BY <1>15, <3>1
    <3>2. CASE k \notin Below(n)
      <4>1. PICK p \in Nodes : p.class > 0 /\ k \in {Left(p), Right(p)}
        BY <1>3, <3>2 DEF FamilyInv
      <4>2. p # m
        <5> SUFFICES ASSUME p = m PROVE FALSE
          OBVIOUS
        <5>1. k \in BlockType /\ m \in BlockType /\ Within(k, m) /\ k # m
          BY <1>0, <4>1, HalvesWithin, Halves
        <5>2. Within(k, n)
          BY <1>2, <1>4, <5>1, WithinTransitive
        <5>3. k = n
          BY <3>2, <5>2 DEF Below
        <5>4. k.class < m.class /\ m.class < n.class
          BY <1>2, <1>4, <5>1, Smaller
        <5>5. k.class \in Nat /\ m.class \in Nat
          <6>1. k.class \in Class /\ m.class \in Class
            BY <5>1, BlockEnd
          <6> QED BY <6>1, PmapClasses
        <5> QED BY <5>3, <5>4, <5>5
      <4> QED BY <4>1, <4>2
    <3> QED BY <3>1, <3>2
  <2>2. ASSUME NEW x \in rest, x.class > 0, Right(x) \in rest PROVE Left(x) \in rest \/ x = n
    <3>1. Left(x) # Right(x)
      BY <1>5, <2>2, Halves
    <3>2. Left(x) \in Nodes \/ x = n
      BY <1>3, <2>2 DEF FamilyInv
    <3> QED BY <1>4, <2>2, <3>1, <3>2
  <2>3. ASSUME NEW x \in rest, x.class > 0, Left(x) \in rest PROVE Right(x) \in rest \/ Within(x, n)
    <3>1. Right(x) \in Nodes \/ Within(x, n)
      BY <1>3, <2>3 DEF FamilyInv, Clearing
    <3>2. Right(x) = m => Within(x, n)
      <4>1. CASE x = n
        <5>1. n.addr \in Nat /\ EndOf(n) \in Nat
          BY <1>2, BlockEnd
        <5> QED BY <4>1, <5>1 DEF Within
      <4>2. CASE x # n
        BY <1>4, <2>3, <4>2 DEF Below
      <4> QED BY <4>1, <4>2
    <3> QED BY <3>1, <3>2
  <2> HIDE DEF rest
  <2> QED BY <1>5, <1>15, <2>1, <2>2, <2>3 DEF FamilyInv, Clearing
<1> QED BY <1>11, <1>12, <1>13, <1>14, <1>16 DEF PmapInv


\* The frame, the node and the halves that page_lookup() creates.
Splits(f, n, new) == f = Top /\ n = f.node /\ new = {Left(n), Right(n)} \ Nodes

\* The tree page_lookup() leaves when it has split the node.
TreeSplit(f, n, new) ==
  /\ new \subseteq BlockType /\ IsFiniteSet(Nodes \cup new) /\ new \cap Nodes = {}
  /\ Nodes' = Nodes \cup new /\ tree' \in [Nodes \cup new -> [state : PageState, refc : Nat]]
  /\ \A x \in Nodes : x # n => tree'[x] = tree[x] /\ Kids(x)' = Kids(x)
  /\ tree'[n].state = SplitState(n, f.type) /\ tree'[n].refc = tree[n].refc /\ Kids(n)' # {}
  /\ \A k \in new : tree'[k] = NewChild(n) /\ Kids(k)' = {}
  /\ \A x \in Nodes : x # n /\ x.class > 0 => Left(x) \notin new /\ Right(x) \notin new
  /\ \A k \in new : k.class > 0 => Left(k) \notin Nodes \cup new /\ Right(k) \notin Nodes \cup new

\* What page_lookup() makes of the tree when it splits a node.
LEMMA DescendTree ==
  ASSUME PmapInv, Descend, NEW f, NEW n, NEW new, Splits(f, n, new)
  PROVE  TreeSplit(f, n, new)
<1> PICK d, r : d = n.class - 1 /\ r = GoesRight(f)
  OBVIOUS
<1> f = Top /\ n = f.node /\ new = {Left(n), Right(n)} \ Nodes
  BY DEF Splits
<1> DEFINE on == IF r THEN Right(n) ELSE Left(n)  all == Nodes \cup new
<1>0. /\ TypeInv /\ FrameInv /\ ListInv /\ TreeInv /\ Nodes \subseteq BlockType /\ IsFiniteSet(Nodes)
      /\ tree \in [Nodes -> [state : PageState, refc : Nat]] /\ ListsAre(link, Nodes) /\ \A y \in Nodes : Aligned(y)
      /\ stack \in Seq(FrameType)
  BY DEF PmapInv, TypeInv, ListInv, TreeInv
<1>1. /\ Descending /\ ~panicked /\ stack # <<>>
      /\ tree' = [Extend(tree, [k \in new |-> NewChild(n)]) EXCEPT ![n].state = SplitState(n, f.type)]
  BY DEF Descend, Descending, InLookup
<1>2. /\ f \in FrameType /\ f = Head(stack) /\ n \in Nodes /\ n \in BlockType /\ n \in InFlight
      /\ f.class \in Class /\ f.type \in PageState /\ stack[1] = f
  BY <1>0, <1>1, TopIs DEF Top
<1>3. n.class \in Nat /\ n.class > 0 /\ f.class \in Nat /\ n.class \in Class
  <2>1. n.class \in Class
    BY <1>2, BlockEnd
  <2>2. n.class \in Nat /\ f.class \in Nat /\ n.class > f.class
    BY <1>1, <1>2, <2>1, PmapClasses DEF Descending
  <2> QED BY <2>1, <2>2
<1>4. /\ Left(n) \in BlockType /\ Right(n) \in BlockType /\ Left(n) # Right(n) /\ Left(n) # n /\ Right(n) # n
      /\ Left(n).class = d /\ Right(n).class = d /\ d \in ListClass /\ d # n.class
      /\ Aligned(Left(n)) /\ Aligned(Right(n))
  BY <1>0, <1>2, <1>3, Halves, HalvesAligned
<1>5. FamilyInv /\ ~Retyping /\ Whole
  BY <1>0, <1>1, NotRetyping, WholeIs DEF PmapInv
<1>6. on \in {Left(n), Right(n)}
  OBVIOUS
<1>7. new \subseteq BlockType /\ all \subseteq BlockType /\ IsFiniteSet(all) /\ new \cap Nodes = {}
  <2>1. IsFiniteSet((Nodes \cup {Left(n)}) \cup {Right(n)})
    BY <1>0, FS_AddElement
  <2>2. all = (Nodes \cup {Left(n)}) \cup {Right(n)}
    OBVIOUS
  <2> QED BY <1>0, <1>4, <2>1, <2>2
\* No node has a new one for a child but n, and the new ones have none.
<1>8. \A x \in Nodes : x # n /\ x.class > 0 => Left(x) \notin new /\ Right(x) \notin new
  <2> SUFFICES ASSUME NEW x \in Nodes, x # n, x.class > 0 PROVE Left(x) \notin {Left(n), Right(n)} /\ Right(x) \notin {Left(n), Right(n)}
    OBVIOUS
  <2>1. x \in BlockType /\ Aligned(x) /\ Aligned(n)
    BY <1>0, <1>2
  <2> QED BY <1>2, <1>3, <2>1, OneParent
<1>9. ASSUME NEW k \in new, k.class > 0 PROVE Left(k) \notin all /\ Right(k) \notin all
  <2>1. k \in BlockType /\ Aligned(k) /\ k \notin Nodes /\ k.class = d
    BY <1>4, <1>7
  <2>2. ASSUME NEW j \in {Left(k), Right(k)}, j \in Nodes PROVE FALSE
    <3>1. j # Root
      <4>1. j.class = k.class - 1 /\ k.class \in Class
        BY <1>9, <2>1, <2>2, Halves, BlockEnd
      <4>2. k.class \in Nat /\ k.class <= MaxClass /\ MaxClass \in Nat
        BY <4>1, PmapClasses DEF Class
      <4>3. j.class # MaxClass
        BY <4>1, <4>2
      <4> QED BY <4>3 DEF Root, Block
    <3>2. PICK p \in Nodes : p.class > 0 /\ j \in {Left(p), Right(p)}
      BY <1>5, <2>2, <3>1 DEF Whole
    <3>3. p \in BlockType /\ Aligned(p)
      BY <1>0
    <3>4. p = k
      BY <1>9, <2>1, <2>2, <3>2, <3>3, OneParent
    <3> QED BY <2>1, <3>4
  <2>3. Left(k).class # d /\ Right(k).class # d
    <3>1. d \in Nat /\ Left(k).class = d - 1 /\ Right(k).class = d - 1
      BY <1>4, <1>9, <2>1, Halves, PmapClasses
    <3> QED BY <3>1
  <2>4. \A j \in new : j.class = d
    BY <1>4
  <2> QED BY <2>2, <2>3, <2>4
<1> HIDE DEF on
<1>13. /\ Nodes' = all /\ tree' \in [all -> [state : PageState, refc : Nat]]
       /\ \A x \in Nodes : x # n => tree'[x] = tree[x]
       /\ tree'[n].state = SplitState(n, f.type) /\ tree'[n].refc = tree[n].refc
       /\ \A k \in new : tree'[k] = NewChild(n)
  <2> DEFINE h == [k \in new |-> NewChild(n)]  e == Extend(tree, h)  q == [e[n] EXCEPT !.state = SplitState(n, f.type)]
  <2>1. DOMAIN h = new /\ \A k \in new : h[k] = NewChild(n)
    OBVIOUS
  <2> HIDE DEF h
  <2>2. e = [x \in all |-> IF x \in new THEN h[x] ELSE tree[x]]
    BY <2>1 DEF Extend, Nodes
  <2>3. tree[n].state \in PageState /\ tree[n].refc \in Nat
    BY <1>0, <1>2
  <2>4. NewChild(n) \in [state : PageState, refc : Nat]
    BY <2>3 DEF NewChild
  <2>5. SplitState(n, f.type) \in PageState
    BY <2>3 DEF SplitState, PageState
  <2> HIDE DEF e
  <2>6. /\ e \in [all -> [state : PageState, refc : Nat]]
        /\ \A x \in Nodes : e[x] = tree[x]
        /\ \A k \in new : e[k] = NewChild(n)
    BY <1>0, <1>7, <2>1, <2>2, <2>4
  <2>7. tree' = [e EXCEPT ![n] = q]
    BY <1>1 DEF e, h
  <2>8. q \in [state : PageState, refc : Nat] /\ q.state = SplitState(n, f.type) /\ q.refc = tree[n].refc
    <3>1. e[n] \in [state : PageState, refc : Nat] /\ e[n] = tree[n]
      BY <1>2, <2>6
    <3> QED BY <2>5, <3>1
  <2> HIDE DEF q, all
  <2>9. /\ tree' \in [all -> [state : PageState, refc : Nat]] /\ DOMAIN tree' = all
        /\ tree'[n] = q /\ \A x \in all : x # n => tree'[x] = e[x]
    <3>1. n \in all
      BY <1>2 DEF all
    <3> QED BY <2>6, <2>7, <2>8, <3>1
  <2>10. \A k \in new : k # n /\ k \in all
    BY <1>2, <1>7 DEF all
  <2>11. \A x \in Nodes : x \in all
    BY DEF all
  <2> QED BY <2>6, <2>8, <2>9, <2>10, <2>11 DEF Nodes
<1>14. /\ \A x \in Nodes : x # n => Kids(x)' = Kids(x)
       /\ Kids(n)' # {}
       /\ \A k \in new : Kids(k)' = {}
  <2>1. ASSUME NEW x \in Nodes, x # n PROVE Kids(x)' = Kids(x)
    <3>1. CASE x.class = 0
      BY <3>1 DEF Kids
    <3>2. CASE x.class # 0
      <4>1. x.class > 0
        <5>1. x.class \in Class
          BY <1>0, BlockEnd
        <5>2. x.class \in Nat
          BY <5>1, PmapClasses
        <5> QED BY <3>2, <5>2
      <4>2. Left(x) \notin new /\ Right(x) \notin new
        BY <1>8, <2>1, <4>1
      <4>3. (Left(x) \in Nodes' <=> Left(x) \in Nodes) /\ (Right(x) \in Nodes' <=> Right(x) \in Nodes)
        BY <1>13, <4>2
      <4> QED BY <4>3 DEF Kids
    <3> QED BY <3>1, <3>2
  <2>2. Kids(n)' # {}
    <3>1. on \in {Left(n), Right(n)} /\ on \in all /\ n.class # 0
      BY <1>3, <1>6
    <3> HIDE DEF all
    <3> QED BY <1>13, <3>1 DEF Kids
  <2>3. ASSUME NEW k \in new PROVE Kids(k)' = {}
    <3>1. k.class \in Class
      BY <1>7, BlockEnd
    <3>2. k.class = 0 \/ k.class > 0
      BY <3>1, PmapClasses DEF Class
    <3> HIDE DEF all
    <3> QED BY <1>9, <1>13, <3>2 DEF Kids
  <2> QED BY <2>1, <2>2, <2>3
<1> QED BY <1>7, <1>8, <1>9, <1>13, <1>14 DEF TreeSplit

\* page_lookup() splits its node: the half it leaves behind becomes free if the whole was.
LEMMA DescendStep ==
  ASSUME PmapInv, OnlyFirstTaken, Descend
  PROVE  PmapInv'
<1> PICK f, n, d, r, new : /\ f = Top /\ n = f.node /\ d = n.class - 1 /\ r = GoesRight(f)
                           /\ new = {Left(n), Right(n)} \ Nodes
  OBVIOUS
<1>30. Splits(f, n, new)
  BY DEF Splits
<1>31. TreeSplit(f, n, new)
  BY <1>30, DescendTree
<1> DEFINE other == Sibling(n, r)  on == IF r THEN Right(n) ELSE Left(n)
           fresh == Extend(link, [k \in new |-> Self(k)])
           all == Nodes \cup new
<1>0. /\ TypeInv /\ FrameInv /\ ListInv /\ TreeInv /\ Nodes \subseteq BlockType /\ IsFiniteSet(Nodes)
      /\ tree \in [Nodes -> [state : PageState, refc : Nat]] /\ ListsAre(link, Nodes) /\ \A y \in Nodes : Aligned(y)
      /\ stack \in Seq(FrameType)
  BY DEF PmapInv, TypeInv, ListInv, TreeInv
<1>1. /\ Descending /\ ~panicked /\ refs = <<>> /\ stack # <<>> /\ descr >= DescrNeeded(f)
      /\ tree' = [Extend(tree, [k \in new |-> NewChild(n)]) EXCEPT ![n].state = SplitState(n, f.type)]
      /\ link' = IF WasFree(n) THEN list_append(list_del(fresh, n), ListHead(d), other) ELSE fresh
      /\ stack' = <<[f EXCEPT !.node = on, !.pooled = FALSE]>> \o Tail(stack)
      /\ UNCHANGED <<regions, cur, start, consts, refs, panicked>>
  BY DEF Descend, Descending, InLookup
<1>2. /\ f \in FrameType /\ f = Head(stack) /\ n \in Nodes /\ n \in BlockType /\ n \in InFlight
      /\ f.class \in Class /\ f.type \in PageState /\ stack[1] = f
  BY <1>0, <1>1, TopIs DEF Top
<1>3. n.class \in Nat /\ n.class > 0 /\ f.class \in Nat /\ n.class \in Class
  <2>1. n.class \in Class
    BY <1>2, BlockEnd
  <2>2. n.class \in Nat /\ f.class \in Nat /\ n.class > f.class
    BY <1>1, <1>2, <2>1, PmapClasses DEF Descending
  <2> QED BY <2>1, <2>2
<1>4. /\ Left(n) \in BlockType /\ Right(n) \in BlockType /\ Left(n) # Right(n) /\ Left(n) # n /\ Right(n) # n
      /\ Left(n).class = d /\ Right(n).class = d /\ d \in ListClass /\ d # n.class
      /\ Aligned(Left(n)) /\ Aligned(Right(n))
  BY <1>0, <1>2, <1>3, Halves, HalvesAligned
<1>5. FamilyInv /\ ~Retyping /\ Whole
  BY <1>0, <1>1, NotRetyping, WholeIs DEF PmapInv
<1>6. {other, on} = {Left(n), Right(n)} /\ other # on /\ other # n
  BY <1>4 DEF Sibling
<1>7. /\ new \subseteq BlockType /\ all \subseteq BlockType /\ IsFiniteSet(all) /\ new \cap Nodes = {}
      /\ Nodes' = all /\ tree' \in [all -> [state : PageState, refc : Nat]]
      /\ \A x \in Nodes : x # n => tree'[x] = tree[x] /\ Kids(x)' = Kids(x)
      /\ tree'[n].state = SplitState(n, f.type) /\ Kids(n)' # {}
      /\ \A k \in new : tree'[k] = NewChild(n) /\ Kids(k)' = {}
  BY <1>0, <1>31 DEF TreeSplit
\* No node has a new one for a child but n, and the new ones have none.
<1>8. \A x \in Nodes : x # n /\ x.class > 0 => Left(x) \notin new /\ Right(x) \notin new
  BY <1>31 DEF TreeSplit
<1>9. \A k \in new : k.class > 0 => Left(k) \notin all /\ Right(k) \notin all
  BY <1>31 DEF TreeSplit
<1> HIDE DEF other, on
<1>10. /\ ListsAre(fresh, all) /\ \A x \in Nodes \cup Heads : fresh[x] = link[x]
       /\ \A k \in new : fresh[k] = Self(k)
  <2>1. Nodes \in SUBSET BlockType /\ new \in SUBSET BlockType /\ (\A k \in new : k \notin Nodes) /\ ListsAre(link, Nodes)
    BY <1>0, <1>7
  <2>2. DOMAIN link = Nodes \cup Heads /\ new \cap Heads = {}
    BY <2>1, HeadIs DEF ListsAre
  <2>3. /\ fresh = [y \in (Nodes \cup new) \cup Heads |-> fresh[y]]
        /\ \A y \in new : fresh[y] = Self(y)
        /\ \A y \in Nodes \cup Heads : fresh[y] = link[y]
    <3> DEFINE h == [k \in new |-> Self(k)]
    <3>1. DOMAIN h = new /\ \A y \in new : h[y] = Self(y)
      OBVIOUS
    <3> HIDE DEF h
    <3>2. fresh = [y \in DOMAIN link \cup DOMAIN h |-> IF y \in DOMAIN h THEN h[y] ELSE link[y]]
      BY DEF Extend, h
    <3>3. DOMAIN link \cup DOMAIN h = (Nodes \cup new) \cup Heads
      BY <2>2, <3>1
    <3> HIDE DEF fresh
    <3>4. \A y \in (Nodes \cup new) \cup Heads : fresh[y] = IF y \in new THEN h[y] ELSE link[y]
      BY <3>1, <3>2, <3>3
    <3> QED BY <2>1, <2>2, <3>1, <3>2, <3>3, <3>4
  <2> HIDE DEF fresh
  <2>4. ListsAre(fresh, Nodes \cup new)
    BY <2>1, <2>3, ExtendLists
  <2> QED BY <2>3, <2>4
<1> HIDE DEF fresh
<1>11. ASSUME WasFree(n)
       PROVE  /\ new = {Left(n), Right(n)} /\ ListsAre(link', all) /\ link'[n] = Self(n) /\ link'[other] # Self(other)
              /\ \A x \in all : x # n /\ x # other => link'[x] = fresh[x]
  <2>1. Kids(n) = {} /\ tree[n].state = ALLOCATABLE /\ tree[n].refc = 0 /\ n.class # 0
    BY <1>3, <1>11 DEF WasFree, PageIsFree
  <2>2. new = {Left(n), Right(n)} /\ other \in new /\ on \in new
    BY <1>6, <2>1 DEF Kids
  <2>3. link[link[n].prev].next = n /\ link[n].prev \in Nodes \cup Heads
    <3>1. n \in Taken
      BY <1>1, <1>2, <1>11 DEF Taken
    <3>2. link[link[n].prev].next = n
      BY <1>1, <3>1 DEF OnlyFirstTaken
    <3>3. Nodes \in SUBSET BlockType /\ ListsAre(link, Nodes)
      BY <1>0
    <3> QED BY <1>2, <3>2, <3>3, PrevIs
  <2>4. fresh[fresh[n].prev].next = n
    BY <1>2, <1>10, <2>3
  <2>9. PICK l : l = list_del(fresh, n)
    OBVIOUS
  <2>5. ListsAre(l, all) /\ l[n] = Self(n) /\ \A x \in all : x # n => l[x] = fresh[x]
    <3>1. all \in SUBSET BlockType /\ n \in all /\ ListsAre(fresh, all) /\ fresh[fresh[n].prev].next = n
      BY <1>2, <1>7, <1>10, <2>4
    <3> HIDE DEF all
    <3>2. FirstOf(fresh, all, n)
      BY <3>1 DEF FirstOf
    <3>3. Deleted(list_del(fresh, n), fresh, all, n)
      BY <3>2, DelFirstOf
    <3> QED BY <2>9, <3>3 DEF Deleted
  <2>6. link' = list_append(l, ListHead(d), other)
    BY <1>1, <1>11, <2>9
  <2>7. ListsAre(link', all) /\ link'[other] # Self(other) /\ \A x \in all : x # other => link'[x] = l[x]
    <3>1. other \in all /\ l[other] = Self(other) /\ other.class = d
      BY <1>4, <1>6, <1>10, <2>2, <2>5
    <3>2. all \in SUBSET BlockType
      BY <1>7
    <3> HIDE DEF all
    <3> QED BY <1>4, <2>5, <2>6, <3>1, <3>2, AppendOne
  <2>8. n \in all /\ n # other
    BY <1>2, <1>6
  <2> HIDE DEF all
  <2> QED BY <2>2, <2>5, <2>7, <2>8
<1>12. WasFree(n) \/ (link' = fresh /\ ~OnList(n))
  BY <1>0, <1>1, <1>2 DEF ListInv
<1>13. /\ Nodes' = all /\ tree' \in [all -> [state : PageState, refc : Nat]]
       /\ \A x \in Nodes : x # n => tree'[x] = tree[x]
       /\ tree'[n].state = SplitState(n, f.type)
       /\ \A k \in new : tree'[k] = NewChild(n)
  BY <1>7
<1>14. /\ \A x \in Nodes : x # n => Kids(x)' = Kids(x)
       /\ Kids(n)' # {}
       /\ \A k \in new : Kids(k)' = {}
  BY <1>7
<1>15. /\ \A x \in Nodes : x # n => (WasFree(x)' <=> WasFree(x))
       /\ ~WasFree(n)'
       /\ \A k \in new : WasFree(k)' <=> tree[n].state = ALLOCATABLE /\ tree[n].refc = 0
  <2> HIDE DEF all
  <2>1. \A x \in Nodes : x # n => (WasFree(x)' <=> WasFree(x))
    BY <1>13, <1>14 DEF WasFree, PageIsFree
  <2>2. ~WasFree(n)'
    BY <1>14 DEF WasFree, PageIsFree
  <2>3. ASSUME NEW k \in new PROVE WasFree(k)' <=> tree[n].state = ALLOCATABLE /\ tree[n].refc = 0
    <3>1. tree'[k].state = tree[n].state /\ (tree'[k].refc = 0 <=> tree[n].refc = 0)
      <4>1. tree[n].refc \in Nat /\ tree'[k] = [state |-> tree[n].state, refc |-> IF tree[n].refc > 0 THEN 1 ELSE 0]
        BY <1>0, <1>2, <1>13 DEF NewChild
      <4> QED BY <4>1
    <3> QED BY <1>14, <3>1 DEF WasFree, PageIsFree
  <2> QED BY <2>1, <2>2, <2>3
<1> DEFINE g == [f EXCEPT !.node = on, !.pooled = FALSE]
<1>16. g \in FrameType /\ g.node = on /\ g.type = f.type /\ g.why = f.why /\ g.class = f.class
  <2>1. on \in BlockType
    BY <1>4, <1>6
  <2> QED BY <1>2, <2>1 DEF FrameType
<1> HIDE DEF g
<1>17. stack' = <<g>> \o Tail(stack)
  BY <1>1 DEF g
<1>18. InFlight \ {n} \subseteq InFlight' /\ on \in InFlight'
  <2>1. /\ DOMAIN stack' = 1..Len(stack) /\ DOMAIN stack = 1..Len(stack) /\ Len(stack) \in Nat /\ Len(stack) > 0
        /\ stack'[1] = g /\ \A i \in 1..Len(stack) : i # 1 => stack'[i] = stack[i]
    BY <1>0, <1>1, <1>16, <1>17
  <2>2. 1 \in DOMAIN stack' /\ stack'[1].node = on
    BY <1>16, <2>1
  <2>3. ASSUME NEW i \in DOMAIN stack, i # 1 PROVE stack[i].node \in InFlight'
    BY <2>1, <2>3 DEF InFlight
  <2>4. DOMAIN refs = {}
    BY <1>1
  <2> QED BY <1>2, <2>2, <2>3, <2>4 DEF InFlight
<1>19. stack' \in Seq(FrameType) /\ FramesOk(stack', all, consts # <<>>)
  <2>1. FramesOk(stack, Nodes, consts # <<>>) /\ Nodes \subseteq all /\ on \in all
    BY <1>0, <1>6 DEF FrameInv
  <2> HIDE DEF all
  <2> QED BY <1>0, <1>1, <1>2, <1>16, <1>17, <2>1, NewTop
<1>20. TypeInv'
  <2> HIDE DEF all
  <2> QED BY <1>0, <1>1, <1>7, <1>13, <1>19 DEF TypeInv
<1>21. FrameInv'
  <2>1. refs' \in Seq(Nodes')
    BY <1>1
  <2> HIDE DEF all
  <2> QED BY <1>1, <1>13, <1>19, <2>1 DEF FrameInv
<1>22. ListInv'
  <2> HIDE DEF all
  <2>1. ASSUME NEW x \in all, OnList(x)' PROVE WasFree(x)'
    <3>1. CASE WasFree(n)
      <4>1. x # n
        BY <1>11, <2>1, <3>1 DEF OnList
      <4>2. CASE x = other
        <5>1. x \in new
          BY <1>6, <1>11, <3>1, <4>2
        <5> QED BY <1>15, <3>1, <5>1 DEF WasFree, PageIsFree
      <4>3. CASE x # other
        <5>1. link'[x] = fresh[x]
          BY <1>11, <3>1, <4>1, <4>3
        <5>2. x \in Nodes /\ link'[x] = link[x]
          BY <1>10, <2>1, <5>1 DEF OnList, all
        <5>3. WasFree(x)
          BY <1>0, <2>1, <5>2 DEF ListInv, OnList
        <5> QED BY <1>15, <4>1, <5>2, <5>3
      <4> QED BY <4>2, <4>3
    <3>2. CASE ~WasFree(n)
      <4>1. link' = fresh /\ ~OnList(n)
        BY <1>12, <3>2
      <4>2. x \in Nodes /\ link'[x] = link[x]
        BY <1>10, <2>1, <4>1 DEF OnList, all
      <4>3. x # n /\ OnList(x)
        BY <2>1, <4>1, <4>2 DEF OnList
      <4>4. WasFree(x)
        BY <1>0, <4>2, <4>3 DEF ListInv
      <4> QED BY <1>15, <4>2, <4>3, <4>4
    <3> QED BY <3>1, <3>2
  <2>2. ASSUME NEW x \in all \ InFlight', WasFree(x)' PROVE OnList(x)'
    <3>1. x # n /\ x # on /\ x \notin InFlight
      BY <1>15, <1>18, <2>2
    <3>2. CASE x \in Nodes
      <4>1. WasFree(x)
        BY <1>15, <2>2, <3>1, <3>2
      <4>2. OnList(x)
        BY <1>0, <3>1, <3>2, <4>1 DEF ListInv
      <4>3. link'[x] = link[x] \/ x = other
        BY <1>10, <1>11, <1>12, <2>2, <3>1, <3>2
      <4>4. x = other => WasFree(n) \/ link'[x] = link[x]
        BY <1>10, <1>12, <3>2
      <4> QED BY <1>11, <4>2, <4>3, <4>4 DEF OnList
    <3>3. CASE x \in new
      <4>1. x = other
        BY <1>6, <3>1, <3>3
      <4>2. tree[n].state = ALLOCATABLE /\ tree[n].refc = 0
        BY <1>15, <2>2, <3>3
      <4>3. WasFree(n)
        <5>1. ASSUME Kids(n) # {} PROVE FALSE
          <6>1. Left(n) \in Nodes /\ Right(n) \in Nodes
            BY <1>2, <1>3, <1>5, <5>1 DEF Kids, Whole
          <6> QED BY <3>3, <6>1
        <5> QED BY <4>2, <5>1 DEF WasFree, PageIsFree
      <4> QED BY <1>11, <4>1, <4>3 DEF OnList
    <3> QED BY <2>2, <3>2, <3>3 DEF all
  <2>3. ListsAre(link', all)
    BY <1>10, <1>11, <1>12
  <2> QED BY <1>13, <2>1, <2>2, <2>3 DEF ListInv
<1>23. TreeInv' /\ RegionInv'
  <2>1. Root \in Nodes /\ tree[Root].state # ALLOCATABLE
    BY <1>0 DEF TreeInv
  <2>2. tree'[Root].state # ALLOCATABLE
    <3>1. CASE n = Root
      <4>1. SplitState(n, f.type) # ALLOCATABLE
        BY <2>1, <3>1 DEF SplitState, PARTIAL, ALLOCATABLE
      <4> QED BY <1>13, <3>1, <4>1
    <3>2. CASE n # Root
      BY <1>13, <2>1, <3>2
    <3> QED BY <3>1, <3>2
  <2>3. \A x \in all : Aligned(x)
    BY <1>0, <1>4
  <2>4. Root \in all
    BY <2>1
  <2>5. RegionInv'
    BY <1>1 DEF PmapInv, RegionInv
  <2> HIDE DEF all
  <2> QED BY <1>13, <2>2, <2>3, <2>4, <2>5 DEF TreeInv
<1>24. FamilyInv'
  <2>1. Left(n) \in all /\ Right(n) \in all /\ n \in all
    BY <1>2
  <2>2. ASSUME NEW m \in all \ {Root} PROVE \E p \in all : p.class > 0 /\ m \in {Left(p), Right(p)}
    <3>1. CASE m \in new
      BY <1>3, <2>1, <3>1
    <3>2. CASE m \in Nodes
      BY <1>5, <2>2, <3>2 DEF Whole
    <3> QED BY <3>1, <3>2
  <2>3. ASSUME NEW x \in all, x.class > 0 PROVE Right(x) \in all <=> Left(x) \in all
    <3>1. CASE x = n
      BY <2>1, <3>1
    <3>2. CASE x \in Nodes /\ x # n
      <4>1. Right(x) \in Nodes <=> Left(x) \in Nodes
        BY <1>5, <2>3, <3>2 DEF Whole
      <4>2. Left(x) \notin new /\ Right(x) \notin new
        BY <1>8, <2>3, <3>2
      <4> QED BY <4>1, <4>2
    <3>3. CASE x \in new
      <4> HIDE DEF all
      <4> QED BY <1>9, <2>3, <3>3
    <3> QED BY <3>1, <3>2, <3>3
  <2> HIDE DEF all
  <2>4. Whole'
    BY <1>13, <2>2, <2>3 DEF Whole
  <2> QED BY <2>4, WholeStep
<1> QED BY <1>20, <1>21, <1>22, <1>23, <1>24 DEF PmapInv


-----------------------------------------------------------------------------
(* The invariant and the theorem.                                          *)

LEMMA PmapInitInv == Init => PmapInv
<1> SUFFICES ASSUME Init PROVE PmapInv
  OBVIOUS
<1>1. MaxClass \in Nat /\ MaxClass \in Class /\ ClassSize[MaxClass] \in Nat \ {0} /\ ClassSize[0] \in Nat
  BY PmapClasses, RoundingIs DEF Class
<1>2. Root \in BlockType /\ Root.class = MaxClass /\ Root.addr = 0
  BY <1>1 DEF Root, Block, BlockType
<1>3. /\ Nodes = {Root} /\ tree[Root] = [state |-> PARTIAL, refc |-> 0]
      /\ tree \in [Nodes -> [state : PageState, refc : Nat]]
  BY DEF Init, Nodes, PageState
<1>4. /\ cur = 1 /\ start = 0 /\ consts = ConstPages /\ stack = <<>> /\ refs = <<>> /\ panicked = FALSE
      /\ link = [x \in Heads \cup {Root} |-> Self(x)]
  BY DEF Init
<1>5. regions \in Seq(Region) /\ RegionInv
  <2>1. PICK m \in MemoryMaps :
          regions = <<[start |-> 0, end |-> ClassSize[0], type |-> RESERVED],
                      [start |-> KernelStart, end |-> KernelEnd, type |-> RESERVED]>> \o m
    BY DEF Init
  <2> DEFINE a == [start |-> 0, end |-> ClassSize[0], type |-> RESERVED]
             b == [start |-> KernelStart, end |-> KernelEnd, type |-> RESERVED]
  <2>2. /\ m \in Seq(Region)
        /\ \A i \in DOMAIN m : m[i].end + ClassSize[0] <= ClassSize[MaxClass]
    BY <2>1, MapAssumption
  <2>3. /\ a \in Region /\ b \in Region
        /\ a.end + ClassSize[0] <= ClassSize[MaxClass] /\ b.end + ClassSize[0] <= ClassSize[MaxClass]
    <3>0. MaxClass # 0 /\ 0 \in Class
      BY <1>1, MapAssumption DEF Class
    <3>1. MaxClass > 0 /\ 0 <= MaxClass - 1
      BY <1>1, <3>0
    <3>2. ClassSize[0] + ClassSize[0] <= ClassSize[MaxClass]
      <4>1. MaxClass - 1 \in Class /\ ClassSize[MaxClass] = 2 * ClassSize[MaxClass - 1]
        BY <1>1, <3>1, PmapClasses
      <4>2. ClassSize[0] <= ClassSize[MaxClass - 1] /\ ClassSize[MaxClass - 1] \in Nat
        BY <3>0, <3>1, <4>1, ClassSizes, PmapClasses
      <4> QED BY <1>1, <4>1, <4>2
    <3>3. a \in Region /\ b \in Region
      BY <1>1, KernelAssumption DEF Region
    <3>4. a.end = ClassSize[0] /\ b.end = KernelEnd
      OBVIOUS
    <3> QED BY <3>2, <3>3, <3>4, MapAssumption
  <2>4. regions = <<a, b>> \o m
    BY <2>1
  <2> HIDE DEF a, b
  <2>5. regions \in Seq(Region)
    BY <2>2, <2>3, <2>4
  <2>6. ASSUME NEW i \in 1..Len(regions)
        PROVE  regions[i].end + ClassSize[0] <= ClassSize[MaxClass]
    <3>1. (i = 1 => regions[i] = a) /\ (i = 2 => regions[i] = b)
      BY <2>2, <2>3, <2>4
    <3>2. CASE i # 1 /\ i # 2
      <4>1. i - 2 \in DOMAIN m /\ regions[i] = m[i - 2]
        BY <2>2, <2>3, <2>4, <3>2
      <4> QED BY <2>2, <4>1
    <3>3. CASE i = 1 \/ i = 2
      BY <2>3, <3>1, <3>3
    <3> QED BY <3>2, <3>3
  <2> QED BY <2>5, <2>6 DEF RegionInv
<1>6. TypeInv
  <2>1. IsFiniteSet(Nodes) /\ Nodes \subseteq BlockType
    BY <1>2, <1>3, FS_Singleton
  <2>2. consts \in Seq(Nat) /\ stack \in Seq(FrameType)
    BY <1>4, KernelAssumption
  <2>3. panicked \in BOOLEAN
    BY <1>4
  <2>4. cur \in Nat \ {0} /\ start \in Nat
    BY <1>4
  <2> QED BY <1>3, <1>5, <2>1, <2>2, <2>3, <2>4 DEF TypeInv
<1>7. FrameInv
  <2>1. Len(stack) = 0 /\ refs \in Seq(Nodes)
    BY <1>4
  <2> QED BY <2>1 DEF FrameInv, FramesOk
<1>8. TreeInv
  <2>1. \A s \in Nat \ {0} : 0 % s = 0
    OBVIOUS
  <2>2. Aligned(Root)
    BY <1>1, <1>2, <2>1 DEF Aligned
  <2>3. tree[Root].state # ALLOCATABLE
    BY <1>3 DEF PARTIAL, ALLOCATABLE
  <2> QED BY <1>3, <2>2, <2>3 DEF TreeInv
<1>9. ~OnList(Root) /\ ~WasFree(Root)
  BY <1>3, <1>4, <1>8 DEF OnList, WasFree, TreeInv
<1>10. ListInv
  <2>1. link = [x \in Nodes \cup Heads |-> link[x]] /\ \A x \in Nodes \cup Heads : link[x] = Self(x)
    BY <1>3, <1>4
  <2>2. ASSUME NEW c \in ListClass PROVE \E s \in Seq(Nodes) : Chain(link, Nodes, c, s)
    <3>1. <<>> \in Seq(Nodes) /\ Len(<<>>) = 0
      OBVIOUS
    <3>2. ListHead(c) \in Heads
      BY HeadIs
    <3>3. link[ListHead(c)] = [next |-> ListHead(c), prev |-> ListHead(c)]
      BY <2>1, <3>2 DEF Self
    <3>4. Chain(link, Nodes, c, <<>>)
      BY <2>1, <3>1, <3>3 DEF Chain
    <3> QED BY <3>1, <3>4
  <2>3. ListsAre(link, Nodes)
    BY <2>1, <2>2 DEF ListsAre
  <2> QED BY <1>3, <1>9, <2>3 DEF ListInv
<1>11. FamilyInv
  <2>1. ASSUME NEW x \in Nodes, x.class > 0 PROVE Left(x) \notin Nodes /\ Right(x) \notin Nodes
    <3>1. Left(x).class = MaxClass - 1 /\ Right(x).class = MaxClass - 1
      BY <1>2, <1>3, <2>1 DEF Left, Right, Block
    <3> QED BY <1>1, <1>2, <1>3, <3>1
  <2>2. Nodes \ {Root} = {}
    BY <1>3
  <2> QED BY <2>1, <2>2 DEF FamilyInv
<1> QED BY <1>5, <1>6, <1>7, <1>8, <1>10, <1>11 DEF PmapInv

LEMMA PmapStutter ==
  ASSUME PmapInv, UNCHANGED vars
  PROVE  PmapInv'
<1>1. UNCHANGED <<tree, link, regions, cur, start, consts, stack, refs, panicked>>
  BY DEF vars
<1>2. Nodes' = Nodes /\ Top' = Top /\ InFlight' = InFlight
  BY <1>1 DEF Nodes, Top, InFlight
<1>3. TypeInv' /\ FrameInv' /\ TreeInv' /\ RegionInv'
  BY <1>1, <1>2 DEF PmapInv, TypeInv, FrameInv, TreeInv, RegionInv
<1>4. \A n : (WasFree(n)' <=> WasFree(n)) /\ (OnList(n)' <=> OnList(n))
  BY <1>1, <1>2 DEF WasFree, PageIsFree, Kids, OnList
<1>5. ListInv'
  BY <1>1, <1>2, <1>4 DEF PmapInv, ListInv
<1>6. (Retyping' <=> Retyping) /\ (\A x : Clearing(x)' <=> Clearing(x)) /\ Below(Top.node)' = Below(Top.node)
  BY <1>1, <1>2 DEF Retyping, Arrived, InLookup, Clearing, Below
<1>7. FamilyInv => FamilyInv'
  BY <1>2, <1>6 DEF FamilyInv
<1> QED BY <1>1, <1>3, <1>5, <1>7 DEF PmapInv

LEMMA PmapStep == PmapInv /\ OnlyFirstTaken /\ [Next]_vars => PmapInv'
<1> SUFFICES ASSUME PmapInv, OnlyFirstTaken, [Next]_vars PROVE PmapInv'
  OBVIOUS
<1>1. CASE EnsureFreeDesc
  BY <1>1, EnsureFreeDescStep
<1>2. CASE Descend
  BY <1>2, DescendStep
<1>3. CASE FreeDescRec
  BY <1>3, FreeDescRecStep
<1>4. CASE Attach
  BY <1>4, AttachStep
<1>5. CASE PageRef
  BY <1>5, PageRefStep
<1>6. CASE AllocPool
  BY <1>6, AllocPoolStep
<1>7. CASE AttachRegion
  BY <1>7, AttachRegionStep
<1>8. CASE NextRegion
  BY <1>8, NextRegionStep
<1>9. CASE LookupConstPage
  BY <1>9, LookupConstPageStep
<1>10. CASE RefConstPage
  BY <1>10, RefConstPageStep
<1>11. CASE Panic
  BY <1>11, PanicStep
<1>12. CASE UNCHANGED vars
  BY <1>12, PmapStutter
<1> QED BY <1>1, <1>2, <1>3, <1>4, <1>5, <1>6, <1>7, <1>8, <1>9, <1>10, <1>11, <1>12 DEF Next

LEMMA PmapInvExact == PmapInv => FreeListsExact
<1> SUFFICES ASSUME PmapInv PROVE FreeListsExact
  OBVIOUS
<1>1. Nodes \subseteq BlockType /\ IsFiniteSet(Nodes) /\ ListsAre(link, Nodes)
  BY DEF PmapInv, TypeInv, ListInv
<1>2. FreeListsSound
  <2> SUFFICES ASSUME NEW c \in ListClass
               PROVE  /\ Cardinality(Listed(c)) = Len(FreeList(c))
                      /\ \A n \in Listed(c) :
                           n.class = c /\ n \in Nodes /\ tree[n].state = ALLOCATABLE /\ PageIsFree(n)
    BY DEF FreeListsSound, ListClass
  <2>1. Listed(c) = {n \in Nodes : n.class = c /\ OnList(n)} /\ Cardinality(Listed(c)) = Len(FreeList(c))
    BY <1>1, ListedIs
  <2>2. \A n \in Nodes : OnList(n) => tree[n].state = ALLOCATABLE /\ PageIsFree(n)
    BY DEF PmapInv, ListInv, WasFree
  <2> QED BY <2>1, <2>2
<1>3. FreeBlocksListed
  <2> SUFFICES ASSUME NEW n \in Nodes \ InFlight, tree[n].state = ALLOCATABLE, PageIsFree(n)
               PROVE  n \in Listed(n.class)
    BY DEF FreeBlocksListed
  <2>1. OnList(n)
    BY DEF PmapInv, ListInv, WasFree
  <2>2. n.class \in ListClass
    <3>1. n.class \in Class
      BY <1>1, HeadIs
    <3>2. n.class # MaxClass
      BY <1>1, <2>1 DEF ListsAre, OnList
    <3> QED BY <3>1, <3>2, PmapClasses
  <2>3. Listed(n.class) = {x \in Nodes : x.class = n.class /\ OnList(x)}
    BY <1>1, <2>2, ListedIs
  <2> QED BY <2>1, <2>3
<1> QED BY <1>2, <1>3 DEF FreeListsExact

\* The free lists hold exactly the pages that are allocatable and free, as long as
\* list_del() is applied to the first element of a list or to one that is on none.
\* The link that list_append() does not write is all that can lose a page.
THEOREM FreeListsKept == Spec /\ []OnlyFirstTaken => []FreeListsExact
<1>1. Init => PmapInv
  BY PmapInitInv
<1>2. PmapInv /\ OnlyFirstTaken /\ [Next]_vars => PmapInv'
  BY PmapStep
<1>3. PmapInv => FreeListsExact
  BY PmapInvExact
<1> QED BY <1>1, <1>2, <1>3, PTL DEF Spec

-----------------------------------------------------------------------------
(* The addresses that the calls under way look up: page_lookup() goes to   *)
(* the half that holds its address.                                        *)

\* What a frame looks up is a block inside the frame's node.
Sought(f) == Block(f.class, f.addr)
FrameAt(f) == Aligned(Sought(f)) /\ Within(Sought(f), f.node)

ConstIn(a) == a % ClassSize[ConstClass] = 0 /\ a + ClassSize[ConstClass] <= ClassSize[MaxClass]

LookupInv ==
  /\ \A i \in 1..Len(stack) : FrameAt(stack[i])
  /\ \A i \in 1..Len(consts) : ConstIn(consts[i])

LEMMA SoughtIs ==
  ASSUME NEW f \in FrameType
  PROVE  /\ Sought(f) \in BlockType /\ Sought(f).class = f.class /\ Sought(f).addr = f.addr
         /\ f.class \in Class /\ f.addr \in Nat /\ f.node \in BlockType
BY DEF Sought, Block, BlockType, FrameType

\* Which half of a block an address is in, as page_lookup() finds out from one bit.
LEMMA SideIs ==
  ASSUME NEW f \in FrameType, f.node.class > 0, Aligned(f.node),
         f.node.addr <= f.addr, f.addr < EndOf(f.node)
  PROVE  GoesRight(f) <=> f.addr >= Right(f.node).addr
<1> DEFINE n == f.node  h == ClassSize[n.class - 1]  a == f.addr
<1>1. n \in BlockType /\ a \in Nat /\ n.addr \in Nat /\ h \in Nat \ {0} /\ Right(n).addr = n.addr + h
      /\ EndOf(n) = n.addr + ClassSize[n.class] /\ ClassSize[n.class] = h + h
  BY SoughtIs, Halves, BlockEnd
<1>2. GoesRight(f) <=> (a \div h) % 2 = 1
  BY DEF GoesRight
<1>3. n.addr % (h + h) = 0
  BY <1>1 DEF Aligned
<1> HIDE DEF n, h, a
<1>4. PICK j \in Nat : n.addr = (h + h) * j
  <2>1. h + h \in Nat \ {0}
    BY <1>1
  <2>2. \A g \in Nat \ {0}, b \in Nat : b % g = 0 => \E k \in Nat : b = g * k
    BY Products
  <2> QED BY <1>1, <1>3, <2>1, <2>2
<1>5. n.addr = h * (2 * j) /\ n.addr + h = h * (2 * j + 1) /\ 2 * j \in Nat /\ 2 * j + 1 \in Nat
  <2>1. \A u, v \in Nat : (u + u) * v = u * (2 * v) /\ u * (2 * v + 1) = u * (2 * v) + u
    OBVIOUS
  <2> QED BY <1>1, <1>4, <2>1
<1>6. CASE a < n.addr + h
  <2>1. a - n.addr \in 0..(h - 1) /\ a = h * (2 * j) + (a - n.addr)
    BY <1>1, <1>5, <1>6 DEF n, a
  <2>2. a \div h = 2 * j
    <3>1. h \in Nat /\ h > 0
      BY <1>1
    <3> QED BY <1>1, <1>5, <2>1, <3>1, QuotientIs
  <2>3. (2 * j) % 2 = 0
    OBVIOUS
  <2>4. ~(a >= n.addr + h)
    BY <1>1, <1>6
  <2> QED BY <1>1, <1>2, <2>2, <2>3, <2>4 DEF n, a
<1>7. CASE a >= n.addr + h
  <2>1. a - (n.addr + h) \in 0..(h - 1) /\ a = h * (2 * j + 1) + (a - (n.addr + h))
    <3>1. a < n.addr + (h + h)
      BY <1>1 DEF n, a
    <3>2. \A x, y, z \in Nat : x >= y + z /\ x < y + (z + z) => x - (y + z) \in 0..(z - 1) /\ x = (y + z) + (x - (y + z))
      OBVIOUS
    <3> QED BY <1>1, <1>5, <1>7, <3>1, <3>2
  <2>2. a \div h = 2 * j + 1
    <3>1. h \in Nat /\ h > 0
      BY <1>1
    <3> QED BY <1>1, <1>5, <2>1, <3>1, QuotientIs
  <2>3. (2 * j + 1) % 2 = 1
    OBVIOUS
  <2> QED BY <1>1, <1>2, <1>7, <2>2, <2>3 DEF n, a
<1>8. a < n.addr + h \/ a >= n.addr + h
  BY <1>1
<1> QED BY <1>6, <1>7, <1>8


\* page_lookup() goes on to the half that holds what it looks for.
LEMMA HalfSought ==
  ASSUME NEW f \in FrameType, f.node.class > f.class, Aligned(f.node), FrameAt(f)
  PROVE  Within(Sought(f), IF GoesRight(f) THEN Right(f.node) ELSE Left(f.node))
<1> DEFINE n == f.node  x == Sought(f)
<1>1. n \in BlockType /\ x \in BlockType /\ x.class = f.class /\ x.addr = f.addr /\ f.addr \in Nat
      /\ Aligned(x) /\ Within(x, n) /\ n.class \in Nat /\ f.class \in Nat /\ n.class > 0
  <2>1. n \in BlockType /\ f.class \in Class
    BY SoughtIs
  <2>2. n.class \in Class
    BY <2>1, BlockEnd
  <2>3. n.class \in Nat /\ f.class \in Nat
    BY <2>1, <2>2, PmapClasses
  <2>4. n.class > 0
    BY <2>3
  <2> QED BY <2>1, <2>3, <2>4, SoughtIs DEF FrameAt
<1>2. x # n
  BY <1>1
<1>3. /\ x.addr < EndOf(x) /\ EndOf(x) \in Nat /\ EndOf(n) \in Nat /\ n.addr \in Nat
      /\ Left(n) \in BlockType /\ Right(n) \in BlockType /\ Right(n).addr \in Nat /\ EndOf(Left(n)) = Right(n).addr
  <2>1. Left(n) \in BlockType /\ Right(n) \in BlockType /\ EndOf(Left(n)) = Right(n).addr
    BY <1>1, Halves
  <2> QED BY <1>1, <2>1, BlockEnd
<1>4. n.addr <= f.addr /\ f.addr < EndOf(n)
  <2>1. n.addr <= x.addr /\ EndOf(x) <= EndOf(n)
    BY <1>1 DEF Within
  <2> QED BY <1>1, <1>3, <2>1
<1>5. GoesRight(f) <=> f.addr >= Right(n).addr
  BY <1>1, <1>4, SideIs
<1>6. Within(x, Left(n)) \/ Within(x, Right(n))
  BY <1>1, <1>2, InHalf
<1> HIDE DEF n, x
<1>7. CASE Within(x, Left(n))
  <2>1. EndOf(x) <= Right(n).addr
    BY <1>3, <1>7 DEF Within
  <2>2. ~GoesRight(f)
    BY <1>1, <1>3, <1>5, <2>1
  <2> QED BY <1>7, <2>2 DEF n, x
<1>8. CASE Within(x, Right(n))
  <2>1. Right(n).addr <= x.addr
    BY <1>8 DEF Within
  <2>2. GoesRight(f)
    BY <1>1, <1>3, <1>5, <2>1
  <2> QED BY <1>8, <2>2 DEF n, x
<1> QED BY <1>6, <1>7, <1>8

\* A block inside of the root, at an address that the size of its class divides.
LEMMA InRoot ==
  ASSUME NEW c \in Class, NEW a \in Nat, a % ClassSize[c] = 0, a + ClassSize[c] <= ClassSize[MaxClass]
  PROVE  /\ Block(c, a) \in BlockType /\ Aligned(Block(c, a)) /\ Within(Block(c, a), Root)
<1>1. Block(c, a) \in BlockType /\ Block(c, a).class = c /\ Block(c, a).addr = a
  BY DEF Block, BlockType
<1>2. MaxClass \in Class /\ ClassSize[MaxClass] \in Nat /\ ClassSize[c] \in Nat
  <2>1. MaxClass \in Class
    BY PmapClasses DEF Class
  <2> QED BY <2>1, PmapClasses
<1>3. EndOf(Block(c, a)) = a + ClassSize[c]
  BY <1>1, BlockEnd
<1>4. Root.addr = 0 /\ EndOf(Root) = ClassSize[MaxClass]
  BY <1>2 DEF Root, Block, EndOf
<1>5. Root.addr <= Block(c, a).addr /\ EndOf(Block(c, a)) <= EndOf(Root)
  BY <1>1, <1>2, <1>3, <1>4
<1> QED BY <1>1, <1>5 DEF Aligned, Within

\* The first block of a smaller class inside of a block.
LEMMA FirstPart ==
  ASSUME NEW n \in BlockType, Aligned(n), NEW c \in Class, c <= n.class
  PROVE  /\ Block(c, n.addr) \in BlockType /\ Aligned(Block(c, n.addr)) /\ Within(Block(c, n.addr), n)
<1>1. /\ n.class \in Class /\ n.addr \in Nat /\ EndOf(n) = n.addr + ClassSize[n.class]
      /\ ClassSize[n.class] \in Nat \ {0} /\ ClassSize[c] \in Nat \ {0}
  <2>1. \A d \in Class : ClassSize[d] \in Nat \ {0}
    BY PmapClasses
  <2> QED BY <2>1, BlockEnd
<1>2. PICK k \in Nat \ {0} : ClassSize[n.class] = ClassSize[c] * k
  BY <1>1, ClassSizes
<1>3. ClassSize[c] <= ClassSize[n.class]
  BY <1>1, ClassSizes
<1>4. Block(c, n.addr) \in BlockType /\ Block(c, n.addr).class = c /\ Block(c, n.addr).addr = n.addr
  BY <1>1 DEF Block, BlockType
<1>5. n.addr % ClassSize[c] = 0
  <2> DEFINE w == ClassSize[c]
  <2>1. n.addr % (w * k) = 0 /\ w * k \in Nat \ {0}
    <3>1. n.addr % ClassSize[n.class] = 0
      BY DEF Aligned
    <3> QED BY <1>1, <1>2, <3>1
  <2>2. \A h \in Nat \ {0}, b \in Nat : b % h = 0 <=> \E i \in Nat : b = h * i
    BY Products
  <2>3. PICK j \in Nat : n.addr = (w * k) * j
    BY <1>1, <2>1, <2>2
  <2> HIDE DEF w
  <2>4. w \in Nat \ {0}
    BY <1>1 DEF w
  <2>5. k * j \in Nat /\ n.addr = w * (k * j)
    <3>1. \A u, v, x \in Nat : (u * v) * x = u * (v * x) /\ v * x \in Nat
      OBVIOUS
    <3>2. k \in Nat /\ w \in Nat
      BY <2>4
    <3> QED BY <2>3, <3>1, <3>2
  <2>6. n.addr % w = 0
    BY <1>1, <2>2, <2>4, <2>5
  <2> QED BY <2>6 DEF w
<1>6. EndOf(Block(c, n.addr)) = n.addr + ClassSize[c]
  BY <1>4, BlockEnd
<1>7. n.addr <= n.addr /\ EndOf(Block(c, n.addr)) <= EndOf(n)
  BY <1>1, <1>3, <1>6
<1> QED BY <1>4, <1>5, <1>7 DEF Aligned, Within


-----------------------------------------------------------------------------
(* Every step keeps what the calls look up inside of their nodes.          *)

LEMMA LookupInit == Init => LookupInv
<1> SUFFICES ASSUME Init PROVE LookupInv
  OBVIOUS
<1>1. Len(stack) = 0 /\ consts = ConstPages
  BY DEF Init
<1>2. \A i \in 1..Len(ConstPages) : ConstIn(ConstPages[i])
  BY KernelAssumption, MapAssumption DEF ConstIn
<1> QED BY <1>1, <1>2 DEF LookupInv

\* What the frames of a stack are when the first one is new and a call may be on top.
LEMMA RestOf ==
  ASSUME NEW s \in Seq(FrameType), s # <<>>
  PROVE  /\ Tail(s) \in Seq(FrameType) /\ Len(s) \in Nat
         /\ \A i \in 1..Len(Tail(s)) : i + 1 \in 1..Len(s) /\ i + 1 # 1 /\ Tail(s)[i] = s[i + 1]
         /\ \A f, g \in FrameType :
              /\ \A i \in 1..Len(<<f>> \o Tail(s)) :
                   (<<f>> \o Tail(s))[i] = (IF i = 1 THEN f ELSE s[i]) /\ i \in 1..Len(s)
              /\ \A i \in 1..Len(<<f, g>> \o Tail(s)) :
                   \/ i = 1 /\ (<<f, g>> \o Tail(s))[i] = f
                   \/ i = 2 /\ (<<f, g>> \o Tail(s))[i] = g
                   \/ i > 2 /\ i - 1 \in 1..Len(s) /\ i - 1 # 1 /\ (<<f, g>> \o Tail(s))[i] = s[i - 1]
<1>1. Tail(s) \in Seq(FrameType) /\ Len(Tail(s)) = Len(s) - 1 /\ Len(s) \in Nat /\ Len(s) > 0
      /\ \A i \in 1..Len(Tail(s)) : Tail(s)[i] = s[i + 1]
  OBVIOUS
<1>2. \A i \in 1..Len(Tail(s)) : i + 1 \in 1..Len(s) /\ i + 1 # 1
  BY <1>1
<1>3. ASSUME NEW f \in FrameType, NEW i \in 1..Len(<<f>> \o Tail(s))
      PROVE  (<<f>> \o Tail(s))[i] = (IF i = 1 THEN f ELSE s[i]) /\ i \in 1..Len(s)
  BY <1>1
<1>4. ASSUME NEW f \in FrameType, NEW g \in FrameType, NEW i \in 1..Len(<<f, g>> \o Tail(s))
      PROVE  \/ i = 1 /\ (<<f, g>> \o Tail(s))[i] = f
             \/ i = 2 /\ (<<f, g>> \o Tail(s))[i] = g
             \/ i > 2 /\ i - 1 \in 1..Len(s) /\ i - 1 # 1 /\ (<<f, g>> \o Tail(s))[i] = s[i - 1]
  <2> DEFINE t == <<f, g>> \o Tail(s)
  <2>1. Len(t) = Len(s) + 1 /\ t[1] = f /\ t[2] = g /\ \A j \in 1..Len(t) : j > 2 => t[j] = s[j - 1]
    BY <1>1
  <2> HIDE DEF t
  <2>2. i \in 1..Len(t)
    BY <1>4 DEF t
  <2>3. i = 1 \/ i = 2 \/ (i > 2 /\ i - 1 \in 1..Len(s) /\ i - 1 # 1)
    BY <1>1, <2>1, <2>2
  <2>4. \/ i = 1 /\ t[i] = f
        \/ i = 2 /\ t[i] = g
        \/ i > 2 /\ i - 1 \in 1..Len(s) /\ i - 1 # 1 /\ t[i] = s[i - 1]
    BY <2>1, <2>2, <2>3
  <2> QED BY <2>4 DEF t
<1> QED BY <1>1, <1>2, <1>3, <1>4

LEMMA LookupStep ==
  ASSUME PmapInv, LookupInv, [Next]_vars
  PROVE  LookupInv'
<1>0. /\ TypeInv /\ FrameInv /\ stack \in Seq(FrameType) /\ consts \in Seq(Nat) /\ Nodes \subseteq BlockType
      /\ \A y \in Nodes : Aligned(y)
      /\ \A i \in 1..Len(stack) : FrameAt(stack[i])
      /\ \A i \in 1..Len(consts) : ConstIn(consts[i])
  BY DEF PmapInv, TypeInv, TreeInv, LookupInv
\* The frame on top is gone.
<1>1. ASSUME stack # <<>>, stack' = Tail(stack), consts' = consts \/ (consts # <<>> /\ consts' = Tail(consts))
      PROVE  LookupInv'
  <2>1. \A i \in 1..Len(stack') : FrameAt(stack'[i])
    <3>1. \A i \in 1..Len(Tail(stack)) : i + 1 \in 1..Len(stack) /\ Tail(stack)[i] = stack[i + 1]
      BY <1>0, <1>1, RestOf
    <3> QED BY <1>0, <1>1, <3>1
  <2>2. \A i \in 1..Len(consts') : ConstIn(consts'[i])
    <3>1. CASE consts' = consts
      BY <1>0, <3>1
    <3>2. CASE consts # <<>> /\ consts' = Tail(consts)
      <4>1. \A i \in 1..Len(Tail(consts)) : i + 1 \in 1..Len(consts) /\ Tail(consts)[i] = consts[i + 1]
        BY <1>0, <3>2
      <4> QED BY <1>0, <3>2, <4>1
    <3> QED BY <1>1, <3>1, <3>2
  <2> QED BY <2>1, <2>2 DEF LookupInv
\* A call from detect_memory() starts at the root.
<1>2. ASSUME NEW c \in Class, NEW a \in Nat, NEW t \in PageState, NEW w \in {"attach", "pool", "const"},
             a % ClassSize[c] = 0, a + ClassSize[c] <= ClassSize[MaxClass],
             stack' = <<Frame(Root, c, a, t, w)>>, consts' = consts
      PROVE  LookupInv'
  <2> DEFINE f == Frame(Root, c, a, t, w)
  <2>1. f.class = c /\ f.addr = a /\ f.node = Root
    BY DEF Frame
  <2> HIDE DEF f
  <2>2. FrameAt(f)
    BY <1>2, <2>1, InRoot DEF FrameAt, Sought
  <2>3. stack' = <<f>> /\ Len(stack') = 1 /\ stack'[1] = f
    BY <1>2 DEF f
  <2>4. \A i \in 1..Len(stack') : FrameAt(stack'[i])
    BY <2>2, <2>3
  <2> QED BY <1>0, <1>2, <2>4 DEF LookupInv
<1>3. ASSUME UNCHANGED <<stack, consts>> PROVE LookupInv'
  BY <1>0, <1>3 DEF LookupInv
<1>4. CASE EnsureFreeDesc
  <2>1. stack # <<>> /\ Top.node \in BlockType /\ Top \in FrameType /\ Top = stack[1] /\ 1 \in 1..Len(stack)
    <3>1. stack # <<>>
      BY <1>4 DEF EnsureFreeDesc, Descending, InLookup
    <3> QED BY <1>0, <3>1, TopIs
  <2>2. PICK peer \in FindPeer(PoolClass) :
          stack' = <<Frame(peer, PoolClass, peer.addr, PARTIAL, "pool"), [Top EXCEPT !.pooled = TRUE]>> \o Tail(stack)
    BY <1>4 DEF EnsureFreeDesc
  <2>3. peer \in BlockType /\ Aligned(peer) /\ PoolClass \in Class /\ PoolClass <= peer.class
    <3>1. PoolClass \in Class
      BY PmapClasses
    <3>2. peer \in Nodes /\ PoolClass <= peer.class
      BY <1>0, <3>1, PeerIs DEF PmapInv, TypeInv, ListInv
    <3> QED BY <1>0, <3>1, <3>2
  <2>4. Block(PoolClass, peer.addr) \in BlockType /\ Aligned(Block(PoolClass, peer.addr))
        /\ Within(Block(PoolClass, peer.addr), peer)
    BY <2>3, FirstPart
  <2> DEFINE f == Frame(peer, PoolClass, peer.addr, PARTIAL, "pool")  g == [Top EXCEPT !.pooled = TRUE]
  <2>5. f \in FrameType /\ f.node = peer /\ f.class = PoolClass /\ f.addr = peer.addr
    <3>1. PARTIAL \in PageState /\ peer.addr \in Nat
      BY <2>3, BlockEnd DEF PageState
    <3> QED BY <2>3, <3>1, FrameTyped
  <2>6. g \in FrameType /\ g.node = Top.node /\ g.class = Top.class /\ g.addr = Top.addr
    BY <2>1 DEF FrameType
  <2> HIDE DEF f, g
  <2>7. FrameAt(f)
    BY <2>4, <2>5 DEF FrameAt, Sought
  <2>8. FrameAt(g)
    <3>1. FrameAt(Top)
      BY <1>0, <2>1
    <3> QED BY <2>6, <3>1 DEF FrameAt, Sought
  <2>9. stack' = <<f, g>> \o Tail(stack)
    BY <2>2 DEF f, g
  <2>10. ASSUME NEW i \in 1..Len(stack') PROVE FrameAt(stack'[i])
    <3>1. \/ i = 1 /\ stack'[i] = f
          \/ i = 2 /\ stack'[i] = g
          \/ i > 2 /\ i - 1 \in 1..Len(stack) /\ stack'[i] = stack[i - 1]
      BY <1>0, <2>1, <2>5, <2>6, <2>9, <2>10, RestOf
    <3> QED BY <1>0, <2>7, <2>8, <3>1
  <2>11. consts' = consts
    BY <1>4 DEF EnsureFreeDesc
  <2> QED BY <1>0, <2>10, <2>11 DEF LookupInv
<1>5. CASE Descend
  <2> DEFINE n == Top.node  on == IF GoesRight(Top) THEN Right(n) ELSE Left(n)
             g == [Top EXCEPT !.node = on, !.pooled = FALSE]
  <2>1. stack # <<>> /\ Top.node.class > Top.class /\ stack' = <<g>> \o Tail(stack) /\ consts' = consts
    BY <1>5 DEF Descend, Descending, InLookup
  <2>2. /\ Top \in FrameType /\ n \in Nodes /\ n \in BlockType /\ Top = stack[1] /\ 1 \in 1..Len(stack)
        /\ Top.class \in Class
    BY <1>0, <2>1, TopIs
  <2>3. FrameAt(Top) /\ Aligned(n)
    BY <1>0, <2>2
  <2>4. Within(Sought(Top), on)
    BY <2>1, <2>2, <2>3, HalfSought
  <2>5. on \in BlockType
    <3>1. n.class \in Class
      BY <2>2, BlockEnd
    <3>2. n.class \in Nat /\ Top.class \in Nat
      BY <2>2, <3>1, PmapClasses
    <3>3. n.class > 0
      BY <2>1, <3>2
    <3> QED BY <2>2, <3>3, Halves
  <2> HIDE DEF n, on
  <2>6. g \in FrameType /\ g.node = on /\ g.class = Top.class /\ g.addr = Top.addr
    BY <2>2, <2>5 DEF FrameType
  <2> HIDE DEF g
  <2>7. FrameAt(g)
    BY <2>3, <2>4, <2>6 DEF FrameAt, Sought
  <2>8. ASSUME NEW i \in 1..Len(stack') PROVE FrameAt(stack'[i])
    <3>1. stack'[i] = (IF i = 1 THEN g ELSE stack[i]) /\ i \in 1..Len(stack)
      BY <1>0, <2>1, <2>6, <2>8, RestOf
    <3> QED BY <1>0, <2>7, <3>1
  <2> QED BY <1>0, <2>1, <2>8 DEF LookupInv
<1>6. CASE Attach
  <2>1. stack # <<>> /\ stack' = Tail(stack) /\ consts' = consts
    BY <1>6 DEF Attach, Retyping, Arrived, InLookup
  <2> QED BY <1>1, <2>1
<1>7. CASE AllocPool
  <2>1. stack # <<>> /\ stack' = Tail(stack) /\ consts' = consts
    BY <1>7 DEF AllocPool, Arrived, InLookup
  <2> QED BY <1>1, <2>1
<1>8. CASE RefConstPage
  <2>1. stack # <<>> /\ stack' = Tail(stack) /\ consts' = Tail(consts) /\ Top.why = "const"
    BY <1>8 DEF RefConstPage, Arrived, InLookup
  <2>2. consts # <<>>
    <3>1. Top = stack[1] /\ 1 \in 1..Len(stack)
      BY <1>0, <2>1, TopIs
    <3> QED BY <1>0, <2>1, <3>1 DEF FrameInv, FramesOk
  <2> QED BY <1>1, <2>1, <2>2
<1>9. CASE AttachRegion
  <2>1. PICK c \in Class :
          Attachable(c) /\ stack' = <<Frame(Root, c, start, regions[cur].type, "attach")>> /\ consts' = consts
    BY <1>9 DEF AttachRegion
  <2>2. cur \in 1..Len(regions) /\ regions \in Seq(Region) /\ start \in Nat
    BY <1>0, <1>9 DEF AttachRegion, Attaching, TypeInv
  <2>3. regions[cur] \in Region
    BY <2>2
  <2>4. regions[cur].type \in PageState /\ regions[cur].end \in Nat
    BY <2>3 DEF Region, PageState
  <2>5. regions[cur].end + ClassSize[0] <= ClassSize[MaxClass]
    BY <2>2 DEF PmapInv, RegionInv
  <2>6. /\ RoundUp(regions[cur].end) \in Nat /\ RoundUp(regions[cur].end) < regions[cur].end + ClassSize[0]
        /\ ClassSize[0] \in Nat
    BY <2>4, RoundingIs
  <2>7. start % ClassSize[c] = 0 /\ start + ClassSize[c] <= RoundUp(regions[cur].end)
    BY <2>1 DEF Attachable, RegionEnd, High
  <2>8. ClassSize[c] \in Nat /\ ClassSize[MaxClass] \in Nat
    <3>1. MaxClass \in Class
      BY PmapClasses DEF Class
    <3> QED BY <3>1, PmapClasses
  <2>9. start + ClassSize[c] <= ClassSize[MaxClass]
    BY <2>2, <2>4, <2>5, <2>6, <2>7, <2>8
  <2> QED BY <1>2, <2>1, <2>2, <2>4, <2>7, <2>9
<1>10. CASE LookupConstPage
  <2>1. /\ consts # <<>> /\ stack' = <<Frame(Root, ConstClass, Head(consts), PARTIAL, "const")>>
        /\ consts' = consts
    BY <1>10 DEF LookupConstPage
  <2>2. Head(consts) \in Nat /\ Head(consts) = consts[1] /\ 1 \in 1..Len(consts)
    BY <1>0, <2>1
  <2>3. ConstIn(Head(consts))
    BY <1>0, <2>2
  <2>4. ConstClass \in Class /\ PARTIAL \in PageState
    BY PmapClasses DEF PageState
  <2> QED BY <1>2, <2>1, <2>2, <2>3, <2>4 DEF ConstIn
<1>11. CASE FreeDescRec
  BY <1>3, <1>11 DEF FreeDescRec
<1>12. CASE PageRef
  BY <1>3, <1>12 DEF PageRef
<1>13. CASE NextRegion
  BY <1>3, <1>13 DEF NextRegion
<1>14. CASE Panic
  BY <1>3, <1>14 DEF Panic
<1>15. CASE UNCHANGED vars
  BY <1>3, <1>15 DEF vars
<1> QED
  BY <1>4, <1>5, <1>6, <1>7, <1>8, <1>9, <1>10, <1>11, <1>12, <1>13, <1>14, <1>15 DEF Next


-----------------------------------------------------------------------------
(* The pools: pages of descriptors, which alloc_page() carves out of the   *)
(* tree and references.                                                    *)

Holds(n, a) == n.addr <= a /\ a < EndOf(n)

\* A page of descriptors that has been handed out: a node that is referenced, and
\* with it all that may have been split off from it.
Kept(q) ==
  /\ q \in Nodes /\ tree[q].refc > 0 /\ OffKernel(q)
  /\ \A a \in q.addr..(EndOf(q) - 1) : \E n \in Nodes : Kids(n) = {} /\ Holds(n, a) /\ tree[n].refc > 0

\* One that alloc_page() is still carving, or has yet to reference.
Carved(q) == stack # <<>> /\ Top.why = "pool" /\ q = Block(PoolClass, Top.addr)
OnTheWay(q) == Carved(q) \/ (refs = <<q>> /\ q \in Nodes /\ Kids(q) = {} /\ OffKernel(q))

CarvedFrame ==
  stack # <<>> /\ Top.why = "pool" =>
    /\ Top.class = PoolClass /\ Top.addr = Top.node.addr
    /\ PoolClass <= Top.node.class /\ Kids(Top.node) = {}

PoolsOnTop == \A i \in 1..Len(stack) : stack[i].why = "pool" => i = 1

PoolSet == pools \subseteq BlockType /\ IsFiniteSet(pools) /\ \A q \in pools : q.class = PoolClass /\ EndOf(q) <= BootMemSize

PoolInv ==
  /\ descr \in Nat /\ PoolSet /\ DescriptorsConserved /\ PoolsApart
  /\ PoolsOnTop /\ CarvedFrame
  /\ \A q \in pools : OnTheWay(q) \/ Kept(q)

\* A node with another node inside of it has children.
LEMMA InnerHasParent ==
  ASSUME TypeInv, TreeInv, Whole, NEW x \in Nodes, NEW y \in Nodes, x # y, Within(x, y)
  PROVE  Kids(y) # {}
<1> DEFINE S == {m \in Nodes : m # y /\ Within(m, y)}
           C == {MaxClass - m.class : m \in S}
<1>0. Nodes \subseteq BlockType /\ \A m \in Nodes : Aligned(m) /\ m.class \in Nat /\ m.class \in Class /\ m.class <= MaxClass
  <2>1. Nodes \subseteq BlockType /\ \A m \in Nodes : Aligned(m)
    BY DEF TypeInv, TreeInv
  <2>2. \A m \in Nodes : m.class \in Class
    BY <2>1, BlockEnd
  <2> QED BY <2>1, <2>2, PmapClasses DEF Class
<1>1. x \in S /\ S \subseteq Nodes
  OBVIOUS
<1>2. PICK m \in S : \A k \in S : k.class <= m.class
  <2>1. MaxClass \in Nat
    BY PmapClasses
  <2>2. C \in SUBSET Nat /\ C # {}
    BY <1>0, <1>1, <2>1
  <2>3. PICK c \in C : \A d \in C : c <= d
    BY <2>2, LeastNatural
  <2>4. PICK m \in S : c = MaxClass - m.class
    OBVIOUS
  <2>5. ASSUME NEW k \in S PROVE k.class <= m.class
    <3>1. MaxClass - m.class <= MaxClass - k.class
      BY <2>3, <2>4
    <3> QED BY <1>0, <2>1, <3>1
  <2> QED BY <2>5
<1>3. m \in BlockType /\ y \in BlockType /\ Aligned(m) /\ Aligned(y) /\ m # y /\ Within(m, y) /\ m \in Nodes
  BY <1>0, <1>1
<1>4. m # Root
  <2>1. m.class < y.class
    BY <1>3, Smaller
  <2>2. Root.class = MaxClass
    BY DEF Root, Block
  <2>3. MaxClass \in Nat
    BY PmapClasses
  <2> QED BY <1>0, <1>3, <2>1, <2>2, <2>3
<1>5. PICK p \in Nodes : p.class > 0 /\ m \in {Left(p), Right(p)}
  BY <1>3, <1>4 DEF Whole
<1>6. CASE p = y
  BY <1>3, <1>5, <1>6 DEF Kids
<1>7. CASE p # y
  <2>1. Within(p, y)
    BY <1>0, <1>3, <1>5, <1>7, ParentWithin
  <2>2. p \in S
    BY <1>7, <2>1
  <2>3. m.class = p.class - 1
    BY <1>0, <1>5, Halves
  <2>4. p.class <= m.class
    BY <1>2, <2>2
  <2> QED BY <1>0, <1>5, <2>3, <2>4
<1> QED BY <1>6, <1>7

\* No address is in two leaves.
LEMMA LeavesApart ==
  ASSUME TypeInv, TreeInv, Whole, NEW x \in Nodes, NEW y \in Nodes, Kids(x) = {}, Kids(y) = {},
         NEW a \in Nat, Holds(x, a), Holds(y, a)
  PROVE  x = y
<1>0. x \in BlockType /\ y \in BlockType /\ Aligned(x) /\ Aligned(y)
  BY DEF TypeInv, TreeInv
<1>1. x.class \in Nat /\ y.class \in Nat
  <2>1. x.class \in Class /\ y.class \in Class
    BY <1>0, BlockEnd
  <2> QED BY <2>1, PmapClasses
<1>2. x.class <= y.class \/ y.class <= x.class
  BY <1>1
<1>3. CASE x.class <= y.class
  <2>1. Within(x, y)
    BY <1>0, <1>3, Nested DEF Holds
  <2> QED BY <2>1, InnerHasParent
<1>4. CASE y.class <= x.class
  <2>1. Within(y, x)
    BY <1>0, <1>4, Nested DEF Holds
  <2> QED BY <2>1, InnerHasParent
<1> QED BY <1>2, <1>3, <1>4

\* A page of descriptors stays one as long as what is referenced stays in the tree.
LEMMA KeptStays ==
  ASSUME NEW q \in BlockType, Kept(q),
         \A n \in Nodes : tree[n].refc > 0 => n \in Nodes' /\ tree'[n].refc > 0,
         \A n \in Nodes, a \in Nat :
           Kids(n) = {} /\ tree[n].refc > 0 /\ Holds(n, a)
             => \E m \in Nodes' : Kids(m)' = {} /\ Holds(m, a) /\ tree'[m].refc > 0
  PROVE  Kept(q)'
<1>1. q \in Nodes' /\ tree'[q].refc > 0 /\ OffKernel(q)
  BY DEF Kept
<1>2. ASSUME NEW a \in q.addr..(EndOf(q) - 1)
      PROVE  \E m \in Nodes' : Kids(m)' = {} /\ Holds(m, a) /\ tree'[m].refc > 0
  <2>1. a \in Nat
    <3>1. q.addr \in Nat /\ EndOf(q) \in Nat
      BY BlockEnd
    <3> QED BY <1>2, <3>1
  <2>2. PICK n \in Nodes : Kids(n) = {} /\ Holds(n, a) /\ tree[n].refc > 0
    BY <1>2 DEF Kept
  <2> QED BY <2>1, <2>2
<1> QED BY <1>1, <1>2 DEF Kept


LEMMA PoolInit == Init => PoolInv
<1> SUFFICES ASSUME Init PROVE PoolInv
  OBVIOUS
<1>1. Nodes = {Root} /\ descr = InitDescr /\ pools = {} /\ stack = <<>>
  BY DEF Init, Nodes
<1>2. Cardinality(Nodes) = 1 /\ Cardinality(pools) = 0 /\ IsFiniteSet(pools)
  BY <1>1, FS_Singleton, FS_EmptySet
<1>3. DescriptorsConserved
  BY <1>1, <1>2, DescrAssumption DEF DescriptorsConserved
<1>4. PoolSet /\ PoolsApart
  BY <1>1, <1>2 DEF PoolSet, PoolsApart
<1>5. PoolsOnTop /\ CarvedFrame
  BY <1>1 DEF PoolsOnTop, CarvedFrame
<1> QED BY <1>1, <1>3, <1>4, <1>5, DescrAssumption DEF PoolInv

\* A step that hands out no new pool.
LEMMA SamePools ==
  ASSUME PoolInv, pools' = pools, descr' \in Nat, DescriptorsConserved', PoolsOnTop', CarvedFrame',
         \A q \in pools : OnTheWay(q)' \/ Kept(q)'
  PROVE  PoolInv'
<1>1. PoolSet' /\ PoolsApart'
  BY DEF PoolInv, PoolSet, PoolsApart
<1> QED BY <1>1 DEF PoolInv

\* A step that leaves the tree and the descriptors alone.
LEMMA SameTree ==
  ASSUME PoolInv, UNCHANGED <<tree, pools, descr>>, PoolsOnTop', CarvedFrame',
         \A q \in pools : OnTheWay(q) => OnTheWay(q)'
  PROVE  PoolInv'
<1>1. Nodes' = Nodes
  BY DEF Nodes
<1>2. \A q : Kept(q)' <=> Kept(q)
  BY <1>1 DEF Kept, Kids
<1>3. DescriptorsConserved'
  BY <1>1 DEF PoolInv, DescriptorsConserved
<1>4. descr' \in Nat
  BY DEF PoolInv
<1>5. \A q \in pools : OnTheWay(q)' \/ Kept(q)'
  BY <1>2 DEF PoolInv
<1> QED BY <1>3, <1>4, <1>5, SamePools

\* Under the frame on top there is no pool.
LEMMA PopPool ==
  ASSUME stack \in Seq(FrameType), stack # <<>>, PoolsOnTop, stack' = Tail(stack)
  PROVE  PoolsOnTop' /\ CarvedFrame' /\ \A q : ~Carved(q)'
<1>1. \A i \in 1..Len(stack') : stack'[i].why # "pool"
  <2>1. \A i \in 1..Len(Tail(stack)) : i + 1 \in 1..Len(stack) /\ i + 1 # 1 /\ Tail(stack)[i] = stack[i + 1]
    BY RestOf
  <2> QED BY <2>1 DEF PoolsOnTop
<1>2. stack' # <<>> => Top' = stack'[1] /\ 1 \in 1..Len(stack')
  <2>1. stack' \in Seq(FrameType)
    BY RestOf
  <2> QED BY <2>1 DEF Top
<1> QED BY <1>1, <1>2 DEF PoolsOnTop, CarvedFrame, Carved

\* A call from detect_memory() is on its own.
LEMMA CallPool ==
  ASSUME NEW f, f.why # "pool", stack' = <<f>>
  PROVE  PoolsOnTop' /\ CarvedFrame'
<1>1. Top' = f /\ Len(stack') = 1 /\ stack'[1] = f
  BY DEF Top
<1> QED BY <1>1 DEF PoolsOnTop, CarvedFrame

LEMMA IdlePool ==
  ASSUME PoolInv, Idle, UNCHANGED <<tree, pools, descr>>, NEW f, f.why # "pool", stack' = <<f>>
  PROVE  PoolInv'
<1>1. PoolsOnTop' /\ CarvedFrame'
  BY CallPool
<1>2. \A q : ~OnTheWay(q)
  BY DEF Idle, OnTheWay, Carved
<1> QED BY <1>1, <1>2, SameTree

LEMMA StillPool ==
  ASSUME PoolInv, UNCHANGED <<tree, pools, descr, stack, refs>>
  PROVE  PoolInv'
<1>1. PoolsOnTop' /\ CarvedFrame'
  BY DEF PoolInv, PoolsOnTop, CarvedFrame, Top, Kids, Nodes
<1>2. \A q : OnTheWay(q) => OnTheWay(q)'
  BY DEF OnTheWay, Carved, Top, Kids, Nodes
<1> QED BY <1>1, <1>2, SameTree

\* alloc_page() has found its page and goes on to reference it.
LEMMA AllocPoolKeeps ==
  ASSUME PmapInv, PoolInv, AllocPool
  PROVE  PoolInv'
<1>0. TypeInv /\ FrameInv /\ stack \in Seq(FrameType)
  BY DEF PmapInv, TypeInv
<1>1. /\ Arrived /\ stack # <<>> /\ Top.why = "pool" /\ OffKernel(Top.node)
      /\ refs' = <<Top.node>> /\ stack' = Tail(stack) /\ refs = <<>> /\ UNCHANGED <<tree, pools, descr>>
  BY DEF AllocPool, Arrived, InLookup
<1>2. PoolsOnTop' /\ CarvedFrame'
  BY <1>0, <1>1, PopPool DEF PoolInv
<1>3. /\ Top.node \in Nodes /\ Top.node \in BlockType /\ Kids(Top.node) = {}
      /\ Top.class = PoolClass /\ Top.addr = Top.node.addr /\ PoolClass <= Top.node.class
  BY <1>0, <1>1, TopIs DEF PoolInv, CarvedFrame
<1>4. Top.node = Block(PoolClass, Top.addr)
  <2>1. Top.node.class \in Class /\ PoolClass \in Class
    BY <1>3, BlockEnd, PmapClasses
  <2>2. Top.node.class \in Nat /\ PoolClass \in Nat /\ Top.node.class <= PoolClass
    BY <1>1, <1>3, <2>1, PmapClasses DEF Arrived
  <2>3. Top.node.class = PoolClass
    BY <1>3, <2>2
  <2> QED BY <1>3, <2>3, HeadIs
<1>5. ASSUME NEW q \in pools, OnTheWay(q) PROVE OnTheWay(q)'
  <2>1. q = Top.node
    BY <1>1, <1>4, <1>5 DEF OnTheWay, Carved
  <2>2. Nodes' = Nodes /\ Kids(q)' = Kids(q)
    BY <1>1 DEF Nodes, Kids
  <2> QED BY <1>1, <1>3, <2>1, <2>2 DEF OnTheWay
<1> QED BY <1>1, <1>2, <1>5, SameTree

LEMMA RefConstKeeps ==
  ASSUME PmapInv, PoolInv, RefConstPage
  PROVE  PoolInv'
<1>1. /\ stack # <<>> /\ Top.why = "const" /\ refs = <<>> /\ stack' = Tail(stack)
      /\ UNCHANGED <<tree, pools, descr>>
  BY DEF RefConstPage, Arrived, InLookup
<1>2. stack \in Seq(FrameType)
  BY DEF PmapInv, TypeInv
<1>3. PoolsOnTop' /\ CarvedFrame'
  BY <1>1, <1>2, PopPool DEF PoolInv
<1>4. \A q : ~OnTheWay(q)
  BY <1>1 DEF OnTheWay, Carved
<1> QED BY <1>1, <1>3, <1>4, SameTree


LEMMA AttachKeeps ==
  ASSUME PmapInv, PoolInv, Attach
  PROVE  PoolInv'
<1> PICK n, t : n = Top.node /\ t = NewType(n, Top.type)
  OBVIOUS
<1>0. /\ TypeInv /\ FrameInv /\ stack \in Seq(FrameType) /\ Retyping
      /\ tree \in [Nodes -> [state : PageState, refc : Nat]]
  BY DEF PmapInv, TypeInv, Attach
<1>1. /\ tree' = [tree EXCEPT ![n].state = t] /\ stack' = Tail(stack) /\ UNCHANGED <<descr, pools, refs>>
  BY DEF Attach
<1>2. stack # <<>> /\ refs = <<>> /\ Top.type # PARTIAL /\ n \in Nodes /\ Top.why = "attach"
  <2>1. stack # <<>> /\ refs = <<>> /\ Top.type # PARTIAL /\ n \in Nodes
    BY <1>0, RetypingIs
  <2> QED BY <1>0, <2>1, TopIs
<1>3. PoolsOnTop' /\ CarvedFrame'
  BY <1>0, <1>1, <1>2, PopPool DEF PoolInv
<1>4. Nodes' = Nodes /\ \A m \in Nodes : tree'[m].refc = tree[m].refc /\ Kids(m)' = Kids(m)
  <2>1. DOMAIN tree' = DOMAIN tree
    BY <1>1
  <2>2. Nodes' = Nodes
    BY <2>1 DEF Nodes
  <2>3. \A m \in Nodes : tree'[m].refc = tree[m].refc
    <3> DEFINE r == [tree[n] EXCEPT !.state = t]
    <3>1. tree[n] \in [state : PageState, refc : Nat]
      BY <1>0, <1>2
    <3>2. r.refc = tree[n].refc
      BY <3>1
    <3>3. tree' = [tree EXCEPT ![n] = r]
      BY <1>1
    <3> HIDE DEF r
    <3> QED BY <1>0, <1>2, <3>2, <3>3
  <2> QED BY <2>2, <2>3 DEF Kids
<1>5. DescriptorsConserved' /\ descr' \in Nat
  BY <1>1, <1>4 DEF PoolInv, DescriptorsConserved
<1>6. ASSUME NEW q \in pools PROVE Kept(q)'
  <2>1. q \in BlockType /\ Kept(q)
    BY <1>2 DEF PoolInv, PoolSet, OnTheWay, Carved
  <2> QED BY <1>4, <2>1, KeptStays
<1> QED BY <1>1, <1>3, <1>5, <1>6, SamePools

LEMMA FreeDescRecKeeps ==
  ASSUME PmapInv, PoolInv, FreeDescRec
  PROVE  PoolInv'
<1> PICK m : m = NextFreed(Top.node)
  OBVIOUS
<1>0. /\ TypeInv /\ FrameInv /\ Retyping /\ Below(Top.node) # {} /\ Nodes \subseteq BlockType /\ IsFiniteSet(Nodes)
      /\ tree \in [Nodes -> [state : PageState, refc : Nat]]
  BY DEF PmapInv, TypeInv, FreeDescRec
<1>1. /\ tree[m].refc = 0 /\ tree' = [n \in Nodes \ {m} |-> tree[n]] /\ descr' = descr + 1
      /\ UNCHANGED <<pools, stack, refs>>
  BY DEF FreeDescRec
<1>2. stack # <<>> /\ refs = <<>> /\ Top.node \in Nodes /\ Top.why = "attach"
  <2>1. stack # <<>> /\ refs = <<>> /\ Top.type # PARTIAL /\ Top.node \in Nodes
    BY <1>0, RetypingIs
  <2> QED BY <1>0, <2>1, TopIs
<1>3. m \in Nodes
  BY <1>0, <1>2, NextFreedIs DEF Below
<1>4. PoolsOnTop' /\ CarvedFrame'
  BY <1>1, <1>2 DEF PoolInv, PoolsOnTop, CarvedFrame, Top
<1>5. /\ Nodes' = Nodes \ {m}
      /\ \A n \in Nodes \ {m} : tree'[n] = tree[n] /\ (Kids(n) = {} => Kids(n)' = {})
  <2>1. Nodes' = Nodes \ {m}
    BY <1>1 DEF Nodes
  <2> QED BY <1>1, <2>1 DEF Kids
<1>6. DescriptorsConserved' /\ descr' \in Nat
  <2>1. Cardinality(Nodes') = Cardinality(Nodes) - 1 /\ Cardinality(Nodes) \in Nat
    BY <1>0, <1>3, <1>5, FS_RemoveElement, FS_CardinalityType
  <2>2. descr \in Nat /\ DescriptorsConserved
    BY DEF PoolInv
  <2>3. descr' + Cardinality(Nodes') - 1 = descr + Cardinality(Nodes) - 1 /\ descr' \in Nat
    BY <1>1, <2>1, <2>2
  <2> QED BY <1>1, <2>2, <2>3 DEF DescriptorsConserved
<1>7. ASSUME NEW q \in pools PROVE Kept(q)'
  <2>1. q \in BlockType /\ Kept(q)
    BY <1>2 DEF PoolInv, PoolSet, OnTheWay, Carved
  <2>2. \A n \in Nodes : tree[n].refc > 0 => n \in Nodes \ {m}
    BY <1>1
  <2>3. \A n \in Nodes : tree[n].refc > 0 => n \in Nodes' /\ tree'[n].refc > 0
    BY <1>5, <2>2
  <2>4. \A n \in Nodes, a \in Nat : Kids(n) = {} /\ tree[n].refc > 0 /\ Holds(n, a)
             => \E x \in Nodes' : Kids(x)' = {} /\ Holds(x, a) /\ tree'[x].refc > 0
    BY <1>5, <2>2
  <2> QED BY <2>1, <2>3, <2>4, KeptStays
<1> QED BY <1>1, <1>4, <1>6, <1>7, SamePools

LEMMA PageRefKeeps ==
  ASSUME PmapInv, PoolInv, PageRef
  PROVE  PoolInv'
<1> PICK n : n = Head(refs)
  OBVIOUS
<1>0. /\ Nodes \subseteq BlockType /\ tree \in [Nodes -> [state : PageState, refc : Nat]] /\ refs \in Seq(Nodes)
  BY DEF PmapInv, TypeInv, FrameInv
<1>1. refs # <<>> /\ tree' = [tree EXCEPT ![n].refc = @ + 1] /\ UNCHANGED <<stack, descr, pools>>
  BY DEF PageRef
<1>2. n \in Nodes /\ tree[n].refc \in Nat
  <2>1. n \in Nodes
    BY <1>0, <1>1
  <2> QED BY <1>0, <2>1
<1>3. /\ Nodes' = Nodes /\ \A m \in Nodes : Kids(m)' = Kids(m)
      /\ \A m \in Nodes : m # n => tree'[m] = tree[m]
      /\ tree'[n].refc > 0
  <2> DEFINE r == [tree[n] EXCEPT !.refc = tree[n].refc + 1]
  <2>1. tree' = [tree EXCEPT ![n] = r]
    BY <1>1
  <2>2. r.refc > 0
    <3>1. tree[n] \in [state : PageState, refc : Nat]
      BY <1>0, <1>2
    <3>2. r.refc = tree[n].refc + 1
      BY <3>1
    <3> QED BY <1>2, <3>2
  <2> HIDE DEF r
  <2>3. tree'[n] = r /\ \A m \in Nodes : m # n => tree'[m] = tree[m]
    BY <1>0, <1>2, <2>1
  <2>4. Nodes' = Nodes
    BY <2>1 DEF Nodes
  <2> QED BY <2>2, <2>3, <2>4 DEF Kids
<1>4. \A m \in Nodes : tree[m].refc > 0 => tree'[m].refc > 0
  BY <1>3
<1>5. PoolsOnTop' /\ CarvedFrame'
  <2>1. PICK w : w = Top.node
    OBVIOUS
  <2>2. Top' = Top
    BY <1>1 DEF Top
  <2>3. stack # <<>> => w \in Nodes
    BY <2>1, TopIs DEF PmapInv
  <2>4. stack # <<>> => Kids(w)' = Kids(w)
    BY <1>3, <2>3
  <2>5. CarvedFrame'
    BY <1>1, <2>1, <2>2, <2>4 DEF PoolInv, CarvedFrame
  <2> QED BY <1>1, <2>5 DEF PoolInv, PoolsOnTop
<1>6. DescriptorsConserved' /\ descr' \in Nat
  BY <1>1, <1>3 DEF PoolInv, DescriptorsConserved
<1>7. ASSUME NEW q \in pools PROVE OnTheWay(q)' \/ Kept(q)'
  <2>0. q \in BlockType
    BY DEF PoolInv, PoolSet
  <2>1. CASE Carved(q)
    BY <1>1, <2>1 DEF OnTheWay, Carved, Top
  <2>2. CASE refs = <<q>> /\ q \in Nodes /\ Kids(q) = {} /\ OffKernel(q)
    <3>1. q = n
      BY <2>2
    <3>2. q \in Nodes' /\ tree'[q].refc > 0 /\ Kids(q)' = {}
      BY <1>3, <2>2, <3>1
    <3>3. \A a \in q.addr..(EndOf(q) - 1) : Holds(q, a)
      <4>1. q.addr \in Nat /\ EndOf(q) \in Nat
        BY <2>0, BlockEnd
      <4> QED BY <4>1 DEF Holds
    <3> QED BY <2>2, <3>2, <3>3 DEF Kept
  <2>3. CASE Kept(q)
    <3>1. \A m \in Nodes : tree[m].refc > 0 => m \in Nodes' /\ tree'[m].refc > 0
      BY <1>3, <1>4
    <3>2. \A m \in Nodes, a \in Nat : Kids(m) = {} /\ tree[m].refc > 0 /\ Holds(m, a)
             => \E x \in Nodes' : Kids(x)' = {} /\ Holds(x, a) /\ tree'[x].refc > 0
      BY <1>3, <1>4
    <3> QED BY <2>0, <2>3, <3>1, <3>2, KeptStays
  <2> QED BY <2>1, <2>2, <2>3 DEF PoolInv, OnTheWay
<1> QED BY <1>1, <1>5, <1>6, <1>7, SamePools


\* ensure_free_desc() hands out a page that is free: none that is a pool already.
LEMMA EnsureKeeps ==
  ASSUME PmapInv, PoolInv, EnsureFreeDesc
  PROVE  PoolInv'
<1>0. /\ TypeInv /\ FrameInv /\ TreeInv /\ Nodes \subseteq BlockType /\ IsFiniteSet(Nodes) /\ stack \in Seq(FrameType)
      /\ ListInv
  BY DEF PmapInv, TypeInv
<1>1. /\ Descending /\ ~panicked /\ refs = <<>> /\ stack # <<>> /\ ~AllocatingPool /\ UNCHANGED <<tree, refs>>
  BY DEF EnsureFreeDesc, Descending, InLookup
<1>2. PICK peer \in FindPeer(PoolClass) :
        /\ TakePool(peer)
        /\ stack' = <<Frame(peer, PoolClass, peer.addr, PARTIAL, "pool"),
                      [Top EXCEPT !.pooled = TRUE]>> \o Tail(stack)
  BY DEF EnsureFreeDesc
<1> PICK new : new = Block(PoolClass, peer.addr)
  OBVIOUS
<1>3. pools' = pools \cup {new} /\ descr' = descr + PoolEntries
  BY <1>2 DEF TakePool
<1>4. PoolClass \in Class /\ FamilyInv /\ ~Retyping /\ Whole
  BY <1>0, <1>1, NotRetyping, WholeIs, PmapClasses DEF PmapInv
<1>5. /\ peer \in Nodes /\ peer \in BlockType /\ Aligned(peer) /\ PoolClass <= peer.class /\ FitsBootMem(peer, PoolClass)
      /\ Kids(peer) = {} /\ tree[peer].refc = 0 /\ peer.addr \in Nat
  <2>1. peer \in Nodes /\ OnList(peer) /\ PoolClass <= peer.class /\ FitsBootMem(peer, PoolClass)
    BY <1>0, <1>4, PeerIs DEF ListInv
  <2>2. WasFree(peer)
    BY <1>0, <2>1 DEF ListInv
  <2>3. peer \in BlockType /\ Aligned(peer)
    BY <1>0, <2>1 DEF TreeInv
  <2> QED BY <2>1, <2>2, <2>3, BlockEnd DEF WasFree, PageIsFree
<1>6. new \in BlockType /\ new.class = PoolClass /\ new.addr = peer.addr /\ Within(new, peer) /\ Aligned(new)
  <2>1. new \in BlockType /\ Within(new, peer) /\ Aligned(new)
    BY <1>4, <1>5, FirstPart
  <2> QED BY <2>1 DEF Block
<1>7. EndOf(new) <= BootMemSize
  <2>1. EndOf(new) = peer.addr + ClassSize[PoolClass] /\ EndOf(new) \in Nat
    BY <1>6, BlockEnd
  <2>2. peer.addr + ClassSize[PoolClass] < BootMemSize
    BY <1>5 DEF FitsBootMem
  <2> QED BY <2>1, <2>2, DescrAssumption
<1>8. \A q \in pools : Kept(q)
  <2>1. 1 \in 1..Len(stack) /\ Top = stack[1] /\ 1 \in DOMAIN stack
    BY <1>0, <1>1, TopIs
  <2>2. Top.why # "pool"
    BY <1>1, <2>1 DEF AllocatingPool
  <2> QED BY <1>1, <2>2 DEF PoolInv, OnTheWay, Carved
\* What is referenced and what is free share no address.
<1>9. ASSUME NEW q \in pools PROVE EndOf(q) <= new.addr \/ EndOf(new) <= q.addr
  <2>1. /\ q \in BlockType /\ q.addr \in Nat /\ EndOf(q) \in Nat /\ q.addr < EndOf(q)
        /\ new.addr \in Nat /\ EndOf(new) \in Nat /\ new.addr < EndOf(new)
    BY <1>6, BlockEnd DEF PoolInv, PoolSet
  <2> SUFFICES ASSUME new.addr < EndOf(q), q.addr < EndOf(new) PROVE FALSE
    BY <2>1
  <2>2. PICK a : a = IF q.addr <= new.addr THEN new.addr ELSE q.addr
    OBVIOUS
  <2>3. a \in Nat /\ a \in q.addr..(EndOf(q) - 1) /\ new.addr <= a /\ a < EndOf(new)
    BY <2>1, <2>2
  <2>4. PICK n \in Nodes : Kids(n) = {} /\ Holds(n, a) /\ tree[n].refc > 0
    BY <1>8, <2>3 DEF Kept
  <2>5. Holds(peer, a)
    <3>1. peer.addr <= new.addr /\ EndOf(new) <= EndOf(peer)
      BY <1>6 DEF Within
    <3>2. peer.addr \in Nat /\ EndOf(peer) \in Nat
      BY <1>5, BlockEnd
    <3> QED BY <2>1, <2>3, <3>1, <3>2 DEF Holds
  <2>6. n = peer
    BY <1>0, <1>4, <1>5, <2>3, <2>4, <2>5, LeavesApart
  <2> QED BY <1>5, <2>4, <2>6
<1>10. new \notin pools
  <2>1. new.addr \in Nat /\ EndOf(new) \in Nat /\ new.addr < EndOf(new)
    BY <1>6, BlockEnd
  <2>2. ~(EndOf(new) <= new.addr)
    BY <2>1
  <2> QED BY <1>9, <2>2
<1>11. PoolSet'
  <2>1. pools \subseteq BlockType /\ IsFiniteSet(pools) /\ \A q \in pools : q.class = PoolClass /\ EndOf(q) <= BootMemSize
    BY DEF PoolInv, PoolSet
  <2>2. IsFiniteSet(pools \cup {new})
    BY <2>1, FS_AddElement
  <2> QED BY <1>3, <1>6, <1>7, <2>1, <2>2 DEF PoolSet
<1>12. DescriptorsConserved' /\ descr' \in Nat
  <2>1. /\ Cardinality(pools') = Cardinality(pools) + 1 /\ Cardinality(pools) \in Nat /\ Cardinality(Nodes) \in Nat
        /\ Nodes' = Nodes
    <3>1. IsFiniteSet(pools) /\ Nodes' = Nodes
      BY <1>1 DEF PoolInv, PoolSet, Nodes
    <3> QED BY <1>0, <1>3, <1>10, <3>1, FS_AddElement, FS_CardinalityType
  <2>2. descr \in Nat /\ descr + Cardinality(Nodes) - 1 = InitDescr + PoolEntries * Cardinality(pools)
    BY DEF PoolInv, DescriptorsConserved
  <2>3. \A p, k \in Nat : p * (k + 1) = p * k + p /\ p * k \in Nat
    OBVIOUS
  <2>4. PoolEntries \in Nat /\ InitDescr \in Nat
    BY DescrAssumption
  <2>5. PoolEntries * Cardinality(pools') = PoolEntries * Cardinality(pools) + PoolEntries /\ PoolEntries * Cardinality(pools) \in Nat
    BY <2>1, <2>3, <2>4
  <2>6. descr' + Cardinality(Nodes') - 1 = InitDescr + PoolEntries * Cardinality(pools')
    BY <1>3, <2>1, <2>2, <2>4, <2>5
  <2> QED BY <1>3, <2>2, <2>4, <2>6 DEF DescriptorsConserved
<1>13. PoolsApart'
  <2>1. \A p, q \in pools : p # q => EndOf(p) <= q.addr \/ EndOf(q) <= p.addr
    BY DEF PoolInv, PoolsApart
  <2> QED BY <1>3, <1>9, <2>1 DEF PoolsApart
<1> DEFINE f == Frame(peer, PoolClass, peer.addr, PARTIAL, "pool")  g == [Top EXCEPT !.pooled = TRUE]
<1>14. f \in FrameType /\ f.node = peer /\ f.class = PoolClass /\ f.addr = peer.addr /\ f.why = "pool"
  <2>1. PARTIAL \in PageState
    BY DEF PageState
  <2> QED BY <1>4, <1>5, <2>1, FrameTyped
<1>15. g \in FrameType /\ g.why = Top.why
  <2>1. Top \in FrameType
    BY <1>0, <1>1, TopIs
  <2> QED BY <2>1 DEF FrameType
<1> HIDE DEF f, g
<1>16. stack' = <<f, g>> \o Tail(stack)
  BY <1>2 DEF f, g
<1>17. Top' = f /\ stack' # <<>>
  <2>1. Tail(stack) \in Seq(FrameType)
    BY <1>0, <1>1
  <2> QED BY <1>14, <1>15, <1>16, <2>1 DEF Top
<1>18. PoolsOnTop'
  <2> SUFFICES ASSUME NEW i \in 1..Len(stack'), i # 1 PROVE stack'[i].why # "pool"
    BY DEF PoolsOnTop
  <2>1. \/ i = 2 /\ stack'[i] = g
        \/ i - 1 \in 1..Len(stack) /\ stack'[i] = stack[i - 1]
    BY <1>0, <1>1, <1>14, <1>15, <1>16, RestOf
  <2>2. \A j \in 1..Len(stack) : stack[j].why # "pool"
    BY <1>0, <1>1 DEF AllocatingPool
  <2>3. Top = stack[1] /\ 1 \in 1..Len(stack)
    BY <1>0, <1>1, TopIs
  <2> QED BY <1>15, <2>1, <2>2, <2>3
<1>19. CarvedFrame'
  <2>1. Kids(peer)' = Kids(peer)
    BY <1>1 DEF Kids, Nodes
  <2> QED BY <1>5, <1>14, <1>17, <2>1 DEF CarvedFrame
<1>20. ASSUME NEW q \in pools' PROVE OnTheWay(q)' \/ Kept(q)'
  <2>1. CASE q = new
    <3>1. Carved(new)'
      BY <1>14, <1>17 DEF Carved
    <3> QED BY <2>1, <3>1 DEF OnTheWay
  <2>2. CASE q \in pools
    <3>1. Kept(q)
      BY <1>8, <2>2
    <3>2. Nodes' = Nodes /\ tree' = tree
      BY <1>1 DEF Nodes
    <3> QED BY <3>1, <3>2 DEF Kept, Kids
  <2> QED BY <1>3, <2>1, <2>2
<1> QED BY <1>11, <1>12, <1>13, <1>18, <1>19, <1>20 DEF PoolInv


\* page_lookup() splits its node: the parts of a pool stay referenced, and a page that
\* is carved into a pool goes on to its first half.
LEMMA DescendKeeps ==
  ASSUME PmapInv, LookupInv, PoolInv, Descend
  PROVE  PoolInv'
<1> PICK f, n, new, on : /\ f = Top /\ n = f.node /\ new = {Left(n), Right(n)} \ Nodes
                         /\ on = IF GoesRight(f) THEN Right(n) ELSE Left(n)
  OBVIOUS
<1>0. /\ TypeInv /\ FrameInv /\ TreeInv /\ Nodes \subseteq BlockType /\ IsFiniteSet(Nodes) /\ stack \in Seq(FrameType)
      /\ \A y \in Nodes : Aligned(y)
      /\ tree \in [Nodes -> [state : PageState, refc : Nat]]
  BY DEF PmapInv, TypeInv, TreeInv
<1>1. Splits(f, n, new)
  BY DEF Splits
<1>2. TreeSplit(f, n, new)
  BY <1>1, DescendTree
<1>3. /\ Descending /\ stack # <<>> /\ refs = <<>> /\ n.class > f.class /\ descr >= DescrNeeded(f)
      /\ descr' = descr - Cardinality(new) /\ UNCHANGED <<pools, refs>>
  BY DEF Descend, Descending, InLookup
<1>4. stack' = <<[f EXCEPT !.node = on, !.pooled = FALSE]>> \o Tail(stack)
  BY DEF Descend
<1>5. /\ f \in FrameType /\ f = stack[1] /\ 1 \in 1..Len(stack) /\ n \in Nodes /\ n \in BlockType /\ Aligned(n)
      /\ n.class \in Nat /\ f.class \in Nat /\ n.class > 0 /\ FrameAt(f)
  <2>1. f \in FrameType /\ f = stack[1] /\ 1 \in 1..Len(stack) /\ n \in Nodes /\ n \in BlockType /\ f.class \in Class
    BY <1>0, <1>3, TopIs
  <2>2. n.class \in Nat /\ f.class \in Nat
    <3>1. n.class \in Class
      BY <2>1, BlockEnd
    <3> QED BY <2>1, <3>1, PmapClasses
  <2>3. FrameAt(f)
    BY <2>1 DEF LookupInv
  <2> QED BY <1>0, <1>3, <2>1, <2>2, <2>3
<1>6. /\ Left(n) \in BlockType /\ Right(n) \in BlockType /\ Left(n).addr = n.addr /\ Right(n).addr \in Nat
      /\ n.addr < Right(n).addr /\ n.addr \in Nat /\ on \in BlockType
      /\ Left(n).class = n.class - 1 /\ EndOf(Left(n)) = Right(n).addr /\ EndOf(Right(n)) = EndOf(n)
  <2>1. /\ Left(n) \in BlockType /\ Right(n) \in BlockType /\ Left(n).addr = n.addr
        /\ Left(n).class = n.class - 1 /\ EndOf(Left(n)) = Right(n).addr /\ EndOf(Right(n)) = EndOf(n)
    BY <1>5, Halves
  <2>2. Left(n).addr < EndOf(Left(n)) /\ Right(n).addr \in Nat /\ n.addr \in Nat
    BY <1>5, <2>1, BlockEnd
  <2> QED BY <2>1, <2>2
<1>7. /\ Nodes' = Nodes \cup new /\ new \cap Nodes = {}
      /\ \A x \in Nodes : tree'[x].refc = tree[x].refc
      /\ \A x \in Nodes : x # n => Kids(x)' = Kids(x)
      /\ \A k \in new : Kids(k)' = {} /\ tree'[k].refc = IF tree[n].refc > 0 THEN 1 ELSE 0
  <2>1. \A x \in Nodes : tree'[x].refc = tree[x].refc
    BY <1>2 DEF TreeSplit
  <2> QED BY <1>2, <2>1 DEF TreeSplit, NewChild
<1>8. DescriptorsConserved' /\ descr' \in Nat
  <2>1. IsFiniteSet(new) /\ Cardinality(new) <= 2 /\ Cardinality(new) \in Nat
    <3>1. IsFiniteSet({Left(n)}) /\ Cardinality({Left(n)}) = 1
      BY FS_Singleton
    <3>2. IsFiniteSet({Left(n)} \cup {Right(n)}) /\ Cardinality({Left(n)} \cup {Right(n)}) <= 2
      BY <3>1, FS_AddElement
    <3>3. new \in SUBSET ({Left(n)} \cup {Right(n)})
      OBVIOUS
    <3>4. IsFiniteSet(new) /\ Cardinality(new) <= Cardinality({Left(n)} \cup {Right(n)})
      BY <3>2, <3>3, FS_Subset
    <3> QED BY <3>2, <3>4, FS_CardinalityType
  <2>2. Cardinality(Nodes') = Cardinality(Nodes) + Cardinality(new) /\ Cardinality(Nodes) \in Nat
    <3>1. Cardinality(Nodes \cup new) = Cardinality(Nodes) + Cardinality(new) - Cardinality(Nodes \cap new)
      BY <1>0, <2>1, FS_Union
    <3>2. Cardinality(Nodes \cap new) = 0
      BY <1>7, FS_EmptySet
    <3>3. Cardinality(Nodes) \in Nat
      BY <1>0, FS_CardinalityType
    <3> QED BY <1>7, <2>1, <3>1, <3>2, <3>3
  <2>3. descr \in Nat /\ DescriptorsConserved
    BY DEF PoolInv
  <2>4. descr >= 4
    <3>1. DescrNeeded(f) = (n.class - f.class + 1) * 2
      BY DEF DescrNeeded
    <3>2. (n.class - f.class + 1) * 2 >= 4
      BY <1>3, <1>5
    <3>3. (n.class - f.class + 1) * 2 \in Nat
      BY <1>3, <1>5
    <3> QED BY <1>3, <2>3, <3>1, <3>2, <3>3
  <2>5. descr' + Cardinality(Nodes') - 1 = descr + Cardinality(Nodes) - 1 /\ descr' \in Nat
    BY <1>3, <2>1, <2>2, <2>3, <2>4
  <2> QED BY <1>3, <2>3, <2>5 DEF DescriptorsConserved
<1> DEFINE g == [f EXCEPT !.node = on, !.pooled = FALSE]
<1>9. g \in FrameType /\ g.node = on /\ g.why = f.why /\ g.class = f.class /\ g.addr = f.addr
  BY <1>5, <1>6 DEF FrameType
<1> HIDE DEF g
<1>10. stack' = <<g>> \o Tail(stack) /\ stack' # <<>> /\ Top' = g
  <2>1. stack' = <<g>> \o Tail(stack) /\ Tail(stack) \in Seq(FrameType)
    BY <1>0, <1>3, <1>4 DEF g
  <2> QED BY <1>9, <2>1 DEF Top
<1>11. PoolsOnTop'
  <2> SUFFICES ASSUME NEW i \in 1..Len(stack'), stack'[i].why = "pool" PROVE i = 1
    BY DEF PoolsOnTop
  <2>1. stack'[i] = (IF i = 1 THEN g ELSE stack[i]) /\ i \in 1..Len(stack)
    BY <1>0, <1>3, <1>9, <1>10, RestOf
  <2>2. \A j \in 1..Len(stack) : stack[j].why = "pool" => j = 1
    BY DEF PoolInv, PoolsOnTop
  <2> QED BY <2>1, <2>2
<1>12. CarvedFrame'
  <2> SUFFICES ASSUME f.why = "pool"
               PROVE  /\ f.class = PoolClass /\ f.addr = on.addr
                      /\ PoolClass <= on.class /\ Kids(on)' = {}
    BY <1>9, <1>10 DEF CarvedFrame
  <2>1. f.class = PoolClass /\ f.addr = n.addr /\ PoolClass <= n.class /\ Kids(n) = {}
    BY <1>3 DEF PoolInv, CarvedFrame
  <2>2. on = Left(n)
    <3>1. n.addr < EndOf(n) /\ n.addr <= n.addr
      BY <1>5, <1>6, BlockEnd
    <3>2. GoesRight(f) <=> f.addr >= Right(n).addr
      BY <1>5, <2>1, <3>1, SideIs
    <3>3. ~GoesRight(f)
      BY <1>6, <2>1, <3>2
    <3> QED BY <3>3
  <2>3. on \in new
    <3>1. Left(n) \notin Nodes
      BY <1>5, <2>1 DEF Kids
    <3> QED BY <2>2, <3>1
  <2>4. PoolClass <= on.class
    BY <1>3, <1>5, <1>6, <2>1, <2>2
  <2> QED BY <1>6, <1>7, <2>1, <2>2, <2>3, <2>4
<1>13. ASSUME NEW q \in pools PROVE OnTheWay(q)' \/ Kept(q)'
  <2>0. q \in BlockType
    BY DEF PoolInv, PoolSet
  <2>1. CASE Carved(q)
    <3>1. f.why = "pool" /\ q = Block(PoolClass, f.addr)
      BY <2>1 DEF Carved
    <3> QED BY <1>9, <1>10, <3>1 DEF OnTheWay, Carved
  <2>2. CASE Kept(q)
    <3>1. \A m \in Nodes : tree[m].refc > 0 => m \in Nodes' /\ tree'[m].refc > 0
      BY <1>7
    <3>2. ASSUME NEW m \in Nodes, NEW a \in Nat, Kids(m) = {}, tree[m].refc > 0, Holds(m, a)
          PROVE  \E x \in Nodes' : Kids(x)' = {} /\ Holds(x, a) /\ tree'[x].refc > 0
      <4>1. CASE m # n
        BY <1>7, <3>1, <3>2, <4>1
      <4>2. CASE m = n
        <5>1. Left(n) \in new /\ Right(n) \in new
          <6>1. Kids(n) = {}
            BY <3>2, <4>2
          <6>3. n.class # 0
            BY <1>5
          <6>2. Left(n) \notin Nodes /\ Right(n) \notin Nodes
            BY <6>1, <6>3 DEF Kids
          <6> QED BY <6>2
        <5>2. Holds(Left(n), a) \/ Holds(Right(n), a)
          <6>1. n.addr <= a /\ a < EndOf(n)
            BY <3>2, <4>2 DEF Holds
          <6>2. a < Right(n).addr \/ Right(n).addr <= a
            BY <1>6
          <6> QED BY <1>6, <6>1, <6>2 DEF Holds
        <5>3. \A k \in new : k \in Nodes' /\ Kids(k)' = {} /\ tree'[k].refc > 0
          BY <1>7, <3>2, <4>2
        <5> QED BY <5>1, <5>2, <5>3
      <4> QED BY <4>1, <4>2
    <3> QED BY <2>0, <2>2, <3>1, <3>2, KeptStays
  <2>3. Carved(q) \/ Kept(q)
    BY <1>3 DEF PoolInv, OnTheWay
  <2> QED BY <2>1, <2>2, <2>3
<1> QED BY <1>3, <1>8, <1>11, <1>12, <1>13, SamePools


LEMMA PoolStep ==
  ASSUME PmapInv, LookupInv, PoolInv, [Next]_vars
  PROVE  PoolInv'
<1>1. CASE EnsureFreeDesc
  BY <1>1, EnsureKeeps
<1>2. CASE Descend
  BY <1>2, DescendKeeps
<1>3. CASE FreeDescRec
  BY <1>3, FreeDescRecKeeps
<1>4. CASE Attach
  BY <1>4, AttachKeeps
<1>5. CASE PageRef
  BY <1>5, PageRefKeeps
<1>6. CASE AllocPool
  BY <1>6, AllocPoolKeeps
<1>7. CASE RefConstPage
  BY <1>7, RefConstKeeps
<1>8. CASE AttachRegion
  <2>1. PICK c \in Class : stack' = <<Frame(Root, c, start, regions[cur].type, "attach")>>
    BY <1>8 DEF AttachRegion
  <2>2. Idle /\ UNCHANGED <<tree, pools, descr>>
    BY <1>8 DEF AttachRegion, Attaching
  <2>3. Frame(Root, c, start, regions[cur].type, "attach").why # "pool"
    BY DEF Frame
  <2> QED BY <2>1, <2>2, <2>3, IdlePool
<1>9. CASE LookupConstPage
  <2>1. stack' = <<Frame(Root, ConstClass, Head(consts), PARTIAL, "const")>>
    BY <1>9 DEF LookupConstPage
  <2>2. Idle /\ UNCHANGED <<tree, pools, descr>>
    BY <1>9 DEF LookupConstPage, Attached
  <2>3. Frame(Root, ConstClass, Head(consts), PARTIAL, "const").why # "pool"
    BY DEF Frame
  <2> QED BY <2>1, <2>2, <2>3, IdlePool
<1>10. CASE NextRegion
  BY <1>10, StillPool DEF NextRegion
<1>11. CASE Panic
  BY <1>11, StillPool DEF Panic
<1>12. CASE UNCHANGED vars
  BY <1>12, StillPool DEF vars
<1> QED BY <1>1, <1>2, <1>3, <1>4, <1>5, <1>6, <1>7, <1>8, <1>9, <1>10, <1>11, <1>12 DEF Next

\* The links of a list lead to nodes and heads only.
LEMMA LinksTyped ==
  ASSUME Nodes \subseteq BlockType, ListsAre(link, Nodes)
  PROVE  /\ DOMAIN link = Nodes \cup Heads
         /\ \A x \in DOMAIN link : link[x].next \in DOMAIN link /\ link[x].prev \in DOMAIN link
<1>1. DOMAIN link = Nodes \cup Heads
  BY DEF ListsAre
<1>2. ASSUME NEW c \in ListClass, NEW s \in Seq(Nodes), Chain(link, Nodes, c, s)
      PROVE  /\ link[ListHead(c)].next \in Nodes \cup Heads /\ link[ListHead(c)].prev \in Nodes \cup Heads
             /\ \A i \in 1..Len(s) : link[s[i]].next \in Nodes \cup Heads /\ link[s[i]].prev \in Nodes \cup Heads
  <2>1. PICK h : h = ListHead(c)
    OBVIOUS
  <2>2. h \in Heads
    BY <2>1, HeadIs
  <2>3. /\ link[h] = [next |-> IF s = <<>> THEN h ELSE s[1], prev |-> h]
        /\ \A i \in 1..Len(s) : link[s[i]] = [next |-> IF i = Len(s) THEN h ELSE s[i + 1], prev |-> h]
    BY <1>2, <2>1 DEF Chain
  <2>4. s # <<>> => s[1] \in Nodes
    OBVIOUS
  <2>5. \A i \in 1..Len(s) : i # Len(s) => s[i + 1] \in Nodes
    OBVIOUS
  <2>6. link[h].next \in Nodes \cup Heads /\ link[h].prev \in Nodes \cup Heads
    BY <2>2, <2>3, <2>4
  <2>7. ASSUME NEW i \in 1..Len(s) PROVE link[s[i]].next \in Nodes \cup Heads /\ link[s[i]].prev \in Nodes \cup Heads
    <3>1. link[s[i]] = [next |-> IF i = Len(s) THEN h ELSE s[i + 1], prev |-> h]
      BY <2>3
    <3>2. i # Len(s) => s[i + 1] \in Nodes
      BY <2>5
    <3> QED BY <2>2, <3>1, <3>2
  <2> QED BY <2>1, <2>6, <2>7
<1>3. ASSUME NEW x \in Nodes \cup Heads PROVE link[x].next \in Nodes \cup Heads /\ link[x].prev \in Nodes \cup Heads
  <2>1. CASE x \in Heads
    <3>1. PICK c \in ListClass : x = ListHead(c)
      BY <2>1, HeadIs
    <3>2. PICK s \in Seq(Nodes) : Chain(link, Nodes, c, s)
      BY DEF ListsAre
    <3> QED BY <1>2, <3>1, <3>2
  <2>2. CASE x \in Nodes /\ link[x] = Self(x)
    BY <2>2 DEF Self
  <2>3. CASE x \in Nodes /\ link[x] # Self(x)
    <3>1. x.class \in ListClass
      BY <2>3, PmapClasses, HeadIs DEF ListsAre
    <3>2. PICK s \in Seq(Nodes) : Chain(link, Nodes, x.class, s)
      BY <3>1 DEF ListsAre
    <3>3. PICK i \in 1..Len(s) : s[i] = x
      BY <2>3, <3>2 DEF Chain
    <3> QED BY <1>2, <3>1, <3>2, <3>3
  <2> QED BY <1>3, <2>1, <2>2, <2>3
<1> QED BY <1>1, <1>3

LEMMA PoolInvSound == PmapInv /\ LookupInv /\ PoolInv => DescriptorsSound
<1> SUFFICES ASSUME PmapInv, LookupInv, PoolInv PROVE DescriptorsSound
  OBVIOUS
<1>0. TypeInv /\ FrameInv /\ Nodes \subseteq BlockType /\ ListsAre(link, Nodes) /\ stack \in Seq(FrameType)
  BY DEF PmapInv, TypeInv, ListInv
<1>1. TypeOK
  <2>1. /\ DOMAIN link = Nodes \cup Heads
        /\ \A x \in DOMAIN link : link[x].next \in DOMAIN link /\ link[x].prev \in DOMAIN link
    BY <1>0, LinksTyped
  <2>2. refs \in Seq(BlockType)
    <3>1. refs \in Seq(Nodes)
      BY <1>0 DEF FrameInv
    <3> QED BY <1>0, <3>1
  <2>3. /\ tree \in [Nodes -> [state : PageState, refc : Nat]]
        /\ regions \in Seq(Region) /\ cur \in Nat /\ start \in Nat /\ consts \in Seq(Nat) /\ panicked \in BOOLEAN
    BY <1>0 DEF TypeInv
  <2>4. descr \in Nat /\ pools \subseteq BlockType
    BY DEF PoolInv, PoolSet
  <2> QED BY <1>0, <2>1, <2>2, <2>3, <2>4 DEF TypeOK, FrameType
<1>2. DescriptorsConserved /\ PoolsApart
  BY DEF PoolInv
<1>3. PoolsHeld
  <2>1. ASSUME ~AllocatingPool, refs = <<>>, NEW q \in pools PROVE Kept(q)
    <3>1. stack # <<>> => Top.why # "pool"
      <4>1. stack # <<>> => Top = stack[1] /\ 1 \in DOMAIN stack
        BY <1>0 DEF Top
      <4> QED BY <2>1, <4>1 DEF AllocatingPool
    <3> QED BY <2>1, <3>1 DEF PoolInv, OnTheWay, Carved
  <2>2. \A q \in pools : EndOf(q) <= BootMemSize
    BY DEF PoolInv, PoolSet
  <2> QED BY <2>1, <2>2 DEF PoolsHeld, Kept
<1>4. FramesAlive
  <2>1. \A i \in 1..Len(stack) : stack[i].node \in Nodes
    BY <1>0 DEF FrameInv, FramesOk
  <2>2. \A i \in 1..Len(stack) : Within(Block(stack[i].class, stack[i].addr), stack[i].node)
    BY DEF LookupInv, FrameAt, Sought
  <2> QED BY <1>0, <2>1, <2>2 DEF FramesAlive
<1> QED BY <1>1, <1>2, <1>3, <1>4 DEF DescriptorsSound

\* No descriptor is leaked or used twice, through every split, merge and nested call: the
\* nodes and the descriptors left add up, the pools share no memory, a pool that
\* alloc_page() has handed out stays a referenced node of the tree, and an outer
\* page_lookup() resumes at a node that is still there and covers its address.  As for
\* FreeListsKept, list_del() must not be applied to an element behind the first.
THEOREM DescriptorsKept == Spec /\ []OnlyFirstTaken => []DescriptorsSound
<1> DEFINE Inv == PmapInv /\ LookupInv /\ PoolInv
<1>1. Init => Inv
  BY PmapInitInv, LookupInit, PoolInit
<1>2. Inv /\ OnlyFirstTaken /\ [Next]_vars => Inv'
  BY PmapStep, LookupStep, PoolStep
<1>3. Inv => DescriptorsSound
  BY PoolInvSound
<1> QED BY <1>1, <1>2, <1>3, PTL DEF Spec

-----------------------------------------------------------------------------
(* What the tree says of the memory.  A node says what the regions         *)
(* attached so far say of each of its addresses, reserved memory winning.  *)
(* For the node that attach_region() retypes to be reserved if any address *)
(* of it is, two facts about the way there are needed: the blocks that a   *)
(* region is cut into are the largest ones inside of it, and a node inside *)
(* of a reserved region is reserved as a whole until a part of it is       *)
(* attached as allocatable.                                                *)

\* A region that has been attached so far says that the address is of the type.
Said(a, t) ==
  \E i \in 1..Len(regions) :
    /\ regions[i].type = t /\ Low(i) <= a /\ a < High(i)
    /\ i < cur \/ (i = cur /\ a < start)

\* attach_region() has not come to the end of a region and is between two blocks.
StartInv ==
  /\ cur <= Len(regions) + 1
  /\ cur <= Len(regions) =>
       /\ Low(cur) <= start /\ (start <= High(cur) \/ start = Low(cur))
       /\ \A b \in Blocks : InRegion(b, cur) => ~(b.addr < start /\ start < EndOf(b))

\* A lookup for attach_region() is for the next block of the region, and what the lookup
\* has passed is not of the other type.
CallOk(f) ==
  /\ f.why = "attach" => /\ cur <= Len(regions) /\ f.type = regions[cur].type /\ f.addr = start
                         /\ Sought(f) \in Chunks(cur)
  /\ f.why = "const" => cur > Len(regions)
PathOk(f) ==
  f.type # PARTIAL =>
    \A m \in Nodes : Within(f.node, m) /\ m # f.node => tree[m].state \in {PARTIAL, f.type}
CallsOk == \A i \in 1..Len(stack) : CallOk(stack[i]) /\ PathOk(stack[i])

NodeTrue(n) ==
  \A a \in Nat : Holds(n, a) =>
    /\ tree[n].state = RESERVED => Said(a, RESERVED)
    /\ tree[n].state = ALLOCATABLE => Said(a, ALLOCATABLE) /\ ~Said(a, RESERVED)
    /\ tree[n].state = PARTIAL /\ Kids(n) = {} /\ ~panicked /\ ~Clearing(n) =>
         ~Said(a, RESERVED) /\ ~Said(a, ALLOCATABLE)

Uniform == \A n \in Nodes : tree[n].state # PARTIAL => \A k \in Kids(n) : tree[k].state = tree[n].state

\* An allocatable block inside of the node is attached.
SplitBy(f, n) == f.type = ALLOCATABLE /\ Within(Sought(f), n) /\ n # Sought(f)
Broken(n) ==
  \/ \E a \in Nat : Holds(n, a) /\ Said(a, ALLOCATABLE)
  \/ \E k \in 1..Len(stack) : SplitBy(stack[k], n)
InDone(n, i) == InRegion(n, i) /\ (i < cur \/ (i = cur /\ EndOf(n) <= start))
ReservedWhole ==
  \A i \in 1..Len(regions) : \A n \in Nodes :
    regions[i].type = RESERVED /\ InDone(n, i) => tree[n].state = RESERVED \/ Broken(n)

MapInv ==
  EntriesFit /\ StartInv /\ CallsOk /\ (\A n \in Nodes : NodeTrue(n)) /\ Uniform /\ ReservedWhole

LEMMA RegionIs ==
  ASSUME TypeInv, RegionInv
  PROVE  /\ Len(regions) \in Nat /\ DOMAIN regions = 1..Len(regions)
         /\ \A i \in 1..Len(regions) :
              /\ regions[i].type \in {ALLOCATABLE, RESERVED} /\ Low(i) \in Nat /\ High(i) \in Nat
              /\ High(i) <= ClassSize[MaxClass]
<1>1. regions \in Seq(Region)
  BY DEF TypeInv
<1>2. MaxClass \in Class /\ ClassSize[MaxClass] \in Nat
  <2>1. MaxClass \in Class
    BY PmapClasses DEF Class
  <2> QED BY <2>1, PmapClasses
<1>3. ASSUME NEW i \in 1..Len(regions)
      PROVE  /\ regions[i].type \in {ALLOCATABLE, RESERVED} /\ Low(i) \in Nat /\ High(i) \in Nat
             /\ High(i) <= ClassSize[MaxClass]
  <2>1. regions[i] \in Region
    BY <1>1
  <2>2. regions[i].start \in Nat /\ regions[i].end \in Nat /\ regions[i].type \in {ALLOCATABLE, RESERVED}
    BY <2>1 DEF Region
  <2>3. Low(i) \in Nat /\ High(i) \in Nat /\ High(i) < regions[i].end + ClassSize[0] /\ ClassSize[0] \in Nat
    BY <2>2, RoundingIs DEF Low, High
  <2>4. regions[i].end + ClassSize[0] <= ClassSize[MaxClass]
    BY DEF RegionInv
  <2> QED BY <1>2, <2>2, <2>3, <2>4
<1> QED BY <1>1, <1>3

\* The blocks are the aligned blocks inside of the root.
LEMMA BlocksAre ==
  /\ \A b \in Blocks : b \in BlockType /\ Aligned(b)
  /\ \A b \in BlockType : Aligned(b) /\ EndOf(b) <= ClassSize[MaxClass] => b \in Blocks
<1>1. MaxClass \in Class /\ ClassSize[MaxClass] \in Nat
  <2>1. MaxClass \in Class
    BY PmapClasses DEF Class
  <2> QED BY <2>1, PmapClasses
<1>2. \A b \in Blocks : b \in BlockType /\ Aligned(b)
  BY <1>1 DEF Blocks, BlockType, Aligned
<1>3. ASSUME NEW b \in BlockType, Aligned(b), EndOf(b) <= ClassSize[MaxClass]
      PROVE  b \in Blocks
  <2>1. b.class \in Class /\ b.addr \in Nat /\ b.addr < EndOf(b) /\ EndOf(b) \in Nat
    BY <1>3, BlockEnd
  <2>2. b.addr \in 0..(ClassSize[MaxClass] - 1)
    BY <1>1, <1>3, <2>1
  <2>3. b \in [class : Class, addr : 0..(ClassSize[MaxClass] - 1)]
    BY <2>1, <2>2 DEF BlockType
  <2> QED BY <1>3, <2>3 DEF Blocks, Aligned
<1> QED BY <1>2, <1>3

\* Of two aligned blocks that share an address one is inside the other.
LEMMA EitherInside ==
  ASSUME NEW a \in BlockType, NEW b \in BlockType, Aligned(a), Aligned(b),
         NEW t \in Nat, Holds(a, t), Holds(b, t)
  PROVE  Within(a, b) \/ Within(b, a)
<1>1. a.class \in Nat /\ b.class \in Nat
  <2>1. a.class \in Class /\ b.class \in Class
    BY BlockEnd
  <2> QED BY <2>1, PmapClasses
<1>2. a.class <= b.class \/ b.class <= a.class
  BY <1>1
<1> QED BY <1>2, Nested DEF Holds

LEMMA WithinHolds ==
  ASSUME NEW a \in BlockType, NEW b \in BlockType, Within(a, b), NEW t \in Nat, Holds(a, t)
  PROVE  Holds(b, t)
<1>1. a.addr \in Nat /\ b.addr \in Nat /\ EndOf(a) \in Nat /\ EndOf(b) \in Nat
  BY BlockEnd
<1> QED BY <1>1 DEF Within, Holds

\* A lookup that has arrived is at the block it looks for.
LEMMA ArrivedAt ==
  ASSUME NEW f \in FrameType, FrameAt(f), f.node.class <= f.class
  PROVE  f.node = Sought(f)
<1>1. Sought(f) \in BlockType /\ f.node \in BlockType /\ Sought(f).class = f.class /\ Within(Sought(f), f.node)
  BY SoughtIs DEF FrameAt
<1>2. f.node.class \in Nat /\ Sought(f).class \in Nat
  <2>1. f.node.class \in Class /\ Sought(f).class \in Class
    BY <1>1, BlockEnd
  <2> QED BY <2>1, PmapClasses
<1>3. Sought(f) # f.node => Sought(f).class < f.node.class
  BY <1>1, Smaller
<1> QED BY <1>1, <1>2, <1>3

LEMMA FrameNodeInside ==
  ASSUME TypeInv, FrameInv, TreeInv, LookupInv, NEW i \in 1..Len(stack)
  PROVE  /\ stack[i] \in FrameType /\ FrameAt(stack[i]) /\ stack[i].node \in Nodes
         /\ Sought(stack[i]) \in BlockType /\ Aligned(Sought(stack[i]))
         /\ Within(Sought(stack[i]), stack[i].node) /\ stack[i].node \in BlockType /\ Aligned(stack[i].node)
<1>1. stack \in Seq(FrameType) /\ Nodes \subseteq BlockType /\ \A n \in Nodes : Aligned(n)
  BY DEF TypeInv, TreeInv
<1>2. stack[i] \in FrameType
  BY <1>1
<1>3. FrameAt(stack[i]) /\ stack[i].node \in Nodes
  BY DEF LookupInv, FrameInv, FramesOk
<1> QED BY <1>1, <1>2, <1>3, SoughtIs DEF FrameAt


-----------------------------------------------------------------------------
(* The steps that leave the states of the nodes and the regions alone.     *)

SameLookup(f, g) ==
  f.node = g.node /\ f.class = g.class /\ f.addr = g.addr /\ f.type = g.type /\ f.why = g.why
SameSearch(f, g) == f.class = g.class /\ f.addr = g.addr /\ f.type = g.type

\* The frames of the next state are frames of this one, but for those that are as they
\* should be, and no frame that changes types is lost.
FramesKept ==
  /\ \A i \in 1..Len(stack') :
       \/ \E k \in 1..Len(stack) : SameLookup(stack'[i], stack[k])
       \/ CallOk(stack[i])' /\ PathOk(stack[i])'
  /\ \A k \in 1..Len(stack) :
       stack[k].type = ALLOCATABLE => \E i \in 1..Len(stack') : SameSearch(stack'[i], stack[k])
RegionsStay == UNCHANGED <<regions, cur, start>>

LEMMA SameSaid ==
  ASSUME RegionsStay
  PROVE  /\ \A a, t : Said(a, t)' <=> Said(a, t)
         /\ EntriesFit' <=> EntriesFit
         /\ StartInv' <=> StartInv
         /\ \A n, i : InRegion(n, i)' <=> InRegion(n, i)
         /\ \A n, i : InDone(n, i)' <=> InDone(n, i)
         /\ \A i : Chunks(i)' = Chunks(i) /\ Low(i)' = Low(i) /\ High(i)' = High(i)
<1>1. regions' = regions /\ cur' = cur /\ start' = start
  BY DEF RegionsStay
<1>2. \A i : Low(i)' = Low(i) /\ High(i)' = High(i)
  BY <1>1 DEF Low, High
<1>3. \A n, i : InRegion(n, i)' <=> InRegion(n, i)
  BY <1>2 DEF InRegion
<1>4. \A i : Chunks(i)' = Chunks(i)
  BY <1>3 DEF Chunks
<1>5. \A a, t : Said(a, t)' <=> Said(a, t)
  BY <1>1, <1>2 DEF Said
<1>6. EntriesFit' <=> EntriesFit
  BY <1>1, <1>2, <1>3, <1>4 DEF EntriesFit
<1>7. StartInv' <=> StartInv
  BY <1>1, <1>2, <1>3 DEF StartInv
<1>8. \A n, i : InDone(n, i)' <=> InDone(n, i)
  BY <1>1, <1>3 DEF InDone
<1> QED BY <1>2, <1>3, <1>4, <1>5, <1>6, <1>7, <1>8

\* The frames of a step that keeps the regions and the states.
LEMMA CallsKept ==
  ASSUME RegionsStay, CallsOk, FramesKept,
         \A i \in 1..Len(stack) : \A m \in Nodes' :
           stack[i].type # PARTIAL /\ Within(stack[i].node, m) /\ m # stack[i].node
             => m \in Nodes /\ tree'[m].state = tree[m].state
  PROVE  CallsOk'
<1>1. regions' = regions /\ cur' = cur /\ start' = start /\ \A i : Chunks(i)' = Chunks(i)
  BY SameSaid DEF RegionsStay
<1>2. ASSUME NEW i \in 1..Len(stack'), NEW k \in 1..Len(stack), SameLookup(stack'[i], stack[k])
      PROVE  CallOk(stack[i])' /\ PathOk(stack[i])'
  <2>1. CallOk(stack[k]) /\ PathOk(stack[k])
    BY DEF CallsOk
  <2>2. CallOk(stack[i])'
    BY <1>1, <1>2, <2>1 DEF CallOk, SameLookup, Sought
  <2>3. PathOk(stack[i])'
    BY <1>2, <2>1 DEF PathOk, SameLookup
  <2> QED BY <2>2, <2>3
<1>3. ASSUME NEW i \in 1..Len(stack') PROVE CallOk(stack[i])' /\ PathOk(stack[i])'
  BY <1>2 DEF FramesKept
<1> QED BY <1>3 DEF CallsOk

LEMMA BrokenKept ==
  ASSUME RegionsStay, FramesKept, NEW n, Broken(n)
  PROVE  Broken(n)'
<1>1. CASE \E a \in Nat : Holds(n, a) /\ Said(a, ALLOCATABLE)
  BY <1>1, SameSaid DEF Broken, Holds
<1>2. CASE \E k \in 1..Len(stack) : SplitBy(stack[k], n)
  <2>1. PICK k \in 1..Len(stack) : SplitBy(stack[k], n)
    BY <1>2
  <2>2. PICK i \in 1..Len(stack') : SameSearch(stack'[i], stack[k])
    BY <2>1 DEF FramesKept, SplitBy
  <2>3. SplitBy(stack'[i], n)
    BY <2>1, <2>2 DEF SplitBy, SameSearch, Sought
  <2> QED BY <2>3 DEF Broken, SplitBy, Within, EndOf, Sought
<1> QED BY <1>1, <1>2 DEF Broken

LEMMA MapQuiet ==
  ASSUME MapInv, Nodes' = Nodes, \A n \in Nodes : tree'[n].state = tree[n].state,
         RegionsStay, FramesKept, ~panicked' => ~panicked /\ ~Retyping
  PROVE  MapInv'
<1>1. EntriesFit' /\ StartInv'
  BY SameSaid DEF MapInv
<1>2. CallsOk'
  BY CallsKept DEF MapInv
<1>3. \A n : Kids(n)' = Kids(n)
  BY DEF Kids
<1>4. ASSUME NEW n \in Nodes' PROVE NodeTrue(n)'
  <2>1. NodeTrue(n)
    BY DEF MapInv
  <2>2. ~panicked' => ~panicked /\ ~Clearing(n)
    BY DEF Clearing
  <2> QED BY <1>3, <2>1, <2>2, SameSaid DEF NodeTrue, Holds
<1>5. Uniform'
  BY <1>3 DEF MapInv, Uniform, Kids
<1>6. ReservedWhole'
  <2> SUFFICES ASSUME NEW i \in 1..Len(regions'), NEW n \in Nodes', regions'[i].type = RESERVED, InDone(n, i)'
               PROVE  tree'[n].state = RESERVED \/ Broken(n)'
    BY DEF ReservedWhole
  <2>1. InDone(n, i) /\ regions' = regions
    BY SameSaid DEF RegionsStay
  <2>2. tree[n].state = RESERVED \/ Broken(n)
    BY <2>1 DEF MapInv, ReservedWhole
  <2> QED BY <2>2, BrokenKept
<1> QED BY <1>1, <1>2, <1>4, <1>5, <1>6 DEF MapInv


\* The same stack holds the same frames.
LEMMA SameStack == stack' = stack => FramesKept
BY DEF FramesKept, SameLookup, SameSearch

\* Taking off a frame that changes no type.
LEMMA PoppedFrames ==
  ASSUME stack \in Seq(FrameType), stack # <<>>, stack' = Tail(stack), stack[1].type # ALLOCATABLE
  PROVE  FramesKept
<1>1. /\ Len(stack) \in Nat /\ Len(stack) > 0 /\ Len(stack') = Len(stack) - 1
      /\ \A i \in 1..Len(stack') : i + 1 \in 1..Len(stack) /\ stack'[i] = stack[i + 1]
  OBVIOUS
<1>2. ASSUME NEW i \in 1..Len(stack') PROVE \E k \in 1..Len(stack) : SameLookup(stack'[i], stack[k])
  BY <1>1 DEF SameLookup
<1>3. ASSUME NEW k \in 1..Len(stack), stack[k].type = ALLOCATABLE
      PROVE  \E i \in 1..Len(stack') : SameSearch(stack'[i], stack[k])
  <2>1. k # 1
    BY <1>3
  <2>2. k - 1 \in 1..Len(stack') /\ (k - 1) + 1 = k
    BY <1>1, <2>1
  <2>3. stack'[k - 1] = stack[k]
    BY <1>1, <2>2
  <2> QED BY <2>2, <2>3 DEF SameSearch
<1> QED BY <1>2, <1>3 DEF FramesKept

\* A call from detect_memory().
LEMMA CalledFrame ==
  ASSUME stack = <<>>, NEW f, stack' = <<f>>, CallOk(f)', PathOk(f)'
  PROVE  FramesKept
<1>1. Len(stack) = 0 /\ Len(stack') = 1 /\ stack'[1] = f
  OBVIOUS
<1>2. \A i \in 1..Len(stack') : stack'[i] = f
  BY <1>1
<1>3. \A i \in 1..Len(stack') : CallOk(stack[i])' /\ PathOk(stack[i])'
  BY <1>2 DEF CallOk, PathOk, Sought, Within, EndOf
<1> QED BY <1>1, <1>3 DEF FramesKept

\* Nothing is above the root.
LEMMA AboveRoot ==
  ASSUME NEW m \in BlockType, Within(Root, m)
  PROVE  m = Root
<1>1. Root \in BlockType /\ Root.class = MaxClass /\ MaxClass \in Nat /\ MaxClass \in Class
  BY PmapClasses DEF Root, Block, BlockType, Class
<1>2. m.class \in Class
  BY BlockEnd
<1>3. m.class <= MaxClass /\ m.class \in Nat
  BY <1>1, <1>2 DEF Class
<1> QED BY <1>1, <1>3, Smaller

LEMMA MapPanic == ASSUME MapInv, Panic PROVE MapInv'
<1>1. Nodes' = Nodes /\ (\A n \in Nodes : tree'[n].state = tree[n].state) /\ RegionsStay /\ stack' = stack /\ panicked'
  BY DEF Panic, Nodes, RegionsStay
<1> QED BY <1>1, SameStack, MapQuiet

LEMMA MapStutter == ASSUME MapInv, UNCHANGED vars PROVE MapInv'
<1>1. /\ tree' = tree /\ regions' = regions /\ cur' = cur /\ start' = start
      /\ stack' = stack /\ refs' = refs /\ panicked' = panicked
  BY DEF vars
<1>2. RegionsStay /\ FramesKept /\ Nodes' = Nodes
  BY <1>1, SameStack DEF RegionsStay, Nodes
<1>3. EntriesFit' /\ StartInv'
  BY <1>2, SameSaid DEF MapInv
<1>4. CallsOk'
  <2>1. CallsOk
    BY DEF MapInv
  <2> QED BY <1>1, <1>2, <2>1, CallsKept
<1>5. \A n : (Kids(n)' = Kids(n)) /\ (Clearing(n)' <=> Clearing(n))
  <2>1. \A n : Kids(n)' = Kids(n)
    BY <1>2 DEF Kids
  <2>2. Top' = Top
    BY <1>1 DEF Top
  <2>3. Retyping' <=> Retyping
    BY <1>1, <2>2 DEF Retyping, Arrived, InLookup
  <2>4. \A n : Clearing(n)' <=> Clearing(n)
    BY <2>2, <2>3 DEF Clearing, Within, EndOf
  <2> QED BY <2>1, <2>4
<1>6. ASSUME NEW n \in Nodes' PROVE NodeTrue(n)'
  <2>1. NodeTrue(n)
    BY <1>2 DEF MapInv
  <2> QED BY <1>1, <1>2, <1>5, <2>1, SameSaid DEF NodeTrue, Holds
<1>7. Uniform'
  BY <1>1, <1>2, <1>5 DEF MapInv, Uniform
<1>8. ReservedWhole'
  <2> SUFFICES ASSUME NEW i \in 1..Len(regions'), NEW n \in Nodes', regions'[i].type = RESERVED, InDone(n, i)'
               PROVE  tree'[n].state = RESERVED \/ Broken(n)'
    BY DEF ReservedWhole
  <2>1. InDone(n, i) /\ n \in Nodes
    BY <1>2, SameSaid
  <2>2. tree[n].state = RESERVED \/ Broken(n)
    BY <1>1, <2>1 DEF MapInv, ReservedWhole
  <2> QED BY <1>1, <1>2, <2>2, BrokenKept
<1> QED BY <1>3, <1>4, <1>6, <1>7, <1>8 DEF MapInv

LEMMA MapPageRef == ASSUME PmapInv, MapInv, PageRef PROVE MapInv'
<1> PICK n : n = Head(refs)
  OBVIOUS
<1>1. /\ ~panicked /\ refs # <<>> /\ tree' = [tree EXCEPT ![n].refc = @ + 1] /\ stack' = stack
      /\ UNCHANGED <<regions, cur, start, panicked>>
  BY DEF PageRef
<1>2. n \in Nodes /\ tree \in [Nodes -> [state : PageState, refc : Nat]]
  BY <1>1 DEF PmapInv, TypeInv, FrameInv
<1>3. Nodes' = Nodes /\ \A m \in Nodes : tree'[m].state = tree[m].state
  <2> DEFINE r == [tree[n] EXCEPT !.refc = @ + 1]
  <2>1. tree[n] \in [state : PageState, refc : Nat]
    BY <1>2
  <2>2. r.state = tree[n].state
    BY <2>1
  <2>3. tree' = [tree EXCEPT ![n] = r]
    BY <1>1
  <2> HIDE DEF r
  <2>4. DOMAIN tree' = DOMAIN tree /\ \A m \in Nodes : tree'[m].state = tree[m].state
    BY <1>2, <2>2, <2>3
  <2> QED BY <2>4 DEF Nodes
<1>4. ~Retyping
  BY <1>1 DEF Retyping, Arrived, InLookup
<1> QED BY <1>1, <1>3, <1>4, SameStack, MapQuiet DEF RegionsStay

LEMMA MapAllocPool == ASSUME PmapInv, MapInv, AllocPool PROVE MapInv'
<1>1. /\ stack # <<>> /\ Top.why = "pool" /\ stack' = Tail(stack) /\ ~panicked
      /\ UNCHANGED <<tree, regions, cur, start, panicked>>
  BY DEF AllocPool, Arrived, InLookup
<1>2. Top.type = PARTIAL /\ Top = stack[1] /\ stack \in Seq(FrameType)
  BY <1>1, TopIs DEF PmapInv, TypeInv
<1>3. FramesKept
  BY <1>1, <1>2, PoppedFrames DEF PARTIAL, ALLOCATABLE
<1>4. ~Retyping
  BY <1>2 DEF Retyping
<1>5. Nodes' = Nodes /\ (\A n \in Nodes : tree'[n].state = tree[n].state) /\ RegionsStay
  BY <1>1 DEF Nodes, RegionsStay
<1> QED BY <1>1, <1>3, <1>4, <1>5, MapQuiet

LEMMA MapRefConstPage == ASSUME PmapInv, MapInv, RefConstPage PROVE MapInv'
<1>1. /\ stack # <<>> /\ Top.why = "const" /\ stack' = Tail(stack) /\ ~panicked
      /\ UNCHANGED <<tree, regions, cur, start, panicked>>
  BY DEF RefConstPage, Arrived, InLookup
<1>2. Top.type = PARTIAL /\ Top = stack[1] /\ stack \in Seq(FrameType)
  BY <1>1, TopIs DEF PmapInv, TypeInv
<1>3. FramesKept
  BY <1>1, <1>2, PoppedFrames DEF PARTIAL, ALLOCATABLE
<1>4. ~Retyping
  BY <1>2 DEF Retyping
<1>5. Nodes' = Nodes /\ (\A n \in Nodes : tree'[n].state = tree[n].state) /\ RegionsStay
  BY <1>1 DEF Nodes, RegionsStay
<1> QED BY <1>1, <1>3, <1>4, <1>5, MapQuiet

LEMMA MapLookupConstPage == ASSUME PmapInv, MapInv, LookupConstPage PROVE MapInv'
<1> PICK f : f = Frame(Root, ConstClass, Head(consts), PARTIAL, "const")
  OBVIOUS
<1>1. /\ Idle /\ cur > Len(regions) /\ UNCHANGED <<tree, regions, cur, start, panicked>>
      /\ stack' = <<f>>
  BY DEF LookupConstPage, Attached
<1>2. f.why = "const" /\ f.type = PARTIAL
  BY DEF Frame
<1>3. CallOk(f)' /\ PathOk(f)'
  BY <1>1, <1>2 DEF CallOk, PathOk
<1>4. ~panicked /\ stack = <<>> /\ ~Retyping
  BY <1>1 DEF Idle, Retyping, Arrived, InLookup
<1>5. FramesKept
  BY <1>1, <1>3, <1>4, CalledFrame
<1>6. Nodes' = Nodes /\ (\A n \in Nodes : tree'[n].state = tree[n].state) /\ RegionsStay
  BY <1>1 DEF Nodes, RegionsStay
<1> QED BY <1>4, <1>5, <1>6, MapQuiet

LEMMA MapAttachRegion == ASSUME PmapInv, MapInv, AttachRegion PROVE MapInv'
<1>1. /\ Idle /\ cur <= Len(regions) /\ start < High(cur)
      /\ UNCHANGED <<tree, regions, cur, start, panicked>>
  BY DEF AttachRegion, Attaching, RegionEnd
<1>2. PICK c \in Class : /\ Attachable(c) /\ \A d \in Class : Attachable(d) => d <= c
                         /\ stack' = <<Frame(Root, c, start, regions[cur].type, "attach")>>
  BY DEF AttachRegion
<1> PICK f : f = Frame(Root, c, start, regions[cur].type, "attach")
  OBVIOUS
<1>3. f.node = Root /\ f.type = regions[cur].type /\ f.addr = start /\ f.why = "attach" /\ Sought(f) = Block(c, start)
  BY DEF Frame, Sought
<1>4. cur \in 1..Len(regions) /\ start \in Nat /\ Low(cur) \in Nat /\ High(cur) \in Nat /\ High(cur) <= ClassSize[MaxClass]
  <2>1. cur \in 1..Len(regions) /\ start \in Nat
    BY <1>1, RegionIs DEF PmapInv, TypeInv
  <2> QED BY <2>1, RegionIs DEF PmapInv
<1>5. /\ Block(c, start) \in BlockType /\ Aligned(Block(c, start)) /\ EndOf(Block(c, start)) = start + ClassSize[c]
      /\ start % ClassSize[c] = 0 /\ start + ClassSize[c] <= High(cur) /\ ClassSize[c] \in Nat
  <2>1. start % ClassSize[c] = 0 /\ start + ClassSize[c] <= High(cur) /\ ClassSize[c] \in Nat
    BY <1>2, PmapClasses DEF Attachable, RegionEnd
  <2> QED BY <1>4, <2>1 DEF Block, BlockType, Aligned, EndOf
<1> PICK b : b = Block(c, start)
  OBVIOUS
<1>6. b \in Blocks /\ InRegion(b, cur) /\ b.addr = start /\ b.class = c
  <2>1. EndOf(b) <= ClassSize[MaxClass]
    <3>1. MaxClass \in Class
      BY PmapClasses DEF Class
    <3>2. ClassSize[MaxClass] \in Nat
      BY <3>1, PmapClasses
    <3> QED BY <1>4, <1>5, <3>2
  <2>2. b \in Blocks
    BY <1>5, <2>1, BlocksAre
  <2>3. Low(cur) <= start
    BY <1>1 DEF MapInv, StartInv
  <2> QED BY <1>5, <2>2, <2>3 DEF InRegion, Block
<1>7. ASSUME NEW m \in Blocks, InRegion(m, cur), Within(b, m) PROVE m = b
  <2>1. m \in BlockType /\ Aligned(m) /\ m.addr \in Nat /\ EndOf(m) \in Nat /\ m.class \in Class /\ EndOf(m) = m.addr + ClassSize[m.class]
    BY <1>7, BlocksAre, BlockEnd
  <2>2. m.addr <= start /\ start < EndOf(m)
    <3>1. b \in BlockType /\ b.addr < EndOf(b) /\ EndOf(b) \in Nat
      BY <1>5, BlockEnd
    <3> QED BY <1>4, <1>6, <1>7, <2>1, <3>1 DEF Within
  <2>3. m.addr = start
    <3>1. ~(m.addr < start /\ start < EndOf(m))
      BY <1>1, <1>7 DEF MapInv, StartInv
    <3> QED BY <1>4, <2>1, <2>2, <3>1
  <2>4. Attachable(m.class)
    BY <1>7, <2>1, <2>3 DEF Attachable, RegionEnd, InRegion, Aligned
  <2>5. m.class <= c
    BY <1>2, <2>1, <2>4
  <2>6. m # b => c < m.class
    BY <1>5, <1>6, <1>7, <2>1, Smaller
  <2>7. c \in Nat /\ m.class \in Nat
    BY <2>1, PmapClasses
  <2> QED BY <2>5, <2>6, <2>7
<1>8. CallOk(f)'
  <2>1. Sought(f) \in Chunks(cur)
    BY <1>3, <1>6, <1>7 DEF Chunks
  <2>2. Chunks(cur)' = Chunks(cur)
    BY <1>1, SameSaid DEF RegionsStay
  <2> QED BY <1>1, <1>3, <2>1, <2>2 DEF CallOk, Sought
<1>9. PathOk(f)'
  <2>1. Nodes' = Nodes /\ Nodes \subseteq BlockType
    BY <1>1 DEF PmapInv, TypeInv, Nodes
  <2> QED BY <1>3, <2>1, AboveRoot DEF PathOk
<1>10. ~panicked /\ stack = <<>> /\ ~Retyping
  BY <1>1 DEF Idle, Retyping, Arrived, InLookup
<1>11. FramesKept
  BY <1>2, <1>8, <1>9, <1>10, CalledFrame
<1>12. Nodes' = Nodes /\ (\A n \in Nodes : tree'[n].state = tree[n].state) /\ RegionsStay
  BY <1>1 DEF Nodes, RegionsStay
<1> QED BY <1>10, <1>11, <1>12, MapQuiet

LEMMA MapEnsureFreeDesc == ASSUME PmapInv, MapInv, EnsureFreeDesc PROVE MapInv'
<1>1. Descending /\ ~panicked /\ stack # <<>> /\ UNCHANGED <<tree, regions, cur, start, panicked>>
  BY DEF EnsureFreeDesc, Descending, InLookup
<1>2. PICK peer \in FindPeer(PoolClass) :
        stack' = <<Frame(peer, PoolClass, peer.addr, PARTIAL, "pool"), [Top EXCEPT !.pooled = TRUE]>> \o Tail(stack)
  BY DEF EnsureFreeDesc
<1> PICK f : f = Frame(peer, PoolClass, peer.addr, PARTIAL, "pool")
  OBVIOUS
<1> PICK g : g = [Top EXCEPT !.pooled = TRUE]
  OBVIOUS
<1>3. f.why = "pool" /\ f.type = PARTIAL
  BY DEF Frame
<1>4. stack \in Seq(FrameType) /\ Top \in FrameType /\ Top = stack[1] /\ Len(stack) \in Nat
  BY <1>1, TopIs DEF PmapInv, TypeInv
<1>5. SameLookup(g, stack[1])
  BY <1>4 DEF SameLookup, FrameType
<1>6. /\ Len(stack') = Len(stack) + 1 /\ stack'[1] = f /\ stack'[2] = g
      /\ \A i \in 1..Len(stack') : i # 1 /\ i # 2 => i - 1 \in 1..Len(stack) /\ stack'[i] = stack[i - 1]
  <2>1. stack' = <<f, g>> \o Tail(stack) /\ Tail(stack) \in Seq(FrameType) /\ Len(Tail(stack)) = Len(stack) - 1
    BY <1>1, <1>2, <1>4
  <2>2. Len(<<f, g>>) = 2 /\ <<f, g>>[1] = f /\ <<f, g>>[2] = g
    OBVIOUS
  <2>3. Len(stack') = 2 + (Len(stack) - 1)
    BY <2>1, <2>2, <1>4
  <2>4. \A i \in 1..Len(Tail(stack)) : Tail(stack)[i] = stack[i + 1]
    BY <1>1, <1>4
  <2>5. \A i \in 1..Len(stack') : stack'[i] = IF i <= 2 THEN <<f, g>>[i] ELSE Tail(stack)[i - 2]
    BY <2>1, <2>2, <1>4
  <2>6. Len(stack) >= 1
    BY <1>1, <1>4
  <2> QED BY <1>4, <2>1, <2>2, <2>3, <2>4, <2>5, <2>6
<1>7. FramesKept
  <2>1. CallOk(f)' /\ PathOk(f)'
    BY <1>3 DEF CallOk, PathOk
  <2>2. ASSUME NEW i \in 1..Len(stack')
        PROVE  \/ \E k \in 1..Len(stack) : SameLookup(stack'[i], stack[k])
               \/ CallOk(stack[i])' /\ PathOk(stack[i])'
    <3>1. CASE i = 1
      <4>1. stack'[i] = f
        BY <1>6, <3>1
      <4> QED BY <2>1, <4>1 DEF CallOk, PathOk, Sought, Within, EndOf
    <3>2. CASE i = 2
      <4>1. 1 \in 1..Len(stack)
        BY <1>1, <1>4
      <4> QED BY <1>5, <1>6, <3>2, <4>1
    <3>3. CASE i # 1 /\ i # 2
      BY <1>6, <3>3 DEF SameLookup
    <3> QED BY <3>1, <3>2, <3>3
  <2>3. ASSUME NEW k \in 1..Len(stack) PROVE \E i \in 1..Len(stack') : SameSearch(stack'[i], stack[k])
    <3>1. CASE k = 1
      <4>1. 2 \in 1..Len(stack')
        BY <1>4, <1>6, <2>3
      <4> QED BY <1>5, <1>6, <3>1, <4>1 DEF SameLookup, SameSearch
    <3>2. CASE k # 1
      <4>1. k + 1 \in 1..Len(stack') /\ k + 1 # 1 /\ k + 1 # 2 /\ (k + 1) - 1 = k
        BY <1>4, <1>6, <2>3, <3>2
      <4>2. stack'[k + 1] = stack[k]
        BY <1>6, <4>1
      <4> QED BY <4>1, <4>2 DEF SameSearch
    <3> QED BY <3>1, <3>2
  <2> QED BY <2>2, <2>3 DEF FramesKept
<1>8. ~Retyping
  BY <1>1, NotRetyping DEF PmapInv
<1>9. Nodes' = Nodes /\ (\A n \in Nodes : tree'[n].state = tree[n].state) /\ RegionsStay
  BY <1>1 DEF Nodes, RegionsStay
<1> QED BY <1>1, <1>7, <1>8, <1>9, MapQuiet

LEMMA MapNextRegion == ASSUME PmapInv, MapInv, NextRegion PROVE MapInv'
<1>1. /\ Idle /\ cur <= Len(regions) /\ start >= High(cur) /\ cur' = cur + 1
      /\ start' = IF cur = Len(regions) THEN start ELSE Low(cur + 1)
      /\ tree' = tree /\ regions' = regions /\ panicked' = panicked /\ stack' = stack /\ refs' = refs
  BY DEF NextRegion, Attaching, RegionEnd
<1>2. /\ cur \in Nat /\ cur >= 1 /\ start \in Nat /\ Len(regions) \in Nat
      /\ \A i \in 1..Len(regions) : Low(i) \in Nat /\ High(i) \in Nat
  BY RegionIs DEF PmapInv, TypeInv
<1>3. (\A i : Low(i)' = Low(i) /\ High(i)' = High(i)) /\ Len(regions') = Len(regions)
  BY <1>1 DEF Low, High
<1>4. \A n, i : InRegion(n, i)' <=> InRegion(n, i)
  BY <1>3 DEF InRegion
<1>5. EntriesFit'
  <2>1. \A i : Chunks(i)' = Chunks(i)
    BY <1>4 DEF Chunks
  <2> QED BY <1>1, <1>3, <1>4, <2>1 DEF MapInv, EntriesFit
<1>6. ~panicked /\ stack = <<>> /\ ~Retyping /\ ~Retyping'
  BY <1>1 DEF Idle, Retyping, Arrived, InLookup
<1>7. StartInv'
  <2>1. cur + 1 <= Len(regions) + 1
    BY <1>1, <1>2
  <2>2. ASSUME cur + 1 <= Len(regions)
        PROVE  /\ start' = Low(cur + 1) /\ \A b \in Blocks : InRegion(b, cur + 1) => ~(b.addr < start')
    <3>1. start' = Low(cur + 1) /\ Low(cur + 1) \in Nat
      BY <1>1, <1>2, <2>2
    <3>2. \A b \in Blocks : b.addr \in Nat
      BY BlocksAre, BlockEnd
    <3> QED BY <3>1, <3>2 DEF InRegion
  <2>3. cur + 1 <= Len(regions) => Low(cur + 1) <= Low(cur + 1)
    BY <1>2
  <2> QED BY <1>1, <1>3, <1>4, <2>1, <2>2, <2>3 DEF StartInv
<1>8. CallsOk'
  <2>1. Len(stack') = 0
    BY <1>1, <1>6
  <2> QED BY <2>1 DEF CallsOk
<1>9. \A a \in Nat : \A t : Said(a, t)' <=> Said(a, t)
  <2> SUFFICES ASSUME NEW a \in Nat, NEW i \in 1..Len(regions), Low(i) <= a, a < High(i)
               PROVE  (i < cur' \/ (i = cur' /\ a < start')) <=> (i < cur \/ (i = cur /\ a < start))
    BY <1>1, <1>3 DEF Said
  <2>1. CASE i < cur
    BY <1>1, <1>2, <2>1
  <2>2. CASE i = cur
    <3>1. a < start
      BY <1>1, <1>2, <2>2
    <3> QED BY <1>1, <1>2, <2>2, <3>1
  <2>3. CASE i > cur
    <3>1. i = cur' => start' = Low(i)
      BY <1>1, <1>2, <2>3
    <3> QED BY <1>1, <1>2, <2>3, <3>1
  <2> QED BY <1>2, <2>1, <2>2, <2>3
<1>10. Nodes' = Nodes /\ \A n : Kids(n)' = Kids(n)
  BY <1>1 DEF Nodes, Kids
<1>11. ASSUME NEW n \in Nodes' PROVE NodeTrue(n)'
  <2>1. NodeTrue(n) /\ ~Clearing(n) /\ ~Clearing(n)'
    BY <1>6, <1>10 DEF MapInv, Clearing
  <2> QED BY <1>1, <1>9, <1>10, <2>1 DEF NodeTrue, Holds
<1>12. Uniform'
  BY <1>1, <1>10 DEF MapInv, Uniform
<1>13. ReservedWhole'
  <2> SUFFICES ASSUME NEW i \in 1..Len(regions), NEW n \in Nodes, regions[i].type = RESERVED, InDone(n, i)'
               PROVE  tree[n].state = RESERVED \/ Broken(n)'
    BY <1>1, <1>10 DEF ReservedWhole
  <2>1. n.addr \in Nat /\ EndOf(n) \in Nat /\ n.addr < EndOf(n)
    BY BlockEnd DEF PmapInv, TypeInv
  <2>2. InRegion(n, i) /\ (i < cur + 1 \/ (i = cur + 1 /\ EndOf(n) <= start'))
    BY <1>1, <1>4 DEF InDone, EndOf
  <2>3. InDone(n, i)
    <3>1. CASE i < cur
      BY <2>2, <3>1 DEF InDone
    <3>2. CASE i = cur
      <4>1. EndOf(n) <= start
        BY <1>1, <1>2, <2>1, <2>2, <3>2 DEF InRegion
      <4> QED BY <2>2, <3>2, <4>1 DEF InDone
    <3>3. CASE i > cur
      <4>1. i = cur + 1 /\ start' = Low(i) /\ Low(i) \in Nat
        BY <1>1, <1>2, <2>2, <3>3
      <4> QED BY <2>1, <2>2, <1>2, <4>1 DEF InRegion
    <3> QED BY <1>2, <3>1, <3>2, <3>3
  <2>4. tree[n].state = RESERVED \/ Broken(n)
    BY <2>3 DEF MapInv, ReservedWhole
  <2>5. Broken(n) => Broken(n)'
    BY <1>1, <1>9 DEF Broken, Holds, SplitBy, Within, EndOf, Sought
  <2> QED BY <2>4, <2>5
<1> QED BY <1>5, <1>7, <1>8, <1>11, <1>12, <1>13 DEF MapInv

LEMMA MapFreeDescRec == ASSUME PmapInv, MapInv, FreeDescRec PROVE MapInv'
<1> PICK n : n = Top.node
  OBVIOUS
<1> PICK m : m = NextFreed(n)
  OBVIOUS
<1>1. /\ Retyping /\ Below(n) # {} /\ tree' = [x \in Nodes \ {m} |-> tree[x]]
      /\ regions' = regions /\ cur' = cur /\ start' = start /\ stack' = stack /\ refs' = refs /\ panicked' = panicked
  BY DEF FreeDescRec
<1>2. TypeInv /\ TreeInv /\ FamilyInv /\ n \in Nodes /\ ~panicked
  BY <1>1, RetypingIs DEF PmapInv
<1>3. /\ m \in Nodes /\ m # n /\ Within(m, n)
      /\ \A x \in Nodes : x.class > 0 /\ x # n /\ m \in {Left(x), Right(x)} => x \in Below(n)
  BY <1>1, <1>2, FreedChild DEF TypeInv, TreeInv
<1>4. Nodes' = Nodes \ {m} /\ (\A x \in Nodes' : tree'[x] = tree[x]) /\ n \in Nodes'
  BY <1>1, <1>2, <1>3 DEF Nodes
<1>5. \A x : Kids(x)' = Kids(x) \ {m}
  BY <1>4 DEF Kids
<1>6. RegionsStay /\ FramesKept
  BY <1>1, SameStack DEF RegionsStay
<1>7. Top' = Top /\ Retyping'
  <2>1. Top' = Top
    BY <1>1 DEF Top
  <2>2. tree'[n].refc = tree[n].refc
    BY <1>4
  <2> QED BY <1>1, <2>1, <2>2 DEF Retyping, Arrived, InLookup
<1>8. EntriesFit' /\ StartInv'
  BY <1>6, SameSaid DEF MapInv
<1>9. CallsOk'
  <2>1. CallsOk
    BY DEF MapInv
  <2> QED BY <1>4, <1>6, <2>1, CallsKept
<1>10. ASSUME NEW x \in Nodes' PROVE NodeTrue(x)'
  <2>1. x \in Nodes /\ NodeTrue(x) /\ x.class \in Nat
    <3>1. x \in Nodes /\ NodeTrue(x) /\ x \in BlockType
      BY <1>2, <1>4 DEF MapInv, TypeInv
    <3> QED BY <3>1, BlockEnd, PmapClasses
  <2>2. Kids(x)' = {} /\ Kids(x) # {} => Clearing(x)'
    <3> SUFFICES ASSUME Kids(x)' = {}, Kids(x) # {} PROVE Clearing(x)'
      OBVIOUS
    <3>1. m \in Kids(x)
      BY <1>5
    <3>2. x.class > 0 /\ m \in {Left(x), Right(x)}
      BY <2>1, <3>1 DEF Kids
    <3>3. Within(x, n)
      <4>1. x # n => Within(x, n)
        BY <1>3, <2>1, <3>2 DEF Below
      <4>2. Within(n, n)
        <5>1. n.addr \in Nat /\ EndOf(n) \in Nat
          BY <1>2, BlockEnd DEF TypeInv
        <5> QED BY <5>1 DEF Within
      <4> QED BY <4>1, <4>2
    <3> QED BY <1>7, <3>3 DEF Clearing, Within, EndOf
  <2>3. Clearing(x) => Clearing(x)'
    BY <1>7 DEF Clearing, Within, EndOf
  <2> QED BY <1>1, <1>4, <1>6, <2>1, <2>2, <2>3, SameSaid DEF NodeTrue, Holds
<1>11. Uniform'
  BY <1>4, <1>5 DEF MapInv, Uniform, Kids
<1>12. ReservedWhole'
  <2> SUFFICES ASSUME NEW i \in 1..Len(regions'), NEW x \in Nodes', regions'[i].type = RESERVED, InDone(x, i)'
               PROVE  tree'[x].state = RESERVED \/ Broken(x)'
    BY DEF ReservedWhole
  <2>1. InDone(x, i) /\ x \in Nodes
    BY <1>4, <1>6, SameSaid
  <2>2. tree[x].state = RESERVED \/ Broken(x)
    BY <1>1, <2>1 DEF MapInv, ReservedWhole
  <2> QED BY <1>4, <1>6, <2>2, BrokenKept
<1> QED BY <1>8, <1>9, <1>10, <1>11, <1>12 DEF MapInv

\* A node that is split has no other node inside of it.
LEMMA SplitIsLeaf ==
  ASSUME PmapInv, Descend, NEW f, NEW n, NEW new, Splits(f, n, new), new # {}
  PROVE  Kids(n) = {} /\ \A k \in new, x \in Nodes : Within(x, k) => FALSE
<1>1. n \in Nodes /\ n \in BlockType /\ Nodes \subseteq BlockType /\ f \in FrameType /\ n.class > f.class /\ TypeInv /\ TreeInv
  BY TopIs DEF PmapInv, TypeInv, Descend, Descending, InLookup, Splits
<1>2. n.class > 0
  <2>1. f.class \in Class /\ n.class \in Class /\ n.class > f.class
    BY <1>1 DEF FrameType, BlockType
  <2>2. f.class \in Nat /\ n.class \in Nat
    BY <2>1, PmapClasses
  <2> QED BY <2>1, <2>2
<1>3. Whole
  BY NotRetyping, WholeIs DEF PmapInv, Descend, Descending, InLookup
<1>4. Kids(n) = {}
  BY <1>1, <1>2, <1>3 DEF Whole, Splits, Kids
<1>5. ASSUME NEW k \in new, NEW x \in Nodes, Within(x, k) PROVE FALSE
  <2>1. k \in {Left(n), Right(n)} /\ k \in BlockType /\ Within(k, n) /\ k.class = n.class - 1
    BY <1>1, <1>2, Halves, HalvesWithin DEF Splits
  <2>2. Within(x, n)
    BY <1>1, <1>5, <2>1, WithinTransitive
  <2>3. x = n
    BY <1>1, <1>3, <1>4, <2>2, InnerHasParent
  <2>4. k # n
    BY <1>1, <1>2, <2>1, Halves
  <2>5. n.class < k.class
    BY <1>1, <1>5, <2>1, <2>3, <2>4, Smaller
  <2> QED
    <3>1. n.class \in Nat
      BY <1>1, BlockEnd, PmapClasses
    <3> QED BY <2>1, <2>5, <3>1
<1> QED BY <1>4, <1>5

LEMMA MapDescend == ASSUME PmapInv, LookupInv, MapInv, Descend PROVE MapInv'
<1> PICK f : f = Top
  OBVIOUS
<1> PICK n : n = f.node
  OBVIOUS
<1> PICK new : new = {Left(n), Right(n)} \ Nodes
  OBVIOUS
<1> PICK t : t = f.type
  OBVIOUS
<1> PICK child : child = IF GoesRight(f) THEN Right(n) ELSE Left(n)
  OBVIOUS
<1> PICK g : g = [f EXCEPT !.node = child, !.pooled = FALSE]
  OBVIOUS
<1>1. /\ Descending /\ ~panicked /\ stack # <<>> /\ n.class > f.class
      /\ regions' = regions /\ cur' = cur /\ start' = start /\ panicked' = panicked
      /\ stack' = <<g>> \o Tail(stack)
  BY DEF Descend, Descending, InLookup
<1>2. /\ TypeInv /\ FrameInv /\ TreeInv /\ FamilyInv /\ f \in FrameType /\ f = stack[1] /\ n \in Nodes /\ n \in BlockType
      /\ 1 \in 1..Len(stack) /\ stack \in Seq(FrameType)
      /\ Len(stack) \in Nat /\ t \in PageState /\ (t # PARTIAL => Len(stack) = 1) /\ Nodes \subseteq BlockType
  BY <1>1, TopIs DEF PmapInv, TypeInv
<1>3. Splits(f, n, new) /\ TreeSplit(f, n, new)
  BY DescendTree DEF Splits
<1>4. ~Retyping /\ Whole
  BY <1>1, <1>2, NotRetyping, WholeIs
<1>5. /\ n.class > 0 /\ n.class \in Nat /\ child \in {Left(n), Right(n)} /\ child \in BlockType /\ child.class = n.class - 1
      /\ Within(child, n) /\ Aligned(n) /\ Aligned(child) /\ f.class \in Nat
  <2>1. n.class > 0 /\ n.class \in Nat /\ f.class \in Nat
    BY <1>1, <1>2, BlockEnd, PmapClasses DEF FrameType
  <2>2. Aligned(n)
    BY <1>2 DEF TreeInv
  <2> QED BY <1>2, <2>1, <2>2, Halves, HalvesWithin, HalvesAligned
<1>6. /\ g.node = child /\ g.class = f.class /\ g.addr = f.addr /\ g.type = t /\ g.why = f.why /\ g \in FrameType
  BY <1>2, <1>5 DEF FrameType
<1>7. \A i \in 1..Len(stack') : stack'[i] = (IF i = 1 THEN g ELSE stack[i]) /\ i \in 1..Len(stack)
  BY <1>1, <1>2, <1>6, RestOf
<1>8. Len(stack') = Len(stack)
  BY <1>1, <1>2
<1>9. RegionsStay
  BY <1>1 DEF RegionsStay
<1>10. \A k \in new : k \in {Left(n), Right(n)} /\ k \in BlockType /\ k \notin Nodes /\ Within(k, n) /\ k.class = n.class - 1 /\ k # n
  BY <1>2, <1>5, Halves, HalvesWithin
<1>11. Nodes' = Nodes \cup new /\ \A x \in Nodes : x # n => tree'[x] = tree[x] /\ Kids(x)' = Kids(x)
  BY <1>3 DEF TreeSplit
<1>12. tree'[n].state = SplitState(n, t) /\ Kids(n)' # {} /\ \A k \in new : tree'[k].state = tree[n].state /\ Kids(k)' = {}
  BY <1>3 DEF TreeSplit, NewChild
<1>13. CallOk(f) /\ PathOk(f)
  BY <1>2 DEF MapInv, CallsOk
<1>14. CallOk(g)' /\ PathOk(g)'
  <2>1. CallOk(g)'
    BY <1>1, <1>6, <1>9, <1>13, SameSaid DEF CallOk, Sought
  <2>2. ASSUME t # PARTIAL, NEW m \in Nodes', Within(child, m), m # child
        PROVE  tree'[m].state \in {PARTIAL, t}
    <3>1. m \in BlockType /\ m.class \in Nat
      <4>1. m \in BlockType
        BY <1>2, <1>10, <1>11
      <4> QED BY <4>1, BlockEnd, PmapClasses
    <3>2. child.class < m.class
      BY <1>5, <2>2, <3>1, Smaller
    <3>3. m \in Nodes
      BY <1>5, <1>10, <1>11, <3>1, <3>2
    <3>4. CASE m = n
      BY <1>12, <2>2, <3>4 DEF SplitState
    <3>5. CASE m # n
      <4>1. child.addr \in Nat /\ Holds(child, child.addr)
        BY <1>5, BlockEnd DEF Holds
      <4>2. Holds(m, child.addr) /\ Holds(n, child.addr)
        BY <1>2, <1>5, <2>2, <3>1, <4>1, WithinHolds
      <4>3. n.class <= m.class
        BY <1>5, <3>1, <3>2
      <4>4. Within(n, m)
        <5>1. Aligned(m)
          BY <1>2, <3>3 DEF TreeInv
        <5> QED BY <1>2, <1>5, <3>1, <4>1, <4>2, <4>3, <5>1, Nested DEF Holds
      <4> QED BY <1>11, <1>13, <2>2, <3>3, <3>5, <4>4 DEF PathOk
    <3> QED BY <3>4, <3>5
  <2>3. PathOk(g)'
    BY <1>6, <2>2 DEF PathOk, Within, EndOf
  <2> QED BY <2>1, <2>3
<1>15. FramesKept
  <2>1. ASSUME NEW i \in 1..Len(stack')
        PROVE  \/ \E k \in 1..Len(stack) : SameLookup(stack'[i], stack[k])
               \/ CallOk(stack[i])' /\ PathOk(stack[i])'
    <3>1. CASE i = 1
      <4>1. stack'[i] = g
        BY <1>7, <3>1
      <4> QED BY <1>14, <4>1 DEF CallOk, PathOk, Sought, Within, EndOf
    <3>2. CASE i # 1
      BY <1>7, <3>2 DEF SameLookup
    <3> QED BY <3>1, <3>2
  <2>2. ASSUME NEW k \in 1..Len(stack) PROVE \E i \in 1..Len(stack') : SameSearch(stack'[i], stack[k])
    <3>1. k \in 1..Len(stack')
      BY <1>8
    <3>2. SameSearch(IF k = 1 THEN g ELSE stack[k], stack[k])
      BY <1>2, <1>6 DEF SameSearch
    <3>3. stack'[k] = IF k = 1 THEN g ELSE stack[k]
      BY <1>7, <3>1
    <3> QED BY <3>1, <3>2, <3>3
  <2> QED BY <2>1, <2>2 DEF FramesKept
<1>16. EntriesFit' /\ StartInv'
  BY <1>9, SameSaid DEF MapInv
<1>17. CallsOk'
  <2>1. CallsOk
    BY DEF MapInv
  <2>2. ASSUME NEW i \in 1..Len(stack), NEW m \in Nodes', stack[i].type # PARTIAL, Within(stack[i].node, m), m # stack[i].node
        PROVE  m \in Nodes /\ tree'[m].state = tree[m].state
    <3>1. stack[i].node \in Nodes
      BY <1>2 DEF FrameInv, FramesOk
    <3>2. m \in Nodes
      BY <1>3, <1>11, <2>2, <3>1, SplitIsLeaf
    <3>3. m # n \/ t = PARTIAL
      BY <1>2, <2>2
    <3>4. m # n => tree'[m].state = tree[m].state
      BY <1>11, <3>2
    <3>5. t = PARTIAL => tree'[n].state = tree[n].state
      BY <1>12 DEF SplitState
    <3> QED BY <3>2, <3>3, <3>4, <3>5
  <2> QED BY <1>9, <1>15, <2>1, <2>2, CallsKept
<1>18. ASSUME NEW x \in Nodes' PROVE NodeTrue(x)'
  <2>1. NodeTrue(n) /\ ~Clearing(n)
    BY <1>2, <1>4 DEF MapInv, Clearing
  <2>2. CASE x \in new
    <3>1. \A a \in Nat : Holds(x, a) => Holds(n, a)
      BY <1>2, <1>10, <2>2, WithinHolds
    <3>2. Kids(n) = {}
      BY <1>3, <2>2, SplitIsLeaf
    <3> QED BY <1>1, <1>9, <1>12, <2>1, <2>2, <3>1, <3>2, SameSaid DEF NodeTrue, Holds
  <2>3. CASE x = n
    <3>1. tree'[n].state \in {tree[n].state, PARTIAL}
      BY <1>12 DEF SplitState
    <3>2. PARTIAL # RESERVED /\ PARTIAL # ALLOCATABLE
      BY DEF PARTIAL, RESERVED, ALLOCATABLE
    <3> QED BY <1>9, <1>12, <2>1, <2>3, <3>1, <3>2, SameSaid DEF NodeTrue, Holds
  <2>4. CASE x \in Nodes /\ x # n
    <3>1. NodeTrue(x) /\ ~Clearing(x)
      BY <1>4, <2>4 DEF MapInv, Clearing
    <3> QED BY <1>1, <1>9, <1>11, <2>4, <3>1, SameSaid DEF NodeTrue, Holds
  <2> QED BY <1>11, <2>2, <2>3, <2>4
<1>19. Uniform'
  <2> SUFFICES ASSUME NEW x \in Nodes', tree'[x].state # PARTIAL, NEW k \in Kids(x)'
               PROVE  tree'[k].state = tree'[x].state
    BY DEF Uniform
  <2>1. x \notin new
    BY <1>12
  <2>2. CASE x = n
    <3>1. tree'[n].state = tree[n].state
      BY <1>12, <2>2 DEF SplitState
    <3>2. CASE k \in new
      BY <1>12, <2>2, <3>1, <3>2
    <3>3. CASE k \notin new
      <4>1. k \in Nodes /\ k \in Kids(n)
        BY <1>11, <2>2, <3>3 DEF Kids
      <4>2. k # n
        BY <1>2, <1>5, <4>1, Halves DEF Kids
      <4>3. tree'[k] = tree[k] /\ tree[n].state # PARTIAL
        BY <1>11, <2>2, <3>1, <4>1, <4>2
      <4>4. tree[k].state = tree[n].state
        BY <1>2, <4>1, <4>3 DEF MapInv, Uniform
      <4> QED BY <2>2, <3>1, <4>3, <4>4
    <3> QED BY <3>2, <3>3
  <2>3. CASE x # n
    <3>1. x \in Nodes /\ tree'[x] = tree[x] /\ k \in Kids(x) /\ k \in Nodes
      <4>1. x \in Nodes
        BY <1>11, <2>1
      <4>2. tree'[x] = tree[x] /\ k \in Kids(x)
        BY <1>11, <2>3, <4>1
      <4> QED BY <4>1, <4>2 DEF Kids
    <3>2. tree[k].state = tree[x].state
      BY <3>1 DEF MapInv, Uniform
    <3>3. CASE k # n
      BY <1>11, <3>1, <3>2, <3>3
    <3>4. CASE k = n
      <4>1. Within(n, x) /\ x \in BlockType
        <5>1. x.class > 0 /\ x \in BlockType
          <6>1. x \in BlockType /\ x.class \in Nat
            BY <1>2, <3>1, BlockEnd, PmapClasses
          <6> QED BY <3>1, <6>1 DEF Kids
        <5> QED BY <3>1, <3>4, <5>1, HalvesWithin DEF Kids
      <4>2. t # PARTIAL => tree[n].state = t
        BY <1>13, <2>3, <3>1, <3>2, <3>4, <4>1 DEF PathOk
      <4>3. tree'[n].state = tree[n].state
        BY <1>12, <4>2 DEF SplitState
      <4> QED BY <3>1, <3>2, <3>4, <4>3
    <3> QED BY <3>3, <3>4
  <2> QED BY <2>2, <2>3
<1>20. ReservedWhole'
  <2> SUFFICES ASSUME NEW i \in 1..Len(regions'), NEW x \in Nodes', regions'[i].type = RESERVED, InDone(x, i)'
               PROVE  tree'[x].state = RESERVED \/ Broken(x)'
    BY DEF ReservedWhole
  <2>1. InDone(x, i) /\ i \in 1..Len(regions) /\ regions[i].type = RESERVED
    BY <1>1, <1>9, SameSaid
  <2>2. CASE x \in Nodes
    <3>1. tree[x].state = RESERVED \/ Broken(x)
      BY <2>1, <2>2 DEF MapInv, ReservedWhole
    <3>2. CASE Broken(x)
      BY <1>9, <1>15, <3>2, BrokenKept
    <3>3. CASE x # n /\ tree[x].state = RESERVED
      BY <1>11, <2>2, <3>3
    <3>4. CASE x = n /\ tree[n].state = RESERVED
      <4>1. CASE t = ALLOCATABLE
        <5>1. Sought(f) \in BlockType /\ Sought(f).class = f.class /\ Within(Sought(f), n)
          BY <1>2, SoughtIs DEF LookupInv, FrameAt
        <5>2. Sought(f) # n
          BY <1>1, <1>5, <5>1
        <5>3. SplitBy(f, n)
          BY <4>1, <5>1, <5>2 DEF SplitBy
        <5>4. Broken(n)
          BY <1>2, <5>3 DEF Broken
        <5> QED BY <1>9, <1>15, <3>4, <5>4, BrokenKept
      <4>2. CASE t # ALLOCATABLE
        <5>1. tree'[n].state = RESERVED
          BY <1>2, <1>12, <3>4, <4>2 DEF SplitState, PageState
        <5> QED BY <3>4, <5>1
      <4> QED BY <4>1, <4>2
    <3> QED BY <3>1, <3>2, <3>3, <3>4
  <2>3. CASE x \in new
    <3>1. Kids(n) = {} /\ NodeTrue(n) /\ ~Clearing(n)
      BY <1>2, <1>3, <1>4, <2>3, SplitIsLeaf DEF MapInv, Clearing
    <3>2. x \in BlockType /\ x.addr \in Nat /\ EndOf(x) \in Nat /\ Holds(x, x.addr) /\ Holds(n, x.addr)
      <4>1. x \in BlockType /\ x.addr \in Nat /\ EndOf(x) \in Nat /\ Holds(x, x.addr)
        BY <1>10, <2>3, BlockEnd DEF Holds
      <4> QED BY <1>2, <1>10, <2>3, <4>1, WithinHolds
    <3>3. Said(x.addr, RESERVED)
      <4>1. Low(i) <= x.addr /\ x.addr < EndOf(x) /\ EndOf(x) <= High(i) /\ (i < cur \/ (i = cur /\ EndOf(x) <= start))
        BY <2>1, <3>2 DEF InDone, InRegion, Holds
      <4>2. High(i) \in Nat /\ start \in Nat
        BY <1>2, <2>1, RegionIs DEF PmapInv, TypeInv
      <4> QED BY <2>1, <3>2, <4>1, <4>2 DEF Said
    <3>4. tree[n].state \in {PARTIAL, ALLOCATABLE, RESERVED}
      BY <1>2 DEF TypeInv, PageState
    <3>5. tree[n].state = RESERVED
      BY <1>1, <3>1, <3>2, <3>3, <3>4 DEF NodeTrue
    <3> QED BY <1>12, <2>3, <3>5
  <2> QED BY <1>11, <2>2, <2>3
<1> QED BY <1>16, <1>17, <1>18, <1>19, <1>20 DEF MapInv

\* Before and after an address range is attached.
LEMMA SaidMore ==
  ASSUME PmapInv, MapInv, NEW n \in BlockType, cur \in 1..Len(regions), n.addr = start, InRegion(n, cur),
         regions' = regions, cur' = cur, start' = EndOf(n)
  PROVE  \A a \in Nat : \A t : Said(a, t)' <=> Said(a, t) \/ (t = regions[cur].type /\ Holds(n, a))
<1>1. /\ cur \in Nat /\ start \in Nat /\ EndOf(n) \in Nat /\ start < EndOf(n) /\ Len(regions) \in Nat
      /\ \A i \in 1..Len(regions) : Low(i) \in Nat /\ High(i) \in Nat
  BY RegionIs, BlockEnd DEF PmapInv, TypeInv
<1>2. \A i : Low(i)' = Low(i) /\ High(i)' = High(i)
  BY DEF Low, High
<1>3. Low(cur) <= start /\ EndOf(n) <= High(cur)
  BY DEF InRegion
<1> SUFFICES ASSUME NEW a \in Nat, NEW t
             PROVE  Said(a, t)' <=> Said(a, t) \/ (t = regions[cur].type /\ Holds(n, a))
  OBVIOUS
<1>4. ASSUME Said(a, t)' PROVE Said(a, t) \/ (t = regions[cur].type /\ Holds(n, a))
  <2>1. PICK i \in 1..Len(regions) : /\ regions[i].type = t /\ Low(i) <= a /\ a < High(i)
                                     /\ i < cur \/ (i = cur /\ a < EndOf(n))
    BY <1>2, <1>4 DEF Said
  <2>2. CASE i < cur \/ a < start
    BY <2>1, <2>2 DEF Said
  <2>3. CASE i = cur /\ ~(a < start)
    BY <1>1, <2>1, <2>3 DEF Holds
  <2> QED BY <2>1, <2>2, <2>3
<1>5. ASSUME Said(a, t) PROVE Said(a, t)'
  <2>1. PICK i \in 1..Len(regions) : /\ regions[i].type = t /\ Low(i) <= a /\ a < High(i)
                                     /\ i < cur \/ (i = cur /\ a < start)
    BY <1>5 DEF Said
  <2>2. i < cur \/ (i = cur /\ a < EndOf(n))
    BY <1>1, <2>1
  <2> QED BY <1>2, <2>1, <2>2 DEF Said
<1>6. ASSUME t = regions[cur].type, Holds(n, a) PROVE Said(a, t)'
  <2>1. Low(cur) <= a /\ a < High(cur) /\ a < EndOf(n)
    BY <1>1, <1>3, <1>6 DEF Holds
  <2> QED BY <1>2, <1>6, <2>1 DEF Said
<1> QED BY <1>4, <1>5, <1>6

\* attach_region() is about to retype the node it has looked up, and nothing is left in it.
AtChunk(n) ==
  /\ Retyping /\ n = Top.node /\ Below(n) = {} /\ n \in Nodes /\ n \in BlockType /\ Kids(n) = {}
  /\ n = Sought(Top) /\ n.addr = start /\ n \in Chunks(cur) /\ n \in Blocks /\ InRegion(n, cur)
  /\ cur \in 1..Len(regions) /\ Top.type = regions[cur].type /\ Top.type # PARTIAL
  /\ Len(stack) = 1 /\ stack[1] = Top /\ PathOk(Top) /\ Whole /\ ~panicked

LEMMA AtChunkIs ==
  ASSUME PmapInv, LookupInv, MapInv, Attach, NEW n, n = Top.node
  PROVE  AtChunk(n)
<1>1. Retyping /\ Below(n) = {} /\ ~panicked
  BY DEF Attach, Retyping, Arrived, InLookup
<1>2. /\ TypeInv /\ FrameInv /\ FamilyInv /\ n \in Nodes /\ n \in BlockType /\ Len(stack) = 1 /\ stack[1] = Top
      /\ Top \in FrameType /\ Top.type # PARTIAL /\ Top.why = "attach" /\ Top.node.class <= Top.class
      /\ Nodes \subseteq BlockType
  BY <1>1, RetypingIs, TopIs DEF PmapInv, TypeInv, Retyping, Arrived
<1>3. CallOk(Top) /\ PathOk(Top) /\ FrameAt(Top)
  BY <1>2 DEF MapInv, CallsOk, LookupInv
<1>4. n = Sought(Top)
  BY <1>2, <1>3, ArrivedAt
<1>5. cur <= Len(regions) /\ Top.type = regions[cur].type /\ Top.addr = start /\ n \in Chunks(cur)
  BY <1>2, <1>3, <1>4 DEF CallOk
<1>6. n \in Blocks /\ InRegion(n, cur)
  BY <1>5 DEF Chunks
<1>7. n.addr = start /\ cur \in 1..Len(regions)
  <2>1. n.addr = Top.addr
    BY <1>4 DEF Sought, Block
  <2>2. cur \in Nat \ {0} /\ Len(regions) \in Nat
    BY <1>2, RegionIs DEF PmapInv, TypeInv
  <2> QED BY <1>5, <2>1, <2>2
<1>8. Kids(n) = {}
  BY <1>1, <1>2, KidsBelow
<1>9. Whole
  <2>1. \A m \in Nodes \ {Root} : \E p \in Nodes : p.class > 0 /\ m \in {Left(p), Right(p)}
    BY <1>1, <1>2 DEF FamilyInv
  <2>2. ASSUME NEW x \in Nodes, x.class > 0 PROVE Right(x) \in Nodes <=> Left(x) \in Nodes
    <3>1. x = n => Right(x) \notin Nodes /\ Left(x) \notin Nodes
      BY <1>8, <2>2 DEF Kids
    <3>2. x # n => ~Clearing(x)
      BY <1>1 DEF Below, Clearing
    <3> QED BY <1>2, <2>2, <3>1, <3>2 DEF FamilyInv
  <2> QED BY <2>1, <2>2 DEF Whole
<1> QED BY <1>1, <1>2, <1>3, <1>4, <1>5, <1>6, <1>7, <1>8, <1>9 DEF AtChunk

\* A node that shares an address with the one that is retyped is above it.
LEMMA AboveChunk ==
  ASSUME PmapInv, NEW n, AtChunk(n), NEW x \in Nodes, x # n, NEW a \in Nat, Holds(n, a), Holds(x, a)
  PROVE  Within(n, x) /\ Kids(x) # {} /\ tree[x].state \in {PARTIAL, Top.type}
<1>1. /\ n \in BlockType /\ x \in BlockType /\ Aligned(n) /\ Aligned(x) /\ n \in Nodes /\ Below(n) = {} /\ Whole
      /\ TypeInv /\ TreeInv
  BY DEF PmapInv, TypeInv, TreeInv, AtChunk
<1>2. ~Within(x, n)
  BY <1>1 DEF Below
<1>3. Within(n, x)
  BY <1>1, <1>2, EitherInside
<1>4. Kids(x) # {}
  BY <1>1, <1>3, InnerHasParent
<1>5. tree[x].state \in {PARTIAL, Top.type}
  BY <1>3 DEF AtChunk, PathOk
<1> QED BY <1>3, <1>4, <1>5

\* Between two blocks that a region is cut into, no aligned block of the region straddles.
LEMMA StartBetween ==
  ASSUME PmapInv, MapInv, NEW n, AtChunk(n), NEW b \in Blocks, InRegion(b, cur)
  PROVE  ~(b.addr < EndOf(n) /\ EndOf(n) < EndOf(b))
<1> SUFFICES ASSUME b.addr < EndOf(n) /\ EndOf(n) < EndOf(b) PROVE FALSE
  OBVIOUS
<1>1. /\ n \in BlockType /\ b \in BlockType /\ Aligned(n) /\ Aligned(b) /\ n.addr = start /\ n \in Nodes
      /\ n.addr \in Nat /\ EndOf(n) \in Nat /\ b.addr \in Nat /\ EndOf(b) \in Nat /\ n.addr < EndOf(n)
  <2>1. n \in BlockType /\ b \in BlockType /\ Aligned(n) /\ Aligned(b) /\ n.addr = start /\ n \in Nodes
    BY BlocksAre DEF AtChunk, PmapInv, TreeInv
  <2> QED BY <2>1, BlockEnd
<1>2. ~(b.addr < start /\ start < EndOf(b))
  BY DEF MapInv, StartInv, AtChunk
<1>3. Holds(n, b.addr) /\ Holds(b, b.addr)
  BY <1>1, <1>2 DEF Holds
<1>4. Within(n, b) \/ Within(b, n)
  BY <1>1, <1>3, EitherInside
<1>5. Within(n, b)
  BY <1>1, <1>4 DEF Within
<1>6. b = n
  BY <1>5 DEF AtChunk, Chunks
<1> QED BY <1>1, <1>6

\* What a block of an allocatable region was before it is attached: reserved if an
\* address of it is reserved.
LEMMA ChunkReserved ==
  ASSUME PmapInv, MapInv, NEW n, AtChunk(n), regions[cur].type = ALLOCATABLE,
         NEW a \in Nat, Holds(n, a), Said(a, RESERVED)
  PROVE  tree[n].state = RESERVED
<1>1. /\ n \in Nodes /\ n \in BlockType /\ n.addr = start /\ n.addr \in Nat /\ EndOf(n) \in Nat /\ n.addr < EndOf(n)
      /\ cur \in 1..Len(regions) /\ Len(regions) \in Nat /\ InRegion(n, cur) /\ n \in Chunks(cur)
      /\ DOMAIN regions = 1..Len(regions) /\ \A i \in 1..Len(regions) : Low(i) \in Nat /\ High(i) \in Nat
  <2>1. n \in Nodes /\ n \in BlockType /\ n.addr = start /\ cur \in 1..Len(regions) /\ InRegion(n, cur) /\ n \in Chunks(cur)
    BY DEF AtChunk
  <2> QED BY <2>1, BlockEnd, RegionIs DEF PmapInv
<1>2. PICK i \in 1..Len(regions) : /\ regions[i].type = RESERVED /\ Low(i) <= a /\ a < High(i)
                                   /\ i < cur \/ (i = cur /\ a < start)
  BY DEF Said
<1>3. i < cur /\ i \in 1..(cur - 1)
  <2>1. i # cur
    BY <1>2 DEF RESERVED, ALLOCATABLE
  <2> QED BY <1>1, <1>2, <2>1
<1>4. InRegion(n, i)
  <2>1. InRegion(n, i) \/ EndOf(n) <= Low(i) \/ High(i) <= n.addr
    BY <1>1, <1>2, <1>3 DEF MapInv, EntriesFit
  <2> QED BY <1>1, <1>2, <2>1 DEF Holds
<1>5. tree[n].state = RESERVED \/ Broken(n)
  BY <1>1, <1>2, <1>3, <1>4 DEF MapInv, ReservedWhole, InDone
<1>6. ~Broken(n)
  <2>1. ASSUME NEW e \in Nat, Holds(n, e), Said(e, ALLOCATABLE) PROVE FALSE
    <3>1. PICK j \in 1..Len(regions) : /\ regions[j].type = ALLOCATABLE /\ Low(j) <= e /\ e < High(j)
                                       /\ j < cur \/ (j = cur /\ e < start)
      BY <2>1 DEF Said
    <3>2. j < cur /\ j \in 1..(cur - 1)
      BY <1>1, <2>1, <3>1 DEF Holds
    <3>3. High(j) <= Low(cur) \/ High(cur) <= Low(j)
      BY <1>1, <3>1, <3>2 DEF MapInv, EntriesFit
    <3>4. Low(cur) <= e /\ e < High(cur)
      BY <1>1, <2>1 DEF InRegion, Holds
    <3> QED BY <1>1, <3>1, <3>3, <3>4
  <2>2. \A k \in 1..Len(stack) : ~SplitBy(stack[k], n)
    BY DEF AtChunk, SplitBy
  <2> QED BY <2>1, <2>2 DEF Broken
<1> QED BY <1>5, <1>6

LEMMA MapAttach == ASSUME PmapInv, LookupInv, MapInv, Attach PROVE MapInv'
<1> PICK n : n = Top.node
  OBVIOUS
<1> PICK t : t = NewType(n, Top.type)
  OBVIOUS
<1> PICK T : T = regions[cur].type
  OBVIOUS
<1>1. /\ tree' = [tree EXCEPT ![n].state = t] /\ start' = start + ClassSize[Top.class] /\ stack' = Tail(stack)
      /\ regions' = regions /\ cur' = cur /\ panicked' = panicked
  BY DEF Attach, NextStart
<1>2. AtChunk(n)
  BY AtChunkIs
<1>3. /\ TypeInv /\ FrameInv /\ TreeInv /\ n \in Nodes /\ n \in BlockType /\ n.addr = start /\ Kids(n) = {} /\ Whole
      /\ InRegion(n, cur) /\ cur \in 1..Len(regions) /\ Top.type = T /\ T \in {ALLOCATABLE, RESERVED} /\ ~panicked
      /\ Len(stack) = 1 /\ stack[1] = Top /\ n = Sought(Top) /\ Below(n) = {} /\ Nodes \subseteq BlockType
      /\ n.addr \in Nat /\ EndOf(n) \in Nat /\ n.addr < EndOf(n) /\ Len(regions) \in Nat
      /\ Low(cur) \in Nat /\ High(cur) \in Nat
  <2>1. /\ n \in Nodes /\ n \in BlockType /\ n.addr = start /\ Kids(n) = {} /\ Whole /\ InRegion(n, cur)
        /\ cur \in 1..Len(regions) /\ Top.type = T /\ ~panicked /\ Len(stack) = 1 /\ stack[1] = Top
        /\ n = Sought(Top) /\ Below(n) = {}
    BY <1>2 DEF AtChunk
  <2> QED BY <2>1, BlockEnd, RegionIs DEF PmapInv, TypeInv
<1>4. start' = EndOf(n)
  <2>1. n.class = Top.class
    BY <1>3 DEF Sought, Block
  <2> QED BY <1>1, <1>3, <2>1 DEF EndOf
<1>5. \A a \in Nat : \A u : Said(a, u)' <=> Said(a, u) \/ (u = T /\ Holds(n, a))
  BY <1>1, <1>3, <1>4, SaidMore
<1>6. /\ Nodes' = Nodes /\ (\A x : Kids(x)' = Kids(x)) /\ tree'[n].state = t
      /\ \A x \in Nodes : x # n => tree'[x] = tree[x]
  <2>1. tree \in [Nodes -> [state : PageState, refc : Nat]]
    BY <1>3 DEF TypeInv
  <2> PICK r : r = [tree[n] EXCEPT !.state = t]
    OBVIOUS
  <2>2. r.state = t
    BY <1>3, <2>1
  <2>3. tree' = [tree EXCEPT ![n] = r]
    BY <1>1
  <2>4. DOMAIN tree' = DOMAIN tree /\ tree'[n] = r /\ \A x \in Nodes : x # n => tree'[x] = tree[x]
    BY <1>3, <2>1, <2>3
  <2> QED BY <2>2, <2>4 DEF Nodes, Kids
<1>7. t = IF tree[n].state = RESERVED THEN RESERVED ELSE T
  BY <1>3 DEF NewType
<1>8. (\A i : Low(i)' = Low(i) /\ High(i)' = High(i)) /\ (\A b, i : InRegion(b, i)' <=> InRegion(b, i))
  <2>1. \A i : Low(i)' = Low(i) /\ High(i)' = High(i)
    BY <1>1 DEF Low, High
  <2> QED BY <2>1 DEF InRegion
<1>9. EntriesFit'
  <2>1. \A i : Chunks(i)' = Chunks(i)
    BY <1>8 DEF Chunks
  <2> QED BY <1>1, <1>8, <2>1 DEF MapInv, EntriesFit
<1>10. StartInv'
  <2>1. Low(cur) <= EndOf(n) /\ EndOf(n) <= High(cur)
    BY <1>3 DEF InRegion
  <2>2. \A b \in Blocks : InRegion(b, cur) => ~(b.addr < EndOf(n) /\ EndOf(n) < EndOf(b))
    BY <1>2, StartBetween
  <2>3. cur <= Len(regions) + 1
    BY <1>3
  <2> QED BY <1>1, <1>4, <1>8, <2>1, <2>2, <2>3 DEF StartInv, EndOf
<1>11. Len(stack') = 0
  <2>1. stack \in Seq(FrameType)
    BY <1>3 DEF TypeInv
  <2> QED BY <1>1, <1>3, <2>1
<1>12. CallsOk'
  BY <1>11 DEF CallsOk
<1>13. ~Retyping'
  <2>1. stack' = <<>>
    <3>1. stack \in Seq(FrameType)
      BY <1>3 DEF TypeInv
    <3> QED BY <1>1, <1>3, <3>1
  <2> QED BY <2>1 DEF Retyping, Arrived, InLookup
<1>14. ASSUME NEW x \in Nodes PROVE NodeTrue(x)'
  <2>1. NodeTrue(x)
    BY DEF MapInv
  <2> SUFFICES ASSUME NEW a \in Nat, Holds(x, a)
               PROVE  /\ tree'[x].state = RESERVED => Said(a, RESERVED)'
                      /\ tree'[x].state = ALLOCATABLE => Said(a, ALLOCATABLE)' /\ ~Said(a, RESERVED)'
                      /\ tree'[x].state = PARTIAL /\ Kids(x) = {} => ~Said(a, RESERVED)' /\ ~Said(a, ALLOCATABLE)'
    BY <1>6 DEF NodeTrue, Holds, EndOf
  <2>2. PARTIAL # RESERVED /\ PARTIAL # ALLOCATABLE /\ RESERVED # ALLOCATABLE
    BY DEF PARTIAL, RESERVED, ALLOCATABLE
  <2>3. CASE x = n
    <3>1. CASE tree[n].state = RESERVED
      <4>1. tree'[x].state = RESERVED
        BY <1>6, <1>7, <2>3, <3>1
      <4>2. Said(a, RESERVED)
        BY <2>1, <2>3, <3>1 DEF NodeTrue
      <4> QED BY <1>5, <2>2, <4>1, <4>2
    <3>2. CASE tree[n].state # RESERVED /\ T = RESERVED
      BY <1>5, <1>6, <1>7, <2>2, <2>3, <3>2
    <3>3. CASE tree[n].state # RESERVED /\ T = ALLOCATABLE
      <4>1. ~Said(a, RESERVED)
        BY <1>2, <2>3, <3>3, ChunkReserved
      <4> QED BY <1>5, <1>6, <1>7, <2>2, <2>3, <3>3, <4>1
    <3> QED BY <1>3, <3>1, <3>2, <3>3
  <2>4. CASE x # n
    <3>1. tree'[x].state = tree[x].state
      BY <1>6, <2>4
    <3>2. Holds(n, a) => Kids(x) # {} /\ tree[x].state \in {PARTIAL, T}
      BY <1>2, <1>3, <2>4, AboveChunk
    <3>3. ~Clearing(x)
      BY <1>2, <1>3, <2>4 DEF Clearing, Below
    <3> QED BY <1>3, <1>5, <2>1, <2>2, <3>1, <3>2, <3>3 DEF NodeTrue
  <2> QED BY <2>3, <2>4
<1>15. Uniform'
  <2> SUFFICES ASSUME NEW x \in Nodes, tree'[x].state # PARTIAL, NEW k \in Kids(x)
               PROVE  tree'[k].state = tree'[x].state
    BY <1>6 DEF Uniform
  <2>1. x # n /\ tree'[x] = tree[x] /\ k \in Nodes
    BY <1>3, <1>6 DEF Kids
  <2>2. tree[k].state = tree[x].state
    BY <2>1 DEF MapInv, Uniform
  <2>3. CASE k = n
    <3>1. Within(n, x) /\ x \in BlockType
      <4>1. x.class > 0 /\ x \in BlockType
        <5>1. x \in BlockType /\ x.class \in Nat
          BY <1>3, BlockEnd, PmapClasses
        <5> QED BY <5>1 DEF Kids
      <4> QED BY <2>3, <4>1, HalvesWithin DEF Kids
    <3>2. tree[x].state \in {PARTIAL, T}
      BY <1>2, <1>3, <2>1, <3>1 DEF AtChunk, PathOk
    <3>3. tree[n].state = T
      BY <2>1, <2>2, <2>3, <3>2
    <3> QED BY <1>6, <1>7, <2>1, <2>2, <2>3, <3>3
  <2>4. CASE k # n
    BY <1>6, <2>1, <2>2, <2>4
  <2> QED BY <2>3, <2>4
<1>16. ReservedWhole'
  <2> SUFFICES ASSUME NEW i \in 1..Len(regions), NEW x \in Nodes, regions[i].type = RESERVED, InDone(x, i)'
               PROVE  tree'[x].state = RESERVED \/ Broken(x)'
    BY <1>1, <1>6 DEF ReservedWhole
  <2>1. x \in BlockType /\ x.addr \in Nat /\ EndOf(x) \in Nat /\ x.addr < EndOf(x)
    BY <1>3, BlockEnd
  <2>2. InRegion(x, i) /\ (i < cur \/ (i = cur /\ EndOf(x) <= EndOf(n)))
    BY <1>1, <1>4, <1>8 DEF InDone, EndOf
  <2>3. CASE InDone(x, i)
    <3>1. tree[x].state = RESERVED \/ Broken(x)
      BY <2>3 DEF MapInv, ReservedWhole
    <3>2. CASE tree[x].state = RESERVED
      BY <1>6, <1>7, <3>2
    <3>3. CASE \E a \in Nat : Holds(x, a) /\ Said(a, ALLOCATABLE)
      BY <1>5, <3>3 DEF Broken, Holds, EndOf
    <3>4. CASE \E k \in 1..Len(stack) : SplitBy(stack[k], x)
      <4>1. Top.type = ALLOCATABLE /\ Within(n, x)
        BY <1>3, <3>4 DEF SplitBy
      <4>2. Holds(n, n.addr) /\ Holds(x, n.addr)
        BY <1>3, <2>1, <4>1 DEF Holds, Within
      <4>3. Said(n.addr, ALLOCATABLE)'
        BY <1>3, <1>5, <4>1, <4>2
      <4> QED BY <1>3, <4>2, <4>3 DEF Broken, Holds, EndOf
    <3> QED BY <3>1, <3>2, <3>3, <3>4 DEF Broken
  <2>4. CASE ~InDone(x, i)
    <3>1. i = cur /\ start < EndOf(x) /\ EndOf(x) <= EndOf(n)
      BY <1>3, <2>1, <2>2, <2>4 DEF InDone
    <3>2. x \in Blocks
      <4>1. Aligned(x)
        BY <1>3 DEF TreeInv
      <4>2. High(cur) <= ClassSize[MaxClass]
        BY <1>3, RegionIs DEF PmapInv
      <4>3. EndOf(x) <= ClassSize[MaxClass]
        <5>1. MaxClass \in Class
          BY PmapClasses DEF Class
        <5>2. ClassSize[MaxClass] \in Nat
          BY <5>1, PmapClasses
        <5> QED BY <1>3, <2>1, <2>2, <3>1, <4>2, <5>2 DEF InRegion
      <4> QED BY <2>1, <4>1, <4>3, BlocksAre
    <3>3. ~(x.addr < start /\ start < EndOf(x))
      BY <1>3, <2>2, <3>1, <3>2 DEF MapInv, StartInv
    <3>4. Within(x, n)
      BY <1>3, <2>1, <3>1, <3>3 DEF Within
    <3>5. x = n
      BY <1>3, <3>4 DEF Below
    <3> QED BY <1>3, <1>6, <1>7, <3>1, <3>5
  <2> QED BY <2>3, <2>4
<1> QED BY <1>6, <1>9, <1>10, <1>12, <1>14, <1>15, <1>16 DEF MapInv

LEMMA MapInit == Init /\ EntriesFit => MapInv
<1> SUFFICES ASSUME Init, EntriesFit PROVE MapInv
  OBVIOUS
<1>1. PmapInv
  BY PmapInitInv
<1>2. /\ Nodes = {Root} /\ tree[Root].state = PARTIAL /\ cur = 1 /\ start = 0 /\ stack = <<>> /\ ~panicked
      /\ DOMAIN tree = {Root}
  BY DEF Init, Nodes
<1>3. PICK m \in MemoryMaps :
        regions = <<[start |-> 0, end |-> ClassSize[0], type |-> RESERVED],
                    [start |-> KernelStart, end |-> KernelEnd, type |-> RESERVED]>> \o m
  BY DEF Init
<1>4. Len(regions) \in Nat /\ \A i \in 1..Len(regions) : Low(i) \in Nat /\ High(i) \in Nat
  BY <1>1, RegionIs DEF PmapInv
<1>5. regions[1].start = 0 /\ Len(regions) >= 2
  <2>1. m \in Seq(Region)
    BY MapAssumption
  <2> QED BY <1>3, <2>1
<1>6. Low(1) = 0
  <2>1. RoundDown(0) = 0
    BY RoundingIs
  <2> QED BY <1>5, <2>1 DEF Low
<1>7. \A a \in Nat : \A t : ~Said(a, t)
  BY <1>2, <1>4 DEF Said
<1>8. StartInv
  <2>1. \A b \in Blocks : b.addr \in Nat
    BY BlocksAre, BlockEnd
  <2> QED BY <1>2, <1>4, <1>5, <1>6, <2>1 DEF StartInv
<1>9. CallsOk
  <2>1. Len(stack) = 0
    BY <1>2
  <2> QED BY <2>1 DEF CallsOk
<1>10. \A n \in Nodes : NodeTrue(n)
  BY <1>2, <1>7 DEF NodeTrue, PARTIAL, RESERVED, ALLOCATABLE
<1>11. Uniform
  BY <1>2 DEF Uniform
<1>12. ReservedWhole
  <2> SUFFICES ASSUME NEW i \in 1..Len(regions), NEW n \in Nodes, InDone(n, i) PROVE FALSE
    BY DEF ReservedWhole
  <2>1. n \in BlockType /\ n.addr \in Nat /\ EndOf(n) \in Nat /\ n.addr < EndOf(n)
    BY <1>1, BlockEnd DEF PmapInv, TypeInv
  <2>2. i \in Nat /\ i >= 1
    BY <1>4
  <2> QED BY <1>2, <2>1, <2>2 DEF InDone
<1> QED BY <1>8, <1>9, <1>10, <1>11, <1>12 DEF MapInv

LEMMA MapStep == ASSUME PmapInv, LookupInv, MapInv, [Next]_vars PROVE MapInv'
<1>1. CASE UNCHANGED vars BY <1>1, MapStutter
<1>2. CASE EnsureFreeDesc BY <1>2, MapEnsureFreeDesc
<1>3. CASE Descend BY <1>3, MapDescend
<1>4. CASE FreeDescRec BY <1>4, MapFreeDescRec
<1>5. CASE Attach BY <1>5, MapAttach
<1>6. CASE PageRef BY <1>6, MapPageRef
<1>7. CASE AllocPool BY <1>7, MapAllocPool
<1>8. CASE AttachRegion BY <1>8, MapAttachRegion
<1>9. CASE NextRegion BY <1>9, MapNextRegion
<1>10. CASE LookupConstPage BY <1>10, MapLookupConstPage
<1>11. CASE RefConstPage BY <1>11, MapRefConstPage
<1>12. CASE Panic BY <1>12, MapPanic
<1> QED BY <1>1, <1>2, <1>3, <1>4, <1>5, <1>6, <1>7, <1>8, <1>9, <1>10, <1>11, <1>12 DEF Next

-----------------------------------------------------------------------------
(* The tree between two regions.                                           *)

\* Every address of the root is in a node without children.
LEMMA LeafHolding ==
  ASSUME TypeInv, TreeInv, Whole, NEW a \in Nat, a < ClassSize[MaxClass]
  PROVE  \E n \in Nodes : Kids(n) = {} /\ Holds(n, a)
<1> DEFINE S == {n \in Nodes : Holds(n, a)}
           T == {n.class : n \in S}
<1>1. Nodes \subseteq BlockType /\ (\A n \in Nodes : n.class \in Nat) /\ Root \in Nodes
  <2>1. Nodes \subseteq BlockType /\ Root \in Nodes
    BY DEF TypeInv, TreeInv
  <2> QED BY <2>1, BlockEnd, PmapClasses
<1>2. Root \in S
  <2>1. MaxClass \in Class
    BY PmapClasses DEF Class
  <2>2. Root.addr = 0 /\ EndOf(Root) = 0 + ClassSize[MaxClass] /\ ClassSize[MaxClass] \in Nat
    BY <2>1, PmapClasses DEF Root, Block, EndOf
  <2> QED BY <1>1, <2>2 DEF Holds
<1>3. T \in SUBSET Nat /\ T # {}
  BY <1>1, <1>2
<1>4. PICK c \in T : \A d \in T : c <= d
  BY <1>3, LeastNatural
<1>5. PICK n \in S : n.class = c
  OBVIOUS
<1>6. n \in Nodes /\ Holds(n, a) /\ n \in BlockType /\ n.class \in Nat
  BY <1>1
<1>7. ASSUME Kids(n) # {} PROVE FALSE
  <2>1. n.class > 0 /\ Left(n) \in Nodes /\ Right(n) \in Nodes
    BY <1>6, <1>7 DEF Kids, Whole
  <2>2. /\ Left(n).addr = n.addr /\ EndOf(Left(n)) = Right(n).addr /\ EndOf(Right(n)) = EndOf(n)
        /\ Left(n).class = n.class - 1 /\ Right(n).class = n.class - 1 /\ Right(n).addr \in Nat
        /\ n.addr \in Nat /\ EndOf(n) \in Nat
    <3>1. Right(n) \in BlockType
      BY <1>1, <2>1
    <3> QED BY <1>6, <2>1, <3>1, Halves, BlockEnd
  <2>3. Left(n) \in S \/ Right(n) \in S
    BY <1>6, <2>1, <2>2 DEF Holds
  <2>4. n.class - 1 \in T
    BY <2>2, <2>3
  <2>5. n.class <= n.class - 1
    BY <1>4, <1>5, <2>4
  <2> QED BY <1>6, <2>5
<1> QED BY <1>6, <1>7

LEMMA PageHeld ==
  ASSUME TypeInv, NEW a \in Nat, a % ClassSize[0] = 0, NEW n \in Nodes
  PROVE  a \in Pages(n) <=> Holds(n, a)
<1>1. n.addr \in Nat /\ EndOf(n) \in Nat
  BY BlockEnd DEF TypeInv
<1> QED BY <1>1 DEF Pages, Holds

\* What has been attached has been said.
LEMMA AttachedSaid ==
  ASSUME PmapInv, StartInv, NEW a \in Nat, a % ClassSize[0] = 0, NEW t
  PROVE  /\ AttachedAs(a, t) => Said(a, t)
         /\ Attached \/ start = Low(cur) => (Said(a, t) => AttachedAs(a, t))
<1>1. /\ cur \in Nat \ {0} /\ Len(regions) \in Nat /\ cur <= Len(regions) + 1 /\ start \in Nat
      /\ \A i \in 1..Len(regions) : Low(i) \in Nat /\ High(i) \in Nat
  BY RegionIs DEF PmapInv, TypeInv, StartInv
<1>2. \A i \in 1..Len(regions) : a \in RegionPages(i) <=> Low(i) <= a /\ a < High(i)
  BY <1>1 DEF RegionPages
<1>3. ASSUME AttachedAs(a, t) PROVE Said(a, t)
  <2>1. PICK i \in 1..(cur - 1) : regions[i].type = t /\ a \in RegionPages(i)
    BY <1>3 DEF AttachedAs
  <2>2. i \in 1..Len(regions) /\ i < cur
    BY <1>1
  <2> QED BY <1>2, <2>1, <2>2 DEF Said
<1>4. ASSUME Attached \/ start = Low(cur), Said(a, t) PROVE AttachedAs(a, t)
  <2>1. PICK i \in 1..Len(regions) : /\ regions[i].type = t /\ Low(i) <= a /\ a < High(i)
                                     /\ i < cur \/ (i = cur /\ a < start)
    BY <1>4 DEF Said
  <2>2. i < cur
    <3>1. CASE Attached
      BY <1>1, <2>1, <3>1 DEF Attached
    <3>2. CASE start = Low(cur)
      BY <1>1, <2>1, <3>2
    <3> QED BY <1>4, <3>1, <3>2
  <2> QED BY <1>1, <1>2, <2>1, <2>2 DEF AttachedAs
<1> QED BY <1>3, <1>4

LEMMA MapInvTrue == PmapInv /\ MapInv => MemoryAsMapped /\ ReservedStaysReserved
<1> SUFFICES ASSUME PmapInv, MapInv PROVE MemoryAsMapped /\ ReservedStaysReserved
  OBVIOUS
<1>1. TypeInv /\ TreeInv /\ StartInv /\ \A n \in Nodes : NodeTrue(n)
  BY DEF PmapInv, MapInv
<1>2. \A a \in Pages(Root) : a \in Nat /\ a % ClassSize[0] = 0 /\ a < ClassSize[MaxClass]
  <2>1. MaxClass \in Class
    BY PmapClasses DEF Class
  <2>2. Root.addr = 0 /\ EndOf(Root) = 0 + ClassSize[MaxClass] /\ ClassSize[MaxClass] \in Nat
    BY <2>1, PmapClasses DEF Root, Block, EndOf
  <2> QED BY <2>2 DEF Pages
<1>3. ASSUME NEW a \in Pages(Root), NEW t, Covered(a, t)
      PROVE  \E n \in Nodes : Kids(n) = {} /\ Holds(n, a) /\ tree[n].state = t /\ NodeTrue(n)
  BY <1>1, <1>2, <1>3, PageHeld DEF Covered, Leaf
<1>4. ReservedStaysReserved
  <2> SUFFICES ASSUME NEW a \in Pages(Root), AttachedAs(a, RESERVED), Covered(a, ALLOCATABLE) PROVE FALSE
    BY DEF ReservedStaysReserved
  <2>1. Said(a, RESERVED)
    BY <1>1, <1>2, AttachedSaid
  <2> QED BY <1>2, <1>3, <2>1 DEF NodeTrue
<1>5. MemoryAsMapped
  <2> SUFFICES ASSUME Idle, Attached \/ start = Low(cur), NEW a \in Pages(Root)
               PROVE  /\ Covered(a, RESERVED) <=> AttachedAs(a, RESERVED)
                      /\ Covered(a, ALLOCATABLE) <=> AttachedAs(a, ALLOCATABLE) /\ ~AttachedAs(a, RESERVED)
    BY DEF MemoryAsMapped
  <2>1. ~panicked /\ ~Retyping /\ Whole
    <3>1. ~panicked /\ ~Retyping
      BY DEF Idle, Retyping, Arrived, InLookup
    <3> QED BY <3>1, WholeIs DEF PmapInv
  <2>2. \A t : AttachedAs(a, t) <=> Said(a, t)
    BY <1>1, <1>2, AttachedSaid
  <2>3. PICK n \in Nodes : Kids(n) = {} /\ Holds(n, a)
    BY <1>1, <1>2, <2>1, LeafHolding
  <2>4. NodeTrue(n) /\ ~Clearing(n) /\ tree[n].state \in {PARTIAL, ALLOCATABLE, RESERVED}
    BY <1>1, <2>1 DEF Clearing, TypeInv, PageState
  <2>5. Covered(a, tree[n].state)
    BY <1>1, <1>2, <2>3, PageHeld DEF Covered, Leaf
  <2>6. Covered(a, RESERVED) => Said(a, RESERVED)
    BY <1>2, <1>3 DEF NodeTrue
  <2>7. Covered(a, ALLOCATABLE) => Said(a, ALLOCATABLE) /\ ~Said(a, RESERVED)
    BY <1>2, <1>3 DEF NodeTrue
  <2>8. Said(a, RESERVED) => tree[n].state = RESERVED
    BY <1>2, <2>1, <2>3, <2>4 DEF NodeTrue
  <2>9. Said(a, ALLOCATABLE) /\ ~Said(a, RESERVED) => tree[n].state = ALLOCATABLE
    BY <1>2, <2>1, <2>3, <2>4 DEF NodeTrue
  <2> QED BY <2>2, <2>5, <2>6, <2>7, <2>8, <2>9
<1> QED BY <1>4, <1>5

\* attach_region() and page_lookup() make of the memory map what it says: between two
\* regions each page is reserved or allocatable exactly as the regions attached so far
\* say, reserved memory winning, and a page that was attached as reserved is never
\* allocatable afterwards.  The entries of the map must fit: EntriesFit.
THEOREM MemoryMapped == Spec /\ EntriesFit /\ []OnlyFirstTaken => [](MemoryAsMapped /\ ReservedStaysReserved)
<1> DEFINE Inv == PmapInv /\ LookupInv /\ MapInv
<1>1. Init /\ EntriesFit => Inv
  BY PmapInitInv, LookupInit, MapInit
<1>2. Inv /\ OnlyFirstTaken /\ [Next]_vars => Inv'
  BY PmapStep, LookupStep, MapStep
<1>3. Inv => MemoryAsMapped /\ ReservedStaysReserved
  BY MapInvTrue
<1> QED BY <1>1, <1>2, <1>3, PTL DEF Spec

-----------------------------------------------------------------------------
(* A boot without a failed assertion.  Memory that is allocatable is boot  *)
(* memory, off the first page and off the kernel, and apart from the block *)
(* that attach_region() is about to retype: no lookup for it, and none for *)
(* a constant page, comes across a page that is free or in use.            *)

KernelFirst ==
  /\ Len(regions) >= 2
  /\ regions[1] = [start |-> 0, end |-> ClassSize[0], type |-> RESERVED]
  /\ regions[2] = [start |-> KernelStart, end |-> KernelEnd, type |-> RESERVED]
Fixed == BootMemoryOnly /\ PoolsSuffice /\ KernelFirst

ConstsInKernel ==
  \A i \in 1..Len(consts) : KernelStart <= consts[i] /\ consts[i] + ClassSize[ConstClass] <= RoundUp(KernelEnd)
ConstFrames == \A i \in 1..Len(stack) : stack[i].why = "const" => InRegion(Sought(stack[i]), 2)

\* Before all regions are attached the pools are all that is referenced.
RefsFree == cur <= Len(regions) => \A n \in Nodes : tree[n].refc > 0 => tree[n].state = ALLOCATABLE

PoolsLeaf == \A q \in pools : q \in Nodes => tree[q].state = ALLOCATABLE /\ Kids(q) = {}

CarveInv ==
  stack # <<>> /\ Top.why = "pool" =>
    refs = <<>> /\ tree[Top.node].state = ALLOCATABLE /\ tree[Top.node].refc = 0 /\ ~OnList(Top.node)

RefOk(n) ==
  /\ ~OnList(n)
  /\ (tree[n].state = ALLOCATABLE /\ Kids(n) = {}) \/ (cur > Len(regions) /\ InRegion(n, 2))
RefsInv == \A i \in 1..Len(refs) : RefOk(refs[i])

\* The descriptors that are left of a pool while it is being carved out of a page of class c.
PoolPays ==
  stack # <<>> /\ Top.why = "pool" =>
    \E c \in PoolClass..MaxClass :
      /\ \E i \in 1..Len(regions) : regions[i].type = ALLOCATABLE /\ 2 * ClassSize[c] <= High(i)
      /\ Top.node.class <= c /\ descr + 2 * (c - Top.node.class) >= PoolEntries + 2
PooledPays == stack # <<>> /\ Top.why # "pool" /\ Top.pooled => descr >= DescrNeeded(Top)
DescrInv == descr \in Nat /\ descr >= 2 /\ PoolPays /\ PooledPays

CleanInv ==
  /\ Fixed /\ ConstsInKernel /\ ConstFrames /\ RefsFree /\ PoolsLeaf /\ CarveInv /\ RefsInv /\ DescrInv
  /\ PanicsOnlyOutOfMemory

LEMMA RoundUpIs == \A a \in Nat : RoundUp(a) \in Nat /\ a <= RoundUp(a)
<1> SUFFICES ASSUME NEW a \in Nat PROVE RoundUp(a) \in Nat /\ a <= RoundUp(a)
  OBVIOUS
<1> PICK h : h = ClassSize[0]
  OBVIOUS
<1>1. h \in Nat /\ h > 0
  BY RoundingIs
<1> PICK b : b = a + h - 1
  OBVIOUS
<1>2. b \in Nat /\ b % h \in 0..(h - 1)
  BY <1>1
<1>3. RoundUp(a) = b - (b % h)
  BY DEF RoundUp, RoundDown
<1> QED BY <1>1, <1>2, <1>3, RoundingIs

LEMMA KernelRegion ==
  ASSUME TypeInv, RegionInv, KernelFirst
  PROVE  /\ 1 \in 1..Len(regions) /\ 2 \in 1..Len(regions) /\ Len(regions) \in Nat
         /\ regions[1].type = RESERVED /\ regions[2].type = RESERVED
         /\ Low(1) = 0 /\ High(1) > 0 /\ Low(1) \in Nat /\ High(1) \in Nat
         /\ Low(2) <= KernelStart /\ High(2) = RoundUp(KernelEnd) /\ KernelEnd <= High(2)
         /\ Low(2) \in Nat /\ High(2) \in Nat /\ KernelStart \in Nat /\ KernelEnd \in Nat
<1>1. Len(regions) \in Nat /\ 1 \in 1..Len(regions) /\ 2 \in 1..Len(regions)
  BY RegionIs DEF KernelFirst
<1>2. regions[1].start = 0 /\ regions[1].end = ClassSize[0] /\ regions[1].type = RESERVED
      /\ regions[2].start = KernelStart /\ regions[2].end = KernelEnd /\ regions[2].type = RESERVED
  BY DEF KernelFirst
<1>3. KernelStart \in Nat /\ KernelEnd \in Nat /\ ClassSize[0] \in Nat /\ ClassSize[0] > 0
  <2>1. KernelStart \in Nat /\ KernelEnd \in Nat
    BY KernelAssumption
  <2>2. ClassSize[0] \in Nat \ {0}
    BY RoundingIs
  <2> QED BY <2>1, <2>2
<1>4. Low(1) = 0 /\ High(1) = RoundUp(ClassSize[0])
  <2>1. RoundDown(0) = 0
    BY RoundingIs
  <2> QED BY <1>2, <2>1 DEF Low, High
<1>5. Low(2) = RoundDown(KernelStart) /\ High(2) = RoundUp(KernelEnd)
  BY <1>2 DEF Low, High
<1>6. RoundUp(ClassSize[0]) \in Nat /\ ClassSize[0] <= RoundUp(ClassSize[0])
  BY <1>3, RoundUpIs
<1>7. RoundDown(KernelStart) \in Nat /\ RoundDown(KernelStart) <= KernelStart
  BY <1>3, RoundingIs
<1>8. RoundUp(KernelEnd) \in Nat /\ KernelEnd <= RoundUp(KernelEnd)
  BY <1>3, RoundUpIs
<1>9. Low(1) = 0 /\ High(1) > 0 /\ Low(1) \in Nat /\ High(1) \in Nat
  BY <1>3, <1>4, <1>6
<1> QED BY <1>1, <1>2, <1>3, <1>5, <1>7, <1>8, <1>9

\* Where allocatable memory is.
LEMMA AllocIs ==
  ASSUME PmapInv, MapInv, Fixed, NEW n \in Nodes, tree[n].state = ALLOCATABLE
  PROVE  /\ EndOf(n) < BootMemSize /\ OffKernel(n) /\ cur > 2
         /\ \E i \in 1..Len(regions) : regions[i].type = ALLOCATABLE /\ 2 * ClassSize[n.class] <= High(i)
         /\ \A a \in Nat : Holds(n, a) => Said(a, ALLOCATABLE) /\ (a < Low(2) \/ High(2) <= a)
<1>1. /\ n \in BlockType /\ n.addr \in Nat /\ EndOf(n) \in Nat /\ n.addr < EndOf(n) /\ n.class \in Class
      /\ EndOf(n) = n.addr + ClassSize[n.class] /\ ClassSize[n.class] \in Nat \ {0} /\ Aligned(n)
  BY BlockEnd DEF PmapInv, TypeInv, TreeInv
<1>2. \A a \in Nat : Holds(n, a) => Said(a, ALLOCATABLE) /\ ~Said(a, RESERVED)
  BY DEF MapInv, NodeTrue
<1>3. /\ 1 \in 1..Len(regions) /\ 2 \in 1..Len(regions) /\ Len(regions) \in Nat
      /\ regions[1].type = RESERVED /\ regions[2].type = RESERVED
      /\ Low(1) = 0 /\ High(1) > 0 /\ Low(2) <= KernelStart /\ KernelEnd <= High(2)
      /\ Low(2) \in Nat /\ High(2) \in Nat /\ KernelStart \in Nat /\ KernelEnd \in Nat
  BY KernelRegion DEF PmapInv, Fixed
<1>4. /\ cur \in Nat /\ DOMAIN regions = 1..Len(regions)
      /\ \A i \in 1..Len(regions) : Low(i) \in Nat /\ High(i) \in Nat
  BY RegionIs DEF PmapInv, TypeInv
<1>5. \A a \in Nat : Said(a, ALLOCATABLE) =>
        \E i \in 1..Len(regions) : regions[i].type = ALLOCATABLE /\ a < High(i) /\ i > 2 /\ i <= cur
  <2> SUFFICES ASSUME NEW a \in Nat, NEW i \in 1..Len(regions), regions[i].type = ALLOCATABLE, a < High(i), i <= cur
               PROVE  i > 2
    BY <1>4 DEF Said
  <2>1. i # 1 /\ i # 2
    BY <1>3 DEF RESERVED, ALLOCATABLE
  <2> QED BY <1>3, <2>1
<1>6. Holds(n, n.addr) /\ Holds(n, EndOf(n) - 1) /\ EndOf(n) - 1 \in Nat
  BY <1>1 DEF Holds
<1>7. PICK i \in 1..Len(regions) : regions[i].type = ALLOCATABLE /\ EndOf(n) - 1 < High(i) /\ i > 2 /\ i <= cur
  BY <1>2, <1>5, <1>6
<1>8. cur > 2
  BY <1>4, <1>7
<1>9. \A a \in Nat : Low(1) <= a /\ a < High(1) => Said(a, RESERVED)
  BY <1>3, <1>4, <1>8 DEF Said
<1>10. \A a \in Nat : Low(2) <= a /\ a < High(2) => Said(a, RESERVED)
  BY <1>3, <1>4, <1>8 DEF Said
<1>11. EndOf(n) <= High(i) /\ High(i) \in Nat
  BY <1>1, <1>4, <1>7
<1>12. EndOf(n) < BootMemSize
  <2>1. High(i) < BootMemSize
    BY <1>4, <1>7 DEF Fixed, BootMemoryOnly
  <2> QED BY <1>1, <1>11, <2>1, DescrAssumption
<1>13. OffKernel(n)
  <2> SUFFICES ASSUME n.addr < KernelEnd, KernelStart <= EndOf(n) - 1 PROVE FALSE
    BY <1>1, <1>3 DEF OffKernel
  <2>1. \E a \in Nat : Holds(n, a) /\ Low(2) <= a /\ a < High(2)
    <3>1. CASE n.addr >= KernelStart
      BY <1>1, <1>3, <1>6, <3>1
    <3>2. CASE n.addr < KernelStart
      <4>1. Holds(n, KernelStart)
        BY <1>1, <1>3, <3>2 DEF Holds
      <4>2. KernelStart < High(2)
        BY <1>3, KernelAssumption
      <4> QED BY <1>3, <4>1, <4>2
    <3> QED BY <1>1, <1>3, <3>1, <3>2
  <2> QED BY <1>2, <1>10, <2>1
<1>14. 2 * ClassSize[n.class] <= High(i)
  <2>1. n.addr # 0
    <3>1. Low(1) <= 0 /\ 0 < High(1)
      BY <1>3
    <3>2. Said(0, RESERVED)
      BY <1>9, <3>1
    <3> QED BY <1>2, <1>6, <3>2
  <2>2. n.addr >= ClassSize[n.class]
    <3> PICK h : h = ClassSize[n.class]
      OBVIOUS
    <3>1. n.addr \in Nat /\ n.addr > 0 /\ h \in Nat /\ h > 0 /\ n.addr % h = 0
      BY <1>1, <2>1 DEF Aligned
    <3>2. n.addr < h => n.addr % h = n.addr
      BY <3>1
    <3> QED BY <3>1, <3>2
  <2> QED BY <1>1, <1>11, <2>2
<1>15. \A a \in Nat : Holds(n, a) => (a < Low(2) \/ High(2) <= a)
  BY <1>2, <1>3, <1>10
<1> QED BY <1>2, <1>7, <1>8, <1>12, <1>13, <1>14, <1>15

\* The block that attach_region() looks up shares no address with allocatable memory.
LEMMA ChunkApart ==
  ASSUME PmapInv, LookupInv, MapInv, stack # <<>>, Top.why = "attach",
         NEW n \in Nodes, tree[n].state = ALLOCATABLE, NEW a \in Nat, Holds(n, a), Holds(Sought(Top), a)
  PROVE  FALSE
<1>1. Top \in FrameType /\ CallOk(Top)
  BY TopIs DEF PmapInv, MapInv, CallsOk
<1> PICK b : b = Sought(Top)
  OBVIOUS
<1>2. b \in BlockType /\ b.addr = start /\ InRegion(b, cur) /\ cur <= Len(regions)
  BY <1>1, SoughtIs DEF CallOk, Chunks
<1>3. /\ cur \in 1..Len(regions) /\ Len(regions) \in Nat /\ DOMAIN regions = 1..Len(regions) /\ b.addr \in Nat /\ EndOf(b) \in Nat
      /\ \A i \in 1..Len(regions) : Low(i) \in Nat /\ High(i) \in Nat
  BY <1>2, RegionIs, BlockEnd DEF PmapInv, TypeInv
<1>4. Said(a, ALLOCATABLE)
  BY DEF MapInv, NodeTrue
<1>5. PICK i \in 1..Len(regions) : /\ regions[i].type = ALLOCATABLE /\ Low(i) <= a /\ a < High(i)
                                   /\ i < cur \/ (i = cur /\ a < start)
  BY <1>4 DEF Said
<1>6. start <= a /\ Low(cur) <= a /\ a < High(cur)
  BY <1>2, <1>3 DEF Holds, InRegion
<1>7. i \in 1..(cur - 1)
  BY <1>2, <1>3, <1>5, <1>6
<1>8. High(i) <= Low(cur) \/ High(cur) <= Low(i)
  BY <1>3, <1>5, <1>7 DEF MapInv, EntriesFit
<1> QED BY <1>3, <1>5, <1>6, <1>8

\* A lookup that splits an allocatable page carves a pool.
LEMMA OnlyPoolsMeetFree ==
  ASSUME PmapInv, LookupInv, MapInv, Fixed, ConstFrames, stack # <<>>, tree[Top.node].state = ALLOCATABLE
  PROVE  Top.why = "pool" /\ Top.type = PARTIAL
<1>1. /\ Top \in FrameType /\ Top = stack[1] /\ 1 \in 1..Len(stack) /\ Top.node \in Nodes /\ Top.node \in BlockType
      /\ FrameAt(Top) /\ (Top.type # PARTIAL => Top.why = "attach")
  BY TopIs DEF PmapInv, LookupInv
<1> PICK b : b = Sought(Top)
  OBVIOUS
<1>2. b \in BlockType /\ b.addr \in Nat /\ Holds(b, b.addr) /\ Holds(Top.node, b.addr)
  <2>1. b \in BlockType /\ Within(b, Top.node)
    BY <1>1, SoughtIs DEF FrameAt
  <2>2. b.addr \in Nat /\ Holds(b, b.addr)
    BY <2>1, BlockEnd DEF Holds
  <2> QED BY <1>1, <2>1, <2>2, WithinHolds
<1>3. Top.why # "attach"
  BY <1>1, <1>2, ChunkApart
<1>4. Top.why # "const"
  <2> SUFFICES ASSUME Top.why = "const" PROVE FALSE
    OBVIOUS
  <2>1. InRegion(b, 2)
    BY <1>1 DEF ConstFrames
  <2>2. b.addr < Low(2) \/ High(2) <= b.addr
    BY <1>1, <1>2, AllocIs
  <2>3. Low(2) \in Nat /\ High(2) \in Nat /\ EndOf(b) \in Nat
    BY <1>2, BlockEnd, KernelRegion DEF PmapInv, Fixed
  <2> QED BY <1>2, <2>1, <2>2, <2>3 DEF InRegion, Holds
<1> QED BY <1>1, <1>3, <1>4 DEF FrameType

\* Nothing that is inside of the block to be retyped is allocatable.
LEMMA RetypedNotFree ==
  ASSUME PmapInv, LookupInv, MapInv, Arrived, Top.type # PARTIAL, NEW n \in Nodes, Within(n, Top.node)
  PROVE  tree[n].state # ALLOCATABLE
<1>1. /\ stack # <<>> /\ Top \in FrameType /\ Top.why = "attach" /\ Top.node = Sought(Top) /\ Top.node \in BlockType
      /\ n \in BlockType
  <2>1. stack # <<>> /\ Top.node.class <= Top.class
    BY DEF Arrived, InLookup
  <2>2. Top \in FrameType /\ Top.why = "attach" /\ Top = stack[1] /\ 1 \in 1..Len(stack) /\ Top.node \in BlockType
    BY <2>1, TopIs DEF PmapInv
  <2>3. FrameAt(Top)
    BY <2>2 DEF LookupInv
  <2> QED BY <2>1, <2>2, <2>3, ArrivedAt DEF PmapInv, TypeInv
<1>2. n.addr \in Nat /\ Holds(n, n.addr) /\ Holds(Top.node, n.addr)
  <2>1. n.addr \in Nat /\ Holds(n, n.addr)
    BY <1>1, BlockEnd DEF Holds
  <2> QED BY <1>1, <2>1, WithinHolds
<1> QED BY <1>1, <1>2, ChunkApart

\* When all that is listed is boot memory, the page a pool is carved out of is the first of its list.
LEMMA FirstPeer ==
  ASSUME Nodes \subseteq BlockType, IsFiniteSet(Nodes), ListsAre(link, Nodes),
         NEW class \in Class, NEW peer \in FindPeer(class),
         \A n \in Nodes : OnList(n) => EndOf(n) < BootMemSize
  PROVE  link[link[peer].prev].next = peer
<1> DEFINE fits(c) == {i \in DOMAIN FreeList(c) : FitsBootMem(FreeList(c)[i], class)}
           classes == {c \in class..(MaxClass - 1) : fits(c) # {}}
           c       == CHOOSE x \in classes : \A y \in classes : x <= y
           i       == CHOOSE x \in fits(c) : \A y \in fits(c) : x <= y
<1>1. FindPeer(class) = IF classes = {} THEN {} ELSE {FreeList(c)[i]}
  BY DEF FindPeer
<1>2. classes # {} /\ peer = FreeList(c)[i]
  <2> HIDE DEF classes, c, i
  <2> QED BY <1>1
<1>3. classes \subseteq ListClass /\ classes \subseteq Nat
  BY PmapClasses DEF Class, ListClass
<1>4. c \in classes
  <2>1. \E x \in classes : \A y \in classes : x <= y
    BY <1>2, <1>3, LeastNatural
  <2> HIDE DEF classes
  <2> QED BY <2>1
<1>5. c \in ListClass /\ fits(c) # {} /\ class <= c
  <2>1. \A x \in classes : x \in ListClass /\ fits(x) # {} /\ class <= x
    BY <1>3, PmapClasses DEF ListClass, Class
  <2> HIDE DEF classes, c
  <2> QED BY <1>4, <2>1
<1> HIDE DEF c
<1>6. PICK s \in Seq(Nodes) : Chain(link, Nodes, c, s) /\ FreeList(c) = s
  BY <1>5, ListedIs
<1>7. \A j \in 1..Len(s) : FitsBootMem(s[j], class)
  <2> SUFFICES ASSUME NEW j \in 1..Len(s) PROVE FitsBootMem(s[j], class)
    OBVIOUS
  <2>1. s[j] \in Nodes /\ s[j].class = c /\ OnList(s[j]) /\ s[j] \in BlockType
    BY <1>6 DEF Chain, OnList
  <2>2. EndOf(s[j]) < BootMemSize /\ s[j].addr \in Nat /\ EndOf(s[j]) \in Nat /\ EndOf(s[j]) = s[j].addr + ClassSize[c]
    BY <2>1, BlockEnd
  <2>3. ClassSize[class] <= ClassSize[c] /\ ClassSize[class] \in Nat /\ ClassSize[c] \in Nat
    <3>1. c \in Class
      BY <1>5, PmapClasses
    <3>2. ClassSize[class] <= ClassSize[c]
      BY <1>5, <3>1, ClassSizes
    <3> QED BY <3>1, <3>2, PmapClasses
  <2>4. BootMemSize \in Nat
    BY DescrAssumption
  <2> QED BY <2>2, <2>3, <2>4 DEF FitsBootMem
<1>8. fits(c) = 1..Len(s) /\ Len(s) \in Nat
  BY <1>6, <1>7
<1>9. i = 1 /\ 1 \in 1..Len(s)
  <2> HIDE DEF fits
  <2>1. 1 \in fits(c) /\ 1 \in 1..Len(s)
    BY <1>5, <1>8
  <2>2. i \in fits(c) /\ \A y \in fits(c) : i <= y
    <3>1. \E x \in fits(c) : \A y \in fits(c) : x <= y
      BY <1>8, <2>1
    <3> QED BY <3>1
  <2> HIDE DEF i
  <2> QED BY <1>8, <2>1, <2>2
<1>10. peer = s[1]
  BY <1>2, <1>6, <1>9
<1>11. s # <<>>
  BY <1>9
<1>12. link[ListHead(c)].next = s[1]
  <2>1. link[ListHead(c)] = [next |-> IF s = <<>> THEN ListHead(c) ELSE s[1], prev |-> ListHead(c)]
    BY <1>6 DEF Chain
  <2> PICK h : h = ListHead(c)
    OBVIOUS
  <2> QED BY <1>11, <2>1
<1>13. link[s[1]].prev = ListHead(c)
  <2>1. link[s[1]] = [next |-> IF 1 = Len(s) THEN ListHead(c) ELSE s[1 + 1], prev |-> ListHead(c)]
    BY <1>6, <1>9 DEF Chain
  <2> PICK h : h = ListHead(c)
    OBVIOUS
  <2> QED BY <2>1
<1> QED BY <1>10, <1>12, <1>13

\* check_physical_tree()'s walk comes to the head before it could meet its first element again.
LEMMA WalkOk ==
  ASSUME Nodes \subseteq BlockType, IsFiniteSet(Nodes), ListsAre(link, Nodes), NEW n \in Nodes, OnList(n)
  PROVE  WalkFrom(n) # "asserts"
<1> DEFINE c == n.class  h == ListHead(c)
<1>1. c \in ListClass
  <2>1. n \in BlockType
    OBVIOUS
  <2>2. c \in Class /\ c # MaxClass
    BY <2>1, BlockEnd DEF ListsAre, OnList
  <2> QED BY <2>2, PmapClasses
<1>2. PICK s \in Seq(Nodes) : Chain(link, Nodes, c, s)
  BY <1>1 DEF ListsAre
<1>3. PICK j \in 1..Len(s) : s[j] = n
  BY <1>2 DEF Chain, OnList
<1> DEFINE bound == Cardinality(Nodes) + 1
           k == Len(s)  m == k + 1
           F(f) == [i \in 0..bound |-> IF i = 0 THEN n ELSE link[f[i - 1]].next]
           w == [i \in 0..bound |-> IF (j + i) % m = 0 THEN h ELSE s[(j + i) % m]]
           walk == CHOOSE f : f = F(f)
<1>4. k \in Nat /\ m \in Nat /\ m > 0 /\ m = k + 1 /\ j \in 1..k /\ j \in Nat /\ j > 0 /\ \A i \in 1..k : s[i] \in Nodes
  BY <1>3
<1>5. bound \in Nat
  BY FS_CardinalityType
<1>6. link[h].next = IF k = 0 THEN h ELSE s[1]
  <2>1. link[h] = [next |-> IF s = <<>> THEN h ELSE s[1], prev |-> h]
    BY <1>2 DEF Chain
  <2>2. s = <<>> <=> k = 0
    BY EmptySeq
  <2> HIDE DEF h
  <2> QED BY <2>1, <2>2
<1>7. ASSUME NEW i \in 1..k PROVE link[s[i]].next = IF i = k THEN h ELSE s[i + 1]
  <2>1. link[s[i]] = [next |-> IF i = k THEN h ELSE s[i + 1], prev |-> h]
    BY <1>2 DEF Chain
  <2> HIDE DEF h
  <2> QED BY <2>1
<1>8. \A i \in 1..k : s[i] # h
  BY <1>1, <1>4, HeadIs
<1>9. \A i \in 1..k : s[i] = n => i = j
  BY <1>2, <1>3 DEF Chain
<1> HIDE DEF c, bound, h, k, m
<1>10. w = F(w)
  <2>1. ASSUME NEW i \in 0..bound PROVE w[i] = IF i = 0 THEN n ELSE link[w[i - 1]].next
    <3>1. CASE i = 0
      <4>1. (j + 0) % m = j /\ j # 0
        BY <1>4
      <4> QED BY <1>3, <2>1, <3>1, <4>1
    <3>2. CASE i # 0
      <4> DEFINE r == (j + (i - 1)) % m  t == (j + i) % m
      <4>1. j + i \in Nat /\ j + i > 0 /\ i - 1 \in 0..bound /\ (j + i) - 1 = j + (i - 1)
        BY <1>4, <1>5, <3>2
      <4>2. t \in 0..k /\ r \in 0..k /\ t = IF r = k THEN 0 ELSE r + 1
        <5>1. m - 1 = k
          BY <1>4
        <5> PICK u : u = j + i
          OBVIOUS
        <5>2. u % m \in 0..(m - 1) /\ (u - 1) % m \in 0..(m - 1)
              /\ u % m = IF (u - 1) % m = m - 1 THEN 0 ELSE ((u - 1) % m) + 1
          BY <1>4, <4>1, NextPlace
        <5> QED BY <4>1, <5>1, <5>2
      <4>3. w[i] = IF t = 0 THEN h ELSE s[t]
        OBVIOUS
      <4>4. w[i - 1] = IF r = 0 THEN h ELSE s[r]
        BY <4>1
      <4> HIDE DEF r, t, w
      <4>5. CASE r = 0
        <5>1. link[w[i - 1]].next = IF k = 0 THEN h ELSE s[1]
          BY <1>6, <4>4, <4>5
        <5>2. k = 0 => t = 0
          BY <4>2, <4>5
        <5>3. k # 0 => t = 1
          BY <1>4, <4>2, <4>5
        <5> QED BY <3>2, <4>3, <5>1, <5>2, <5>3
      <4>6. CASE r # 0
        <5>1. r \in 1..k
          BY <1>4, <4>2, <4>6
        <5>2. link[w[i - 1]].next = IF r = k THEN h ELSE s[r + 1]
          BY <1>7, <4>4, <4>6, <5>1
        <5>3. r = k => t = 0
          BY <4>2
        <5>4. r # k => t = r + 1 /\ t # 0
          BY <1>4, <4>2, <5>1
        <5> QED BY <3>2, <4>3, <5>2, <5>3, <5>4
      <4> QED BY <4>5, <4>6
    <3> QED BY <3>1, <3>2
  <2>2. w = [i \in 0..bound |-> w[i]]
    OBVIOUS
  <2> HIDE DEF w
  <2> QED BY <2>1, <2>2
<1> HIDE DEF w
<1>11. walk = F(walk)
  <2> HIDE DEF F
  <2> QED BY <1>10
<1> HIDE DEF walk
<1>12. walk[0] = n /\ \A i \in 1..bound : walk[i] = link[walk[i - 1]].next
  <2>1. 0 \in 0..bound
    BY <1>5
  <2>2. walk[0] = n
    BY <1>11, <2>1
  <2>3. ASSUME NEW i \in 1..bound PROVE walk[i] = link[walk[i - 1]].next
    <3>1. i \in 0..bound /\ i # 0
      BY <1>5
    <3> QED BY <1>11, <3>1
  <2> QED BY <2>2, <2>3
<1> DEFINE stops == {i \in 1..bound : walk[i] \in {n, h}}
           first == CHOOSE i \in stops : \A x \in stops : i <= x
<1>13. WalkFrom(n) = IF stops = {} THEN "hangs" ELSE IF walk[first] = n THEN "asserts" ELSE "ok"
  BY DEF WalkFrom, walk, h, c, bound
<1>14. ASSUME stops # {} PROVE walk[first] # n
  <2>1. stops \in SUBSET Nat
    OBVIOUS
  <2>2. \E i \in stops : \A x \in stops : i <= x
    <3> HIDE DEF stops
    <3> QED BY <1>14, <2>1, LeastNatural
  <2>3. first \in stops /\ \A x \in stops : first <= x
    <3> HIDE DEF stops
    <3> QED BY <2>2
  <2> HIDE DEF first
  <2>4. first \in 1..bound /\ first \in Nat /\ first >= 1 /\ first - 1 \in Nat
    BY <2>3
  <2>5. \A i \in 1..(first - 1) : walk[i] # h
    <3> SUFFICES ASSUME NEW i \in 1..(first - 1), walk[i] = h PROVE FALSE
      OBVIOUS
    <3>1. i \in 1..bound
      BY <1>5, <2>4
    <3>2. i \in stops
      BY <3>1
    <3> QED BY <2>3, <2>4, <3>2
  <2> HIDE DEF stops
  <2> DEFINE U == {i \in 0..(first - 1) : j + i <= k /\ walk[i] = s[j + i]}
  <2>6. 0 \in U
    BY <1>3, <1>4, <1>12, <2>4
  <2>7. ASSUME NEW i \in 0..((first - 1) - 1), i \in U PROVE i + 1 \in U
    <3>1. i + 1 \in 1..(first - 1) /\ i + 1 \in 1..bound /\ (i + 1) - 1 = i /\ i + 1 \in 0..(first - 1)
      BY <1>5, <2>4, <2>7
    <3>2. j + i \in 1..k /\ walk[i] = s[j + i] /\ j + (i + 1) = (j + i) + 1
      BY <1>4, <2>7
    <3>3. walk[i + 1] = IF j + i = k THEN h ELSE s[(j + i) + 1]
      BY <1>7, <1>12, <3>1, <3>2
    <3>4. j + i # k /\ walk[i + 1] = s[(j + i) + 1]
      BY <2>5, <3>1, <3>3
    <3>5. j + (i + 1) <= k
      BY <1>4, <3>2, <3>4
    <3> QED BY <3>1, <3>2, <3>4, <3>5
  <2> HIDE DEF U
  <2>8. 0..(first - 1) \subseteq U
    BY <2>4, <2>6, <2>7, BoundedInduction
  <2> PICK i : i = first - 1
    OBVIOUS
  <2>9. i \in U /\ i \in Nat /\ first = i + 1
    BY <2>4, <2>8
  <2>10. j + i \in 1..k /\ walk[i] = s[j + i]
    BY <1>4, <2>9 DEF U
  <2>11. walk[first] = IF j + i = k THEN h ELSE s[(j + i) + 1]
    BY <1>7, <1>12, <2>4, <2>10
  <2>12. h # n
    BY <1>3, <1>4, <1>8
  <2>13. j + i # k => (j + i) + 1 \in 1..k /\ (j + i) + 1 # j
    BY <1>4, <2>9, <2>10
  <2> QED BY <1>9, <2>11, <2>12, <2>13
<1> HIDE DEF stops, first
<1> QED BY <1>13, <1>14

\* The assertions of check_physical_tree() hold.
LEMMA ChecksPass == PmapInv /\ MapInv => ~CheckFails
<1> SUFFICES ASSUME PmapInv, MapInv, CheckFails PROVE FALSE
  OBVIOUS
<1>1. Nodes \subseteq BlockType /\ IsFiniteSet(Nodes) /\ ListsAre(link, Nodes) /\ \A n \in Nodes : OnList(n) => WasFree(n)
  BY DEF PmapInv, TypeInv, ListInv
<1>2. PICK n \in Nodes :
        \/ tree[n].state # PARTIAL /\ \E k \in Kids(n) : tree[k].state # tree[n].state
        \/ tree[n].refc > 0 /\ link[n].next # n
        \/ tree[n].refc = 0 /\ link[n].next # n /\ WalkFrom(n) = "asserts"
  BY DEF CheckFails
<1>3. link[n].next # n => OnList(n)
  BY DEF OnList, Self
<1>4. ~(tree[n].state # PARTIAL /\ \E k \in Kids(n) : tree[k].state # tree[n].state)
  BY DEF MapInv, Uniform
<1>5. OnList(n) => tree[n].refc = 0
  BY <1>1 DEF WasFree, PageIsFree
<1>6. OnList(n) => WalkFrom(n) # "asserts"
  BY <1>1, WalkOk
<1> QED BY <1>2, <1>3, <1>4, <1>5, <1>6

\* list_del() is applied to the first element of a list or to one that is on none.
LEMMA CleanFirst == PmapInv /\ LookupInv /\ MapInv /\ CleanInv => OnlyFirstTaken
<1> SUFFICES ASSUME PmapInv, LookupInv, MapInv, CleanInv, NEW n \in Taken
             PROVE  link[link[n].prev].next = n
  BY DEF OnlyFirstTaken
<1>1. /\ Fixed /\ ConstFrames /\ CarveInv /\ RefsInv
      /\ Nodes \subseteq BlockType /\ IsFiniteSet(Nodes) /\ ListsAre(link, Nodes) /\ n \in Nodes
      /\ \A x \in Nodes : OnList(x) => WasFree(x)
  BY DEF CleanInv, PmapInv, TypeInv, ListInv, Taken
<1>2. ~OnList(n) => link[link[n].prev].next = n
  BY DEF OnList, Self
<1>3. CASE refs # <<>> /\ n = Head(refs)
  <2>1. refs \in Seq(Nodes)
    BY DEF PmapInv, FrameInv
  <2>2. 1 \in 1..Len(refs) /\ n = refs[1]
    BY <1>3, <2>1
  <2>3. ~OnList(n)
    BY <1>1, <2>2 DEF RefsInv, RefOk
  <2> QED BY <1>2, <2>3
<1>4. CASE Retyping /\ n = (IF Below(Top.node) = {} THEN Top.node ELSE NextFreed(Top.node))
  <2>1. Arrived /\ Top.type # PARTIAL /\ Top.node \in Nodes /\ Top.node \in BlockType
    BY <1>4, RetypingIs DEF PmapInv, Retyping
  <2>2. Within(n, Top.node)
    <3>1. CASE Below(Top.node) = {}
      <4>1. n = Top.node /\ n.addr \in Nat /\ EndOf(n) \in Nat
        BY <1>4, <2>1, <3>1, BlockEnd
      <4> QED BY <4>1 DEF Within
    <3>2. CASE Below(Top.node) # {}
      BY <1>1, <1>4, <2>1, <3>2, NextFreedIs DEF Below
    <3> QED BY <3>1, <3>2
  <2>3. tree[n].state # ALLOCATABLE
    BY <1>1, <2>1, <2>2, RetypedNotFree
  <2>4. ~OnList(n)
    BY <1>1, <2>3 DEF WasFree
  <2> QED BY <1>2, <2>4
<1>5. CASE n \in FindPeer(PoolClass)
  <2>1. \A x \in Nodes : OnList(x) => EndOf(x) < BootMemSize
    BY <1>1, AllocIs DEF WasFree
  <2>2. PoolClass \in Class
    BY PmapClasses
  <2> QED BY <1>1, <1>5, <2>1, <2>2, FirstPeer
<1>6. CASE Descending /\ WasFree(Top.node) /\ n = Top.node
  <2>1. stack # <<>> /\ tree[Top.node].state = ALLOCATABLE
    BY <1>6 DEF Descending, InLookup, WasFree
  <2>2. Top.why = "pool"
    BY <1>1, <2>1, OnlyPoolsMeetFree
  <2>3. ~OnList(n)
    BY <1>1, <1>6, <2>1, <2>2 DEF CarveInv
  <2> QED BY <1>2, <2>3
<1> QED BY <1>3, <1>4, <1>5, <1>6 DEF Taken

LEMMA SamePeers ==
  ASSUME tree' = tree, link' = link
  PROVE  FindPeer(PoolClass)' = {} <=> FindPeer(PoolClass) = {}
<1> DEFINE fits(c) == {i \in DOMAIN FreeList(c) : FitsBootMem(FreeList(c)[i], PoolClass)}
           classes == {c \in PoolClass..(MaxClass - 1) : fits(c) # {}}
           c       == CHOOSE x \in classes : \A y \in classes : x <= y
           i       == CHOOSE x \in fits(c) : \A y \in fits(c) : x <= y
<1>1. FindPeer(PoolClass) = IF classes = {} THEN {} ELSE {FreeList(c)[i]}
  BY DEF FindPeer
<1>2. FindPeer(PoolClass)' = IF classes' = {} THEN {} ELSE {FreeList(c)[i]}'
  BY DEF FindPeer
<1>3. \A k : FreeList(k)' = FreeList(k)
  <2> SUFFICES ASSUME NEW k PROVE FreeList(k)' = FreeList(k)
    OBVIOUS
  <2> PICK b : b = Cardinality({n \in Nodes : n.class = k}) + 1
    OBVIOUS
  <2>1. b = Cardinality({n \in Nodes : n.class = k}') + 1
    BY DEF Nodes
  <2> QED BY <2>1, SMTT(60) DEF FreeList, Nodes
<1>4. \A k : fits(k)' = fits(k)
  BY <1>3 DEF FitsBootMem
<1>5. classes' = classes
  <2> HIDE DEF fits
  <2> QED BY <1>4
<1>6. classes = {} <=> FindPeer(PoolClass) = {}
  <2> HIDE DEF classes
  <2> QED BY <1>1
<1>7. classes' = {} <=> FindPeer(PoolClass)' = {}
  <2> HIDE DEF classes
  <2> QED BY <1>2
<1> QED BY <1>5, <1>6, <1>7

LEMMA RegionsFixed ==
  ASSUME regions' = regions
  PROVE  /\ \A i : Low(i)' = Low(i) /\ High(i)' = High(i)
         /\ \A b, i : InRegion(b, i)' <=> InRegion(b, i)
         /\ Fixed => Fixed'
<1>1. \A i : Low(i)' = Low(i) /\ High(i)' = High(i)
  BY DEF Low, High
<1>2. \A b, i : InRegion(b, i)' <=> InRegion(b, i)
  BY <1>1 DEF InRegion
<1>3. (BootMemoryOnly => BootMemoryOnly') /\ (PoolsSuffice => PoolsSuffice') /\ (KernelFirst => KernelFirst')
  BY <1>1 DEF BootMemoryOnly, PoolsSuffice, KernelFirst
<1> QED BY <1>1, <1>2, <1>3 DEF Fixed

\* A step that only changes the calls under way, and goes on.
LEMMA CleanQuiet ==
  ASSUME PmapInv, CleanInv, tree' = tree, link' = link, regions' = regions, descr' = descr, pools' = pools,
         cur' = cur \/ (cur \in Nat /\ cur' = cur + 1), ConstsInKernel', ConstFrames', CarveInv', RefsInv', PoolPays', PooledPays',
         ~panicked'
  PROVE  CleanInv'
<1>1. Fixed'
  BY RegionsFixed DEF CleanInv
<1>2. Nodes' = Nodes /\ \A n : Kids(n)' = Kids(n)
  BY DEF Nodes, Kids
<1>3. RefsFree'
  <2>1. cur' <= Len(regions') => cur <= Len(regions)
    BY RegionIs DEF PmapInv, TypeInv
  <2> QED BY <1>2, <2>1 DEF CleanInv, RefsFree
<1>4. PoolsLeaf'
  BY <1>2 DEF CleanInv, PoolsLeaf
<1>5. DescrInv'
  BY DEF CleanInv, DescrInv
<1>6. PanicsOnlyOutOfMemory'
  BY DEF PanicsOnlyOutOfMemory
<1> QED BY <1>1, <1>3, <1>4, <1>5, <1>6 DEF CleanInv

\* Nothing changed but that an assertion may have failed.
LEMMA CleanSame ==
  ASSUME CleanInv, PanicsOnlyOutOfMemory',
         tree' = tree, link' = link, regions' = regions, descr' = descr, pools' = pools, cur' = cur,
         consts' = consts, stack' = stack, refs' = refs
  PROVE  CleanInv'
<1>1. Fixed' /\ (\A i : Low(i)' = Low(i) /\ High(i)' = High(i)) /\ (\A b, i : InRegion(b, i)' <=> InRegion(b, i))
  BY RegionsFixed DEF CleanInv
<1>2. Nodes' = Nodes /\ (\A n : Kids(n)' = Kids(n)) /\ (\A n : OnList(n)' <=> OnList(n)) /\ Top' = Top
  BY DEF Nodes, Kids, OnList, Top
<1>3. ConstsInKernel' /\ RefsFree' /\ PoolsLeaf'
  BY <1>2 DEF CleanInv, ConstsInKernel, RefsFree, PoolsLeaf
<1>4. ConstFrames'
  BY <1>1 DEF CleanInv, ConstFrames, Sought
<1>5. CarveInv'
  BY <1>2 DEF CleanInv, CarveInv
<1>6. RefsInv'
  BY <1>1, <1>2 DEF CleanInv, RefsInv, RefOk
<1>7. PoolPays' /\ PooledPays'
  BY <1>1, <1>2 DEF CleanInv, DescrInv, PoolPays, PooledPays, DescrNeeded
<1>8. DescrInv'
  BY <1>7 DEF CleanInv, DescrInv
<1> QED BY <1>1, <1>3, <1>4, <1>5, <1>6, <1>8 DEF CleanInv

LEMMA CleanStutter == ASSUME CleanInv, UNCHANGED vars PROVE CleanInv'
<1>1. /\ tree' = tree /\ link' = link /\ regions' = regions /\ descr' = descr /\ pools' = pools /\ cur' = cur
      /\ consts' = consts /\ stack' = stack /\ refs' = refs /\ panicked' = panicked
  BY DEF vars
<1>2. (FindPeer(PoolClass)' = {} <=> FindPeer(PoolClass) = {}) /\ Top' = Top
  BY <1>1, SamePeers DEF Top
<1>3. AllocatingPool' <=> AllocatingPool
  BY <1>1 DEF AllocatingPool
<1>4. PanicsOnlyOutOfMemory'
  BY <1>1, <1>2, <1>3 DEF CleanInv, PanicsOnlyOutOfMemory, DescrNeeded
<1> QED BY <1>1, <1>4, CleanSame

LEMMA EnoughIs ==
  ASSUME NEW c \in Nat, NEW k \in Nat, NEW p \in Nat, NEW m \in Nat, NEW d \in Nat, NEW e \in Nat
  PROVE  /\ d + 2 * (c - k) >= e + 2 /\ e + 2 >= 2 * (c - p) + 2 * (m + 1) => d >= 2 * (k - p) + 2 * (m + 1)
         /\ p <= k /\ c <= m /\ d >= 2 * (k - p) + 2 * (m + 1) => d >= (c - e + 1) * 2
OBVIOUS

\* The pool that is being carved out leaves enough for any lookup.
LEMMA PoolIsEnough ==
  ASSUME PmapInv, PoolInv, Fixed, DescrInv, stack # <<>>, Top.why = "pool"
  PROVE  /\ Top.class = PoolClass /\ PoolClass <= Top.node.class /\ descr \in Nat
         /\ Top.node.class \in Nat /\ PoolClass \in Nat /\ MaxClass \in Nat
         /\ descr >= 2 * (Top.node.class - PoolClass) + 2 * (MaxClass + 1)
<1>1. PICK c \in PoolClass..MaxClass :
        /\ \E i \in 1..Len(regions) : regions[i].type = ALLOCATABLE /\ 2 * ClassSize[c] <= High(i)
        /\ Top.node.class <= c /\ descr + 2 * (c - Top.node.class) >= PoolEntries + 2
  BY DEF DescrInv, PoolPays
<1>2. PICK i \in 1..Len(regions) : regions[i].type = ALLOCATABLE /\ 2 * ClassSize[c] <= High(i)
  BY <1>1
<1>3. PoolEntries + 2 >= 2 * (c - PoolClass) + 2 * (MaxClass + 1)
  <2>1. i \in DOMAIN regions
    BY <1>2, RegionIs DEF PmapInv
  <2> QED BY <1>1, <1>2, <2>1 DEF Fixed, PoolsSuffice
<1>4. Top.class = PoolClass /\ PoolClass <= Top.node.class /\ descr \in Nat
  BY DEF PoolInv, CarvedFrame
<1>5. Top.node.class \in Nat /\ PoolClass \in Nat /\ MaxClass \in Nat /\ PoolEntries \in Nat
  <2>1. Top.node.class \in Class
    BY TopIs, BlockEnd DEF PmapInv
  <2>2. PoolClass \in Nat /\ MaxClass \in Nat /\ Top.node.class \in Nat
    BY <2>1, PmapClasses
  <2>3. PoolEntries \in Nat
    BY DescrAssumption
  <2> QED BY <2>2, <2>3
<1> PICK k : k = Top.node.class
  OBVIOUS
<1>6. c \in Nat /\ k \in Nat /\ k <= c /\ descr + 2 * (c - k) >= PoolEntries + 2
  BY <1>1, <1>5
<1>7. descr >= 2 * (k - PoolClass) + 2 * (MaxClass + 1)
  <2>1. k \in Nat
    BY <1>5
  <2> QED BY <1>3, <1>4, <1>5, <1>6, <2>1, EnoughIs
<1> QED BY <1>4, <1>5, <1>7

LEMMA CleanPanic ==
  ASSUME PmapInv, LookupInv, PoolInv, MapInv, CleanInv, Panic
  PROVE  CleanInv'
<1>1. /\ tree' = tree /\ link' = link /\ regions' = regions /\ descr' = descr /\ pools' = pools /\ cur' = cur
      /\ consts' = consts /\ stack' = stack /\ refs' = refs
  BY DEF Panic
<1>2. Fixed /\ ConstFrames /\ CarveInv /\ RefsFree /\ DescrInv
  BY DEF CleanInv
<1>3. ~RetypeFails
  <2> SUFFICES ASSUME RetypeFails PROVE FALSE
    OBVIOUS
  <2>1. Arrived /\ Top.type # PARTIAL /\ stack # <<>>
    BY DEF RetypeFails, Arrived, InLookup
  <2>2. /\ Top.node \in Nodes /\ Top.node \in BlockType /\ Top = stack[1] /\ 1 \in 1..Len(stack) /\ Top.why = "attach"
        /\ Nodes \subseteq BlockType
    BY <2>1, TopIs DEF PmapInv, TypeInv
  <2>3. cur <= Len(regions)
    BY <2>2 DEF MapInv, CallsOk, CallOk
  <2>4. PICK n \in Nodes : Within(n, Top.node) /\ tree[n].refc > 0
    <3>1. CASE tree[Top.node].refc > 0
      <4>1. Within(Top.node, Top.node)
        <5>1. Top.node.addr \in Nat /\ EndOf(Top.node) \in Nat
          BY <2>2, BlockEnd
        <5> QED BY <5>1 DEF Within
      <4> QED BY <2>2, <3>1, <4>1
    <3>2. CASE Below(Top.node) # {} /\ tree[NextFreed(Top.node)].refc > 0
      BY <2>2, <3>2, NextFreedIs DEF Below
    <3> QED BY <3>1, <3>2 DEF RetypeFails
  <2>5. tree[n].state = ALLOCATABLE
    BY <1>2, <2>3, <2>4 DEF RefsFree
  <2> QED BY <2>1, <2>4, <2>5, RetypedNotFree
<1>4. ~AllocFails
  <2> SUFFICES ASSUME AllocFails PROVE FALSE
    OBVIOUS
  <2>1. stack # <<>> /\ Top.why = "pool" /\ (tree[Top.node].refc > 0 \/ ~OffKernel(Top.node))
    BY DEF AllocFails, Arrived, InLookup
  <2>2. tree[Top.node].state = ALLOCATABLE /\ tree[Top.node].refc = 0 /\ Top.node \in Nodes
    BY <1>2, <2>1, TopIs DEF CarveInv, PmapInv
  <2>3. OffKernel(Top.node)
    BY <1>2, <2>2, AllocIs
  <2> QED BY <2>1, <2>2, <2>3
<1>5. ~CheckFails
  BY ChecksPass
<1>6. EnsureFails
  BY <1>3, <1>4, <1>5 DEF Panic
<1>7. /\ stack # <<>> /\ Top.node.class > Top.class /\ descr < DescrNeeded(Top)
      /\ Top.pooled \/ AllocatingPool \/ FindPeer(PoolClass) = {}
  BY <1>6 DEF EnsureFails, Descending, InLookup
<1>8. descr \in Nat /\ DescrNeeded(Top) \in Int
  <2>1. Top.node.class \in Nat /\ Top.class \in Nat
    BY <1>7, TopIs, BlockEnd, PmapClasses DEF PmapInv
  <2> QED BY <1>2, <2>1 DEF DescrInv, DescrNeeded
<1>9. Top.why # "pool"
  <2> SUFFICES ASSUME Top.why = "pool" PROVE FALSE
    OBVIOUS
  <2> QED BY <1>2, <1>7, PoolIsEnough DEF DescrNeeded
<1>10. ~AllocatingPool
  <2> SUFFICES ASSUME NEW i \in DOMAIN stack, stack[i].why = "pool" PROVE FALSE
    BY DEF AllocatingPool
  <2>1. i = 1 /\ Top = stack[1]
    <3>1. i \in 1..Len(stack)
      BY DEF PmapInv, TypeInv
    <3> QED BY <1>7, <3>1, TopIs DEF PoolInv, PoolsOnTop, PmapInv
  <2> QED BY <1>9, <2>1
<1>11. ~Top.pooled
  BY <1>2, <1>7, <1>8, <1>9 DEF DescrInv, PooledPays
<1>12. (FindPeer(PoolClass)' = {} <=> FindPeer(PoolClass) = {}) /\ Top' = Top /\ (AllocatingPool' <=> AllocatingPool)
  BY <1>1, SamePeers DEF Top, AllocatingPool
<1>13. PanicsOnlyOutOfMemory'
  BY <1>1, <1>7, <1>10, <1>11, <1>12 DEF PanicsOnlyOutOfMemory, DescrNeeded
<1> QED BY <1>1, <1>13, CleanSame

LEMMA CleanCall ==
  ASSUME PmapInv, CleanInv, Idle, NEW f, stack' = <<f>>, f.why # "pool", f.pooled = FALSE,
         f.why = "const" => InRegion(Sought(f), 2),
         UNCHANGED <<tree, link, regions, descr, pools, cur, consts, refs, panicked>>
  PROVE  CleanInv'
<1>1. Len(stack') = 1 /\ stack'[1] = f /\ Top' = f /\ stack' # <<>>
  BY DEF Top
<1>2. ConstsInKernel'
  BY DEF CleanInv, ConstsInKernel
<1>3. ConstFrames'
  <2>1. \A b, i : InRegion(b, i)' <=> InRegion(b, i)
    BY RegionsFixed
  <2>2. \A i \in 1..Len(stack') : stack'[i] = f
    BY <1>1
  <2> QED BY <2>1, <2>2 DEF ConstFrames, Sought
<1>4. CarveInv' /\ PoolPays' /\ PooledPays'
  BY <1>1 DEF CarveInv, PoolPays, PooledPays
<1>5. RefsInv' /\ ~panicked'
  BY DEF Idle, RefsInv
<1> QED BY <1>2, <1>3, <1>4, <1>5, CleanQuiet

LEMMA CleanAttachRegion == ASSUME PmapInv, CleanInv, AttachRegion PROVE CleanInv'
<1>1. PICK c \in Class : stack' = <<Frame(Root, c, start, regions[cur].type, "attach")>>
  BY DEF AttachRegion
<1> PICK f : f = Frame(Root, c, start, regions[cur].type, "attach")
  OBVIOUS
<1>2. f.why = "attach" /\ f.pooled = FALSE /\ stack' = <<f>>
  BY <1>1 DEF Frame
<1>3. Idle /\ UNCHANGED <<tree, link, regions, descr, pools, cur, consts, refs, panicked>>
  BY DEF AttachRegion, Attaching
<1> QED BY <1>2, <1>3, CleanCall

LEMMA CleanLookupConstPage == ASSUME PmapInv, CleanInv, LookupConstPage PROVE CleanInv'
<1> PICK f : f = Frame(Root, ConstClass, Head(consts), PARTIAL, "const")
  OBVIOUS
<1>1. f.why = "const" /\ f.pooled = FALSE /\ stack' = <<f>> /\ Sought(f) = Block(ConstClass, Head(consts))
  BY DEF Frame, LookupConstPage, Sought
<1>2. Idle /\ consts # <<>> /\ UNCHANGED <<tree, link, regions, descr, pools, cur, consts, refs, panicked>>
  BY DEF LookupConstPage, Attached
<1>3. Head(consts) = consts[1] /\ consts[1] \in Nat /\ 1 \in 1..Len(consts)
  BY <1>2 DEF PmapInv, TypeInv
<1>4. KernelStart <= consts[1] /\ consts[1] + ClassSize[ConstClass] <= RoundUp(KernelEnd)
  BY <1>3 DEF CleanInv, ConstsInKernel
<1>5. Low(2) <= KernelStart /\ High(2) = RoundUp(KernelEnd) /\ Low(2) \in Nat /\ KernelStart \in Nat
  BY KernelRegion DEF PmapInv, CleanInv, Fixed
<1>6. InRegion(Sought(f), 2)
  BY <1>1, <1>3, <1>4, <1>5 DEF InRegion, Block, EndOf
<1> QED BY <1>1, <1>2, <1>6, CleanCall

LEMMA CleanNextRegion == ASSUME PmapInv, CleanInv, NextRegion PROVE CleanInv'
<1>1. /\ Idle /\ cur' = cur + 1 /\ cur \in Nat
      /\ UNCHANGED <<tree, link, descr, pools, regions, consts, stack, refs, panicked>>
  BY DEF NextRegion, Attaching, PmapInv, TypeInv
<1>2. stack' = <<>> /\ Len(stack') = 0 /\ refs' = <<>> /\ ~panicked'
  BY <1>1 DEF Idle
<1>3. ConstsInKernel'
  BY <1>1 DEF CleanInv, ConstsInKernel
<1>4. ConstFrames' /\ CarveInv' /\ PoolPays' /\ PooledPays' /\ RefsInv'
  BY <1>2 DEF ConstFrames, CarveInv, PoolPays, PooledPays, RefsInv
<1> QED BY <1>1, <1>2, <1>3, <1>4, CleanQuiet

LEMMA CleanAllocPool == ASSUME PmapInv, LookupInv, PoolInv, MapInv, CleanInv, AllocPool PROVE CleanInv'
<1>1. /\ stack # <<>> /\ Top.why = "pool" /\ ~panicked /\ stack' = Tail(stack) /\ refs' = <<Top.node>>
      /\ UNCHANGED <<tree, link, descr, pools, regions, cur, consts, panicked>>
  BY DEF AllocPool, Arrived, InLookup
<1>11. Fixed /\ DescrInv
  BY DEF CleanInv
<1>10. /\ PoolClass <= Top.node.class /\ descr \in Nat /\ Top.node.class \in Nat /\ PoolClass \in Nat
      /\ descr >= 2 * (Top.node.class - PoolClass) + 2 * (MaxClass + 1)
  <2>1. stack # <<>> /\ Top.why = "pool"
    BY <1>1
  <2> HIDE <1>1
  <2> QED BY <1>11, <2>1, PoolIsEnough
<1>2. /\ stack \in Seq(FrameType) /\ Tail(stack) \in Seq(FrameType) /\ Top.node \in Nodes
      /\ Len(stack) \in Nat /\ \A i \in 1..Len(stack') : i + 1 \in 1..Len(stack) /\ i + 1 # 1 /\ stack'[i] = stack[i + 1]
  <2>1. stack \in Seq(FrameType) /\ Top.node \in Nodes
    BY <1>1, TopIs DEF PmapInv, TypeInv
  <2> QED BY <1>1, <2>1, RestOf
<1>3. stack' # <<>> => Top' = stack'[1] /\ 1 \in 1..Len(stack')
  BY <1>1, <1>2 DEF Top
<1>4. stack' # <<>> => Top'.why # "pool" /\ Top' \in FrameType
  <2> SUFFICES ASSUME stack' # <<>> PROVE Top'.why # "pool" /\ Top' \in FrameType
    OBVIOUS
  <2>1. Top' = stack[1 + 1] /\ 1 + 1 \in 1..Len(stack) /\ 1 + 1 # 1
    BY <1>2, <1>3
  <2>2. stack[1 + 1].why # "pool"
    BY <2>1 DEF PoolInv, PoolsOnTop
  <2> QED BY <1>2, <2>1, <2>2
<1>5. ConstsInKernel'
  BY <1>1 DEF CleanInv, ConstsInKernel
<1>6. ConstFrames'
  <2>1. \A b, i : InRegion(b, i)' <=> InRegion(b, i)
    BY <1>1, RegionsFixed
  <2> QED BY <1>2, <2>1 DEF CleanInv, ConstFrames, Sought
<1>7. CarveInv' /\ PoolPays'
  BY <1>4 DEF CarveInv, PoolPays
<1>8. PooledPays'
  <2> SUFFICES ASSUME stack' # <<>> PROVE descr' >= DescrNeeded(Top')
    BY DEF PooledPays, DescrNeeded
  <2> PICK f : f = Top'
    OBVIOUS
  <2>1. f.node.class \in Class /\ f.class \in Class
    <3>1. f.node \in BlockType /\ f.class \in Class
      BY <1>4 DEF FrameType
    <3> QED BY <3>1, BlockEnd
  <2>2. f.node.class \in Nat /\ f.class \in Nat /\ f.node.class <= MaxClass /\ MaxClass \in Nat
    BY <2>1, PmapClasses DEF Class
  <2>3. descr >= (f.node.class - f.class + 1) * 2
    BY <1>10, <2>2, EnoughIs
  <2> QED BY <1>1, <2>3 DEF DescrNeeded
<1>9. RefsInv'
  <2>1. tree[Top.node].state = ALLOCATABLE /\ ~OnList(Top.node) /\ Kids(Top.node) = {}
    BY <1>1 DEF CleanInv, CarveInv, PoolInv, CarvedFrame
  <2>2. Len(refs') = 1 /\ refs'[1] = Top.node
    BY <1>1
  <2> PICK n : n = Top.node
    OBVIOUS
  <2>3. RefOk(n)'
    BY <1>1, <2>1 DEF RefOk, OnList, Kids, Nodes
  <2>4. \A i \in 1..Len(refs') : refs'[i] = n
    BY <2>2
  <2> QED BY <2>3, <2>4 DEF RefsInv, RefOk, OnList, Kids, InRegion, EndOf
<1> QED BY <1>1, <1>5, <1>6, <1>7, <1>8, <1>9, CleanQuiet

\* A node inside of the kernel is on no list.
LEMMA KernelNotListed ==
  ASSUME PmapInv, MapInv, Fixed, NEW n \in Nodes, InRegion(n, 2)
  PROVE  ~OnList(n)
<1>1. n.addr \in Nat /\ EndOf(n) \in Nat /\ Holds(n, n.addr)
  BY BlockEnd DEF PmapInv, TypeInv, Holds
<1>2. Low(2) \in Nat /\ High(2) \in Nat
  BY KernelRegion DEF PmapInv, Fixed
<1>3. ASSUME tree[n].state = ALLOCATABLE PROVE FALSE
  <2>1. n.addr < Low(2) \/ High(2) <= n.addr
    BY <1>1, <1>3, AllocIs
  <2> QED BY <1>1, <1>2, <2>1 DEF InRegion, Holds
<1> QED BY <1>3 DEF PmapInv, ListInv, WasFree

LEMMA CleanRefConstPage == ASSUME PmapInv, LookupInv, MapInv, CleanInv, RefConstPage PROVE CleanInv'
<1>1. /\ stack # <<>> /\ Top.why = "const" /\ ~panicked /\ stack' = Tail(stack) /\ refs' = <<Top.node>>
      /\ Top.node.class <= Top.class /\ consts' = Tail(consts)
      /\ UNCHANGED <<tree, link, descr, pools, regions, cur, panicked>>
  BY DEF RefConstPage, Arrived, InLookup
<1>2. /\ Top \in FrameType /\ Top = stack[1] /\ 1 \in 1..Len(stack) /\ Len(stack) = 1 /\ Top.node \in Nodes
      /\ stack \in Seq(FrameType)
  BY <1>1, TopIs DEF PmapInv, TypeInv
<1>3. stack' = <<>> /\ Len(stack') = 0
  BY <1>1, <1>2
<1>4. Top.node = Sought(Top) /\ cur > Len(regions) /\ InRegion(Top.node, 2)
  <2>1. FrameAt(Top) /\ CallOk(Top) /\ InRegion(Sought(Top), 2)
    BY <1>1, <1>2 DEF LookupInv, MapInv, CallsOk, CleanInv, ConstFrames
  <2>2. Top.node = Sought(Top)
    BY <1>1, <1>2, <2>1, ArrivedAt
  <2> QED BY <1>1, <2>1, <2>2 DEF CallOk
<1>5. ConstsInKernel'
  <2>1. consts \in Seq(Nat)
    BY DEF PmapInv, TypeInv
  <2>2. consts # <<>>
    BY <1>1, <1>2 DEF PmapInv, FrameInv, FramesOk
  <2>3. \A i \in 1..Len(consts') : i + 1 \in 1..Len(consts) /\ consts'[i] = consts[i + 1]
    BY <1>1, <2>1, <2>2
  <2> QED BY <2>3 DEF CleanInv, ConstsInKernel
<1>6. ConstFrames' /\ CarveInv' /\ PoolPays' /\ PooledPays'
  BY <1>3 DEF ConstFrames, CarveInv, PoolPays, PooledPays
<1>7. RefsInv'
  <2> PICK n : n = Top.node
    OBVIOUS
  <2>1. ~OnList(n)
    BY <1>2, <1>4, KernelNotListed DEF CleanInv
  <2>2. InRegion(n, 2)'
    BY <1>1, <1>4, RegionsFixed
  <2>3. RefOk(n)'
    BY <1>1, <1>4, <2>1, <2>2 DEF RefOk, OnList
  <2>4. \A i \in 1..Len(refs') : refs'[i] = n
    BY <1>1
  <2> QED BY <2>3, <2>4 DEF RefsInv, RefOk, OnList, Kids, InRegion, EndOf
<1> QED BY <1>1, <1>5, <1>6, <1>7, CleanQuiet

LEMMA CleanFreeDescRec == ASSUME PmapInv, LookupInv, MapInv, CleanInv, FreeDescRec PROVE CleanInv'
<1> PICK m : m = NextFreed(Top.node)
  OBVIOUS
<1>1. /\ Retyping /\ Below(Top.node) # {} /\ tree' = [x \in Nodes \ {m} |-> tree[x]] /\ descr' = descr + 1
      /\ regions' = regions /\ cur' = cur /\ pools' = pools /\ consts' = consts
      /\ stack' = stack /\ refs' = refs /\ panicked' = panicked
  BY DEF FreeDescRec
<1>2. ~panicked /\ refs = <<>> /\ stack # <<>> /\ Top.why = "attach"
  BY <1>1, RetypingIs, TopIs DEF PmapInv
<1>3. Nodes' = Nodes \ {m} /\ (\A x \in Nodes' : tree'[x] = tree[x]) /\ Nodes' \subseteq Nodes
  BY <1>1 DEF Nodes
<1>4. \A x : Kids(x)' \subseteq Kids(x)
  BY <1>3 DEF Kids
<1>5. Fixed' /\ \A b, i : InRegion(b, i)' <=> InRegion(b, i)
  BY <1>1, RegionsFixed DEF CleanInv
<1>6. ConstsInKernel' /\ ConstFrames'
  BY <1>1, <1>5 DEF CleanInv, ConstsInKernel, ConstFrames, Sought
<1>7. RefsFree'
  BY <1>1, <1>3 DEF CleanInv, RefsFree
<1>8. PoolsLeaf'
  <2> SUFFICES ASSUME NEW q \in pools, q \in Nodes' PROVE tree'[q].state = ALLOCATABLE /\ Kids(q)' = {}
    BY <1>1 DEF PoolsLeaf
  <2>1. tree[q].state = ALLOCATABLE /\ Kids(q) = {}
    BY <1>3 DEF CleanInv, PoolsLeaf
  <2> QED BY <1>3, <1>4, <2>1
<1>9. Top' = Top
  BY <1>1 DEF Top
<1>10. CarveInv' /\ RefsInv' /\ PoolPays'
  BY <1>1, <1>2, <1>9 DEF CarveInv, RefsInv, PoolPays
<1>11. DescrInv'
  <2>1. descr \in Nat /\ descr >= 2 /\ (Top.pooled => descr >= DescrNeeded(Top))
    BY <1>2 DEF CleanInv, DescrInv, PooledPays
  <2>2. DescrNeeded(Top) \in Int
    <3>1. Top.node.class \in Nat /\ Top.class \in Nat
      BY <1>2, TopIs, BlockEnd, PmapClasses DEF PmapInv
    <3> QED BY <3>1 DEF DescrNeeded
  <2>3. descr' \in Nat /\ descr' >= 2 /\ (Top.pooled => descr' >= DescrNeeded(Top))
    BY <1>1, <2>1, <2>2
  <2> QED BY <1>9, <1>10, <2>3 DEF DescrInv, PooledPays, DescrNeeded
<1>12. PanicsOnlyOutOfMemory'
  BY <1>1, <1>2 DEF PanicsOnlyOutOfMemory
<1> QED BY <1>5, <1>6, <1>7, <1>8, <1>10, <1>11, <1>12 DEF CleanInv

LEMMA CleanAttach == ASSUME PmapInv, LookupInv, MapInv, CleanInv, Attach PROVE CleanInv'
<1> PICK n : n = Top.node
  OBVIOUS
<1> PICK t : t = NewType(n, Top.type)
  OBVIOUS
<1>1. /\ Retyping /\ Below(n) = {} /\ tree' = [tree EXCEPT ![n].state = t] /\ stack' = Tail(stack)
      /\ regions' = regions /\ cur' = cur /\ pools' = pools /\ consts' = consts
      /\ refs' = refs /\ panicked' = panicked /\ descr' = descr
  BY DEF Attach
<1>2. ~panicked /\ refs = <<>> /\ n \in Nodes /\ n \in BlockType /\ tree[n].refc = 0 /\ Len(stack) = 1 /\ Top.type # PARTIAL /\ Arrived
  BY <1>1, RetypingIs DEF PmapInv, Retyping
<1>3. stack' = <<>> /\ Len(stack') = 0
  <2>1. stack \in Seq(FrameType)
    BY DEF PmapInv, TypeInv
  <2> QED BY <1>1, <1>2, <2>1
<1>4. Nodes' = Nodes /\ (\A x : Kids(x)' = Kids(x)) /\ \A x \in Nodes : tree'[x].refc = tree[x].refc /\ (x # n => tree'[x] = tree[x])
  <2>1. tree \in [Nodes -> [state : PageState, refc : Nat]]
    BY DEF PmapInv, TypeInv
  <2> PICK r : r = [tree[n] EXCEPT !.state = t]
    OBVIOUS
  <2>2. r.refc = tree[n].refc
    BY <1>2, <2>1
  <2>3. tree' = [tree EXCEPT ![n] = r]
    BY <1>1
  <2>4. DOMAIN tree' = DOMAIN tree /\ tree'[n] = r /\ \A x \in Nodes : x # n => tree'[x] = tree[x]
    BY <1>2, <2>1, <2>3
  <2> QED BY <2>2, <2>4 DEF Nodes, Kids
<1>5. Fixed' /\ \A b, i : InRegion(b, i)' <=> InRegion(b, i)
  BY <1>1, RegionsFixed DEF CleanInv
<1>6. ConstsInKernel' /\ ConstFrames'
  BY <1>1, <1>3 DEF CleanInv, ConstsInKernel, ConstFrames
<1>7. RefsFree'
  <2> SUFFICES ASSUME cur <= Len(regions), NEW x \in Nodes, tree'[x].refc > 0 PROVE tree'[x].state = ALLOCATABLE
    BY <1>1, <1>4 DEF RefsFree
  <2>1. tree[x].refc > 0
    BY <1>4
  <2>2. x # n
    BY <1>2, <2>1
  <2>3. tree[x].state = ALLOCATABLE
    BY <2>1 DEF CleanInv, RefsFree
  <2> QED BY <1>4, <2>2, <2>3
<1>8. PoolsLeaf'
  <2> SUFFICES ASSUME NEW q \in pools, q \in Nodes PROVE tree'[q].state = ALLOCATABLE /\ Kids(q) = {}
    BY <1>1, <1>4 DEF PoolsLeaf
  <2>1. tree[q].state = ALLOCATABLE /\ Kids(q) = {}
    BY DEF CleanInv, PoolsLeaf
  <2>2. q # n
    <3>1. Within(n, n)
      <4>1. n.addr \in Nat /\ EndOf(n) \in Nat
        BY <1>2, BlockEnd
      <4> QED BY <4>1 DEF Within
    <3> QED BY <1>2, <2>1, <3>1, RetypedNotFree
  <2> QED BY <1>4, <2>1, <2>2
<1>9. CarveInv' /\ RefsInv' /\ PoolPays' /\ PooledPays'
  BY <1>1, <1>2, <1>3 DEF CarveInv, RefsInv, PoolPays, PooledPays
<1>10. DescrInv'
  BY <1>1, <1>9 DEF CleanInv, DescrInv
<1>11. PanicsOnlyOutOfMemory'
  BY <1>1, <1>2 DEF PanicsOnlyOutOfMemory
<1> QED BY <1>5, <1>6, <1>7, <1>8, <1>9, <1>10, <1>11 DEF CleanInv

LEMMA CleanEnsureFreeDesc == ASSUME PmapInv, LookupInv, PoolInv, MapInv, CleanInv, EnsureFreeDesc PROVE CleanInv'
<1>1. /\ Descending /\ ~panicked /\ refs = <<>> /\ stack # <<>> /\ ~AllocatingPool
      /\ tree' = tree /\ regions' = regions /\ cur' = cur /\ consts' = consts /\ refs' = refs /\ panicked' = panicked
  BY DEF EnsureFreeDesc, Descending, InLookup
<1>2. PICK peer \in FindPeer(PoolClass) :
        /\ TakePool(peer)
        /\ stack' = <<Frame(peer, PoolClass, peer.addr, PARTIAL, "pool"), [Top EXCEPT !.pooled = TRUE]>> \o Tail(stack)
  BY DEF EnsureFreeDesc
<1> PICK f : f = Frame(peer, PoolClass, peer.addr, PARTIAL, "pool")
  OBVIOUS
<1> PICK g : g = [Top EXCEPT !.pooled = TRUE]
  OBVIOUS
<1> PICK q : q = Block(PoolClass, peer.addr)
  OBVIOUS
<1>3. /\ Fixed /\ ConstFrames /\ RefsFree /\ PoolsLeaf /\ DescrInv /\ ConstsInKernel
      /\ TypeInv /\ TreeInv /\ Nodes \subseteq BlockType /\ IsFiniteSet(Nodes) /\ ListsAre(link, Nodes) /\ Whole
      /\ \A x \in Nodes : OnList(x) => WasFree(x)
  <2>1. Whole
    BY <1>1, NotRetyping, WholeIs DEF PmapInv
  <2> QED BY <2>1 DEF CleanInv, PmapInv, TypeInv, ListInv
<1>4. PoolClass \in Class /\ PoolClass \in Nat
  BY PmapClasses
<1>5. /\ peer \in Nodes /\ peer \in BlockType /\ Aligned(peer) /\ PoolClass <= peer.class
      /\ tree[peer].state = ALLOCATABLE /\ tree[peer].refc = 0 /\ Kids(peer) = {}
  <2>1. peer \in Nodes /\ OnList(peer) /\ PoolClass <= peer.class
    BY <1>3, <1>4, PeerIs
  <2>2. WasFree(peer)
    BY <1>3, <2>1
  <2> QED BY <1>3, <2>1, <2>2 DEF WasFree, PageIsFree, TreeInv
<1>6. /\ stack \in Seq(FrameType) /\ Top \in FrameType /\ Top = stack[1] /\ Len(stack) \in Nat /\ 1 \in 1..Len(stack)
      /\ Tail(stack) \in Seq(FrameType)
  BY <1>1, TopIs DEF PmapInv, TypeInv
<1>7. f \in FrameType /\ f.node = peer /\ f.why = "pool"
  <2>1. PARTIAL \in PageState /\ peer.addr \in Nat
    BY <1>5, BlockEnd DEF PageState
  <2> QED BY <1>4, <1>5, <2>1, FrameTyped
<1>8. g \in FrameType /\ g.why = Top.why /\ g.class = Top.class /\ g.addr = Top.addr
  BY <1>6 DEF FrameType
<1>22. stack' = <<f, g>> \o Tail(stack)
  BY <1>2
<1>9. stack' # <<>> /\ Top' = f
  BY <1>6, <1>7, <1>8, <1>22 DEF Top
<1>21. \A i \in 1..Len(stack') : \/ i = 1 /\ stack'[i] = f
                                 \/ i = 2 /\ stack'[i] = g
                                 \/ i - 1 \in 1..Len(stack) /\ stack'[i] = stack[i - 1]
  <2>1. stack' = <<f, g>> \o Tail(stack) /\ Tail(stack) \in Seq(FrameType) /\ Len(Tail(stack)) = Len(stack) - 1
    <3>1. stack' = <<f, g>> \o Tail(stack)
      BY <1>22
    <3>2. Tail(stack) \in Seq(FrameType)
      BY <1>6
    <3>3. stack # <<>> /\ stack \in Seq(FrameType)
      BY <1>1, <1>6
    <3>4. Len(Tail(stack)) = Len(stack) - 1
      BY <3>3
    <3> QED BY <3>1, <3>2, <3>4
  <2>2. Len(<<f, g>>) = 2 /\ <<f, g>>[1] = f /\ <<f, g>>[2] = g
    OBVIOUS
  <2>3. Len(stack') = 2 + (Len(stack) - 1)
    BY <1>6, <2>1, <2>2
  <2>4. \A i \in 1..Len(Tail(stack)) : Tail(stack)[i] = stack[i + 1]
    BY <1>1, <1>6
  <2>5. \A i \in 1..Len(stack') : stack'[i] = IF i <= 2 THEN <<f, g>>[i] ELSE Tail(stack)[i - 2]
    BY <1>6, <2>1, <2>2
  <2>6. Len(stack) \in Nat /\ Len(stack) >= 1
    BY <1>6
  <2> SUFFICES ASSUME NEW i \in 1..Len(stack')
               PROVE  \/ i = 1 /\ stack'[i] = f
                      \/ i = 2 /\ stack'[i] = g
                      \/ i - 1 \in 1..Len(stack) /\ stack'[i] = stack[i - 1]
    OBVIOUS
  <2>7. stack'[i] = IF i <= 2 THEN <<f, g>>[i] ELSE Tail(stack)[i - 2]
    BY <2>5
  <2>8. i \in Nat /\ 1 <= i /\ i <= 2 + (Len(stack) - 1)
    BY <2>3, <2>6
  <2>9. CASE i = 1
    BY <2>2, <2>7, <2>9
  <2>10. CASE i = 2
    BY <2>2, <2>7, <2>10
  <2>11. CASE i > 2
    <3>1. i - 2 \in 1..Len(Tail(stack)) /\ (i - 2) + 1 = i - 1 /\ i - 1 \in 1..Len(stack)
      BY <2>1, <2>6, <2>8, <2>11
    <3>2. stack'[i] = Tail(stack)[i - 2]
      BY <2>7, <2>8, <2>11
    <3> QED BY <2>4, <3>1, <3>2
  <2> QED BY <2>8, <2>9, <2>10, <2>11
<1>10. Fixed' /\ (\A b, i : InRegion(b, i)' <=> InRegion(b, i)) /\ Nodes' = Nodes /\ \A x : Kids(x)' = Kids(x)
  <2>1. Nodes' = Nodes /\ \A x : Kids(x)' = Kids(x)
    BY <1>1 DEF Nodes, Kids
  <2> QED BY <1>1, <1>3, <2>1, RegionsFixed
<1>11. ConstsInKernel' /\ RefsFree'
  BY <1>1, <1>3, <1>10 DEF ConstsInKernel, RefsFree
<1>12. ConstFrames'
  <2> SUFFICES ASSUME NEW i \in 1..Len(stack'), stack'[i].why = "const" PROVE InRegion(Sought(stack'[i]), 2)
    BY <1>10 DEF ConstFrames, Sought
  <2>1. \/ i = 1 /\ stack'[i] = f
        \/ i = 2 /\ stack'[i] = g
        \/ i - 1 \in 1..Len(stack) /\ stack'[i] = stack[i - 1]
    BY <1>21
  <2>2. stack'[i] = g => stack[1].why = "const" /\ Sought(g) = Sought(stack[1])
    BY <1>6, <1>8 DEF Sought
  <2>3. stack'[i] # f
    BY <1>7
  <2> QED BY <1>3, <1>6, <2>1, <2>2, <2>3 DEF ConstFrames
<1>13. PoolsLeaf'
  <2> SUFFICES ASSUME NEW p \in pools', p \in Nodes PROVE tree[p].state = ALLOCATABLE /\ Kids(p) = {}
    BY <1>1, <1>10 DEF PoolsLeaf
  <2>1. p \in pools \/ p = q
    BY <1>2 DEF TakePool
  <2>2. CASE p \in pools
    BY <1>3, <2>2 DEF PoolsLeaf
  <2>3. CASE p = q
    <3>1. Within(q, peer)
      BY <1>4, <1>5, FirstPart
    <3>2. q = peer
      BY <1>3, <1>5, <2>3, <3>1, InnerHasParent
    <3> QED BY <1>5, <2>3, <3>2
  <2> QED BY <2>1, <2>2, <2>3
<1>14. CarveInv'
  <2>1. link'[peer] = Self(peer)
    <3> PICK m : m = [[link EXCEPT ![link[peer].prev].next = link[peer].next] EXCEPT ![link[peer].next].prev = link[peer].prev]
      OBVIOUS
    <3>1. link' = [m EXCEPT ![peer] = Self(peer)] /\ DOMAIN m = DOMAIN link
      BY <1>2 DEF TakePool, list_del
    <3>2. peer \in DOMAIN link
      BY <1>3, <1>5 DEF ListsAre
    <3> QED BY <3>1, <3>2
  <2>2. Top'.node = peer
    BY <1>7, <1>9
  <2> QED BY <1>1, <1>5, <2>1, <2>2 DEF CarveInv, OnList
<1>15. RefsInv'
  BY <1>1 DEF RefsInv
<1>16. descr \in Nat /\ descr >= 2 /\ PoolEntries \in Nat /\ descr' = descr + PoolEntries
  BY <1>2, <1>3, DescrAssumption DEF DescrInv, TakePool
<1>17. PoolPays'
  <2>1. PICK k : k = peer.class
    OBVIOUS
  <2>2. k \in PoolClass..MaxClass /\ k \in Nat
    <3>1. k \in Class
      BY <1>5, <2>1, BlockEnd
    <3> QED BY <1>4, <1>5, <2>1, <3>1, PmapClasses DEF Class
  <2>3. PICK i \in 1..Len(regions) : regions[i].type = ALLOCATABLE /\ 2 * ClassSize[k] <= High(i)
    BY <1>3, <1>5, <2>1, AllocIs
  <2>4. High(i)' = High(i)
    BY <1>1, RegionsFixed
  <2>5. Top'.node.class = k
    BY <1>7, <1>9, <2>1
  <2>6. descr' + 2 * (k - k) >= PoolEntries + 2
    BY <1>16, <2>2
  <2>7. k <= k
    BY <2>2
  <2>8. \E j \in 1..Len(regions') : regions'[j].type = ALLOCATABLE /\ 2 * ClassSize[k] <= High(j)'
    BY <1>1, <2>3, <2>4
  <2> QED BY <2>2, <2>5, <2>6, <2>7, <2>8 DEF PoolPays
<1>18. PooledPays'
  BY <1>7, <1>9 DEF PooledPays
<1>19. DescrInv'
  <2>1. descr' \in Nat /\ descr' >= 2
    BY <1>16
  <2> QED BY <1>17, <1>18, <2>1 DEF DescrInv
<1>20. PanicsOnlyOutOfMemory'
  BY <1>1 DEF PanicsOnlyOutOfMemory
<1> QED BY <1>10, <1>11, <1>12, <1>13, <1>14, <1>15, <1>19, <1>20 DEF CleanInv

LEMMA CleanPageRef == ASSUME PmapInv, MapInv, CleanInv, PageRef PROVE CleanInv'
<1> PICK n : n = Head(refs)
  OBVIOUS
<1> DEFINE kids == (IF Left(n) \in Nodes THEN <<Left(n)>> ELSE <<>>) \o
                   (IF Right(n) \in Nodes THEN <<Right(n)>> ELSE <<>>)
           more == IF tree[n].refc = 0 THEN (IF n.class = 0 THEN <<>> ELSE kids) ELSE <<>>
<1>1. /\ ~panicked /\ refs # <<>> /\ tree' = [tree EXCEPT ![n].refc = @ + 1]
      /\ stack' = stack /\ panicked' = panicked /\ regions' = regions /\ cur' = cur /\ consts' = consts
      /\ descr' = descr /\ pools' = pools
  BY DEF PageRef
<1>2. /\ refs \in Seq(Nodes) /\ n \in Nodes /\ n \in BlockType /\ n = refs[1] /\ 1 \in 1..Len(refs)
      /\ ListsAre(link, Nodes) /\ tree \in [Nodes -> [state : PageState, refc : Nat]] /\ Nodes \subseteq BlockType
  <2>1. refs \in Seq(Nodes) /\ Nodes \subseteq BlockType
    BY DEF PmapInv, FrameInv, TypeInv
  <2> QED BY <1>1, <2>1 DEF PmapInv, TypeInv, ListInv
<1>3. /\ Fixed /\ ConstsInKernel /\ ConstFrames /\ RefsFree /\ PoolsLeaf /\ CarveInv /\ RefsInv /\ DescrInv
  BY DEF CleanInv
<1>4. RefOk(n)
  BY <1>2, <1>3 DEF RefsInv
<1>5. /\ Nodes' = Nodes /\ (\A x : Kids(x)' = Kids(x))
      /\ \A x \in Nodes : tree'[x].state = tree[x].state /\ (x # n => tree'[x].refc = tree[x].refc)
  <2> PICK r : r = [tree[n] EXCEPT !.refc = tree[n].refc + 1]
    OBVIOUS
  <2>1. r.state = tree[n].state /\ tree' = [tree EXCEPT ![n] = r]
    BY <1>1, <1>2
  <2>2. DOMAIN tree' = DOMAIN tree /\ tree'[n] = r /\ \A x \in Nodes : x # n => tree'[x] = tree[x]
    BY <1>2, <2>1
  <2> QED BY <2>1, <2>2 DEF Nodes, Kids
<1>6. \A x \in Nodes : ~OnList(x) => ~OnList(x)'
  <2>1. CASE link' = link
    BY <2>1 DEF OnList
  <2>2. CASE link' = list_del(link, n)
    <3>1. link[n] = Self(n)
      BY <1>4 DEF RefOk, OnList
    <3>2. link[link[n].prev].next = n /\ Nodes \in SUBSET BlockType
      BY <1>2, <3>1 DEF Self
    <3>3. FirstOf(link, Nodes, n)
      BY <1>2, <3>2 DEF FirstOf
    <3>4. Deleted(list_del(link, n), link, Nodes, n)
      BY <3>3, DelFirstOf
    <3>5. link'[n] = Self(n) /\ \A x \in Nodes : x # n => link'[x] = link[x]
      BY <2>2, <3>4 DEF Deleted
    <3> QED BY <3>5 DEF OnList
  <2> QED BY <2>1, <2>2 DEF PageRef
<1>7. Fixed' /\ \A b, i : InRegion(b, i)' <=> InRegion(b, i)
  BY <1>1, <1>3, RegionsFixed
<1>8. ConstsInKernel' /\ ConstFrames'
  BY <1>1, <1>3, <1>7 DEF ConstsInKernel, ConstFrames, Sought
<1>9. RefsFree'
  <2>1. cur <= Len(regions) => tree[n].state = ALLOCATABLE
    <3>1. ~(cur <= Len(regions) /\ cur > Len(regions))
      BY RegionIs DEF PmapInv, TypeInv
    <3> QED BY <1>4, <3>1 DEF RefOk
  <2> QED BY <1>1, <1>3, <1>5, <2>1 DEF RefsFree
<1>10. PoolsLeaf'
  BY <1>1, <1>3, <1>5 DEF PoolsLeaf
<1>11. Top' = Top /\ ~(stack # <<>> /\ Top.why = "pool")
  BY <1>1, <1>3 DEF Top, CarveInv
<1>12. CarveInv' /\ PoolPays'
  BY <1>1, <1>11 DEF CarveInv, PoolPays
<1>13. PooledPays'
  BY <1>1, <1>3, <1>11 DEF DescrInv, PooledPays, DescrNeeded
<1>14. DescrInv'
  BY <1>1, <1>3, <1>12, <1>13 DEF DescrInv
<1>15. ASSUME NEW x \in Nodes, RefOk(x) PROVE RefOk(x)'
  BY <1>1, <1>5, <1>6, <1>7, <1>15 DEF RefOk
<1>16. more \in Seq(Nodes) /\ Len(more) \in Nat /\ \A i \in 1..Len(more) : n.class # 0 /\ more[i] \in Kids(n)
  <2>1. kids \in Seq(Nodes) /\ \A i \in 1..Len(kids) : kids[i] \in {Left(n), Right(n)} \cap Nodes
    OBVIOUS
  <2> HIDE DEF kids
  <2>2. more = <<>> \/ (more = kids /\ n.class # 0)
    OBVIOUS
  <2>3. more \in Seq(Nodes)
    BY <2>1, <2>2
  <2> HIDE DEF more
  <2>4. \A i \in 1..Len(more) : more = kids /\ n.class # 0
    BY <2>2
  <2> QED BY <2>1, <2>3, <2>4 DEF Kids
<1>17. refs' = more \o Tail(refs)
  <2>1. CASE tree[n].refc = 0
    BY <2>1 DEF PageRef
  <2>2. CASE tree[n].refc # 0
    <3>1. refs' = Tail(refs)
      BY <2>2 DEF PageRef
    <3>2. <<>> \o Tail(refs) = Tail(refs)
      BY <1>1, <1>2
    <3> QED BY <2>2, <3>1, <3>2
  <2> QED BY <2>1, <2>2
<1> HIDE DEF more, kids
<1>18. ASSUME NEW k \in Kids(n), n.class # 0 PROVE RefOk(k)
  <2>1. k \in Nodes /\ k \in {Left(n), Right(n)}
    BY <1>18 DEF Kids
  <2>2. cur > Len(regions) /\ InRegion(n, 2)
    BY <1>4, <1>18 DEF RefOk
  <2>3. n.class > 0
    <3>1. n.class \in Nat
      BY <1>2, BlockEnd, PmapClasses
    <3> QED BY <1>18, <3>1
  <2>4. Within(k, n) /\ k \in BlockType
    BY <1>2, <2>1, <2>3, HalvesWithin
  <2>5. InRegion(k, 2)
    <3>1. /\ n.addr \in Nat /\ k.addr \in Nat /\ EndOf(n) \in Nat /\ EndOf(k) \in Nat
          /\ Low(2) \in Nat /\ High(2) \in Nat
      BY <1>2, <1>3, <2>4, BlockEnd, KernelRegion DEF PmapInv, Fixed
    <3> QED BY <2>2, <2>4, <3>1 DEF InRegion, Within
  <2> QED BY <1>3, <2>1, <2>2, <2>5, KernelNotListed DEF RefOk
<1>19. RefsInv'
  <2> SUFFICES ASSUME NEW i \in 1..Len(refs') PROVE RefOk(refs'[i]) /\ refs'[i] \in Nodes
    <3>1. \A i \in 1..Len(refs') : RefOk(refs'[i]) /\ refs'[i] \in Nodes
      OBVIOUS
    <3> PICK s : s = refs'
      OBVIOUS
    <3>2. \A i \in 1..Len(s) : RefOk(s[i])'
      BY <1>15, <3>1
    <3> QED BY <3>2 DEF RefsInv, RefOk, OnList, Kids, InRegion, EndOf
  <2>1. Tail(refs) \in Seq(Nodes) /\ Len(Tail(refs)) \in Nat /\ \A j \in 1..Len(Tail(refs)) : j + 1 \in 1..Len(refs) /\ Tail(refs)[j] = refs[j + 1]
    BY <1>1, <1>2
  <2>2. \/ i \in 1..Len(more) /\ refs'[i] = more[i]
        \/ i - Len(more) \in 1..Len(Tail(refs)) /\ refs'[i] = Tail(refs)[i - Len(more)]
    <3>1. \A s, u \in Seq(Nodes) : \A y \in 1..Len(s \o u) :
            \/ y \in 1..Len(s) /\ (s \o u)[y] = s[y]
            \/ y - Len(s) \in 1..Len(u) /\ (s \o u)[y] = u[y - Len(s)]
      OBVIOUS
    <3> QED BY <1>16, <1>17, <2>1, <3>1
  <2>3. CASE i \in 1..Len(more) /\ refs'[i] = more[i]
    <3>1. n.class # 0 /\ more[i] \in Kids(n) /\ more[i] \in Nodes
      BY <1>16, <2>3
    <3> QED BY <1>18, <2>3, <3>1
  <2>4. CASE i - Len(more) \in 1..Len(Tail(refs)) /\ refs'[i] = Tail(refs)[i - Len(more)]
    <3> PICK j : j = i - Len(more)
      OBVIOUS
    <3>1. j + 1 \in 1..Len(refs) /\ refs'[i] = refs[j + 1]
      BY <2>1, <2>4
    <3>2. refs[j + 1] \in Nodes /\ RefOk(refs[j + 1])
      BY <1>2, <1>3, <3>1 DEF RefsInv
    <3> QED BY <3>1, <3>2
  <2> QED BY <2>2, <2>3, <2>4
<1>20. PanicsOnlyOutOfMemory'
  BY <1>1 DEF PanicsOnlyOutOfMemory
<1> QED BY <1>7, <1>8, <1>9, <1>10, <1>12, <1>14, <1>19, <1>20 DEF CleanInv

LEMMA CleanDescend == ASSUME PmapInv, LookupInv, PoolInv, MapInv, CleanInv, Descend PROVE CleanInv'
<1> PICK f : f = Top
  OBVIOUS
<1> PICK n : n = f.node
  OBVIOUS
<1> PICK new : new = {Left(n), Right(n)} \ Nodes
  OBVIOUS
<1> PICK child : child = IF GoesRight(f) THEN Right(n) ELSE Left(n)
  OBVIOUS
<1> PICK g : g = [f EXCEPT !.node = child, !.pooled = FALSE]
  OBVIOUS
<1>1. /\ ~panicked /\ refs = <<>> /\ stack # <<>> /\ n.class > f.class /\ descr >= DescrNeeded(f)
      /\ regions' = regions /\ cur' = cur /\ panicked' = panicked /\ consts' = consts /\ refs' = refs /\ pools' = pools
      /\ descr' = descr - Cardinality(new)
  BY DEF Descend, Descending, InLookup
<1>2. /\ f \in FrameType /\ f = stack[1] /\ n \in Nodes /\ n \in BlockType /\ 1 \in 1..Len(stack)
      /\ stack \in Seq(FrameType) /\ Nodes \subseteq BlockType
      /\ tree \in [Nodes -> [state : PageState, refc : Nat]]
  BY <1>1, TopIs DEF PmapInv, TypeInv
<1>3. TreeSplit(f, n, new)
  <2>1. Splits(f, n, new)
    BY DEF Splits
  <2> QED BY <2>1, DescendTree
<1>4. /\ n.class > 0 /\ n.class \in Nat /\ f.class \in Nat /\ child \in {Left(n), Right(n)} /\ child \in BlockType
      /\ child.class = n.class - 1 /\ Left(n) # Right(n) /\ child # n
  <2>1. n.class > 0 /\ n.class \in Nat /\ f.class \in Nat
    BY <1>1, <1>2, BlockEnd, PmapClasses DEF FrameType
  <2> QED BY <1>2, <2>1, Halves
<1>5. g \in FrameType /\ g.node = child /\ g.why = f.why /\ g.class = f.class /\ g.addr = f.addr /\ g.pooled = FALSE
  BY <1>2, <1>4 DEF FrameType
<1>6. stack' = <<g>> \o Tail(stack) /\ Tail(stack) \in Seq(FrameType)
  BY <1>1, <1>2 DEF Descend
<1>7. \A i \in 1..Len(stack') : stack'[i] = (IF i = 1 THEN g ELSE stack[i]) /\ i \in 1..Len(stack)
  <2>1. stack \in Seq(FrameType) /\ stack # <<>> /\ g \in FrameType /\ stack' = <<g>> \o Tail(stack)
    BY <1>1, <1>2, <1>5, <1>6
  <2> QED BY <2>1, RestOf
<1>8. stack' # <<>> /\ Top' = g
  BY <1>5, <1>6 DEF Top
<1>9. /\ Fixed /\ ConstsInKernel /\ ConstFrames /\ RefsFree /\ PoolsLeaf /\ CarveInv /\ DescrInv
  BY DEF CleanInv
<1>10. Fixed' /\ \A b, i : InRegion(b, i)' <=> InRegion(b, i)
  BY <1>1, <1>9, RegionsFixed
<1>11. ConstsInKernel'
  BY <1>1, <1>9 DEF ConstsInKernel
<1>12. ConstFrames'
  <2> SUFFICES ASSUME NEW i \in 1..Len(stack'), stack'[i].why = "const" PROVE InRegion(Sought(stack'[i]), 2)
    BY <1>10 DEF ConstFrames, Sought
  <2>1. i \in 1..Len(stack) /\ stack[i].why = "const" /\ Sought(stack'[i]) = Sought(stack[i])
    <3>1. CASE i = 1
      BY <1>2, <1>5, <1>7, <3>1 DEF Sought
    <3>2. CASE i # 1
      BY <1>7, <3>2 DEF Sought
    <3> QED BY <3>1, <3>2
  <2> QED BY <1>9, <2>1 DEF ConstFrames
\* A free page that is split is being carved into a pool, and stays free.
<1>13. ASSUME tree[n].state = ALLOCATABLE
       PROVE  f.why = "pool" /\ f.class = PoolClass /\ tree'[n].state = ALLOCATABLE
  <2>1. f.why = "pool" /\ f.type = PARTIAL
    BY <1>1, <1>9, <1>13, OnlyPoolsMeetFree
  <2>2. f.class = PoolClass
    BY <1>1, <2>1 DEF PoolInv, CarvedFrame
  <2>3. tree'[n].state = SplitState(n, f.type)
    BY <1>3 DEF TreeSplit
  <2> QED BY <1>13, <2>1, <2>2, <2>3 DEF SplitState
<1>14. /\ Nodes' = Nodes \cup new
       /\ \A x \in Nodes : x # n => tree'[x] = tree[x] /\ Kids(x)' = Kids(x)
       /\ tree'[n].refc = tree[n].refc
       /\ \A k \in new : tree'[k].state = tree[n].state /\ (tree'[k].refc > 0 => tree[n].refc > 0) /\ Kids(k)' = {}
  <2>1. \A k \in new : tree'[k] = NewChild(n) /\ Kids(k)' = {}
    BY <1>3 DEF TreeSplit
  <2>2. NewChild(n).state = tree[n].state /\ (NewChild(n).refc > 0 => tree[n].refc > 0)
    BY DEF NewChild
  <2> QED BY <1>3, <2>1, <2>2 DEF TreeSplit
<1>15. RefsFree'
  <2> SUFFICES ASSUME cur <= Len(regions), NEW x \in Nodes', tree'[x].refc > 0 PROVE tree'[x].state = ALLOCATABLE
    BY <1>1 DEF RefsFree
  <2>1. \A y \in Nodes : tree[y].refc > 0 => tree[y].state = ALLOCATABLE
    BY <1>9 DEF RefsFree
  <2>2. CASE x \in new
    BY <1>2, <1>14, <2>1, <2>2
  <2>3. CASE x = n
    BY <1>2, <1>13, <1>14, <2>1, <2>3
  <2>4. CASE x \in Nodes /\ x # n
    BY <1>14, <2>1, <2>4
  <2> QED BY <1>14, <2>2, <2>3, <2>4
<1>16. PoolsLeaf'
  <2> SUFFICES ASSUME NEW q \in pools, q \in Nodes' PROVE tree'[q].state = ALLOCATABLE /\ Kids(q)' = {}
    BY <1>1 DEF PoolsLeaf
  <2>1. q \in Nodes => tree[q].state = ALLOCATABLE /\ Kids(q) = {}
    BY <1>9 DEF PoolsLeaf
  <2>2. CASE q \in Nodes /\ q # n
    BY <1>14, <2>1, <2>2
  <2>3. CASE q = n
    <3>1. q.class = PoolClass
      BY DEF PoolInv, PoolSet
    <3>2. f.class = PoolClass
      BY <1>2, <1>13, <2>1, <2>3
    <3> QED BY <1>1, <1>4, <2>3, <3>1, <3>2
  <2>4. CASE q \in new
    <3>1. q \notin Nodes
      BY <1>3, <2>4 DEF TreeSplit
    <3>2. Carved(q)
      <4>1. refs # <<q>>
        BY <1>1
      <4> QED BY <3>1, <4>1 DEF PoolInv, OnTheWay, Kept
    <3>3. tree[n].state = ALLOCATABLE
      BY <1>9, <3>2 DEF Carved, CarveInv
    <3> QED BY <1>14, <2>4, <3>3
  <2> QED BY <1>14, <2>2, <2>3, <2>4
<1>17. CarveInv'
  <2> SUFFICES ASSUME f.why = "pool"
               PROVE  tree'[child].state = ALLOCATABLE /\ tree'[child].refc = 0 /\ link'[child] = Self(child)
    BY <1>1, <1>5, <1>8 DEF CarveInv, OnList
  <2>1. tree[n].state = ALLOCATABLE /\ tree[n].refc = 0 /\ link[n] = Self(n) /\ Kids(n) = {}
    BY <1>1, <1>9 DEF CarveInv, OnList, PoolInv, CarvedFrame
  <2>2. child \in new /\ child \notin Nodes
    BY <1>4, <2>1 DEF Kids
  <2>3. tree'[child].state = ALLOCATABLE /\ tree'[child].refc = 0
    <3>1. tree'[child] = NewChild(n)
      BY <1>3, <2>2 DEF TreeSplit
    <3> QED BY <2>1, <3>1 DEF NewChild
  <2> PICK h : h = [k \in new |-> Self(k)]
    OBVIOUS
  <2> PICK fresh : fresh = Extend(link, h)
    OBVIOUS
  <2> PICK other : other = Sibling(n, GoesRight(f))
    OBVIOUS
  <2> PICK head : head = ListHead(n.class - 1)
    OBVIOUS
  <2>4. n \in DOMAIN fresh /\ child \in DOMAIN fresh /\ fresh[child] = Self(child) /\ fresh[n] = Self(n)
    <3>1. DOMAIN h = new /\ h[child] = Self(child)
      BY <2>2
    <3>2. n \in DOMAIN link /\ n \notin new
      BY <1>2 DEF PmapInv, ListInv, ListsAre
    <3>3. fresh = [x \in DOMAIN link \cup DOMAIN h |-> IF x \in DOMAIN h THEN h[x] ELSE link[x]]
      BY DEF Extend
    <3> QED BY <2>1, <2>2, <3>1, <3>2, <3>3
  <2> PICK l : l = list_del(fresh, n)
    OBVIOUS
  <2>5. child \in DOMAIN l /\ l[child] = Self(child)
    <3>1. fresh[n].prev = n /\ fresh[n].next = n
      BY <2>4 DEF Self
    <3>2. l = [[[fresh EXCEPT ![n].next = n] EXCEPT ![n].prev = n] EXCEPT ![n] = Self(n)]
      BY <3>1 DEF list_del
    <3> QED BY <1>4, <2>4, <3>2
  <2>6. child # other
    BY <1>4 DEF Sibling
  <2>7. child # head
    <3>1. child.addr \in Nat
      BY <1>4, BlockEnd
    <3>2. head.addr = -1
      BY DEF ListHead, Block
    <3> QED BY <3>1, <3>2
  <2>8. link' = list_append(l, head, other)
    <3>1. WasFree(n)
      BY <2>1 DEF WasFree, PageIsFree
    <3> QED BY <3>1 DEF Descend
  <2>9. link'[child] = Self(child)
    BY <2>5, <2>6, <2>7, <2>8 DEF list_append
  <2> QED BY <2>3, <2>9
<1>18. RefsInv'
  BY <1>1 DEF RefsInv
<1>19. Cardinality(new) \in Nat /\ Cardinality(new) <= 2
  <2>1. IsFiniteSet({Left(n)}) /\ Cardinality({Left(n)}) = 1
    BY FS_Singleton
  <2>2. IsFiniteSet({Left(n)} \cup {Right(n)}) /\ Cardinality({Left(n)} \cup {Right(n)}) <= 2
    BY <2>1, FS_AddElement
  <2>3. new \in SUBSET ({Left(n)} \cup {Right(n)})
    OBVIOUS
  <2>4. IsFiniteSet(new) /\ Cardinality(new) <= Cardinality({Left(n)} \cup {Right(n)})
    BY <2>2, <2>3, FS_Subset
  <2> QED BY <2>2, <2>4, FS_CardinalityType
<1>20. descr \in Nat /\ descr' \in Nat /\ descr' >= 2 /\ descr' >= descr - 2
  <2>1. descr >= (n.class - f.class + 1) * 2 /\ descr \in Nat
    BY <1>1, <1>9 DEF DescrNeeded, DescrInv
  <2>2. descr >= 4
    BY <1>1, <1>4, <2>1
  <2> QED BY <1>1, <1>19, <2>1, <2>2
<1>21. PoolPays'
  <2> SUFFICES ASSUME f.why = "pool"
               PROVE  \E c \in PoolClass..MaxClass :
                        /\ \E i \in 1..Len(regions) : regions[i].type = ALLOCATABLE /\ 2 * ClassSize[c] <= High(i)'
                        /\ child.class <= c /\ descr' + 2 * (c - child.class) >= PoolEntries + 2
    BY <1>1, <1>5, <1>8 DEF PoolPays
  <2>1. PICK c \in PoolClass..MaxClass :
          /\ \E i \in 1..Len(regions) : regions[i].type = ALLOCATABLE /\ 2 * ClassSize[c] <= High(i)
          /\ n.class <= c /\ descr + 2 * (c - n.class) >= PoolEntries + 2
    BY <1>1, <1>9 DEF DescrInv, PoolPays
  <2>2. \A i : High(i)' = High(i)
    BY <1>1, RegionsFixed
  <2>3. c \in Nat /\ PoolEntries \in Nat
    BY PmapClasses, DescrAssumption
  <2>4. child.class <= c /\ descr' + 2 * (c - child.class) >= PoolEntries + 2
    <3> PICK k : k = n.class
      OBVIOUS
    <3>1. k \in Nat /\ k <= c /\ child.class = k - 1 /\ descr + 2 * (c - k) >= PoolEntries + 2
      BY <1>4, <2>1
    <3> QED BY <1>20, <2>3, <3>1
  <2> QED BY <2>1, <2>2, <2>4
<1>22. PooledPays'
  BY <1>5, <1>8 DEF PooledPays
<1>23. DescrInv'
  BY <1>20, <1>21, <1>22 DEF DescrInv
<1>24. PanicsOnlyOutOfMemory'
  BY <1>1 DEF PanicsOnlyOutOfMemory
<1> QED BY <1>10, <1>11, <1>12, <1>15, <1>16, <1>17, <1>18, <1>23, <1>24 DEF CleanInv

\* What CleanInv asks of the start is what the memory map and the constants give.
LEMMA CleanInit == Init /\ BootMemoryOnly /\ PoolsSuffice => CleanInv
<1> SUFFICES ASSUME Init, BootMemoryOnly, PoolsSuffice PROVE CleanInv
  OBVIOUS
<1>1. /\ Nodes = {Root} /\ tree[Root].refc = 0 /\ consts = ConstPages /\ descr = InitDescr /\ pools = {}
      /\ stack = <<>> /\ refs = <<>> /\ ~panicked
  BY DEF Init, Nodes
<1>2. Len(stack) = 0 /\ Len(refs) = 0
  BY <1>1
<1>3. KernelFirst
  <2>1. PICK m \in MemoryMaps :
          regions = <<[start |-> 0, end |-> ClassSize[0], type |-> RESERVED],
                      [start |-> KernelStart, end |-> KernelEnd, type |-> RESERVED]>> \o m
    BY DEF Init
  <2>2. m \in Seq(Region)
    BY MapAssumption
  <2> QED BY <2>1, <2>2 DEF KernelFirst
<1>4. ConstsInKernel
  <2>1. DOMAIN ConstPages = 1..Len(ConstPages)
    BY KernelAssumption
  <2> QED BY <1>1, <2>1, ConstPagesAssumption DEF ConstsInKernel
<1>5. ConstFrames /\ CarveInv /\ RefsInv /\ PoolPays /\ PooledPays
  BY <1>1, <1>2 DEF ConstFrames, CarveInv, RefsInv, PoolPays, PooledPays
<1>6. RefsFree /\ PoolsLeaf /\ PanicsOnlyOutOfMemory
  BY <1>1 DEF RefsFree, PoolsLeaf, PanicsOnlyOutOfMemory
<1>7. descr \in Nat /\ descr >= 2
  BY <1>1, DescrAssumption
<1> QED BY <1>3, <1>4, <1>5, <1>6, <1>7 DEF CleanInv, Fixed, DescrInv

LEMMA CleanStep == ASSUME PmapInv, LookupInv, PoolInv, MapInv, CleanInv, [Next]_vars PROVE CleanInv'
<1>1. CASE UNCHANGED vars BY <1>1, CleanStutter
<1>2. CASE EnsureFreeDesc BY <1>2, CleanEnsureFreeDesc
<1>3. CASE Descend BY <1>3, CleanDescend
<1>4. CASE FreeDescRec BY <1>4, CleanFreeDescRec
<1>5. CASE Attach BY <1>5, CleanAttach
<1>6. CASE PageRef BY <1>6, CleanPageRef
<1>7. CASE AllocPool BY <1>7, CleanAllocPool
<1>8. CASE AttachRegion BY <1>8, CleanAttachRegion
<1>9. CASE NextRegion BY <1>9, CleanNextRegion
<1>10. CASE LookupConstPage BY <1>10, CleanLookupConstPage
<1>11. CASE RefConstPage BY <1>11, CleanRefConstPage
<1>12. CASE Panic BY <1>12, CleanPanic
<1> QED BY <1>1, <1>2, <1>3, <1>4, <1>5, <1>6, <1>7, <1>8, <1>9, <1>10, <1>11, <1>12 DEF Next

LEMMA CleanInvTrue == PmapInv /\ LookupInv /\ MapInv /\ CleanInv => BootIsClean
<1> SUFFICES ASSUME PmapInv, LookupInv, MapInv, CleanInv PROVE BootIsClean
  OBVIOUS
<1>1. OnlyFirstTaken
  BY CleanFirst
<1>2. PanicsOnlyOutOfMemory /\ PoolsWhole
  BY DEF CleanInv, PoolsLeaf, PoolsWhole, Leaf
<1> QED BY <1>1, <1>2 DEF BootIsClean

\* The inductive invariant of the whole boot: each of its parts needs the others.
BootInv == PmapInv /\ LookupInv /\ PoolInv /\ MapInv /\ CleanInv

\* It holds at first, and list_del()'s care for the order of a list, which the other parts
\* take for granted, follows from it.
LEMMA BootInvKept ==
  /\ Init /\ EntriesFit /\ BootMemoryOnly /\ PoolsSuffice => BootInv
  /\ BootInv /\ [Next]_vars => BootInv'
<1>1. ASSUME BootInv, [Next]_vars PROVE BootInv'
  <2>1. PmapInv /\ LookupInv /\ PoolInv /\ MapInv /\ CleanInv
    BY <1>1 DEF BootInv
  <2>2. OnlyFirstTaken
    BY <2>1, CleanFirst
  <2>3. PmapInv' /\ LookupInv' /\ PoolInv' /\ MapInv'
    BY <1>1, <2>1, <2>2, PmapStep, LookupStep, PoolStep, MapStep
  <2>4. CleanInv'
    BY <1>1, <2>1, CleanStep
  <2> QED BY <2>3, <2>4 DEF BootInv
<1> QED BY <1>1, PmapInitInv, LookupInit, PoolInit, MapInit, CleanInit DEF BootInv

\* No assertion of pmap.c fails, and ensure_free_desc() panics only when a pool was needed
\* and no free boot memory was attached yet; list_del() only ever takes the first element of
\* a list, or one that is on none; and no lookup splits a page of descriptors.  The
\* allocatable memory must be boot memory, the entries of the map must fit, and
\* a pool must be large enough for the lookup it is carved out with and the next one.
THEOREM BootClean == Spec /\ EntriesFit /\ BootMemoryOnly /\ PoolsSuffice => []BootIsClean
<1>1. BootInv => BootIsClean
  BY CleanInvTrue DEF BootInv
<1> QED BY <1>1, BootInvKept, PTL DEF Spec

\* Under the same hypotheses, and without one on the order of the lists, what the tree says
\* of the memory is what the map says, the free lists are the free pages, and no
\* descriptor or pool is lost, all through init_memory().
THEOREM BootExact ==
  Spec /\ EntriesFit /\ BootMemoryOnly /\ PoolsSuffice =>
    [](MemoryAsMapped /\ ReservedStaysReserved /\ FreeListsExact /\ DescriptorsSound)
<1>1. BootInv => MemoryAsMapped /\ ReservedStaysReserved /\ FreeListsExact /\ DescriptorsSound
  BY MapInvTrue, PmapInvExact, PoolInvSound DEF BootInv
<1> QED BY <1>1, BootInvKept, PTL DEF Spec
==============================================================================
