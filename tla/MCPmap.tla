------------------------------- MODULE MCPmap -------------------------------
(***************************************************************************)
(* Instances of Pmap: 16 pages of two units each.  Page 0 is the reserved  *)
(* first page, the kernel image ends in the middle of page 7 and holds     *)
(* one_page at pages 4-5 and zero_page at pages 6-7, firmware memory is at *)
(* pages 0-3 and 8-14.                                                     *)
(***************************************************************************)
EXTENDS Pmap

MCClassSize  == [c \in Class |-> 2 ^ (c + 1)]
MCConstPages == <<8, 12>>

Entry(s, e, t) == [start |-> 2 * s, end |-> 2 * e, type |-> t]
Types          == {ALLOCATABLE, RESERVED}

\* Page 0 and the kernel image have entries of their own, as in a memory map
\* of UEFI, which lists them with types of their own.
LowMaps == {<<Entry(0, 1, RESERVED), Entry(1, i, u), Entry(i, 4, v), Entry(4, 8, ALLOCATABLE)>> :
              i \in {2, 3}, u \in Types, v \in Types}
           \cup {<<Entry(0, 4, RESERVED), Entry(4, 8, ALLOCATABLE)>>}
HighMaps == {<<Entry(i, j, t), Entry(j, 14, u), Entry(14, 15, ALLOCATABLE)>> :
               i \in {8, 9}, j \in {11, 13}, t \in Types, u \in Types}
ExactMaps == {l \o h : l \in LowMaps, h \in HighMaps}
             \cup {h \o l : l \in LowMaps, h \in HighMaps}

\* One entry, or the CMOS sizes, describes all of the low memory.
FlatMaps == {<<Entry(0, 15, ALLOCATABLE)>>, <<Entry(0, 4, ALLOCATABLE), Entry(4, 15, ALLOCATABLE)>>}
=============================================================================
