------------------------------ MODULE ConsRing ------------------------------
(***************************************************************************)
(* The console's input: cons_intr() and cons_getc() of kern/console.c.     *)
(*                                                                         *)
(* The serial port and the keyboard are polled: cons_getc() empties them   *)
(* into a ring buffer, one character per iteration of the loop in          *)
(* cons_intr(), and more characters may arrive meanwhile.  Each device     *)
(* holds one byte, which may also stand for no character (a zero byte, or  *)
(* a scan code that completes none).                                       *)
(***************************************************************************)
EXTENDS Integers, Sequences

CONSTANTS
  CONSBUFSIZE,    \* the size of the ring
  serial_exists,  \* whether serial_init() found a serial port
  MaxSent         \* bound: how many bytes each device ever delivers

ASSUME SizeAssumption   == CONSBUFSIZE \in Nat \ {0, 1}
ASSUME SerialAssumption == serial_exists \in BOOLEAN
ASSUME SentAssumption   == MaxSent \in Nat

Devices == {"serial", "kbd"}

\* The n-th byte of a device, if it is a character.
Chars == [dev : Devices, n : 1..MaxSent]
Zero  == [dev |-> "zero", n |-> 0]
None  == [dev |-> "none", n |-> 0]

Slots == 0..(CONSBUFSIZE - 1)

VARIABLES
  (* kern/console.c *)
  buf, rpos, wpos,  \* struct cons
  (* cons_getc() *)
  pc,   \* "caller", or polling "serial" or "kbd", or about to "grab"
  got,  \* what the last call returned
  (* the devices *)
  waiting,  \* the byte each device holds, if any
  sent,     \* how many each has delivered
  (* history *)
  stored, \* the last character of each device that was put into the ring
  last,   \* the last one that was returned
  lapped  \* wpos has overtaken rpos

vars == <<buf, rpos, wpos, pc, got, waiting, sent, stored, last, lapped>>

Init ==
  /\ buf = [i \in Slots |-> Zero] /\ rpos = 0 /\ wpos = 0
  /\ pc = "caller" /\ got = Zero
  /\ waiting = [d \in Devices |-> None] /\ sent = [d \in Devices |-> 0]
  /\ stored = [d \in Devices |-> 0] /\ last = [d \in Devices |-> 0]
  /\ lapped = FALSE

\* A byte arrives at a device that is ready for it: external.
Arrive(d) ==
  /\ waiting[d] = None /\ sent[d] < MaxSent
  /\ sent' = [sent EXCEPT ![d] = @ + 1]
  /\ waiting' \in {[waiting EXCEPT ![d] = c] : c \in {Zero, [dev |-> d, n |-> sent'[d]]}}
  /\ UNCHANGED <<buf, rpos, wpos, pc, got, stored, last, lapped>>

Wrapped(w)        == IF w = CONSBUFSIZE THEN 0 ELSE w

\* cons_intr(): one character into the ring.
Store(d) ==
  /\ waiting[d] # None
  /\ waiting' = [waiting EXCEPT ![d] = None]
  /\ IF waiting[d] = Zero THEN UNCHANGED <<buf, wpos, stored, lapped>>
     ELSE /\ buf'  = [buf EXCEPT ![wpos] = waiting[d]]
          /\ wpos' = Wrapped(wpos + 1)
          /\ stored' = [stored EXCEPT ![d] = waiting[d].n]
          /\ lapped' = (lapped \/ wpos' = rpos)
  /\ UNCHANGED <<rpos, pc, got, sent, last>>

\* serial_intr() and kbd_intr(): until the device has nothing left.
SerialIntr ==
  /\ pc = "serial"
  /\ \/ serial_exists /\ Store("serial")
     \/ /\ ~serial_exists \/ waiting["serial"] = None
        /\ pc' = "kbd"
        /\ UNCHANGED <<buf, rpos, wpos, got, waiting, sent, stored, last, lapped>>

KbdIntr ==
  /\ pc = "kbd"
  /\ \/ Store("kbd")
     \/ /\ waiting["kbd"] = None
        /\ pc' = "grab"
        /\ UNCHANGED <<buf, rpos, wpos, got, waiting, sent, stored, last, lapped>>

MutantNewest == buf[(wpos + CONSBUFSIZE - 1) % CONSBUFSIZE]
Oldest       == buf[rpos]
MutantStuck  == rpos
NextRpos     == (rpos + 1) % CONSBUFSIZE

\* The end of cons_getc().
Grab ==
  /\ pc = "grab"
  /\ IF rpos # wpos
     THEN /\ got' = Oldest /\ rpos' = NextRpos
          /\ last' = [last EXCEPT ![got'.dev] = got'.n]
     ELSE got' = Zero /\ UNCHANGED <<rpos, last>>
  /\ pc' = "caller"
  /\ UNCHANGED <<buf, wpos, waiting, sent, stored, lapped>>

\* getchar() or the game calls cons_getc() (again).
CallGetc ==
  /\ pc = "caller"
  /\ pc' = "serial"
  /\ UNCHANGED <<buf, rpos, wpos, got, waiting, sent, stored, last, lapped>>

cons_getc == CallGetc \/ SerialIntr \/ KbdIntr \/ Grab

Next == cons_getc \/ \E d \in Devices : Arrive(d)

Spec == Init /\ [][Next]_vars

\* getchar() calls cons_getc() until it returns a character, and the monitor
\* calls getchar() time and again.
FairSpec == Spec /\ WF_vars(cons_getc)

-----------------------------------------------------------------------------
(* Properties.                                                             *)

\* Every variable keeps its type.
TypeOK ==
  /\ buf \in [Slots -> Chars \cup {Zero}] /\ rpos \in Slots /\ wpos \in Slots
  /\ pc \in {"caller", "serial", "kbd", "grab"}
  /\ got \in Chars \cup {Zero}
  /\ waiting \in [Devices -> Chars \cup {Zero, None}]
  /\ sent \in [Devices -> 0..MaxSent]
  /\ stored \in [Devices -> 0..MaxSent] /\ last \in [Devices -> 0..MaxSent]
  /\ lapped \in BOOLEAN

\* How many characters are in the ring, and where the i-th of them is when
\* the first is at r.
Pending == IF wpos >= rpos THEN wpos - rpos ELSE wpos - rpos + CONSBUFSIZE
Slot(r, i) == IF r + i <= CONSBUFSIZE THEN r + i - 1 ELSE r + i - 1 - CONSBUFSIZE
Content == [i \in 1..Pending |-> buf[Slot(rpos, i)]]

Abs == INSTANCE LossyQueue
         WITH Chars <- Chars, Capacity <- CONSBUFSIZE - 1, Nothing <- Zero,
              queue <- Content, got <- got

\* The ring is a queue that empties when it is full: the two positions never
\* make it return a stale or a newer character, wherever they wrap.
ImplementsQueue == Abs!Spec

Returns == pc = "grab" /\ pc' = "caller"

\* Of each device, the characters are returned in the order in which they
\* arrived and each of them at most once, even after the ring has overflowed.
ReturnedInOrder ==
  [][Returns /\ got' # Zero => got'.n > last[got'.dev]]_vars

\* Unless the ring overflows, a character that a device holds is returned.
CharsReachCaller ==
  \A c \in Chars :
    waiting[c.dev] = c /\ (c.dev = "serial" => serial_exists)
      ~> lapped \/ last[c.dev] >= c.n

\* `Return the next input character from the console, or 0 if none waiting':
\* the call returns 0 only when every character read so far was returned.
ZeroIfNoneWaiting ==
  [][Returns /\ got' = Zero => last = stored]_vars

\* Both positions stay within the ring, and what cons_getc() takes out of it
\* comes in order and once, even after the ring was lapped.
RingSound == []TypeOK /\ ReturnedInOrder
=============================================================================
