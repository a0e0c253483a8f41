-------------------------------- MODULE Arena --------------------------------
(***************************************************************************)
(* What an allocator promises its callers: blocks of the arena that        *)
(* overlap no other block, with room for what was asked for behind their   *)
(* header.  It says nothing of how free memory is kept.                    *)
(***************************************************************************)
EXTENDS Naturals

CONSTANTS
  Callers,     \* who asks for memory
  NUnits,      \* the units of the arena are 1..NUnits
  HeaderSize,  \* bytes in a unit; the first unit of a block is its header
  Asks         \* the numbers of bytes that are asked for

VARIABLE owned  \* the blocks of each caller

Block == [at : 1..NUnits, len : 1..NUnits, ask : Asks]

UnitsOf(b) == b.at..(b.at + b.len - 1)

Init == owned = [c \in Callers |-> {}]

\* A caller gets a block that lies in the arena and apart from all others.
Take(c, b) ==
  /\ UnitsOf(b) \subseteq 1..NUnits
  /\ (b.len - 1) * HeaderSize >= b.ask
  /\ \A d \in Callers : \A o \in owned[d] : UnitsOf(o) \cap UnitsOf(b) = {}
  /\ owned' = [owned EXCEPT ![c] = @ \cup {b}]

Give(c, b) ==
  /\ b \in owned[c]
  /\ owned' = [owned EXCEPT ![c] = @ \ {b}]

Next == \E c \in Callers, b \in Block : Take(c, b) \/ Give(c, b)

Spec == Init /\ [][Next]_owned
=============================================================================
