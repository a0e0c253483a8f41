----------------------------- MODULE DwarfLines -----------------------------
(***************************************************************************)
(* line_for_address() of kern/dwarf_lines.c and the numbers of dwarf.h it  *)
(* is made of.  A program is a sequence of cells: an opcode, a byte of a   *)
(* LEB128 number, or an operand of fixed size each take one.  Programs     *)
(* come with the table they stand for, the lines of the functions of a     *)
(* unit, one sequence of rows each.                                        *)
(***************************************************************************)
EXTENDS Integers, Sequences

CONSTANTS
  LineUnits,       \* the programs: their cells, their table, and what their header says
  Wanted,      \* the addresses that are looked up
  Garbage,     \* what last_state may hold before the first row
  opcode_base, line_base, line_range,
  LastOpcode,  \* 255
  GROUP,       \* 2^7: a byte of LEB128 holds a number below it, and GROUP if more follow
  INT          \* 2^32, how many values an int has

VARIABLES
  dlPc,        \* where the look-up is: "unit", "run", "panic", "invalid" or "found"
  unit, dest,
  program_addr,
  state, last_state

dlVars == <<dlPc, unit, dest, program_addr, state, last_state>>

Fresh0 == [address |-> 0, line |-> 1, end_sequence |-> FALSE]

DwarfLinesStart(units, wanted, garbage) ==
  /\ dlPc = "unit" /\ unit \in units /\ dest \in wanted
  /\ program_addr = 1 /\ state = Fresh0
  /\ last_state \in garbage
DwarfLinesInit == DwarfLinesStart(LineUnits, Wanted, Garbage)

\* The header: an offset within the section, and what the asserts say.
ParseHeader ==
  /\ dlPc = "unit"
  /\ dlPc' = CASE unit.header = "outside" -> "invalid" [] unit.header = "odd" -> "panic" [] OTHER -> "run"
  /\ UNCHANGED <<unit, dest, program_addr, state, last_state>>

Cell(k) == unit.cells[k]
Bits(n, shift) == n * GROUP ^ shift

\* How many cells the number at k takes, and its value.
Count(k) == 1 + (CHOOSE j \in k..Len(unit.cells) :
                   Cell(j) < GROUP /\ \A i \in k..(j - 1) : Cell(i) >= GROUP) - k
uleb(k) == LET sum[j \in 0..Count(k)] ==
                 IF j = 0 THEN 0 ELSE sum[j - 1] + Bits(Cell(k + j - 1) % GROUP, j - 1)
           IN sum[Count(k)]
\* The sign is extended to the width of an int only, which is what the caller takes.
Extended(k) == IF Cell(k + Count(k) - 1) % GROUP >= GROUP \div 2
                 THEN uleb(k) + (INT - Bits(1, Count(k))) ELSE uleb(k)
leb(k) == LET n == Extended(k) % INT IN IF n >= INT \div 2 THEN n - INT ELSE n

\* A row is complete: the one before it is the answer if the address lies between.
Answer(s) == last_state

Row(s, next) ==
  IF last_state.address <= dest /\ dest < s.address
    THEN state' = Answer(s) /\ dlPc' = "found" /\ UNCHANGED last_state
    ELSE state' = next /\ last_state' = s /\ UNCHANGED dlPc

Skip(k) == program_addr' = program_addr + k
RunsOp(op) == dlPc = "run" /\ program_addr <= Len(unit.cells) /\ Cell(program_addr) = op
Set(s) == state' = s /\ UNCHANGED <<dlPc, last_state>>

\* Opcode 0, the length of the rest, and the opcode proper.
ExtendedOpcode ==
  /\ RunsOp(0)
  /\ LET at  == program_addr + 1 + Count(program_addr + 1)
         end == at + uleb(program_addr + 1)
         op  == Cell(at)
     IN /\ \/ /\ op = 1
              /\ Row([state EXCEPT !.end_sequence = TRUE], Fresh0)
              /\ Skip(at + 1 - program_addr)
           \/ /\ op = 2
              /\ Set([state EXCEPT !.address = Cell(at + 1)])
              /\ Skip(at + 2 - program_addr)
           \/ /\ op = 4   \* set_discriminator
              /\ Set(state)
              /\ Skip(at + 1 + Count(at + 1) - program_addr)
        /\ dlPc' = "run" => program_addr' = end

CopyRow(s) == Row(s, s)

Advanced(n) == [state EXCEPT !.address = @ + n]

StandardOpcode ==
  \/ RunsOp(1) /\ CopyRow(state) /\ Skip(1)
  \/ RunsOp(2) /\ Set(Advanced(uleb(program_addr + 1))) /\ Skip(1 + Count(program_addr + 1))
  \/ /\ RunsOp(3) /\ Set([state EXCEPT !.line = @ + leb(program_addr + 1)])
     /\ Skip(1 + Count(program_addr + 1))
  \/ \E op \in {4, 5, 12} : RunsOp(op) /\ Set(state) /\ Skip(1 + Count(program_addr + 1))
  \/ \E op \in {6, 7, 10, 11} : RunsOp(op) /\ Set(state) /\ Skip(1)
  \/ RunsOp(8) /\ Set(Advanced((LastOpcode - opcode_base) \div line_range)) /\ Skip(1)
  \/ RunsOp(9) /\ Set(Advanced(Cell(program_addr + 1))) /\ Skip(2)

SpecialOpcode == \E op \in opcode_base..LastOpcode :
  /\ RunsOp(op)
  /\ LET adjusted == op - opcode_base
         s == [state EXCEPT !.line = @ + line_base + (adjusted % line_range),
                            !.address = @ + adjusted \div line_range]
     IN Row(s, s)
  /\ Skip(1)

EndOfProgram ==
  /\ dlPc = "run" /\ program_addr > Len(unit.cells)
  /\ dlPc' = "found"
  /\ UNCHANGED <<program_addr, state, last_state>>

DwarfLinesNext ==
  \/ ParseHeader
  \/ (ExtendedOpcode \/ StandardOpcode \/ SpecialOpcode \/ EndOfProgram) /\ UNCHANGED <<unit, dest>>
DwarfLinesSpec == DwarfLinesInit /\ [][DwarfLinesNext]_dlVars

-----------------------------------------------------------------------------

\* The rows of a sequence whose addresses reach up to the next one, or to its end.
LineCovers(seq, k) == seq.rows[k][1] <= dest /\
                  dest < (IF k = Len(seq.rows) THEN seq.end ELSE seq.rows[k + 1][1])
Right == \E i \in 1..Len(unit.table) : \E k \in 1..Len(unit.table[i].rows) :
           LineCovers(unit.table[i], k) /\ state.line = unit.table[i].rows[k][2]
Covered == \E i \in 1..Len(unit.table) : \E k \in 1..Len(unit.table[i].rows) : LineCovers(unit.table[i], k)
Ascending == \A i \in 2..Len(unit.table) : unit.table[i - 1].end <= unit.table[i].rows[1][1]

\* `Last raw, which corresponds to address less or equal destination_addr, will be the
\* raw we look for' (dwarf_lines.c:36): an address of the unit gets its line.
LineOfRow == dlPc = "found" /\ Covered => Right

\* It does if the functions of the unit are in the order of their addresses, whatever
\* last_state holds at first and however the rows are encoded.
LineInOrder == dlPc = "found" /\ Covered /\ Ascending => Right
=============================================================================
