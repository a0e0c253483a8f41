------------------------------ MODULE DwarfInfo ------------------------------
(***************************************************************************)
(* kern/dwarf.c and the two questions kern/kdebug.c puts to it: which      *)
(* function a return address lies in (debuginfo_rip), and where a function *)
(* of a given name starts (find_function).  A section is a sequence of     *)
(* cells, counted from 0: a number of any encoding, a character or a code  *)
(* takes one.  The header of a unit is its length and the place of its     *)
(* abbreviations.                                                          *)
(***************************************************************************)
EXTENDS Integers, Sequences

CONSTANTS
  Programs,    \* the debug sections of a kernel, and in dies what they describe
  Questions,   \* [kind |-> "rip", addr, line] or [kind |-> "find", name]
  CALL         \* CALL_INSN_LEN, the bytes of a call instruction

VARIABLES
  diPc,        \* where the look-up is
  sections, question,
  die,         \* entry: the cell of .debug_info that is read next
  found_unit,  \* offset, the unit info_by_address stored
  at_name,     \* the set and the entry of .debug_pubnames, or the symbol
  info         \* what is known: [res, file, name, addr]

diVars == <<diPc, sections, question, die, found_unit, at_name, info>>

UNKNOWN == <<0>>
NoInfo  == [res |-> 0, file |-> UNKNOWN, name |-> UNKNOWN, addr |-> 0]

DwarfInfoStart(programs, questions) ==
  /\ diPc = "idle" /\ sections \in programs /\ question \in questions
  /\ die = 0 /\ found_unit = 0 /\ at_name = <<1, 1>> /\ info = NoInfo
DwarfInfoInit == DwarfInfoStart(Programs, Questions)

At_(p) == sections.info[p]
InfoEnd == sections.size
UnitEnd(u) == u + 1 + At_(u)
FirstDie(u) == u + 2

\* The characters from p to the first 0, and the number of cells with it.
LengthAt(p) == (CHOOSE n \in 0..InfoEnd : At_(p + n) = 0 /\ \A k \in 0..(n - 1) : At_(p + k) # 0)
NameAt(p) == [k \in 1..LengthAt(p) |-> At_(p + k - 1)]

FixedForms == {"addr", "data", "strp", "flag", "ref", "sec_offset", "sdata", "udata"}
\* The form a DW_FORM_indirect names before the value.
FormNamed(p) == IF At_(p) = 1 THEN "addr" ELSE "data"

\* The cells the value of an attribute takes.
dwarf_read_abbrev_entry(form, p) ==
  CASE form \in FixedForms -> 1
    [] form = "string"     -> LengthAt(p) + 1
    [] form = "block"      -> 1 + At_(p)
    [] form = "indirect"   -> 1 + 1
    [] OTHER               -> 0
ValueAt(form, p) ==
  CASE form = "string" -> NameAt(p) [] form = "strp" -> sections.str[At_(p)]
    [] form = "indirect" -> At_(p + 1) [] OTHER -> At_(p)

\* The entry of a unit's abbreviations with the code at p.
Abbrev(u, p) == CHOOSE a \in sections.abbrev[At_(u + 1)] : a.code = At_(p)

\* An end that is no address counts from the start.
MutantAbsolute(form, p, low) == ValueAt(form, p)
HighPc(form, p, low) == IF form = "addr" THEN ValueAt(form, p) ELSE ValueAt(form, p) + low

\* The attributes of the die at p, read in order.
DieAt(u, p) ==
  LET a == Abbrev(u, p)
      read[k \in 0..Len(a.attrs)] ==
        IF k = 0 THEN [next |-> p + 1, tag |-> a.tag, low |-> 0, high |-> 0, name |-> <<>>]
        ELSE LET attr == a.attrs[k][1]
                 form == a.attrs[k][2]
                 r == read[k - 1]
                 s == [r EXCEPT !.next = @ + dwarf_read_abbrev_entry(form, r.next)]
             IN CASE attr = "low_pc"  -> [s EXCEPT !.low = ValueAt(form, r.next)]
                  [] attr = "high_pc" -> [s EXCEPT !.high = HighPc(form, r.next, r.low)]
                  [] attr = "name"    -> [s EXCEPT !.name = ValueAt(form, r.next)]
                  [] OTHER            -> s
  IN read[Len(a.attrs)]

Covers(d, p) == d.low <= p /\ p <= d.high
Ends(res) == diPc' = "done" /\ info' = [info EXCEPT !.res = res]
               /\ UNCHANGED <<sections, question, found_unit, at_name>>

\* debuginfo_rip() of no address answers at once, with nothing.
AskRip ==
  /\ diPc = "idle" /\ question.kind = "rip"
  /\ diPc' = IF question.addr = 0 THEN "done" ELSE "unit"
  /\ info' = [info EXCEPT !.addr = question.addr]
  /\ UNCHANGED <<sections, question, die, found_unit, at_name>>

\* info_by_address(): .debug_aranges always fails, its count is never assigned.
FindUnit ==
  /\ diPc = "unit"
  /\ \/ /\ die >= InfoEnd /\ Ends(-1) /\ UNCHANGED die
     \/ /\ die < InfoEnd
        /\ IF Covers(DieAt(die, FirstDie(die)), question.addr)
             THEN /\ diPc' = "file" /\ found_unit' = die /\ UNCHANGED die
             ELSE /\ die' = UnitEnd(die) /\ UNCHANGED <<diPc, found_unit>>
        /\ UNCHANGED <<sections, question, at_name, info>>

\* file_name_by_info(), then what line_for_address() answers.
FindFile ==
  /\ diPc = "file"
  /\ LET known == [info EXCEPT !.file = DieAt(found_unit, FirstDie(found_unit)).name]
     IN IF question.line THEN info' = known /\ diPc' = "function"
                         ELSE info' = [known EXCEPT !.res = -1] /\ diPc' = "done"
  /\ die' = FirstDie(found_unit)
  /\ UNCHANGED <<sections, question, found_unit, at_name>>

\* function_by_info(): the call lies before its return address.
CallOf(addr) == addr - CALL

\* A function without a name keeps what tmp_buf held, the name of the file.
FunctionFound(d) ==
  /\ diPc' = "done"
  /\ info' = [info EXCEPT !.name = IF d.name = <<>> THEN info.file ELSE d.name, !.addr = d.low]
  /\ UNCHANGED <<sections, question, found_unit, at_name>>

IsHere(d) == d.tag = "subprogram" /\ Covers(d, CallOf(question.addr))

FindFunction ==
  /\ diPc = "function"
  /\ \/ /\ die >= UnitEnd(found_unit) /\ Ends(-1) /\ UNCHANGED die
     \/ /\ die < UnitEnd(found_unit)
        /\ IF At_(die) = 0
             THEN /\ die' = die + 1
                  /\ UNCHANGED <<diPc, sections, question, found_unit, at_name, info>>
             ELSE LET d == DieAt(found_unit, die)
                  IN /\ die' = d.next
                     /\ IF IsHere(d) THEN FunctionFound(d)
                        ELSE UNCHANGED <<diPc, sections, question, found_unit, at_name, info>>

\* find_function() starts with .debug_pubnames.
AskFind ==
  /\ diPc = "idle" /\ question.kind = "find"
  /\ diPc' = "pubnames"
  /\ UNCHANGED <<sections, question, die, found_unit, at_name, info>>

Answers(d) == diPc' = "done" /\ info' = [info EXCEPT !.addr = d.low]

\* address_by_fname(): a set of names per unit, each with the place of its die in it.
PubNames ==
  /\ diPc = "pubnames"
  /\ LET s == at_name[1]
         n == at_name[2]
     IN \/ /\ s > Len(sections.pubnames)
           /\ diPc' = "naive" /\ UNCHANGED <<at_name, info>>
        \/ /\ s <= Len(sections.pubnames) /\ n > Len(sections.pubnames[s].names)
           /\ at_name' = <<s + 1, 1>> /\ UNCHANGED <<diPc, info>>
        \/ /\ s <= Len(sections.pubnames) /\ n <= Len(sections.pubnames[s].names)
           /\ LET set == sections.pubnames[s]
                  d == DieAt(set.unit, set.unit + set.names[n][1])
              IN IF set.names[n][2] = question.name /\ d.tag = "subprogram" /\ d.low # 0
                   THEN Answers(d)
                   ELSE UNCHANGED <<diPc, info>>
           /\ at_name' = <<s, n + 1>>
  /\ UNCHANGED <<sections, question, die, found_unit>>

\* naive_address_by_fname(): a declaration has the name and no place.
IsNamed(d) == d.tag \in {"subprogram", "label"} /\ d.name = question.name /\ d.low # 0

NaiveUnit ==
  /\ diPc = "naive"
  /\ IF die < InfoEnd THEN /\ found_unit' = die /\ die' = FirstDie(die)
                           /\ diPc' = "dies" /\ UNCHANGED at_name
                      ELSE diPc' = "symbols" /\ at_name' = <<1, 1>> /\ UNCHANGED <<found_unit, die>>
  /\ UNCHANGED <<sections, question, info>>

NaiveDie ==
  /\ diPc = "dies"
  /\ \/ /\ die >= UnitEnd(found_unit) /\ diPc' = "naive"
        /\ UNCHANGED <<die, info>>
     \/ /\ die < UnitEnd(found_unit)
        /\ IF At_(die) = 0 THEN die' = die + 1 /\ UNCHANGED <<diPc, info>>
           ELSE LET d == DieAt(found_unit, die)
                IN /\ die' = d.next
                   /\ IF IsNamed(d) THEN Answers(d) ELSE UNCHANGED <<diPc, info>>
  /\ UNCHANGED <<sections, question, found_unit, at_name>>

\* At last the symbols of the kernel's image, its assembly functions among them.
FindSymbol ==
  /\ diPc = "symbols"
  /\ LET k == at_name[1]
     IN IF k > Len(sections.symbols) THEN diPc' = "done" /\ info' = [info EXCEPT !.addr = 0]
                                            /\ UNCHANGED at_name
        ELSE LET sym == sections.symbols[k]
             IN /\ at_name' = <<k + 1, 1>>
                /\ IF sym.global /\ sym.func /\ sym.name = question.name
                     THEN diPc' = "done" /\ info' = [info EXCEPT !.addr = sym.value]
                     ELSE UNCHANGED <<diPc, info>>
  /\ UNCHANGED <<sections, question, die, found_unit>>

DwarfInfoNext == AskRip \/ FindUnit \/ FindFile \/ FindFunction
                   \/ AskFind \/ PubNames \/ NaiveUnit \/ NaiveDie \/ FindSymbol
DwarfInfoSpec == DwarfInfoInit /\ [][DwarfInfoNext]_diVars
------------------------------------------------------------------------------
\* The reader is never inside a die: whatever the forms of the attributes it
\* skips, it goes on where the next die, or the end of a list of them, is.
CursorAtDie ==
  diPc \in {"function", "dies"} =>
    die \in {d.at : d \in sections.dies} \cup sections.nulls \cup {UnitEnd(found_unit)}

Functions_(u) == {d \in sections.dies : d.unit = u /\ d.tag = "subprogram" /\ d.low # 0}
Surely(d, p) == d.low <= p /\ p < d.high

\* The function named holds the call, not what follows it: it is the one that
\* covers the call, unless one listed before it ends just there.
CallIsInside ==
  diPc = "done" /\ question.kind = "rip" /\ info.name # UNKNOWN =>
    LET p == question.addr - CALL
    IN \E d \in Functions_(found_unit) :
         /\ d.low = info.addr /\ Covers(d, p)
         /\ info.name = (IF d.name = <<>> THEN info.file ELSE d.name)
         /\ \A e \in Functions_(found_unit) : Surely(e, p) => e = d \/ d.high = p

\* A return address in a function of a known unit is always explained.
CallExplained ==
  diPc = "done" /\ question.kind = "rip" /\ question.line /\ info.res < 0 =>
    \A d \in sections.dies :
      d.tag = "subprogram" /\ Surely(d, question.addr - CALL) /\ Surely(d, question.addr) => FALSE

\* find_function() answers with the start of a function of that name, and with
\* nothing only if neither the debug sections nor the symbols have one.
NameLeadsHome ==
  diPc = "done" /\ question.kind = "find" =>
    LET homes == {d.low : d \in {e \in sections.dies : e.tag \in {"subprogram", "label"}
                                                   /\ e.low # 0 /\ e.name = question.name}}
        syms  == {sections.symbols[k].value : k \in
                    {j \in 1..Len(sections.symbols) : sections.symbols[j].name = question.name
                        /\ sections.symbols[j].global /\ sections.symbols[j].func}}
    IN IF homes # {} THEN info.addr \in homes
       ELSE IF syms # {} THEN info.addr \in syms ELSE info.addr = 0

==============================================================================
