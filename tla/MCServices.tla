------------------------------ MODULE MCServices ------------------------------
(***************************************************************************)
(* What the rest of the kernel and the programs rely on, on small          *)
(* instances: the scheduler, the allocator, formatted output, the string   *)
(* functions, and the debug information behind a backtrace.  They share no *)
(* state, so each behaviour is one of `part'.                              *)
(***************************************************************************)
EXTENDS EnvSched, KAlloc, PrintFmt, StringOps, DwarfLines, DwarfInfo, SequencesExt

VARIABLE part

Parts == {"sched", "alloc", "print", "string", "lines", "info"}

servicesVars == <<part, vars, kaVars, pfVars, soVars, dlVars, diVars>>

-----------------------------------------------------------------------------
(* vprintfmt(): every way to ask for a number, and formats that print all  *)
(* kinds of arguments one after the other.                                 *)

A(n) == [number |-> n, string |-> <<>>]
S(s) == [number |-> 0, string |-> s]

NumberCalls ==
  {[fmt |-> <<37>> \o z \o w[1] \o l \o <<c[1]>>, args |-> <<A(n)>>, n |-> 0, all |-> <<>>,
    expect |-> <<c[2], w[2], IF c[1] = 100 \/ n >= 0 THEN n ELSE n + (IF l = <<>> THEN 256 ELSE 4096)>>] :
     z \in {<<>>, <<48>>}, w \in {<<<<>>, 0>>, <<<<50>>, 2>>, <<<<49, 50>>, 12>>}, l \in {<<>>, <<108>>},
     c \in {<<100, 10>>, <<117, 10>>, <<120, 16>>, <<88, 16>>, <<111, 8>>}, n \in {0, 7, 16, 125, -1}}

Blanks(k) == [j \in 1..k |-> 32]
TextCall(fmt, args, all) == {[fmt |-> fmt, args |-> args, n |-> k, all |-> all, expect |-> <<>>] : k \in {0, 1, 4, 20}}
TextCalls ==
  \* "A%.*sB", "%5s%-4sA", "%y%%%i%i", "%#s%c%zu", "%pA"
  TextCall(<<65, 37, 46, 42, 115, 66>>, <<A(2), S(<<70, 71, 72>>)>>, <<65, 70, 71, 66>>)
  \cup TextCall(<<37, 53, 115, 37, 45, 52, 115, 65>>, <<S(<<70, 71>>), S(<<72>>)>>,
                Blanks(3) \o <<70, 71, 72>> \o Blanks(3) \o <<65>>)
  \cup TextCall(<<37, 121, 37, 37, 37, 105, 37, 105>>, <<A(-2), A(9)>>, <<37, 121, 37, 1002, 2000, 57>>)
  \cup TextCall(<<37, 35, 115, 37, 99, 37, 122, 117>>, <<S(<<10, 70>>), A(75), A(12)>>, <<63, 70, 75, 49, 50>>)
  \cup TextCall(<<37, 112, 65>>, <<A(255)>>, <<48, 120, 102, 102, 65>>)

MCCalls == NumberCalls \cup TextCalls

-----------------------------------------------------------------------------
(* String functions: every length up to two words and a half, copies that  *)
(* overlap either way and do not, and numbers of every base and prefix.    *)

MCSets    == {<<v, n>> : v \in 0..8, n \in 0..20}
MCMoves   == {<<d, s, n>> : d \in {0, 1, 7, 8, 10}, s \in {0, 3, 8, 9}, n \in {0, 1, 5, 8, 9, 16}}
MCStrings == {<<[k \in 1..d |-> 5], [k \in 1..s |-> 6], n>> : d \in 0..3, s \in 0..5, n \in 0..7}
MCNumbers ==
  {<<<<49, 50>>, 10, 12>>, <<<<32, 9, 45, 48, 120, 49, 102>>, 0, -31>>,
   <<<<48, 120, 49, 102, 32>>, 16, 31>>, <<<<48, 120, 49, 102>>, 10, 0>>, <<<<48, 49, 55>>, 0, 15>>,
   <<<<43, 55, 97>>, 16, 122>>, <<<<43, 55, 65>>, 16, 122>>, <<<<>>, 0, 0>>,
   <<<<49, 57, 56>>, 8, 1>>, <<<<122>>, 36, 35>>}

-----------------------------------------------------------------------------
(* Line programs.  A row is encoded by a special opcode where the steps    *)
(* are small, else by the standard ones.                                   *)

Sleb(n) == IF n \in -2..1 THEN <<n % 4>> ELSE <<4 + (n % 4), (n \div 4) % 4>>
Uleb(n) == IF n < 4 THEN <<n>> ELSE <<4 + (n % 4), n \div 4>>
RowCode(da, dl) ==
  IF dl \in -1..1 /\ da \in 0..1 THEN <<13 + (dl + 1) + 3 * da>>
  ELSE (IF da = 2 THEN <<8>> ELSE <<2>> \o Uleb(da)) \o <<3>> \o Sleb(dl) \o <<1>>
SequenceCode(s) ==
  LET f[k \in 1..Len(s.rows)] ==
        IF k = 1 THEN <<0, 2, 2, s.rows[1][1]>> \o RowCode(0, s.rows[1][2] - 1)
        ELSE f[k - 1] \o RowCode(s.rows[k][1] - s.rows[k - 1][1], s.rows[k][2] - s.rows[k - 1][2])
  IN f[Len(s.rows)] \o <<9, s.end - s.rows[Len(s.rows)][1], 6, 5, 3, 0, 2, 4, 1>> \o <<0, 1, 1>>
Rows(rows, end) == [rows |-> rows, end |-> end]

\* One function, functions in the order of their addresses, and out of it.
MCTables ==
  {<<Rows(<<<<2, 5>>, <<4, 3>>, <<5, 4>>>>, 6)>>,
   <<Rows(<<<<1, 5>>, <<1, 7>>, <<4, 2>>>>, 7), Rows(<<<<8, 1>>>>, 9)>>,
   <<Rows(<<<<6, 6>>>>, 8), Rows(<<<<2, 4>>, <<3, 5>>>>, 5)>>,
   <<Rows(<<<<0, 1>>>>, 2), Rows(<<<<6, 6>>>>, 8), Rows(<<<<2, 4>>, <<3, 5>>>>, 5)>>}
MCLineUnits ==
  {[header |-> h, table |-> t, cells |-> FoldLeft(LAMBDA r, s : r \o SequenceCode(s), <<>>, t)] :
     t \in MCTables, h \in {"good", "odd", "outside"}}
MinusOne == -1
MCGarbage == {[address |-> a, line |-> 99, end_sequence |-> FALSE] : a \in {0, 3, 9}}

-----------------------------------------------------------------------------
(* Debug sections of two units.  They hold functions one behind the other, *)
(* one of them without a name, a declaration, a variable, a label and ends *)
(* of lists.                                                               *)

Kinds == {"f", "g", "anon", "decl", "var", "label"}
Abbrevs ==
  [f     |-> [code |-> 2, tag |-> "subprogram",
              attrs |-> <<<<"name", "string">>, <<"prototyped", "flag_present">>, <<"low_pc", "addr">>,
                          <<"high_pc", "data">>, <<"frame_base", "block">>>>],
   g     |-> [code |-> 3, tag |-> "subprogram",
              attrs |-> <<<<"name", "strp">>, <<"low_pc", "addr">>, <<"high_pc", "addr">>>>],
   anon  |-> [code |-> 4, tag |-> "subprogram",
              attrs |-> <<<<"abstract_origin", "ref">>, <<"low_pc", "addr">>, <<"high_pc", "data">>>>],
   decl  |-> [code |-> 5, tag |-> "subprogram",
              attrs |-> <<<<"name", "string">>, <<"declaration", "flag_present">>>>],
   var   |-> [code |-> 6, tag |-> "variable",
              attrs |-> <<<<"location", "block">>, <<"const_value", "indirect">>>>],
   label |-> [code |-> 7, tag |-> "label", attrs |-> <<<<"name", "strp">>, <<"low_pc", "indirect">>>>],
   unit  |-> [code |-> 1, tag |-> "compile_unit",
              attrs |-> <<<<"name", "string">>, <<"low_pc", "addr">>, <<"high_pc", "data">>,
                          <<"stmt_list", "sec_offset">>>>]]

CellsOf(k, low) ==
  CASE k = "f"     -> <<2, 11, 0, low, 6, 2, 0, 9>>
    [] k = "g"     -> <<3, 1, low, low + 6>>
    [] k = "anon"  -> <<4, 99, low, 6>>
    [] k = "decl"  -> <<5, 11, 0>>
    [] k = "var"   -> <<6, 3, 0, 7, 7, 2, 40>>
    [] k = "label" -> <<7, 2, 1, low + 3>>
    [] OTHER       -> <<0>>
NameOf(k) ==
  CASE k \in {"f", "decl"} -> <<11>> [] k = "g" -> <<12, 12>> [] k = "label" -> <<13>> [] OTHER -> <<>>
Takes(k) == IF k \in {"f", "g", "anon"} THEN 6 ELSE 0
LowOf(k, low) == IF Takes(k) > 0 THEN low ELSE IF k = "label" THEN low + 3 ELSE 0

TextSize(ks) == FoldLeft(LAMBDA m, k : m + Takes(k), 0, ks)

\* What follows after a die of kind k.
Laid(r, k, u) ==
  [cells |-> r.cells \o CellsOf(k, r.low), low |-> r.low + Takes(k),
   nulls |-> r.nulls \cup (IF k \in Kinds THEN {} ELSE {u + Len(r.cells)}),
   dies  |-> r.dies \cup (IF k \notin Kinds THEN {} ELSE
     {[at |-> u + Len(r.cells), unit |-> u, tag |-> Abbrevs[k].tag, name |-> NameOf(k),
       low |-> LowOf(k, r.low), high |-> IF Takes(k) = 0 THEN 0 ELSE r.low + 6]})]

\* The unit of the dies ks at cell u, its code at low.
UnitOf(ks, u, low, file) ==
  LET rest == FoldLeft(LAMBDA m, k : m + Len(CellsOf(k, 0)), 0, ks)
      first == [cells |-> <<7 + rest, 0>> \o <<1, file, 0, low, TextSize(ks), 0>>, low |-> low, nulls |-> {},
                dies |-> {[at |-> u + 2, unit |-> u, tag |-> "compile_unit", name |-> <<file>>,
                           low |-> low, high |-> low + TextSize(ks)]}]
  IN FoldLeft(LAMBDA r, k : Laid(r, k, u), first, ks)

\* Two units, and in .debug_pubnames nothing or the names of the second.
Program(ks, js, pub) ==
  LET a == UnitOf(ks, 0, 20, 71)
      u == Len(a.cells)
      b == UnitOf(js, u, a.low, 72)
      cells == a.cells \o b.cells
      named == {d \in b.dies : d.tag \in {"subprogram", "label"} /\ d.name # <<>>}
  IN [info |-> [k \in 0..(Len(cells) - 1) |-> cells[k + 1]], size |-> Len(cells),
      str |-> <<<<12, 12>>, <<13>>>>,
      abbrev |-> [k \in {0} |-> {Abbrevs[x] : x \in DOMAIN Abbrevs}],
      dies |-> a.dies \cup b.dies, nulls |-> a.nulls \cup b.nulls,
      pubnames |-> IF pub THEN <<[unit |-> 0, names |-> <<>>],
                                 [unit |-> u, names |-> SetToSeq({<<d.at - u, d.name>> : d \in named})]>>
                          ELSE <<>>,
      symbols |-> <<[name |-> <<13>>, value |-> 90, global |-> TRUE, func |-> FALSE],
                    [name |-> <<14>>, value |-> 91, global |-> TRUE, func |-> TRUE]>>]

MCPrograms ==
  {Program(ks, js, pub) :
     ks \in {<<"decl", "f", "null">>, <<"var", "g", "anon">>, <<"label", "null", "f", "g", "null">>},
     js \in {<<"null", "g">>, <<"decl", "anon", "f">>, <<"label", "var", "null">>}, pub \in BOOLEAN}
MCQuestions ==
  {[kind |-> "rip", addr |-> a, line |-> TRUE] : a \in {0, 15} \cup 20..48}
  \cup {[kind |-> "rip", addr |-> a, line |-> FALSE] : a \in {21, 37}}
  \cup {[kind |-> "find", name |-> x] : x \in {<<11>>, <<12, 12>>, <<13>>, <<14>>, <<15>>}}

-----------------------------------------------------------------------------

\* The inputs of a part are chosen where that part is what runs.
Chosen(x, set) == IF part = x THEN set ELSE {CHOOSE c \in set : TRUE}
MCServicesInit ==
  /\ part \in Parts
  /\ Init /\ KAllocInit /\ StringOpsInit
  /\ PrintFmtStart(Chosen("print", Calls))
  /\ DwarfLinesStart(Chosen("lines", LineUnits), Chosen("lines", Wanted), Chosen("lines", Garbage))
  /\ DwarfInfoStart(Chosen("info", Programs), Chosen("info", Questions))

Only(x) == part = x /\ UNCHANGED part

InSched(B)  == Only("sched") /\ B /\ UNCHANGED <<kaVars, pfVars, soVars, dlVars, diVars>>
InAlloc(B)  == Only("alloc") /\ B /\ UNCHANGED <<vars, pfVars, soVars, dlVars, diVars>>
InPrint(B)  == Only("print") /\ B /\ UNCHANGED <<vars, kaVars, soVars, dlVars, diVars>>
InString(B) == Only("string") /\ B /\ UNCHANGED <<vars, kaVars, pfVars, dlVars, diVars>>
InLines(B)  == Only("lines") /\ B /\ UNCHANGED <<vars, kaVars, pfVars, soVars, diVars>>
InInfo(B)   == Only("info") /\ B /\ UNCHANGED <<vars, kaVars, pfVars, soVars, dlVars>>

MCServicesNext ==
  \/ InSched(Next) \/ InAlloc(KAllocNext) \/ InPrint(PrintFmtNext)
  \/ InString(StringOpsNext) \/ InLines(DwarfLinesNext) \/ InInfo(DwarfInfoNext)

\* The fairness of CoopSpec and KAllocSpec.
MCServicesFairness ==
  /\ WF_servicesVars(InSched(SchedYield)) /\ WF_servicesVars(InSched(SysYield \/ SysExit))
  /\ \A c \in Callers : WF_servicesVars(InAlloc(Step(c)))

MCServicesSpec == MCServicesInit /\ [][MCServicesNext]_servicesVars /\ MCServicesFairness

-----------------------------------------------------------------------------
(* Properties of several parts.                                            *)

\* printf() prints numbers and texts as its format asks, within the buffer, and
\* the string functions do what their standard names promise at every length, but
\* for the last bytes of memset(), what strlcat() makes of a string that is too long,
\* and capital letters in strtol().
LibraryRight ==
  /\ NumberRight /\ TextRight /\ BufferKept
  /\ MemsetFills /\ MemmoveCopies /\ WithinSize /\ StrtolValue

\* A backtrace gives the function a call is in and the line of the call, and a
\* name leads to its function.
BacktraceRight ==
  /\ LineInOrder
  /\ CursorAtDie /\ CallIsInside /\ CallExplained /\ NameLeadsHome
=============================================================================
