----------------------------- MODULE LineEditor -----------------------------
(***************************************************************************)
(* readline() of lib/readline.c and its echo through cons_putc() of        *)
(* kern/console.c.                                                         *)
(*                                                                         *)
(* cons_putc() sends a character to the serial port, to the parallel port  *)
(* and to fb_putc(), which returns at once: graphics_exists is set by      *)
(* fb_init() alone, and the one call of it is commented out.  What a user  *)
(* sees is the terminal at the serial port, external to this program: the  *)
(* row its cursor is in, which is as wide as the longest line.             *)
(***************************************************************************)
EXTENDS Integers

CONSTANTS
  BUFLEN,       \* the size of readline()'s buffer
  MaxPrompt,    \* a bound on what stands in the row before the line
  Inputs        \* the characters that arrive, a subset of AllInputs

ASSUME BufAssumption == BUFLEN \in Nat \ {0} /\ MaxPrompt \in Nat

Blank   == "blank"
Letters == {"a", "b"}
\* Beyond letters: an arrow key and bytes from the serial port with the eighth
\* bit set, a key that readline() ignores, and what edits and ends the line.
AllInputs == Letters \cup {"KEY_UP", "0x88", "0x8A", "ESC", "BS", "DEL", "NL", "CR"}

ASSUME InputAssumption == Inputs \subseteq AllInputs

Columns == 0..(MaxPrompt + BUFLEN - 1)
BufIdx  == 0..(BUFLEN - 1)

VARIABLES
  (* the terminal *)
  col, row,       \* the column of the cursor and what the row shows
  (* lib/readline.c *)
  line, length,   \* the line and its length, which the code calls i
  reading,        \* readline() is in its loop
  (* history *)
  start, before,  \* col and row when it began
  plain           \* nothing was typed into the line that a terminal takes for a control

leVars == <<col, row, line, length, reading, start, before, plain>>

-----------------------------------------------------------------------------
(* kern/console.c                                                          *)

\* The terminal: a backspace moves the cursor and erases nothing.
Shown(t, c) ==
  CASE c = "BS" -> [t EXCEPT !.col = IF @ > 0 THEN @ - 1 ELSE 0]
    [] c = "NL" -> [col |-> 0, row |-> [p \in Columns |-> Blank]]
    [] OTHER    -> [col |-> t.col + 1, row |-> [t.row EXCEPT ![t.col] = c]]

\* cons_putc() drops the eighth bit.
SevenBits(c) ==
  CASE c = "KEY_UP" -> "b" [] c = "0x88" -> "BS" [] c = "0x8A" -> "NL" [] OTHER -> c

cons_putc(t, c) == Shown(t, SevenBits(c))

Now == [col |-> col, row |-> row]

Show(t) == col' = t.col /\ row' = t.row

-----------------------------------------------------------------------------

LineEditorInit ==
  /\ col = 0 /\ row = [p \in Columns |-> Blank]
  /\ line = [k \in BufIdx |-> "NUL"] /\ length = 0
  /\ reading = FALSE /\ start = 0 /\ before = row /\ plain = TRUE

\* The kernel writes something, or the prompt.
cputchar(c) ==
  /\ ~reading /\ (c = "NL" \/ col < MaxPrompt)
  /\ Show(cons_putc(Now, c))
  /\ UNCHANGED <<line, length, reading, start, before, plain>>

\* readline() enters its loop.
StartReading ==
  /\ ~reading
  /\ reading' = TRUE /\ length' = 0 /\ plain' = TRUE
  /\ start' = col /\ before' = row
  /\ UNCHANGED <<col, row, line>>

MutantAlwaysErases == TRUE
Erasable == length > 0

\* A backspace at the start of the line does nothing.
Erase ==
  /\ IF Erasable
     THEN /\ Show(cons_putc(cons_putc(cons_putc(Now, "BS"), Blank), "BS"))
          /\ length' = length - 1
     ELSE UNCHANGED <<col, row, length>>
  /\ UNCHANGED <<line, reading, start, before, plain>>

Fits == length < BUFLEN - 1

\* A character beyond the end of the buffer is neither stored nor shown.
Insert(c) ==
  /\ IF Fits
     THEN /\ Show(cons_putc(Now, c))
          /\ line' = [line EXCEPT ![length] = c] /\ length' = length + 1
          /\ plain' = (plain /\ SevenBits(c) \notin {"BS", "NL"})
     ELSE UNCHANGED <<col, row, line, length, plain>>
  /\ UNCHANGED <<reading, start, before>>

Finish ==
  /\ Show(cons_putc(Now, "NL"))
  /\ line' = [line EXCEPT ![length] = "NUL"]
  /\ reading' = FALSE
  /\ UNCHANGED <<length, start, before, plain>>

\* One iteration of the loop in readline(): other control characters do nothing.
Key(c) ==
  /\ reading
  /\ CASE c \in {"BS", "DEL"} -> Erase
       [] c \in {"NL", "CR"}  -> Finish
       [] c = "ESC"           -> UNCHANGED leVars
       [] OTHER               -> Insert(c)

LineEditorNext ==
  \/ \E c \in Letters \cup {"NL"} : cputchar(c)
  \/ StartReading
  \/ \E c \in Inputs : Key(c)

LineEditorSpec == LineEditorInit /\ [][LineEditorNext]_leVars

-----------------------------------------------------------------------------
(* Properties.                                                             *)

\* Every variable keeps its type: the terminating zero has its place in the buffer.
LineEditorTypeOK ==
  /\ col \in Columns /\ row \in [Columns -> Letters \cup {Blank}]
  /\ length \in BufIdx /\ line \in [BufIdx -> AllInputs \cup {"NUL"}]
  /\ start \in 0..MaxPrompt /\ before \in [Columns -> Letters \cup {Blank}]
  /\ reading \in BOOLEAN /\ plain \in BOOLEAN

\* The row on the terminal is what stood before the line, then the line in the buffer,
\* and blank behind: whatever was typed and erased, beyond the end of the buffer too,
\* and erasing never reaches the prompt.  This is for lines without the bytes that lose
\* their eighth bit and become controls on the terminal.
EchoMatchesLine ==
  reading /\ plain =>
    /\ col = start + length
    /\ \A p \in Columns :
         row[p] = IF p < start THEN before[p]
                  ELSE IF p < col THEN SevenBits(line[p - start]) ELSE Blank

\* The terminal shows the line that is edited.
TerminalShowsLine == LineEditorTypeOK /\ EchoMatchesLine
=============================================================================
