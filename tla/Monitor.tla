------------------------------ MODULE Monitor ------------------------------
(***************************************************************************)
(* monitor() and runcmd() of kern/monitor.c: the line readline() returns   *)
(* is cut into arguments where it is, and argv[0] looked up in commands[]. *)
(* A character is "w", white space, "0", the end of a string, or a letter. *)
(***************************************************************************)
EXTENDS Integers, Sequences, FiniteSets

CONSTANTS
  Lines,      \* the lines readline() may return, sequences of characters
  MAXARGS,
  commands    \* the names of the commands, sequences of letters

\* readline() ends a line at its first zero, so there is none in it.
Characters == UNION {{s[i] : i \in DOMAIN s} : s \in Lines}

ASSUME LinesAssumption == Lines \subseteq Seq(Characters) /\ "0" \notin Characters
ASSUME ArgsAssumption  == MAXARGS \in Nat \ {0}

VARIABLES
  mnPc,       \* where monitor() is
  typed,      \* the line as readline() returned it
  chars,      \* the buffer, with its final zero
  at_char,    \* buf
  argv,       \* the places the arguments start at
  ran         \* the command that was called last, 0 if none was

mnVars == <<mnPc, typed, chars, at_char, argv, ran>>

MonitorInit == mnPc = "readline" /\ typed = <<>> /\ chars = <<"0">> /\ at_char = 1 /\ argv = <<>> /\ ran = 0

ReadLine ==
  /\ mnPc = "readline"
  /\ typed' \in Lines /\ chars' = Append(typed', "0")
  /\ at_char' = 1 /\ argv' = <<>> /\ mnPc' = "gobble"
  /\ UNCHANGED ran

Cut(s, i) == [s EXCEPT ![i] = "0"]

Gobble ==
  /\ mnPc = "gobble" /\ chars[at_char] = "w"
  /\ chars' = Cut(chars, at_char) /\ at_char' = at_char + 1
  /\ UNCHANGED <<mnPc, typed, argv, ran>>

MutantOneMore(argc) == argc = MAXARGS
TooMany(argc) == argc = MAXARGS - 1

NextArg ==
  /\ mnPc = "gobble" /\ chars[at_char] # "w"
  /\ IF chars[at_char] = "0" THEN mnPc' = "lookup" /\ UNCHANGED <<argv, ran>>
     ELSE IF TooMany(Len(argv)) THEN mnPc' = "readline" /\ ran' = 0 /\ UNCHANGED argv
     ELSE mnPc' = "scan" /\ argv' = Append(argv, at_char) /\ UNCHANGED ran
  /\ UNCHANGED <<typed, chars, at_char>>

ScanArg ==
  /\ mnPc = "scan"
  /\ IF chars[at_char] \in {"0", "w"} THEN mnPc' = "gobble" /\ UNCHANGED at_char
                                      ELSE at_char' = at_char + 1 /\ UNCHANGED mnPc
  /\ UNCHANGED <<typed, chars, argv, ran>>

\* The string that starts at place i.
StringAt(s, i) ==
  LET end == CHOOSE e \in i..Len(s) : s[e] = "0" /\ \A k \in i..(e - 1) : s[k] # "0"
  IN SubSeq(s, i, end - 1)

\* The first command of that name is called; a negative result ends the monitor.
Lookup ==
  /\ mnPc = "lookup"
  /\ LET named == {c \in 1..Len(commands) : argv # <<>> /\ commands[c] = StringAt(chars, argv[1])}
     IN IF named = {} THEN ran' = 0 /\ mnPc' = "readline"
        ELSE /\ ran' = CHOOSE c \in named : \A d \in named : c <= d
             /\ mnPc' \in {"readline", "exit"}
  /\ UNCHANGED <<typed, chars, at_char, argv>>

MonitorNext == ReadLine \/ Gobble \/ NextArg \/ ScanArg \/ Lookup
MonitorSpec == MonitorInit /\ [][MonitorNext]_mnVars

-----------------------------------------------------------------------------

\* Where the words of a line start, in order.
Starts(s) == {i \in 1..Len(s) : s[i] # "w" /\ (i = 1 \/ s[i - 1] = "w")}
WordFrom(s, i) == {k \in i..Len(s) : \A j \in i..k : s[j] # "w"}

\* When a command is looked up, its arguments are the words of the line, each whole,
\* in order, and ended by a zero, however much white space there is.
ArgsAreWords == mnPc = "lookup" =>
  /\ {argv[k] : k \in 1..Len(argv)} = Starts(typed)
  /\ \A k \in 2..Len(argv) : argv[k - 1] < argv[k]
  /\ \A k \in 1..Len(argv) :
       Len(StringAt(chars, argv[k])) = Cardinality(WordFrom(typed, argv[k]))

\* argv[] has room for the NULL behind the last argument.
ArgvFits == Len(argv) < MAXARGS

\* A command gets the words of its line, as far as argv has room.
ArgsWhole == ArgsAreWords /\ ArgvFits
=============================================================================
