------------------------------ MODULE PrintFmt ------------------------------
(***************************************************************************)
(* vprintfmt() of lib/printfmt.c, one character of the format per step,    *)
(* under vsnprintf() or under cprintf() of kern/printf.c.  A character is  *)
(* its code, since the parser computes with it; an argument has a number   *)
(* and a string, of which the conversion takes one.                        *)
(***************************************************************************)
EXTENDS Integers, Sequences

CONSTANTS
  Calls,        \* the calls: format, arguments, and the size of the buffer or 0 for cprintf()
  UINT, ULONG,  \* how many values an unsigned int and an unsigned long have
  error_string  \* the errors that have a string

Code == [hash |-> 35, percent |-> 37, star |-> 42, minus |-> 45, dot |-> 46, zero |-> 48,
         nine |-> 57, X |-> 88, c |-> 99, d |-> 100, i |-> 105, l |-> 108, o |-> 111,
         p |-> 112, s |-> 115, u |-> 117, x |-> 120, z |-> 122, space |-> 32, tilde |-> 126]

VARIABLES
  pfPc,         \* where vprintfmt() is: "plain", "switch" or "done"; "off" before the call
  pfCall,
  ufmt, aq,     \* the next character and the next argument
  padc, width, precision, lflag, altflag,
  putch         \* what has been put

pfVars == <<pfPc, pfCall, ufmt, aq, padc, width, precision, lflag, altflag, putch>>
flags == <<padc, width, precision, lflag, altflag>>

PrintFmtStart(calls) ==
  /\ pfPc = "off" /\ pfCall \in calls /\ ufmt = 1 /\ aq = 1
  /\ padc = 32 /\ width = -1 /\ precision = -1 /\ lflag = 0 /\ altflag = FALSE
  /\ putch = <<>>
PrintFmtInit == PrintFmtStart(Calls)

PrintCall == pfPc = "off" /\ pfPc' = "plain" /\ UNCHANGED <<pfCall, ufmt, aq, flags, putch>>

\* The format ends with a zero.
CharAt(k) == IF k > Len(pfCall.fmt) THEN 0 ELSE pfCall.fmt[k]
ch  == CharAt(ufmt)
Arg == pfCall.args[aq]

Plain ==
  /\ pfPc = "plain"
  /\ ufmt' = ufmt + 1
  /\ CASE ch = 0 -> pfPc' = "done" /\ UNCHANGED <<flags, putch>>
       [] ch = Code.percent ->
            /\ pfPc' = "switch" /\ UNCHANGED putch
            /\ padc' = Code.space /\ width' = -1 /\ precision' = -1 /\ lflag' = 0 /\ altflag' = FALSE
       [] OTHER -> putch' = Append(putch, ch) /\ UNCHANGED <<pfPc, flags>>
  /\ UNCHANGED <<pfCall, aq>>

In(what) == pfPc = "switch" /\ ch \in {Code[w] : w \in what}

SetFlag ==
  /\ \/ In({"zero", "minus"}) /\ padc' = ch /\ UNCHANGED <<width, lflag, altflag>>
     \/ In({"dot"})  /\ width' = (IF width < 0 THEN 0 ELSE width) /\ UNCHANGED <<padc, lflag, altflag>>
     \/ In({"hash"}) /\ altflag' = TRUE /\ UNCHANGED <<padc, width, lflag>>
     \/ In({"l"})    /\ lflag' = lflag + 1 /\ UNCHANGED <<padc, width, altflag>>
     \/ In({"z"})    /\ lflag' = 2 /\ UNCHANGED <<padc, width, altflag>>
  /\ ufmt' = ufmt + 1
  /\ UNCHANGED <<pfPc, pfCall, aq, precision, putch>>

\* process_precision: the first number is the width, the next one the precision.
TakeNumber(n) ==
  IF width < 0 THEN width' = n /\ precision' = -1 ELSE precision' = n /\ UNCHANGED width

NoDigit(c) == c - Code.zero > 9

Number ==
  /\ pfPc = "switch" /\ ch > Code.zero /\ ch <= Code.nine
  /\ LET last == CHOOSE k \in ufmt..Len(pfCall.fmt) :
                   NoDigit(CharAt(k + 1)) /\ \A j \in ufmt..(k - 1) : ~NoDigit(CharAt(j + 1))
         value[k \in (ufmt - 1)..last] ==
           IF k = ufmt - 1 THEN 0 ELSE value[k - 1] * 10 + CharAt(k) - Code.zero
     IN TakeNumber(value[last]) /\ ufmt' = last + 1
  /\ UNCHANGED <<pfPc, pfCall, aq, padc, lflag, altflag, putch>>

Star ==
  /\ In({"star"})
  /\ TakeNumber(Arg.number) /\ aq' = aq + 1 /\ ufmt' = ufmt + 1
  /\ UNCHANGED <<pfPc, pfCall, padc, lflag, altflag, putch>>

Times(n, c) == [k \in 1..(IF n > 0 THEN n ELSE 0) |-> c]
HexDigit(n, capital) == IF n < 10 THEN Code.zero + n ELSE (IF capital THEN 55 ELSE 87) + n

Rest(num, base) == num \div base

print_num(num, base, w, c, capital) ==
  LET digits[m \in 0..num] == IF m >= base THEN Append(digits[Rest(m, base)], m % base) ELSE <<m>>
  IN Times(w - Len(digits[num]), c) \o
       [k \in 1..Len(digits[num]) |-> HexDigit(digits[num][k], capital)]

Puts(s) ==
  /\ putch' = putch \o s
  /\ ufmt' = ufmt + 1 /\ pfPc' = "plain"
  /\ UNCHANGED <<pfCall, flags>>

Unsigned(n) == n % (IF lflag = 0 THEN UINT ELSE ULONG)

Numeric ==
  /\ \/ In({"d"}) /\ Puts(IF Arg.number < 0
                            THEN <<Code.minus>> \o print_num(-Arg.number, 10, width, padc, FALSE)
                            ELSE print_num(Arg.number, 10, width, padc, FALSE))
     \/ In({"u"}) /\ Puts(print_num(Unsigned(Arg.number), 10, width, padc, FALSE))
     \/ In({"o"}) /\ Puts(print_num(Unsigned(Arg.number), 8, width, padc, FALSE))
     \/ In({"x", "X"}) /\ Puts(print_num(Unsigned(Arg.number), 16, width, padc, ch = Code.X))
     \/ In({"p"}) /\ Puts(<<Code.zero, Code.x>> \o print_num(Arg.number % ULONG, 16, width, padc, FALSE))
  /\ aq' = aq + 1

\* The name of the error, 1000 and its number, or `error' and its number.
Error == LET err == IF Arg.number < 0 THEN -Arg.number ELSE Arg.number
         IN IF err \in error_string THEN <<1000 + err>> ELSE <<2000>> \o print_num(err, 10, -1, 32, FALSE)

Shown(s) == IF precision < 0 \/ precision > Len(s) THEN s ELSE SubSeq(s, 1, precision)
Visible(c) == IF altflag /\ (c < Code.space \/ c > Code.tilde) THEN 63 ELSE c

String ==
  LET s    == [k \in 1..Len(Shown(Arg.string)) |-> Visible(Shown(Arg.string)[k])]
      fill == width - Len(s)
  IN IF width > 0 /\ padc # Code.minus THEN Times(fill, padc) \o s
                                       ELSE s \o Times(fill, Code.space)

Other ==
  /\ \/ In({"c"}) /\ Puts(<<Arg.number>>) /\ aq' = aq + 1
     \/ In({"i"}) /\ Puts(Error) /\ aq' = aq + 1
     \/ In({"s"}) /\ Puts(String) /\ aq' = aq + 1
     \/ In({"percent"}) /\ Puts(<<ch>>) /\ UNCHANGED aq

\* An unknown character: the format is printed from behind the percent sign on.
Unknown ==
  /\ pfPc = "switch" /\ ch \notin {Code[w] : w \in DOMAIN Code \ {"space", "tilde"}}
  /\ ~(ch > Code.zero /\ ch < Code.nine)
  /\ putch' = Append(putch, Code.percent)
  /\ ufmt' = 1 + CHOOSE k \in 1..(ufmt - 1) :
                   CharAt(k) = Code.percent /\ \A j \in (k + 1)..(ufmt - 1) : CharAt(j) # Code.percent
  /\ pfPc' = "plain"
  /\ UNCHANGED <<pfCall, aq, flags>>

PrintFmtNext == PrintCall \/ Plain \/ SetFlag \/ Number \/ Star \/ Numeric \/ Other \/ Unknown
PrintFmtSpec == PrintFmtInit /\ [][PrintFmtNext]_pfVars

Room(n) == n - 1
\* What vsnprintf() leaves in the buffer: sprintputch() counts what it drops.
Buffer == SubSeq(putch, 1, IF Len(putch) < Room(pfCall.n) THEN Len(putch) ELSE Room(pfCall.n)) \o <<0>>

-----------------------------------------------------------------------------

ValueOf(c) == IF c <= Code.nine THEN c - Code.zero ELSE IF c >= 97 THEN c - 87 ELSE c - 55
\* The number that a string of digits denotes.
Denotes(s, base) ==
  LET v[k \in 0..Len(s)] == IF k = 0 THEN 0 ELSE v[k - 1] * base + ValueOf(s[k]) IN v[Len(s)]

\* A number is printed by digits that denote it, behind its sign, with at least as
\* many characters as the width asks for and no zero in front beyond that (the calls
\* that say so in `expect': base, width and number).
NumberRight == pfPc = "done" /\ pfCall.expect # <<>> =>
  LET base == pfCall.expect[1]
      w    == pfCall.expect[2]
      sign == IF pfCall.expect[3] < 0 THEN <<Code.minus>> ELSE <<>>
      tail == SubSeq(putch, Len(sign) + 1, Len(putch))
      from == CHOOSE k \in 1..Len(tail) : tail[k] # 32 /\ \A j \in 1..(k - 1) : tail[j] = 32
      n    == IF pfCall.expect[3] < 0 THEN -pfCall.expect[3] ELSE pfCall.expect[3]
  IN /\ SubSeq(putch, 1, Len(sign)) = sign
     /\ Denotes(SubSeq(tail, from, Len(tail)), base) = n
     /\ Len(tail) >= w
     /\ Len(tail) > w /\ Len(tail) > 1 => tail[1] # Code.zero

\* Each conversion takes its own argument, and no text of the format is lost or
\* printed twice: the calls that say in `all' what they print do so.
TextRight == pfPc = "done" /\ pfCall.all # <<>> => putch = pfCall.all /\ aq = Len(pfCall.args) + 1

\* vsnprintf() writes within its buffer and ends the string there, whatever is printed.
BufferKept == pfCall.n > 0 => Len(Buffer) <= pfCall.n /\ Buffer[Len(Buffer)] = 0

=============================================================================
