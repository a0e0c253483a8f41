------------------------------ MODULE StringOps ------------------------------
(***************************************************************************)
(* The functions of lib/string.c that are not what they do at first sight: *)
(* memset() and memmove() by words of eight bytes, strlcpy(), strlcat()    *)
(* and strtol().  A run is one call; memory is an array of bytes.          *)
(***************************************************************************)
EXTENDS Integers, Sequences

CONSTANTS
  Bytes,     \* how many bytes of memory there are
  Sets,      \* the calls of memset(): <<v, n>>
  Moves,     \* of memmove(): <<dst, src, n>>
  Strings,   \* of strlcpy() and strlcat(): <<what dst holds, src, size>>
  Numbers    \* of strtol(): <<the characters, base>>

VARIABLES
  soOp,      \* the function and its arguments, or <<"none">>
  mem,       \* the memory
  ret        \* the result, if it is a number

soVars == <<soOp, mem, ret>>

\* No two bytes are alike, and none is what memset() writes.
Fresh == [a \in 0..(Bytes - 1) |-> 100 + a]
StringOpsInit == soOp = <<"none">> /\ mem = Fresh /\ ret = 0

Filled(m, a, n, c) == [b \in DOMAIN m |-> IF b \in a..(a + n - 1) THEN c ELSE m[b]]

Tail8(ni) == ni % 8
Lead(v) == (8 - (v % 8)) % 8

\* The words are stored by an instruction that moves the register of ptr; ptr itself
\* is not told.  Where the last bytes go depends on which one is used for them.
memset == \E call \in Sets :
  LET v    == call[1]
      n    == call[2]
      ni   == n - Lead(v)
      body == 8 * (ni \div 8)
      head == Filled(mem, v, Lead(v), 1)
  IN /\ soOp' = <<"memset", call>>
     /\ IF ni < 0 THEN mem' = Filled(mem, v, n, 1)
        ELSE \E ptr \in {v + Lead(v), v + Lead(v) + body} :
               mem' = Filled(Filled(head, v + Lead(v), body, 1), ptr, Tail8(ni), 1)
     /\ UNCHANGED ret

\* rep movs: n \div unit copies, each of what is there by then.
Copied(m, d, s, n, unit, down) ==
  LET after[k \in 0..(n \div unit)] ==
        IF k = 0 THEN m
        ELSE LET off == IF down THEN n - k * unit ELSE (k - 1) * unit
             IN [a \in DOMAIN m |-> IF a \in (d + off)..(d + off + unit - 1)
                                      THEN after[k - 1][a - d + s] ELSE after[k - 1][a]]
  IN after[n \div unit]

MutantAlwaysUp(d, s, n) == FALSE
Overlaps(d, s, n) == s < d /\ s + n > d

memmove == \E call \in Moves :
  LET d == call[1]
      s == call[2]
      n == call[3]
      unit == IF s % 8 = 0 /\ d % 8 = 0 /\ n % 8 = 0 THEN 8 ELSE 1
  IN /\ soOp' = <<"memmove", call>>
     /\ mem' = Copied(mem, d, s, n, unit, Overlaps(d, s, n))
     /\ UNCHANGED ret

\* The bytes of s and a zero at address a.
Put(m, a, s) == [b \in DOMAIN m |-> IF b \in a..(a + Len(s) - 1) THEN s[b - a + 1]
                                    ELSE IF b = a + Len(s) THEN 0 ELSE m[b]]
Least(a, b) == IF a < b THEN a ELSE b

strlcpy == \E call \in Strings :
  LET src == call[2]
      size == call[3]
      n == Least(Len(src), size - 1)
  IN /\ soOp' = <<"strlcpy", call>>
     /\ IF size = 0 THEN ret' = 0 /\ UNCHANGED mem
                    ELSE ret' = n /\ mem' = Put(mem, 0, SubSeq(src, 1, n))

Fits(n, room) == n < room

\* If src does not fit, as much of it is copied as if dst were empty.
strlcat == \E call \in Strings :
  LET dst == call[1]
      src == call[2]
      maxlen == call[3]
      before == Put(mem, 0, dst)
      dstlen == Least(Len(dst), maxlen)
  IN /\ soOp' = <<"strlcat", call>>
     /\ IF dstlen = maxlen THEN ret' = maxlen + Len(src) /\ mem' = before
        ELSE /\ ret' = dstlen + Len(src)
             /\ mem' = Put(before, dstlen, IF Fits(Len(src), maxlen - dstlen) THEN src
                                           ELSE SubSeq(src \o <<0>> \o [k \in 1..maxlen |-> 7], 1, maxlen - 1))

\* uint8_t dig: what lies below '0' or 'a' comes out as a large number, or as a digit
\* from 'W' to '`'.  A capital is below 'a', so that the branch for capitals (string.c:267)
\* is never taken: 'A' to 'V' end the number, 'W' to 'Z' are 0 to 3.
Digit(c) == IF c - 48 < 10 THEN (c - 48) % 256
            ELSE IF c - 97 < 27 THEN (c - 87) % 256 ELSE 255
At(s, k) == IF k > Len(s) THEN 0 ELSE s[k]
Blank(c) == c \in {32, 9}
Sign(c)  == c \in {43, 45}
HexPrefix(s, k, base) == base \in {0, 16} /\ At(s, k) = 48 /\ At(s, k + 1) = 120

strtol == \E call \in Numbers :
  LET s    == call[1]
      sign == CHOOSE k \in 1..(Len(s) + 1) : ~Blank(At(s, k)) /\ \A j \in 1..(k - 1) : Blank(At(s, j))
      k0   == IF Sign(At(s, sign)) THEN sign + 1 ELSE sign
      base == CASE HexPrefix(s, k0, call[2]) -> 16
                [] call[2] = 0 /\ ~HexPrefix(s, k0, 0) /\ At(s, k0) = 48 -> 8
                [] call[2] = 0 /\ ~HexPrefix(s, k0, 0) /\ At(s, k0) # 48 -> 10
                [] OTHER -> call[2]
      from == IF HexPrefix(s, k0, call[2]) THEN k0 + 2
              ELSE IF call[2] = 0 /\ base = 8 THEN k0 + 1 ELSE k0
      end  == CHOOSE k \in from..(Len(s) + 1) :
                Digit(At(s, k)) >= base /\ \A j \in from..(k - 1) : Digit(At(s, j)) < base
      val[k \in (from - 1)..(end - 1)] == IF k < from THEN 0 ELSE val[k - 1] * base + Digit(s[k])
  IN /\ soOp' = <<"strtol", call>>
     /\ ret' = IF At(s, sign) = 45 THEN -val[end - 1] ELSE val[end - 1]
     /\ UNCHANGED mem

StringOpsNext == soOp = <<"none">> /\ (memset \/ memmove \/ strlcpy \/ strlcat \/ strtol)
StringOpsSpec == StringOpsInit /\ [][StringOpsNext]_soVars

-----------------------------------------------------------------------------

\* memset() fills what it is asked to fill, but perhaps for its last bytes (fewer than
\* eight, when a word was stored before them), and nothing else.
MemsetFills == soOp[1] = "memset" =>
  LET v == soOp[2][1]
      n == soOp[2][2]
  IN \A a \in DOMAIN mem :
       /\ a \notin v..(v + n - 1) => mem[a] = Fresh[a]
       /\ a \in v..(v + n - 1) => mem[a] = 1 \/ (a > v + n - 8 /\ n >= 8)

\* memmove() leaves at dst what was at src before, however the two overlap.
MemmoveCopies == soOp[1] = "memmove" =>
  LET d == soOp[2][1]
      s == soOp[2][2]
      n == soOp[2][3]
  IN \A a \in DOMAIN mem : mem[a] = IF a \in d..(d + n - 1) THEN Fresh[a - d + s] ELSE Fresh[a]

\* strlcpy() and strlcat() end the string within its size and write nothing behind it,
\* but for strlcat() of a string that is too long to one that is not empty.
WithinSize == soOp[1] \in {"strlcpy", "strlcat"} =>
  LET dst  == soOp[2][1]
      src  == soOp[2][2]
      size == soOp[2][3]
  IN soOp[1] = "strlcpy" \/ dst = <<>> \/ Len(dst) + Len(src) < size =>
       /\ size > 0 => \E a \in 0..(size - 1) : mem[a] = 0
       /\ \A a \in DOMAIN mem : a >= size /\ (soOp[1] = "strlcpy" \/ a > Len(dst)) => mem[a] = Fresh[a]

Capitals == 65..90
HasCapitals(s) == \E k \in 1..Len(s) : s[k] \in Capitals

\* strtol() finds the number that stands in a string, in the base its prefix or its
\* caller asks for.  It does so only if no digit is a capital letter: the branch that is
\* there for capitals (string.c:267) is never taken, and "7A" is 7 in base 16.
StrtolValue == soOp[1] = "strtol" /\ ~HasCapitals(soOp[2][1]) => ret = soOp[2][3]

=============================================================================
