----------------------------- MODULE LossyQueue -----------------------------
(***************************************************************************)
(* What the console's input buffer promises: a queue of characters, taken  *)
(* in the order in which they were put, that holds at most Capacity of     *)
(* them.  Nothing refuses a character when the queue is full: it empties   *)
(* the queue, and is lost with everything that was waiting.                *)
(***************************************************************************)
EXTENDS Naturals, Sequences

CONSTANTS
  Chars,     \* the characters
  Capacity,  \* how many of them may wait
  Nothing    \* what a caller gets when none is waiting

VARIABLES
  queue,  \* the characters that wait
  got     \* what the last caller got

Init == queue = <<>> /\ got = Nothing

Put(c) ==
  /\ queue' = IF Len(queue) = Capacity THEN <<>> ELSE Append(queue, c)
  /\ UNCHANGED got

Take ==
  /\ queue # <<>>
  /\ got' = Head(queue) /\ queue' = Tail(queue)

TakeNothing ==
  /\ queue = <<>>
  /\ got' = Nothing /\ UNCHANGED queue

Next == (\E c \in Chars : Put(c)) \/ Take \/ TakeNothing

Spec == Init /\ [][Next]_<<queue, got>>
=============================================================================
