------------------------------ MODULE Keyboard ------------------------------
(***************************************************************************)
(* The decoder of scan codes, kbd_proc_data() of kern/console.c, against a *)
(* keyboard: keys that go down and up and repeat, whose codes are one to   *)
(* six bytes and arrive one at a time.                                     *)
(***************************************************************************)
EXTENDS Integers, Sequences, FiniteSets

CONSTANTS
  Keys,    \* the keys of the keyboard, a subset of AllKeys
  MaxWait, \* bound: how many bytes wait before a further key is touched
  MaxHeld  \* bound: how many keys are held down at once

AllKeys == {"LShift", "RShift", "LCtrl", "RCtrl", "LAlt", "RAlt",
            "CapsLock", "A", "Delete", "Pause"}

ASSUME KeysAssumption == Keys \subseteq AllKeys
ASSUME WaitAssumption == MaxWait \in Nat /\ MaxHeld \in Nat

E0 == 224

\* What a keyboard sends (external).  With NumLock on it wraps its grey keys
\* into a shift that nobody holds, and Pause sends all it has to say at once.
Make ==
  [LShift |-> <<42>>, RShift |-> <<54>>, LCtrl |-> <<29>>, RCtrl |-> <<E0, 29>>,
   LAlt |-> <<56>>, RAlt |-> <<E0, 56>>, CapsLock |-> <<58>>, A |-> <<30>>,
   Delete |-> <<E0, 42, E0, 83>>, Pause |-> <<225, 29, 69, 225, 157, 197>>]
Break ==
  [LShift |-> <<170>>, RShift |-> <<182>>, LCtrl |-> <<157>>, RCtrl |-> <<E0, 157>>,
   LAlt |-> <<184>>, RAlt |-> <<E0, 184>>, CapsLock |-> <<186>>, A |-> <<158>>,
   Delete |-> <<E0, 211, E0, 170>>, Pause |-> <<>>]

\* The modifier a key stands for.
Modifier(k) ==
  CASE k \in {"LShift", "RShift"} -> "SHIFT"
    [] k \in {"LCtrl", "RCtrl"}   -> "CTL"
    [] k \in {"LAlt", "RAlt"}     -> "ALT"
    [] OTHER                      -> "none"

VARIABLES
  (* kern/console.c *)
  shift,   \* the static variable of kbd_proc_data(), as a set of flags
  result,  \* what it returned last, or "none" while it has no data
  (* the keyboard *)
  held,  \* the keys that are down
  wire,  \* the bytes that wait: each with its key, whether that went down, and
         \* whether it is the last byte of its code
  (* history *)
  down,   \* the keys that are down as far as the codes that were read tell
  whole,  \* the last byte that was read ended a code
  caps    \* how often CapsLock went down, modulo two

kbVars == <<shift, result, held, wire, down, whole, caps>>

KeyboardInit ==
  /\ shift = {} /\ result = "none" /\ held = {} /\ wire = <<>>
  /\ down = {} /\ whole = TRUE /\ caps = 0

Bytes(k, codes, press) ==
  [i \in 1..Len(codes) |->
     [code |-> codes[i], key |-> k, press |-> press, last |-> i = Len(codes)]]

\* A key goes down, or repeats: external.
Press(k) ==
  /\ Len(wire) <= MaxWait /\ Cardinality(held \cup {k}) <= MaxHeld
  /\ held' = held \cup {k}
  /\ wire' = wire \o Bytes(k, Make[k], TRUE)
  /\ UNCHANGED <<shift, result, down, whole, caps>>

Release(k) ==
  /\ Len(wire) <= MaxWait /\ k \in held
  /\ held' = held \ {k}
  /\ wire' = wire \o Bytes(k, Break[k], FALSE)
  /\ UNCHANGED <<shift, result, down, whole, caps>>

-----------------------------------------------------------------------------
(* kern/console.c                                                          *)

shiftcode(data) ==
  CASE data \in {29, 157} -> {"CTL"}
    [] data \in {42, 54}  -> {"SHIFT"}
    [] data \in {56, 184} -> {"ALT"}
    [] OTHER              -> {}

togglecode(data) ==
  CASE data = 58 -> {"CAPSLOCK"} [] data = 69 -> {"NUMLOCK"} [] OTHER -> {}

\* normalmap, shiftmap and ctlmap at the codes of these keys.
charcode(flags, data) ==
  CASE data = 30  -> IF "CTL" \in flags THEN "^A" ELSE IF "SHIFT" \in flags THEN "A" ELSE "a"
    [] data = 83  -> IF "CTL" \in flags THEN "NO" ELSE "."
    [] data = 211 -> "KEY_DEL"
    [] OTHER      -> "NO"

Swapped(c) == CASE c = "a" -> "A" [] c = "A" -> "a" [] OTHER -> c

Toggle(flags, bits) == (flags \ bits) \cup (bits \ flags)

\* A release: behind an escape the whole byte counts, otherwise without 0x80.
ReleasedCode(data) == IF "E0ESC" \in shift THEN data ELSE data - 128

MutantKeepsEscape(data) == shift \ shiftcode(ReleasedCode(data))
AfterRelease(data)      == shift \ (shiftcode(ReleasedCode(data)) \cup {"E0ESC"})

\* A press: an escape adds 0x80.
PressedCode(data) == IF "E0ESC" \in shift THEN data + 128 ELSE data

AfterPress(data) ==
  Toggle((shift \ {"E0ESC"}) \cup shiftcode(PressedCode(data)), togglecode(PressedCode(data)))

RebootFlags(flags) == {"CTL", "ALT"} \subseteq flags

Decoded(flags, data) ==
  LET c == charcode(flags, data)
  IN  IF "CAPSLOCK" \in flags THEN Swapped(c) ELSE c

\* kbd_proc_data() with a byte at the port.  The machine does not come back
\* from a reboot.
kbd_proc_data ==
  /\ wire # <<>> /\ result # "reboot"
  /\ LET b == Head(wire)
         data == b.code
     IN  /\ IF data = E0 THEN shift' = shift \cup {"E0ESC"} /\ result' = "NO"
            ELSE IF data >= 128 THEN shift' = AfterRelease(data) /\ result' = "NO"
            ELSE /\ shift' = AfterPress(data)
                 /\ LET c == Decoded(shift', PressedCode(data))
                    IN  result' = IF RebootFlags(shift') /\ c = "KEY_DEL" THEN "reboot" ELSE c
         /\ whole' = b.last
         /\ down' = IF ~b.last THEN down
                    ELSE IF b.press THEN down \cup {b.key} ELSE down \ {b.key}
         /\ caps' = IF b.press /\ b.key = "CapsLock" THEN 1 - caps ELSE caps
  /\ wire' = Tail(wire)
  /\ UNCHANGED held

KeyboardNext == (\E k \in Keys : Press(k) \/ Release(k)) \/ kbd_proc_data

KeyboardSpec == KeyboardInit /\ [][KeyboardNext]_kbVars

-----------------------------------------------------------------------------
(* Properties.                                                             *)

Modifiers == {"SHIFT", "CTL", "ALT"}

\* Every variable keeps its type.
KeyboardTypeOK ==
  /\ shift \subseteq Modifiers \cup {"CAPSLOCK", "NUMLOCK", "E0ESC"}
  /\ result \in {"none", "NO", "a", "A", "^A", ".", "KEY_DEL", "reboot"}
  /\ held \subseteq Keys /\ down \subseteq Keys
  /\ \A i \in DOMAIN wire : wire[i].key \in Keys /\ wire[i].code \in 0..255
  /\ whole \in BOOLEAN /\ caps \in {0, 1}

\* No modifier gets stuck: in whatever order the two keys of a modifier, grey
\* keys and Pause are used, between two codes a modifier is on only while a key
\* that stands for it is down, and no escape is pending.
NoStuckModifier ==
  whole => /\ "E0ESC" \notin shift
           /\ \A m \in shift \cap Modifiers : \E k \in down : Modifier(k) = m

Decodes == wire # <<>> /\ wire' = Tail(wire)

\* A character comes from the key that was pressed, with the case that the
\* modifiers and CapsLock ask for: not from a part of a code, and never twice.
CharsOfKeys ==
  [][ LET b == Head(wire)
          On(m) == \E k \in down : Modifier(k) = m
      IN  Decodes /\ result' # "NO" =>
            /\ b.press /\ b.last
            /\ result' \in {"KEY_DEL", "reboot"} => b.key = "Delete"
            /\ result' \in {"a", "A", "^A"} => b.key = "A"
            /\ result' = "^A" => On("CTL")
            /\ result' = "A" /\ caps = 0 => On("SHIFT")
            /\ result' = "a" /\ caps = 1 => On("SHIFT")
            /\ result' # "." ]_kbVars

\* `Ctrl-Alt-Del -- reboot': nothing else reboots.
RebootNeedsAllThree ==
  [][ result' = "reboot" /\ result # "reboot" =>
        /\ Head(wire).key = "Delete" /\ Head(wire).press
        /\ \A m \in {"CTL", "ALT"} : \E k \in down : Modifier(k) = m ]_kbVars

\* The decoder understands what the keyboard says: modifiers, characters and
\* the three keys that reboot.
KeyboardSound == [](KeyboardTypeOK /\ NoStuckModifier) /\ CharsOfKeys /\ RebootNeedsAllThree
=============================================================================
