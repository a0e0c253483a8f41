------------------------------ MODULE MCConsole ------------------------------
(***************************************************************************)
(* What the user types and sees, on small instances: the ring of the       *)
(* console, the keyboard, the line editor and its echo, the monitor,       *)
(* and the surfaces and the game it starts.  They are modelled apart, so   *)
(* each behaviour is one of `part'.                                        *)
(***************************************************************************)
EXTENDS ConsRing, Keyboard, LineEditor, Monitor, GpuSurface, PongGame

VARIABLE part

Parts == {"ring", "keyboard", "line", "monitor", "surface", "pong"}

consoleVars == <<part, vars, kbVars, leVars, mnVars, gsVars, pgVars>>

\* The lines of up to five letters and blanks, with one command a prefix of another.
MCLines    == UNION {[1..k -> {"a", "b", "w"}] : k \in 0..5}
MCCommands == <<<<"a">>, <<"a", "b">>>>

MCConsoleInit ==
  /\ part \in Parts
  /\ Init /\ KeyboardInit /\ LineEditorInit /\ MonitorInit /\ GpuSurfaceInit /\ PongGameInit

Only(p) == part = p /\ UNCHANGED part

InRing(A)     == Only("ring") /\ A /\ UNCHANGED <<kbVars, leVars, mnVars, gsVars, pgVars>>
InKeyboard(A) == Only("keyboard") /\ A /\ UNCHANGED <<vars, leVars, mnVars, gsVars, pgVars>>
InLine(A)     == Only("line") /\ A /\ UNCHANGED <<vars, kbVars, mnVars, gsVars, pgVars>>
InMonitor(A)  == Only("monitor") /\ A /\ UNCHANGED <<vars, kbVars, leVars, gsVars, pgVars>>
InSurface(A)  == Only("surface") /\ A /\ UNCHANGED <<vars, kbVars, leVars, mnVars, pgVars>>
InPong(A)     == Only("pong") /\ A /\ UNCHANGED <<vars, kbVars, leVars, mnVars, gsVars>>

MCConsoleNext ==
  \/ InRing(Next) \/ InKeyboard(KeyboardNext) \/ InLine(LineEditorNext)
  \/ InMonitor(MonitorNext) \/ InSurface(GpuSurfaceNext) \/ InPong(PongGameNext)

MCConsoleSpec ==
  MCConsoleInit /\ [][MCConsoleNext]_consoleVars /\ WF_consoleVars(InRing(cons_getc))
==============================================================================
