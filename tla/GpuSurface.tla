------------------------------ MODULE GpuSurface ------------------------------
(***************************************************************************)
(* The surfaces of kern/virtio-gpu.c and kern/graphic.c, the commands they *)
(* turn into, and the three monitor commands that draw: font, example and  *)
(* pong.  A surface is a buffer of the kernel and a resource of the device *)
(* with the same picture; the device may have no room for another one.     *)
(*                                                                         *)
(* Nothing else runs meanwhile, so an operation on a surface is one step   *)
(* here, and every command gets its answer (VirtQueue).  Errors are only   *)
(* printed by the driver.                                                  *)
(***************************************************************************)
EXTENDS Integers, FiniteSets

CONSTANTS
  Pictures,   \* what may be drawn, Black among them
  Black,
  Capacity,   \* how many resources the device has room for
  Flips,      \* how often mon_example() shows its surfaces: 10
  MaxIds      \* bound: no program starts and no ball is lost after so many resources

\* get_main_surface()'s, game_info.screen, and the two of mon_example().
Surfaces == {"main", "screen", "surface", "surface2"}
NoSurface == "none"

VARIABLES
  gsPc,                \* where the program is, "monitor" if there is none
  flips,               \* i of mon_example()
  resource_id_cnt, last_scanout_id,   \* of gpu
  resource_id, backbuf,               \* of every surface
  host,                \* the device's resources: what backs them, their picture
  scanout, display,    \* the resource shown, and the picture
  displayed            \* history: the surface shown last and not touched since

gsVars == <<gsPc, flips, resource_id_cnt, last_scanout_id, resource_id, backbuf, host, scanout, display, displayed>>
deviceVars == <<host, scanout, display>>

GpuSurfaceInit ==
  /\ gsPc = "monitor" /\ flips = 0
  /\ resource_id_cnt = 0 /\ last_scanout_id = 0
  /\ resource_id = [s \in Surfaces |-> 0] /\ backbuf = [s \in Surfaces |-> Black]
  /\ host = <<>> /\ scanout = 0 /\ display = Black
  /\ displayed = NoSurface

-----------------------------------------------------------------------------
(* What the device does with a command: external.                          *)

CREATE_2D(h, id) ==
  IF Cardinality(DOMAIN h) < Capacity /\ id \notin DOMAIN h
  THEN [i \in DOMAIN h \cup {id} |-> IF i \in DOMAIN h THEN h[i] ELSE [backing |-> NoSurface, picture |-> Black]]
  ELSE h

ATTACH_BACKING(h, id, s) ==
  IF id \in DOMAIN h /\ h[id].backing = NoSurface THEN [h EXCEPT ![id] = [@ EXCEPT !.backing = s]] ELSE h

TRANSFER_TO_HOST_2D(h, id, buffers) ==
  IF id \in DOMAIN h /\ h[id].backing # NoSurface
  THEN [h EXCEPT ![id] = [@ EXCEPT !.picture = buffers[h[id].backing]]] ELSE h

\* A command for contexts, which a device without 3D does not know.
CTX_DETACH_RESOURCE(h, id) == h

UNREF(h, id) == [i \in DOMAIN h \ {id} |-> h[i]]

-----------------------------------------------------------------------------
(* The operations on surfaces.                                             *)

NewId(c) == c + 1

surface_init(s) ==
  LET id == NewId(resource_id_cnt) IN
    /\ resource_id_cnt' = id
    /\ resource_id' = [resource_id EXCEPT ![s] = id]
    /\ host' = ATTACH_BACKING(CREATE_2D(host, id), id, s)
    /\ displayed' = IF displayed = s THEN NoSurface ELSE displayed
    /\ UNCHANGED <<last_scanout_id, scanout, display, backbuf>>

Draw(s, picture) ==
  /\ backbuf' = [backbuf EXCEPT ![s] = picture]
  /\ displayed' = IF displayed = s THEN NoSurface ELSE displayed
  /\ UNCHANGED <<resource_id_cnt, last_scanout_id, resource_id, deviceVars>>

MutantOnceOnly(id) == last_scanout_id = 0
NeedsScanout(id) == last_scanout_id # id

\* surface_update_rect() of a whole surface.  last_scanout_id says what was asked
\* for, not what the device did.
surface_display(s) ==
  LET id    == resource_id[s]
      shown == IF NeedsScanout(id) /\ id \in DOMAIN host THEN id ELSE scanout
      h     == TRANSFER_TO_HOST_2D(host, id, backbuf) IN
    /\ last_scanout_id' = id
    /\ host' = h /\ scanout' = shown
    /\ display' = IF shown = id /\ id \in DOMAIN h THEN h[id].picture ELSE display
    /\ displayed' = s
    /\ UNCHANGED <<resource_id_cnt, resource_id, backbuf>>

MutantGivesBack(c) == c - 1
IdsAfterDestroy(c) == c

\* The device shows nothing any more if it showed this resource.
surface_destroy(s) ==
  LET id == resource_id[s] IN
    /\ host' = UNREF(CTX_DETACH_RESOURCE(host, id), id)
    /\ IF scanout = id THEN scanout' = 0 /\ display' = Black ELSE UNCHANGED <<scanout, display>>
    /\ displayed' = IF displayed = s THEN NoSurface ELSE displayed
    /\ resource_id_cnt' = IdsAfterDestroy(resource_id_cnt)
    /\ UNCHANGED <<last_scanout_id, resource_id, backbuf>>

Untouched == UNCHANGED <<resource_id_cnt, last_scanout_id, resource_id, backbuf, deviceVars, displayed>>

At(here, there) == gsPc = here /\ gsPc' = there

-----------------------------------------------------------------------------
(* mon_font(): get_main_surface() sets the surface up anew every time.     *)

FontInit == At("monitor", "font_draw") /\ resource_id_cnt < MaxIds /\ surface_init("main") /\ UNCHANGED flips
FontDraw == At("font_draw", "font_display") /\ (\E p \in Pictures : Draw("main", p)) /\ UNCHANGED flips
FontDisplay == At("font_display", "monitor") /\ surface_display("main") /\ UNCHANGED flips

(* mon_example()                                                           *)

ExampleInit  == At("monitor", "example_init") /\ resource_id_cnt < MaxIds /\ surface_init("surface") /\ UNCHANGED flips
ExampleInit2 == At("example_init", "example_draw") /\ surface_init("surface2") /\ UNCHANGED flips
ExampleDraw  == At("example_draw", "example_draw2") /\ (\E p \in Pictures : Draw("surface", p)) /\ UNCHANGED flips
ExampleDraw2 == At("example_draw2", "example_flip") /\ (\E p \in Pictures : Draw("surface2", p)) /\ flips' = 0
ExampleFlip  == At("example_flip", "example_flip2") /\ flips < Flips /\ surface_display("surface") /\ UNCHANGED flips
ExampleFlip2 == At("example_flip2", "example_flip") /\ surface_display("surface2") /\ flips' = flips + 1
ExampleEnd   == At("example_flip", "example_last") /\ flips = Flips /\ (\E p \in Pictures : Draw("surface", p)) /\ UNCHANGED flips
ExampleLast  == At("example_last", "example_clear") /\ surface_display("surface") /\ UNCHANGED flips
ExampleClear == At("example_clear", "example_clear2") /\ Draw("surface", Black) /\ UNCHANGED flips
ExampleClear2 == At("example_clear2", "monitor") /\ Draw("surface2", Black) /\ UNCHANGED flips

Example == \/ ExampleInit \/ ExampleInit2 \/ ExampleDraw \/ ExampleDraw2 \/ ExampleFlip \/ ExampleFlip2
           \/ ExampleEnd \/ ExampleLast \/ ExampleClear \/ ExampleClear2

(* pong(): game_init() sets the surface up again for every ball that is lost. *)

PongInit    == At("monitor", "pong_clear") /\ resource_id_cnt < MaxIds /\ surface_init("screen") /\ UNCHANGED flips
PongClear   == At("pong_clear", "pong_check") /\ (\E p \in Pictures : Draw("screen", p)) /\ UNCHANGED flips
PongPoint   == At("pong_check", "pong_draw") /\ resource_id_cnt < MaxIds /\ surface_init("screen") /\ UNCHANGED flips
PongPlay    == At("pong_check", "pong_draw") /\ Untouched /\ UNCHANGED flips
PongOver    == At("pong_check", "pong_last") /\ surface_display("screen") /\ UNCHANGED flips
PongDraw    == At("pong_draw", "pong_display") /\ (\E p \in Pictures : Draw("screen", p)) /\ UNCHANGED flips
PongDisplay == At("pong_display", "pong_clear") /\ surface_display("screen") /\ UNCHANGED flips
PongSpace   == At("pong_display", "pong_destroy") /\ surface_display("screen") /\ UNCHANGED flips
PongLast    == At("pong_last", "pong_end") /\ (\E p \in Pictures : Draw("screen", p)) /\ UNCHANGED flips
PongEnd     == At("pong_end", "pong_destroy") /\ surface_display("screen") /\ UNCHANGED flips
PongDestroy == At("pong_destroy", "monitor") /\ surface_destroy("screen") /\ UNCHANGED flips

Pong == \/ PongInit \/ PongClear \/ PongPoint \/ PongPlay \/ PongOver \/ PongDraw \/ PongDisplay \/ PongSpace
        \/ PongLast \/ PongEnd \/ PongDestroy

GpuSurfaceNext == FontInit \/ FontDraw \/ FontDisplay \/ Example \/ Pong
GpuSurfaceSpec == GpuSurfaceInit /\ [][GpuSurfaceNext]_gsVars

-----------------------------------------------------------------------------
(* Properties.                                                             *)

\* What a surface was last displayed with is on the screen, whatever was shown,
\* set up again, destroyed or refused before, as long as the device has its
\* resource (virtio-gpu.c:605): last_scanout_id may name a resource that is gone,
\* or one that was refused, and the scanout is still set whenever it has to be.
DisplayShows ==
  displayed # NoSurface /\ resource_id[displayed] \in DOMAIN host =>
    display = backbuf[displayed]

\* The resource of a surface is backed by its buffer and no other's: an
\* identifier is never given out again (virtio-gpu.c:585), also not that of a
\* resource which was refused.
BackedByItself ==
  \A s \in Surfaces : resource_id[s] \in DOMAIN host => host[resource_id[s]].backing = s
=============================================================================
