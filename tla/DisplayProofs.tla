----------------------------- MODULE DisplayProofs -----------------------------
(***************************************************************************)
(* What is on the screen: the handshake with the GPU, the surfaces that    *)
(* are shown through it, and the game that is played on one of them.       *)
(***************************************************************************)
EXTENDS GpuSurface, GpuInit, PongGame, NatInduction

-----------------------------------------------------------------------------
(* The surfaces, for any pictures, any room in the device and any number   *)
(* of programs that draw.  Identifiers only grow, so a surface and the     *)
(* resource it was last set up with keep to themselves; and                *)
(* last_scanout_id, as long as it names a resource the device has, is what *)
(* the device shows.                                                       *)

Drawn    == Pictures \cup {Black}
Resource == [backing : Surfaces \cup {NoSurface}, picture : Drawn]

SurfaceTypeInv ==
  /\ resource_id_cnt \in Nat /\ last_scanout_id \in Nat
  /\ resource_id \in [Surfaces -> Nat] /\ backbuf \in [Surfaces -> Drawn]
  /\ host \in [DOMAIN host -> Resource]
  /\ displayed \in Surfaces \cup {NoSurface}

\* No identifier is ahead of the counter, none is shared, and 0 names nothing.
IdsInv ==
  /\ \A s \in Surfaces : resource_id[s] <= resource_id_cnt
  /\ \A s, t \in Surfaces : s # t /\ resource_id[s] = resource_id[t] => resource_id[s] = 0
  /\ \A i \in DOMAIN host : i \in Nat /\ i # 0 /\ i <= resource_id_cnt
  /\ last_scanout_id <= resource_id_cnt

\* What was asked for last is what is shown, if it is there to be shown.
ScanoutInv ==
  last_scanout_id \in DOMAIN host =>
    scanout = last_scanout_id /\ display = host[last_scanout_id].picture

DisplayedInv ==
  displayed # NoSurface =>
    /\ last_scanout_id = resource_id[displayed]
    /\ resource_id[displayed] \in DOMAIN host => host[resource_id[displayed]].picture = backbuf[displayed]

SurfaceInv == SurfaceTypeInv /\ IdsInv /\ BackedByItself /\ ScanoutInv /\ DisplayedInv

-----------------------------------------------------------------------------
(* The commands.                                                           *)

\* A new resource belongs to its surface from the start; the others stay.
LEMMA NewResource ==
  ASSUME NEW h, h \in [DOMAIN h -> Resource], NEW id, id \notin DOMAIN h, NEW s \in Surfaces,
         NEW g, g = ATTACH_BACKING(CREATE_2D(h, id), id, s)
  PROVE  /\ g \in [DOMAIN g -> Resource]
         /\ DOMAIN h \subseteq DOMAIN g /\ DOMAIN g \subseteq DOMAIN h \cup {id}
         /\ \A i \in DOMAIN h : g[i] = h[i]
         /\ id \in DOMAIN g => g[id].backing = s
<1>1. CASE CREATE_2D(h, id) = h
  <2>1. g = h
    BY <1>1 DEF ATTACH_BACKING
  <2> QED BY <2>1
<1>2. CASE CREATE_2D(h, id) # h
  <2> DEFINE blank == [backing |-> NoSurface, picture |-> Black]
             k     == [i \in DOMAIN h \cup {id} |-> IF i \in DOMAIN h THEN h[i] ELSE blank]
  <2>1. CREATE_2D(h, id) = k
    BY <1>2 DEF CREATE_2D
  <2>2. k[id] = blank /\ id \in DOMAIN k /\ k[id].backing = NoSurface
    OBVIOUS
  <2>3. g = [k EXCEPT ![id] = [k[id] EXCEPT !.backing = s]]
    BY <2>1, <2>2 DEF ATTACH_BACKING
  <2>4. [k[id] EXCEPT !.backing = s] = [backing |-> s, picture |-> Black]
    BY <2>2
  <2>5. g = [i \in DOMAIN h \cup {id} |-> IF i = id THEN [backing |-> s, picture |-> Black] ELSE h[i]]
    BY <2>3, <2>4
  <2>6. [backing |-> s, picture |-> Black] \in Resource
    BY DEF Resource, Drawn
  <2> HIDE DEF k
  <2> QED BY <2>5, <2>6
<1> QED BY <1>1, <1>2

\* The device copies the buffer behind a resource, and changes nothing else.
LEMMA Transferred ==
  ASSUME NEW h, h \in [DOMAIN h -> Resource], NEW id, NEW buffers \in [Surfaces -> Drawn],
         NEW g, g = TRANSFER_TO_HOST_2D(h, id, buffers)
  PROVE  /\ g \in [DOMAIN g -> Resource] /\ DOMAIN g = DOMAIN h
         /\ \A i \in DOMAIN h : g[i].backing = h[i].backing /\ (i # id => g[i] = h[i])
         /\ id \in DOMAIN h /\ h[id].backing # NoSurface => g[id].picture = buffers[h[id].backing]
<1>1. CASE id \in DOMAIN h /\ h[id].backing # NoSurface
  <2> DEFINE r == [h[id] EXCEPT !.picture = buffers[h[id].backing]]
  <2>1. h[id] \in Resource /\ h[id].backing \in Surfaces
    BY <1>1 DEF Resource
  <2>2. r \in Resource /\ r.backing = h[id].backing /\ r.picture = buffers[h[id].backing]
    BY <2>1 DEF Resource
  <2>3. g = [h EXCEPT ![id] = r]
    BY <1>1 DEF TRANSFER_TO_HOST_2D
  <2> HIDE DEF r
  <2> QED BY <1>1, <2>2, <2>3
<1>2. CASE ~(id \in DOMAIN h /\ h[id].backing # NoSurface)
  <2>1. g = h
    BY <1>2 DEF TRANSFER_TO_HOST_2D
  <2> QED BY <1>2, <2>1
<1> QED BY <1>1, <1>2

-----------------------------------------------------------------------------
(* The operations on surfaces.                                             *)

LEMMA SurfaceInitStep == ASSUME SurfaceInv, NEW s \in Surfaces, surface_init(s) PROVE SurfaceInv'
<1> DEFINE id == resource_id_cnt + 1
<1>1. /\ resource_id_cnt' = id /\ resource_id' = [resource_id EXCEPT ![s] = id]
      /\ host' = ATTACH_BACKING(CREATE_2D(host, id), id, s)
      /\ displayed' = IF displayed = s THEN NoSurface ELSE displayed
      /\ last_scanout_id' = last_scanout_id /\ scanout' = scanout /\ display' = display /\ backbuf' = backbuf
  BY DEF surface_init, NewId
<1>2. id \in Nat /\ id # 0 /\ id \notin DOMAIN host /\ id > resource_id_cnt
  BY DEF SurfaceInv, SurfaceTypeInv, IdsInv
<1> HIDE DEF id
<1>3. /\ host' \in [DOMAIN host' -> Resource]
      /\ DOMAIN host \subseteq DOMAIN host' /\ DOMAIN host' \subseteq DOMAIN host \cup {id}
      /\ \A i \in DOMAIN host : host'[i] = host[i]
      /\ id \in DOMAIN host' => host'[id].backing = s
  BY <1>1, <1>2, NewResource DEF SurfaceInv, SurfaceTypeInv
<1>4. SurfaceTypeInv'
  BY <1>1, <1>2, <1>3 DEF SurfaceInv, SurfaceTypeInv
<1>5. resource_id'[s] = id /\ \A t \in Surfaces : t # s => resource_id'[t] = resource_id[t]
  BY <1>1 DEF SurfaceInv, SurfaceTypeInv
<1>6. IdsInv'
  <2>1. \A t \in Surfaces : resource_id[t] \in Nat /\ resource_id[t] <= resource_id_cnt
    BY DEF SurfaceInv, SurfaceTypeInv, IdsInv
  <2>2. resource_id_cnt \in Nat /\ last_scanout_id \in Nat
    BY DEF SurfaceInv, SurfaceTypeInv
  <2> QED BY <1>1, <1>2, <1>3, <1>5, <2>1, <2>2 DEF SurfaceInv, IdsInv
<1>7. BackedByItself'
  <2> SUFFICES ASSUME NEW t \in Surfaces, resource_id'[t] \in DOMAIN host'
               PROVE  host'[resource_id'[t]].backing = t
    BY DEF BackedByItself
  <2>1. CASE t = s
    BY <2>1, <1>3, <1>5
  <2>2. CASE t # s
    <3>1. resource_id[t] # id
      BY <1>2 DEF SurfaceInv, SurfaceTypeInv, IdsInv
    <3> QED BY <2>2, <3>1, <1>3, <1>5 DEF SurfaceInv, BackedByItself
  <2> QED BY <2>1, <2>2
<1>8. last_scanout_id # id
  BY <1>2 DEF SurfaceInv, SurfaceTypeInv, IdsInv
<1>9. ScanoutInv'
  BY <1>1, <1>3, <1>8 DEF SurfaceInv, ScanoutInv
<1>10. DisplayedInv'
  <2> SUFFICES ASSUME displayed' # NoSurface
               PROVE  /\ last_scanout_id' = resource_id'[displayed']
                      /\ resource_id'[displayed'] \in DOMAIN host' =>
                           host'[resource_id'[displayed']].picture = backbuf'[displayed']
    BY DEF DisplayedInv
  <2>1. displayed' = displayed /\ displayed # s /\ displayed \in Surfaces
    BY <1>1 DEF SurfaceInv, SurfaceTypeInv
  <2>2. resource_id'[displayed'] = resource_id[displayed] /\ last_scanout_id = resource_id[displayed]
    BY <2>1, <1>5 DEF SurfaceInv, DisplayedInv
  <2> QED BY <1>1, <1>3, <1>8, <2>1, <2>2 DEF SurfaceInv, DisplayedInv
<1> QED BY <1>4, <1>6, <1>7, <1>9, <1>10 DEF SurfaceInv

LEMMA DrawStep ==
  ASSUME SurfaceInv, NEW s \in Surfaces, NEW p \in Drawn, Draw(s, p)
  PROVE  SurfaceInv'
<1>1. /\ backbuf' = [backbuf EXCEPT ![s] = p]
      /\ displayed' = IF displayed = s THEN NoSurface ELSE displayed
      /\ UNCHANGED <<resource_id_cnt, last_scanout_id, resource_id, host, scanout, display>>
  BY DEF Draw, deviceVars
<1>2. SurfaceTypeInv'
  BY <1>1 DEF SurfaceInv, SurfaceTypeInv
<1>3. IdsInv' /\ BackedByItself' /\ ScanoutInv'
  BY <1>1 DEF SurfaceInv, IdsInv, BackedByItself, ScanoutInv
<1>4. DisplayedInv'
  <2>1. CASE displayed = s
    BY <1>1, <2>1 DEF DisplayedInv
  <2>2. CASE displayed # s
    <3>1. displayed # NoSurface => backbuf'[displayed] = backbuf[displayed]
      BY <1>1, <2>2 DEF SurfaceInv, SurfaceTypeInv
    <3> QED BY <1>1, <2>2, <3>1 DEF SurfaceInv, DisplayedInv
  <2> QED BY <2>1, <2>2
<1> QED BY <1>2, <1>3, <1>4 DEF SurfaceInv

LEMMA DisplayStep == ASSUME SurfaceInv, NEW s \in Surfaces, surface_display(s) PROVE SurfaceInv'
<1> DEFINE id == resource_id[s]
<1>1. /\ last_scanout_id' = id /\ displayed' = s
      /\ host' = TRANSFER_TO_HOST_2D(host, id, backbuf)
      /\ scanout' = IF NeedsScanout(id) /\ id \in DOMAIN host THEN id ELSE scanout
      /\ display' = IF scanout' = id /\ id \in DOMAIN host' THEN host'[id].picture ELSE display
      /\ UNCHANGED <<resource_id_cnt, resource_id, backbuf>>
  BY DEF surface_display
<1>2. /\ host' \in [DOMAIN host' -> Resource] /\ DOMAIN host' = DOMAIN host
      /\ \A i \in DOMAIN host : host'[i].backing = host[i].backing /\ (i # id => host'[i] = host[i])
      /\ id \in DOMAIN host /\ host[id].backing # NoSurface => host'[id].picture = backbuf[host[id].backing]
  BY <1>1, Transferred DEF SurfaceInv, SurfaceTypeInv
<1>3. id \in Nat /\ id <= resource_id_cnt
  BY DEF SurfaceInv, SurfaceTypeInv, IdsInv
<1>4. id \in DOMAIN host => host[id].backing = s /\ host'[id].picture = backbuf[s]
  BY <1>2 DEF SurfaceInv, BackedByItself, Surfaces, NoSurface
<1>5. id \in DOMAIN host => scanout' = id
  BY <1>1 DEF SurfaceInv, ScanoutInv, NeedsScanout
<1>6. SurfaceTypeInv'
  BY <1>1, <1>2, <1>3 DEF SurfaceInv, SurfaceTypeInv
<1>7. IdsInv'
  BY <1>1, <1>2, <1>3 DEF SurfaceInv, IdsInv
<1>8. BackedByItself'
  BY <1>1, <1>2 DEF SurfaceInv, BackedByItself
<1>9. ScanoutInv' /\ DisplayedInv'
  BY <1>1, <1>2, <1>4, <1>5 DEF ScanoutInv, DisplayedInv
<1> QED BY <1>6, <1>7, <1>8, <1>9 DEF SurfaceInv

LEMMA DestroyStep == ASSUME SurfaceInv, NEW s \in Surfaces, surface_destroy(s) PROVE SurfaceInv'
<1> DEFINE id == resource_id[s]
<1>1. /\ host' = [i \in DOMAIN host \ {id} |-> host[i]]
      /\ IF scanout = id THEN scanout' = 0 /\ display' = Black ELSE UNCHANGED <<scanout, display>>
      /\ displayed' = IF displayed = s THEN NoSurface ELSE displayed
      /\ UNCHANGED <<resource_id_cnt, last_scanout_id, resource_id, backbuf>>
  BY DEF surface_destroy, UNREF, CTX_DETACH_RESOURCE, IdsAfterDestroy
<1>2. DOMAIN host' = DOMAIN host \ {id} /\ \A i \in DOMAIN host' : host'[i] = host[i]
  BY <1>1
<1>3. SurfaceTypeInv'
  BY <1>1, <1>2 DEF SurfaceInv, SurfaceTypeInv
<1>4. IdsInv' /\ BackedByItself'
  BY <1>1, <1>2 DEF SurfaceInv, IdsInv, BackedByItself
<1>5. ScanoutInv'
  BY <1>1, <1>2 DEF SurfaceInv, ScanoutInv
<1>6. DisplayedInv'
  BY <1>1, <1>2 DEF SurfaceInv, DisplayedInv
<1> QED BY <1>3, <1>4, <1>5, <1>6 DEF SurfaceInv

-----------------------------------------------------------------------------

LEMMA SurfaceInitInv == GpuSurfaceInit => SurfaceInv
<1> SUFFICES ASSUME GpuSurfaceInit PROVE SurfaceInv
  OBVIOUS
<1>1. DOMAIN host = {} /\ host \in [DOMAIN host -> Resource]
  BY DEF GpuSurfaceInit
<1>2. SurfaceTypeInv
  BY <1>1 DEF GpuSurfaceInit, SurfaceTypeInv, Drawn
<1> QED
  BY <1>1, <1>2 DEF GpuSurfaceInit, SurfaceInv, IdsInv, BackedByItself, ScanoutInv, DisplayedInv

LEMMA SurfaceStepInv == SurfaceInv /\ [GpuSurfaceNext]_gsVars => SurfaceInv'
<1> SUFFICES ASSUME SurfaceInv, [GpuSurfaceNext]_gsVars PROVE SurfaceInv'
  OBVIOUS
<1>1. "main" \in Surfaces /\ "screen" \in Surfaces /\ "surface" \in Surfaces /\ "surface2" \in Surfaces
  BY DEF Surfaces
<1>2. Black \in Drawn /\ \A p \in Pictures : p \in Drawn
  BY DEF Drawn
<1>3. ASSUME UNCHANGED <<resource_id_cnt, last_scanout_id, resource_id, backbuf, deviceVars, displayed>>
      PROVE  SurfaceInv'
  BY <1>3 DEF SurfaceInv, SurfaceTypeInv, IdsInv, BackedByItself, ScanoutInv, DisplayedInv, deviceVars
<1>4. CASE FontInit \/ FontDraw \/ FontDisplay
  BY <1>4, <1>1, <1>2, SurfaceInitStep, DrawStep, DisplayStep DEF FontInit, FontDraw, FontDisplay
<1>5. CASE Example
  <2>1. CASE ExampleInit \/ ExampleInit2
    BY <2>1, <1>1, SurfaceInitStep DEF ExampleInit, ExampleInit2
  <2>2. CASE ExampleDraw \/ ExampleDraw2 \/ ExampleEnd \/ ExampleClear \/ ExampleClear2
    BY <2>2, <1>1, <1>2, DrawStep DEF ExampleDraw, ExampleDraw2, ExampleEnd, ExampleClear, ExampleClear2
  <2>3. CASE ExampleFlip \/ ExampleFlip2 \/ ExampleLast
    BY <2>3, <1>1, DisplayStep DEF ExampleFlip, ExampleFlip2, ExampleLast
  <2> QED BY <1>5, <2>1, <2>2, <2>3 DEF Example
<1>6. CASE Pong
  <2>1. CASE PongInit \/ PongPoint
    BY <2>1, <1>1, SurfaceInitStep DEF PongInit, PongPoint
  <2>2. CASE PongClear \/ PongDraw \/ PongLast
    BY <2>2, <1>1, <1>2, DrawStep DEF PongClear, PongDraw, PongLast
  <2>3. CASE PongOver \/ PongDisplay \/ PongSpace \/ PongEnd
    BY <2>3, <1>1, DisplayStep DEF PongOver, PongDisplay, PongSpace, PongEnd
  <2>4. CASE PongPlay
    BY <2>4, <1>3 DEF PongPlay, Untouched
  <2>5. CASE PongDestroy
    BY <2>5, <1>1, DestroyStep DEF PongDestroy
  <2> QED BY <1>6, <2>1, <2>2, <2>3, <2>4, <2>5 DEF Pong
<1>7. CASE UNCHANGED gsVars
  BY <1>3, <1>7 DEF gsVars, deviceVars
<1> QED BY <1>4, <1>5, <1>6, <1>7 DEF GpuSurfaceNext

LEMMA SurfaceInvariant == GpuSurfaceSpec => []SurfaceInv
BY SurfaceInitInv, SurfaceStepInv, PTL DEF GpuSurfaceSpec

-----------------------------------------------------------------------------

\* The resource of a surface is never backed by another one's buffer, however
\* often surfaces are set up anew, refused or destroyed.
THEOREM ResourcesKept == GpuSurfaceSpec => []BackedByItself
<1>1. SurfaceInv => BackedByItself
  BY DEF SurfaceInv
<1> QED BY SurfaceInvariant, <1>1, PTL

\* The screen shows the surface that was displayed last: not asking for a scanout
\* that last_scanout_id says was set already never leaves an old picture there.
THEOREM ScreenTrue == GpuSurfaceSpec => []DisplayShows
<1>1. SurfaceInv => DisplayShows
  BY DEF SurfaceInv, ScanoutInv, DisplayedInv, DisplayShows
<1> QED BY SurfaceInvariant, <1>1, PTL

-----------------------------------------------------------------------------
(* The game, for any sizes of the screen, the ball and the paddles that    *)
(* leave room for them.                                                    *)
(*                                                                         *)
(* A ball beyond a wall either comes back with its next move, or a paddle  *)
(* has just hit it there: then it touches the paddle, which is on the      *)
(* screen, and the move that follows is the last away from it.             *)

PongTypes ==
  /\ pgPc \in {"off", "point", "move", "last"}
  /\ ball \in [x : Int, y : Int, vx : Int, vy : (0 - Steepest)..Steepest]
  /\ user_vy \in Int /\ ai_score \in Nat /\ user_score \in Nat

\* The y coordinates a ball that moves by vy may have.
NearTop(y, vy) ==
  /\ y >= 0 - ball_size - Steepest
  /\ y < 0 /\ vy < 0 => y >= 0 - ball_size
  /\ y < 0 /\ vy >= 0 => y + vy >= 0 - ball_size

NearBottom(y, vy) ==
  /\ y <= Height + Steepest
  /\ y > Height - ball_size /\ vy > 0 => y <= Height
  /\ y > Height - ball_size /\ vy <= 0 => y + vy <= Height

PongInv ==
  /\ PongTypes /\ PaddlesOnScreen /\ OnePointPerBall
  /\ NearTop(ball.y, ball.vy) /\ NearBottom(ball.y, ball.vy)

\* Quotients of what lies between two numbers lie between theirs.
LEMMA QuotientGrows ==
  ASSUME NEW d \in Nat \ {0}, NEW h \in Nat, NEW k \in 0..h
  PROVE  k \div d \in 0..(h \div d)
<1>1. \A n \in Nat : n \div d \in Nat /\ d * (n \div d) <= n /\ n < d * (n \div d) + d
  BY Z3
<1> DEFINE p == k \div d  q == h \div d
<1>2. k \in Nat /\ k <= h /\ d \in Nat /\ d >= 1
  OBVIOUS
<1>3. p \in Nat /\ q \in Nat /\ d * p <= k /\ h < d * q + d
  BY <1>1, <1>2
<1> HIDE DEF p, q
<1>4. ASSUME p >= q + 1 PROVE FALSE
  <2>1. d * p >= d * (q + 1)
    BY <1>2, <1>3, <1>4
  <2>2. d * (q + 1) = d * q + d
    BY <1>2, <1>3
  <2>3. d * p \in Nat /\ d * q \in Nat /\ d * (q + 1) \in Nat
    BY <1>2, <1>3
  <2> QED BY <1>2, <1>3, <2>1, <2>2, <2>3
<1>5. p \in 0..q
  BY <1>3, <1>4
<1> QED BY <1>5 DEF p, q

\* Steepest bounds what a hit can make of the direction.
LEMMA SteepestIs ==
  /\ Steepest \in Nat /\ Steepest >= 1
  /\ \A q \in 0..((paddle_height + ball_size) \div Segment) :
       MaxVy - q \in (0 - Steepest)..Steepest
<1> DEFINE w == (paddle_height + ball_size) \div Segment
<1>1. w \in Nat /\ MaxVy \in Nat /\ MaxVy >= 1
  <2>1. paddle_height + ball_size \in Nat /\ Segment \in Nat \ {0}
    BY PongAssumption
  <2>2. (paddle_height + ball_size) \div Segment \in Nat
    BY <2>1, Z3
  <2> QED BY <2>2, PongAssumption
<1>2. Steepest = LET low == MaxVy - w IN IF Magnitude(low) > MaxVy THEN Magnitude(low) ELSE MaxVy
  BY DEF Steepest
<1> HIDE DEF w
<1>3. Steepest = IF MaxVy - w < 0 /\ w - MaxVy > MaxVy THEN w - MaxVy ELSE MaxVy
  BY <1>1, <1>2 DEF Magnitude
<1>4. Steepest \in Nat /\ Steepest >= 1 /\ \A q \in 0..w : MaxVy - q \in (0 - Steepest)..Steepest
  BY <1>1, <1>3
<1> QED BY <1>4 DEF w

\* Where a ball may be, as far as the walls are concerned: after a step, before a hit.
LEMMA WallStep ==
  ASSUME NEW y \in Int, NEW vy \in (0 - Steepest)..Steepest, NearTop(y, vy), NearBottom(y, vy),
         NEW w, w = (IF y + vy < 0 \/ y + vy > Height - ball_size THEN 0 - vy ELSE vy)
  PROVE  /\ w \in (0 - Steepest)..Steepest
         /\ NearTop(y + vy, w) /\ NearBottom(y + vy, w)
<1>1. Steepest \in Nat /\ Height \in Nat /\ ball_size \in Nat /\ ball_size <= Height
  BY SteepestIs, PongAssumption
<1>2. w \in (0 - Steepest)..Steepest
  BY <1>1
<1>3. NearTop(y + vy, w)
  BY <1>1 DEF NearTop
<1>4. NearBottom(y + vy, w)
  BY <1>1 DEF NearBottom
<1> QED BY <1>2, <1>3, <1>4

\* A hit keeps y, which is no further away than the paddle reaches.
LEMMA HitStep ==
  ASSUME NEW b \in [x : Int, y : Int, vx : Int, vy : (0 - Steepest)..Steepest],
         NearTop(b.y, b.vy), NearBottom(b.y, b.vy),
         NEW px \in Int, NEW py \in 0..Bottom
  PROVE  /\ Hit(b, px, py) \in [x : Int, y : Int, vx : Int, vy : (0 - Steepest)..Steepest]
         /\ NearTop(Hit(b, px, py).y, Hit(b, px, py).vy)
         /\ NearBottom(Hit(b, px, py).y, Hit(b, px, py).vy)
<1>1. CASE ~check_collision(b, px, py)
  BY <1>1 DEF Hit
<1>2. CASE check_collision(b, px, py)
  <2>1. /\ Steepest \in Nat /\ Height \in Nat /\ ball_size \in Nat /\ ball_size <= Height
        /\ paddle_height \in Nat /\ Width \in Nat /\ Segment \in Nat \ {0}
    BY SteepestIs, PongAssumption
  <2> DEFINE k == (py + paddle_height) - b.y
  <2>2. k \in 0..(paddle_height + ball_size) /\ b.y >= 0 - ball_size /\ b.y <= Height
    BY <1>2, <2>1 DEF check_collision, Bottom
  <2>3. MaxVy - k \div Segment \in (0 - Steepest)..Steepest
    <3> HIDE DEF k
    <3>1. k \div Segment \in 0..((paddle_height + ball_size) \div Segment)
      BY <2>1, <2>2, QuotientGrows
    <3> QED BY <3>1, SteepestIs
  <2>4. Bounce(b, py).y = b.y /\ Bounce(b, py).vy = MaxVy - k \div Segment
    BY DEF Bounce
  <2>5. Bounce(b, py).x \in Int /\ Bounce(b, py).vx \in Int
    BY <2>1 DEF Bounce
  <2>6. Bounce(b, py) = [x |-> Bounce(b, py).x, y |-> Bounce(b, py).y,
                         vx |-> Bounce(b, py).vx, vy |-> Bounce(b, py).vy]
    BY DEF Bounce
  <2> HIDE DEF k
  <2>7. Bounce(b, py) \in [x : Int, y : Int, vx : Int, vy : (0 - Steepest)..Steepest]
    BY <2>3, <2>4, <2>5, <2>6
  <2>8. NearTop(b.y, Bounce(b, py).vy) /\ NearBottom(b.y, Bounce(b, py).vy)
    BY <2>1, <2>2, <2>3, <2>4 DEF NearTop, NearBottom
  <2> QED BY <1>2, <2>4, <2>7, <2>8 DEF Hit
<1> QED BY <1>1, <1>2

\* move_ball() keeps the ball near the screen, whatever the paddles hit.
LEMMA MoveBallStep ==
  ASSUME NEW b \in [x : Int, y : Int, vx : Int, vy : (0 - Steepest)..Steepest],
         NearTop(b.y, b.vy), NearBottom(b.y, b.vy),
         NEW a \in 0..Bottom, NEW u \in 0..Bottom
  PROVE  /\ MoveBall(b, a, u) \in [x : Int, y : Int, vx : Int, vy : (0 - Steepest)..Steepest]
         /\ NearTop(MoveBall(b, a, u).y, MoveBall(b, a, u).vy)
         /\ NearBottom(MoveBall(b, a, u).y, MoveBall(b, a, u).vy)
<1> DEFINE BallSet == [x : Int, y : Int, vx : Int, vy : (0 - Steepest)..Steepest]
<1> DEFINE moved == [b EXCEPT !.x = @ + b.vx, !.y = @ + b.vy]
<1> DEFINE walled == [moved EXCEPT !.vy = WallVy(moved)]
<1>1. moved.y = b.y + b.vy /\ moved.vy = b.vy
  OBVIOUS
<1>2. walled.y = b.y + b.vy /\ walled.vy = WallVy(moved) /\ walled.x = b.x + b.vx /\ walled.vx = b.vx
  OBVIOUS
<1>3. WallVy(moved) = IF b.y + b.vy < 0 \/ b.y + b.vy > Height - ball_size THEN 0 - b.vy ELSE b.vy
  BY <1>1 DEF WallVy
<1>4. WallVy(moved) \in (0 - Steepest)..Steepest
      /\ NearTop(b.y + b.vy, WallVy(moved)) /\ NearBottom(b.y + b.vy, WallVy(moved))
  <2> HIDE DEF moved
  <2> QED BY <1>3, WallStep
<1>5. b.y + b.vy \in Int /\ b.x + b.vx \in Int /\ b.vx \in Int
  <2>1. Steepest \in Nat
    BY SteepestIs
  <2> QED BY <2>1
<1>6. walled = [x |-> walled.x, y |-> walled.y, vx |-> walled.vx, vy |-> walled.vy]
  <2>1. DOMAIN b = {"x", "y", "vx", "vy"}
    OBVIOUS
  <2>2. DOMAIN walled = {"x", "y", "vx", "vy"} /\ walled = [i \in DOMAIN walled |-> walled[i]]
    BY <2>1
  <2> HIDE DEF walled
  <2> QED BY <2>2
<1>7. MoveBall(b, a, u) = Hit(Hit(walled, AiX, a), UserX, u)
  BY DEF MoveBall
<1> HIDE DEF moved, walled
<1>8. walled \in [x : Int, y : Int, vx : Int, vy : (0 - Steepest)..Steepest]
  BY <1>2, <1>4, <1>5, <1>6
<1>9. NearTop(walled.y, walled.vy) /\ NearBottom(walled.y, walled.vy)
  BY <1>2, <1>4
<1>10. AiX \in Int /\ UserX \in Int
  BY PongAssumption DEF AiX, UserX
<1> DEFINE first == Hit(walled, AiX, a)
<1>11. first \in [x : Int, y : Int, vx : Int, vy : (0 - Steepest)..Steepest]
       /\ NearTop(first.y, first.vy) /\ NearBottom(first.y, first.vy)
  BY <1>8, <1>9, <1>10, HitStep
<1> HIDE DEF first
<1>12. /\ Hit(first, UserX, u) \in [x : Int, y : Int, vx : Int, vy : (0 - Steepest)..Steepest]
       /\ NearTop(Hit(first, UserX, u).y, Hit(first, UserX, u).vy)
       /\ NearBottom(Hit(first, UserX, u).y, Hit(first, UserX, u).vy)
  BY <1>10, <1>11, HitStep
<1> QED BY <1>7, <1>12 DEF first

\* What game_init() sets up is on the screen.
LEMMA ServeOnScreen ==
  /\ Middle \in 0..Bottom /\ ai_paddle_speed \in Int
  /\ Served \in [x : Int, y : Int, vx : Int, vy : (0 - Steepest)..Steepest]
  /\ Served.x \in 0..(Width - ball_size)
  /\ NearTop(Served.y, Served.vy) /\ NearBottom(Served.y, Served.vy)
<1>1. /\ Width \in Nat /\ Height \in Nat /\ ball_size \in Nat /\ paddle_height \in Nat
      /\ 2 * ball_size <= Width /\ ball_size <= Height /\ 2 * paddle_height <= Height
      /\ ai_paddle_speed \in Int
  BY PongAssumption
<1>2. Steepest \in Nat /\ Steepest >= 1
  BY SteepestIs
<1> DEFINE hw == Width \div 2  hh == Height \div 2
<1>3. hw \in 0..Width /\ 2 * hw <= Width /\ Width <= 2 * hw + 1
  BY <1>1
<1>4. hh \in 0..Height /\ 2 * hh <= Height /\ Height <= 2 * hh + 1
  BY <1>1
<1>5. Served = [x |-> hw, y |-> hh, vx |-> 1, vy |-> 1] /\ Middle = hh - paddle_height
  BY DEF Served, Middle
<1> HIDE DEF hw, hh
<1>6. Middle \in 0..Bottom
  BY <1>1, <1>4, <1>5 DEF Bottom
<1>7. hw \in 0..(Width - ball_size)
  BY <1>1, <1>3
<1>8. NearTop(hh, 1) /\ NearBottom(hh, 1)
  BY <1>1, <1>2, <1>4 DEF NearTop, NearBottom
<1> QED BY <1>1, <1>2, <1>3, <1>4, <1>5, <1>6, <1>7, <1>8

\* The game starts with everything in its place.
LEMMA PongInitInv == PongGameInit => PongInv
<1>1. max_score \in Nat
  BY PongAssumption
<1> QED BY <1>1, ServeOnScreen DEF PongGameInit, PongInv, PongTypes, PaddlesOnScreen, OnePointPerBall

\* Every frame keeps it.
LEMMA PongStepInv == PongInv /\ [PongGameNext]_pgVars => PongInv'
<1> SUFFICES ASSUME PongInv, [PongGameNext]_pgVars PROVE PongInv'
  OBVIOUS
<1>0. max_score \in Nat /\ Height \in Nat /\ paddle_height \in Nat /\ 2 * paddle_height <= Height
      /\ Bottom \in Nat /\ Width - ball_size \in Int
  BY PongAssumption DEF Bottom
<1>1. CASE StartGame
  BY <1>1, ServeOnScreen DEF StartGame, game_init, PongInv, PongTypes, PaddlesOnScreen,
     OnePointPerBall, scores
<1>2. CASE Over
  BY <1>2 DEF Over, PongInv, PongTypes, PaddlesOnScreen, OnePointPerBall, scores
<1>3. CASE PointForUser \/ PointForAi
  <2>1. ai_score' \in Nat /\ user_score' \in Nat /\ ai_score' <= max_score /\ user_score' <= max_score
    BY <1>0, <1>3 DEF PointForUser, PointForAi, GameIsOver, PongInv, PongTypes, OnePointPerBall
  <2>2. game_init /\ pgPc' = "move"
    BY <1>3 DEF PointForUser, PointForAi
  <2> QED BY <2>1, <2>2, ServeOnScreen DEF game_init, PongInv, PongTypes, PaddlesOnScreen,
        OnePointPerBall
<1>4. CASE NoPoint
  <2>1. ball.x \in Int
    BY DEF PongInv, PongTypes
  <2>2. ball.x \in 0..(Width - ball_size)
    BY <1>0, <1>4, <2>1 DEF NoPoint, LeftScreen, RightOfScreen
  <2> QED BY <1>4, <2>2 DEF NoPoint, PongInv, PongTypes, PaddlesOnScreen, OnePointPerBall, scores
<1>5. CASE Frame
  <2>1. user_vy' \in Int
    BY <1>5, PongAssumption DEF Frame, Keyed, PongInv, PongTypes
  <2>2. user \in 0..Bottom /\ ai \in 0..Bottom /\ ball \in [x : Int, y : Int, vx : Int, vy : (0 - Steepest)..Steepest]
    BY DEF PongInv, PongTypes, PaddlesOnScreen
  <2>3. user' \in 0..Bottom
    <3>1. \A m \in Int : (IF AtLeastUnsigned(m, Bottom) THEN Bottom ELSE m) \in 0..Bottom
      BY <1>0 DEF AtLeastUnsigned
    <3>2. user + user_vy' \in Int
      BY <1>0, <2>1, <2>2
    <3> QED BY <1>5, <3>1, <3>2 DEF Frame, MoveUser
  <2>4. ai' \in 0..Bottom
    <3>1. \A m \in Int : Clamped(m) \in 0..Bottom
      BY <1>0 DEF Clamped
    <3>2. Magnitude(ball.vy) \in Int /\ player_paddle_speed \in Int
      <4>1. Steepest \in Nat
        BY SteepestIs
      <4> QED BY <2>2, <4>1, PongAssumption DEF Magnitude
    <3>3. \A up, down : \E s \in Int :
            MoveAi(ai, ball) \in {Clamped(ai - s), Clamped(ai + s), Clamped(ai)}
      BY <3>2 DEF MoveAi
    <3>4. PICK s \in Int : MoveAi(ai, ball) \in {Clamped(ai - s), Clamped(ai + s), Clamped(ai)}
      BY <3>3
    <3>5. ai - s \in Int /\ ai + s \in Int /\ ai \in Int
      BY <2>2
    <3> QED BY <1>5, <3>1, <3>4, <3>5 DEF Frame
  <2>5. ball' = MoveBall(ball, ai', user') /\ pgPc' \in {"point", "off"} /\ UNCHANGED scores
    BY <1>5 DEF Frame
  <2>6. /\ ball' \in [x : Int, y : Int, vx : Int, vy : (0 - Steepest)..Steepest]
        /\ NearTop(ball'.y, ball'.vy) /\ NearBottom(ball'.y, ball'.vy)
    BY <2>2, <2>3, <2>4, <2>5, MoveBallStep DEF PongInv
  <2> QED BY <2>1, <2>3, <2>4, <2>5, <2>6 DEF PongInv, PongTypes, PaddlesOnScreen, OnePointPerBall, scores
<1>6. CASE UNCHANGED pgVars
  BY <1>6 DEF pgVars, PongInv, PongTypes, PaddlesOnScreen, OnePointPerBall
<1> QED BY <1>1, <1>2, <1>3, <1>4, <1>5, <1>6 DEF PongGameNext

\* The paddles stay on the screen, the ball leaves it by no more than its size
\* and its fastest move, however often it is hit beyond the wall, and a ball that
\* is lost is one point.
THEOREM GamePlayable == PongGameSpec => []PongSound
<1>1. PongInv => PongSound
  <2> SUFFICES ASSUME PongInv PROVE ball.y \in (0 - ball_size - Steepest)..(Height + Steepest)
    BY DEF PongInv, PongSound, BallNearScreen
  <2>1. ball.y \in Int /\ Steepest \in Nat /\ Height \in Nat /\ ball_size \in Nat
    BY SteepestIs, PongAssumption DEF PongInv, PongTypes
  <2> QED BY <2>1 DEF PongInv, NearTop, NearBottom
<1> QED BY <1>1, PongInitInv, PongStepInv, PTL DEF PongGameSpec

-----------------------------------------------------------------------------
(* The handshake, for any list of capabilities with at most one of type    *)
(* common, and any registers.                                              *)

\* The capabilities that were read, and those of them that were acted upon.
Read(k)    == cap_offset = 0 \/ k < cap_offset
Handled(k) == Read(k) /\ (giPc = "switch" => k # cap_header)
Seen(kind) == \E k \in DOMAIN caps : caps[k] = kind /\ Handled(k)

Walking  == {"outer", "inner", "switch"}
SettingUp == {"reset", "wait", "features", "check", "setup_queue"}
Sending  == {"get_display_info", "kick"}

WalkInv ==
  /\ giPc \in Walking \cup SettingUp \cup Sending \cup {"off", "panic"}
  /\ giPc = "off" => caps = <<>> /\ cap_offset = 0
  /\ giPc # "off" => caps \in CapLists
  /\ cap_offset \in 0..Len(caps)
  /\ giPc \in SettingUp \cup {"switch"} => cap_header \in 1..Len(caps) /\ cap_offset = CapNext(cap_header)
  /\ giPc \in SettingUp => Kind = "common"
  /\ giPc \in Sending => cap_offset = 0
  /\ giPc = "inner" /\ cap_offset = 0 => caps[Len(caps)] = "other"
  /\ NoPanic

\* The address of the notify register is complete once both capabilities were seen.
RegisterInv ==
  /\ notify_cap \in Nat /\ notify_reg \in Int
  /\ ~Before("common", "notify") =>
       /\ notify_cap # 0 <=> Seen("notify")
       /\ notify_reg = IF notify_cap = 0 THEN 0
                       ELSE IF Seen("common") THEN BarAddr + (NotifyAt * notify_cap + QueueOff)
                       ELSE BarAddr

InUse == {"ACKNOWLEDGE", "DRIVER", "FEATURES_OK", "DRIVER_OK"}

\* What the device is told, in the order virtio asks for.
HandshakeInv ==
  /\ giPc \notin SettingUp /\ ~Seen("common") => setUp = {} /\ ~resetting /\ status = InUse
  /\ giPc \notin SettingUp /\ Seen("common") /\ "FAILED" \notin status =>
       ~resetting /\ "control" \in setUp /\ "control" \in enabled /\ status = InUse
  /\ giPc \notin SettingUp /\ "FAILED" \in status => enabled = {} /\ "DRIVER_OK" \notin status
  /\ giPc \notin SettingUp => ~resetting
  /\ giPc = "reset" => setUp = {} /\ ~resetting /\ status = InUse
  /\ giPc = "wait" => setUp = {} /\ IF resetting THEN status = InUse ELSE status = {} /\ enabled = {}
  /\ giPc = "features" =>
       setUp = {} /\ ~resetting /\ enabled = {} /\ status = {"ACKNOWLEDGE", "DRIVER"}
  /\ giPc = "check" =>
       setUp = {} /\ ~resetting /\ enabled = {}
       /\ status \in {{"ACKNOWLEDGE", "DRIVER"}, {"ACKNOWLEDGE", "DRIVER", "FEATURES_OK"}}
  /\ giPc = "setup_queue" =>
       /\ setUp = enabled /\ ~resetting
       /\ status = {"ACKNOWLEDGE", "DRIVER", "FEATURES_OK"}

GpuInv == WalkInv /\ RegisterInv /\ HandshakeInv

\* A capability list is a sequence, in which `common' is at most once.
LEMMA ListIs ==
  ASSUME WalkInv
  PROVE  /\ caps \in Seq(Kinds) /\ Len(caps) \in Nat /\ DOMAIN caps = 1..Len(caps)
         /\ \A j, k \in DOMAIN caps : caps[j] = "common" /\ caps[k] = "common" => j = k
<1>1. CASE giPc = "off"
  BY <1>1 DEF WalkInv
<1>2. CASE giPc # "off"
  <2>1. caps \in CapLists
    BY <1>2 DEF WalkInv
  <2>2. caps \in Seq(Kinds)
    BY <2>1, CapAssumption
  <2>3. \A j, k \in DOMAIN caps : caps[j] = "common" /\ caps[k] = "common" => j = k
    BY <2>1, CapAssumption
  <2>4. Len(caps) \in Nat /\ DOMAIN caps = 1..Len(caps)
    BY <2>2
  <2> QED BY <2>2, <2>3, <2>4
<1> QED BY <1>1, <1>2

\* Reading a header makes nothing handled that is not of another type.
LEMMA SeenAfterRead ==
  ASSUME WalkInv, ReadCapHeader, NEW kind, kind # "other"
  PROVE  Seen(kind)' <=> Seen(kind)
<1>1. Len(caps) \in Nat /\ DOMAIN caps = 1..Len(caps) /\ cap_offset \in 1..Len(caps)
  BY ListIs DEF ReadCapHeader, WalkInv
<1>2. caps' = caps /\ cap_header' = cap_offset /\ cap_offset' = CapNext(cap_offset)
      /\ giPc = "inner" /\ giPc' = IF caps[cap_offset] = "other" THEN "inner" ELSE "switch"
  BY DEF ReadCapHeader
<1>3. \A k \in DOMAIN caps : Read(k) <=> k < cap_offset
  BY <1>1 DEF Read
<1>4. \A k \in DOMAIN caps : Read(k)' <=> k <= cap_offset
  <2>1. CASE cap_offset = Len(caps)
    BY <1>1, <1>2, <2>1 DEF Read, CapNext
  <2>2. CASE cap_offset # Len(caps)
    <3>1. cap_offset' = cap_offset + 1
      BY <1>2, <2>2 DEF CapNext
    <3>2. cap_offset \in Nat /\ cap_offset + 1 # 0
      BY <1>1
    <3>3. \A k \in DOMAIN caps : k < cap_offset + 1 <=> k <= cap_offset
      BY <1>1, <3>2
    <3> QED BY <3>1, <3>2, <3>3 DEF Read
  <2> QED BY <2>1, <2>2
<1>5. \A k \in DOMAIN caps : caps[k] = kind => (Handled(k)' <=> Handled(k))
  <2>1. TAKE k \in DOMAIN caps
  <2>2. CASE k = cap_offset
    BY <1>1, <1>2, <1>3, <2>2 DEF Handled
  <2>3. CASE k # cap_offset
    BY <1>1, <1>2, <1>3, <1>4, <2>3 DEF Handled
  <2> QED BY <2>2, <2>3
<1> QED BY <1>2, <1>5 DEF Seen

\* Leaving the switch makes one more capability handled.
LEMMA SeenAfterSwitch ==
  ASSUME WalkInv, giPc = "switch", giPc' # "switch", UNCHANGED <<caps, cap_offset, cap_header>>, NEW kind
  PROVE  Seen(kind)' <=> (Seen(kind) \/ Kind = kind)
<1>1. Len(caps) \in Nat /\ DOMAIN caps = 1..Len(caps) /\ cap_header \in DOMAIN caps
      /\ cap_offset = CapNext(cap_header)
  BY ListIs DEF WalkInv
<1>2. Read(cap_header)
  BY <1>1 DEF Read, CapNext
<1>3. \A k \in DOMAIN caps : Handled(k)' <=> (Handled(k) \/ k = cap_header)
  BY <1>2 DEF Handled, Read
<1> QED BY <1>1, <1>3 DEF Seen, Kind

\* The other steps do not touch the list.
LEMMA SeenKept ==
  ASSUME UNCHANGED <<caps, cap_offset>>, giPc # "switch", giPc' # "switch", NEW kind
  PROVE  Seen(kind)' <=> Seen(kind)
BY DEF Seen, Handled, Read

\* A capability that is handled comes before the one the switch is at.
LEMMA SeenBefore ==
  ASSUME WalkInv, giPc = "switch", NEW kind, Seen(kind)
  PROVE  Before(kind, Kind)
<1>1. Len(caps) \in Nat /\ DOMAIN caps = 1..Len(caps) /\ cap_header \in DOMAIN caps
      /\ cap_offset = CapNext(cap_header)
  BY ListIs DEF WalkInv
<1>2. PICK k \in DOMAIN caps : caps[k] = kind /\ Handled(k)
  BY DEF Seen
<1>3. k < cap_header
  BY <1>1, <1>2 DEF Handled, Read, CapNext
<1> QED BY <1>1, <1>2, <1>3 DEF Before, Kind

\* Before init_gpu() runs nothing is set up.
LEMMA GpuInitInv == GpuInitInit => GpuInv
<1> SUFFICES ASSUME GpuInitInit PROVE GpuInv
  OBVIOUS
<1> USE DEF GpuInitInit
<1>1. Len(caps) = 0 /\ DOMAIN caps = {}
  OBVIOUS
<1>2. \A kind : ~Seen(kind)
  BY <1>1 DEF Seen
<1>3. WalkInv
  BY <1>1 DEF WalkInv, NoPanic, Walking, SettingUp, Sending
<1>4. RegisterInv
  BY <1>2 DEF RegisterInv
<1>5. HandshakeInv
  BY <1>2 DEF HandshakeInv, SettingUp, InUse
<1> QED BY <1>3, <1>4, <1>5 DEF GpuInv

\* After an index that is not the last comes another one.
LEMMA IndexAfter ==
  ASSUME NEW n \in Nat, NEW k \in 1..n, k # n
  PROVE  k + 1 \in 1..n /\ k + 1 \in 0..n /\ k + 1 # 0
OBVIOUS

\* The walk along the list, which ends before what is behind its end.
LEMMA WalkStep ==
  ASSUME WalkInv, [GpuInitNext]_giVars
  PROVE  WalkInv'
<1>1. /\ caps \in Seq(Kinds) /\ Len(caps) \in Nat /\ DOMAIN caps = 1..Len(caps)
      /\ cap_offset \in 0..Len(caps)
  BY ListIs DEF WalkInv
<1> USE DEF walk, device
<1>2. ASSUME UNCHANGED <<caps, cap_offset, cap_header>>, giPc # "off",
             giPc' \in Walking \cup SettingUp \cup Sending,
             giPc' \in SettingUp => giPc \in SettingUp \/ (giPc = "switch" /\ Kind = "common"),
             giPc' \in Sending => cap_offset = 0,
             giPc' = "inner" => giPc = "inner" \/ cap_offset # 0,
             giPc' # "switch"
      PROVE  WalkInv'
  BY <1>2 DEF WalkInv, NoPanic, Walking, SettingUp, Sending, Kind, CapNext
<1>3. CASE FindDevice
  <2>1. caps' \in CapLists /\ giPc' = "outer" /\ cap_offset' = (IF caps' = <<>> THEN 0 ELSE 1)
    BY <1>3 DEF FindDevice
  <2>2. caps' \in Seq(Kinds)
    BY <2>1, CapAssumption
  <2>3. cap_offset' \in 0..Len(caps')
    BY <2>1, <2>2
  <2> QED BY <2>1, <2>3 DEF WalkInv, NoPanic, Walking, SettingUp, Sending
<1>4. CASE ListEnds \/ Search \/ SwitchNotify \/ SwitchCommon \/ SwitchOther
  BY <1>2, <1>4 DEF ListEnds, Search, SwitchNotify, SwitchCommon, SwitchOther, AtEnd, Walking,
     SettingUp, Sending
<1>5. CASE ReadCapHeader
  <2>1. /\ giPc = "inner" /\ cap_offset # 0 /\ cap_header' = cap_offset
        /\ cap_offset' = CapNext(cap_offset) /\ caps' = caps
        /\ giPc' = IF caps[cap_offset] = "other" THEN "inner" ELSE "switch"
    BY <1>5 DEF ReadCapHeader
  <2>2. CapNext(cap_offset) \in 0..Len(caps) /\ cap_header' \in 1..Len(caps)
        /\ (CapNext(cap_offset) = 0 => cap_offset = Len(caps))
    <3>1. cap_offset \in 1..Len(caps)
      BY <1>1, <2>1
    <3>2. CASE cap_offset = Len(caps)
      BY <1>1, <2>1, <3>1, <3>2 DEF CapNext
    <3>3. CASE cap_offset # Len(caps)
      <4>1. CapNext(cap_offset) = cap_offset + 1
        BY <3>3 DEF CapNext
      <4>2. cap_offset + 1 \in 1..Len(caps) /\ cap_offset + 1 \in 0..Len(caps) /\ cap_offset + 1 # 0
        BY <1>1, <3>1, <3>3, IndexAfter
      <4> QED BY <2>1, <3>1, <4>1, <4>2
    <3> QED BY <3>2, <3>3
  <2>3. cap_offset' = CapNext(cap_header)'
    BY <2>1 DEF CapNext
  <2>4. giPc' = "inner" /\ cap_offset' = 0 => caps'[Len(caps')] = "other"
    BY <2>1, <2>2
  <2>5. caps \in CapLists
    BY <2>1 DEF WalkInv
  <2> QED BY <2>1, <2>2, <2>3, <2>4, <2>5 DEF WalkInv, NoPanic, Walking, SettingUp, Sending
<1>6. CASE ReadPastEnd
  BY <1>6 DEF ReadPastEnd, WalkInv, NoPanic, Walking, SettingUp, Sending
<1>7. CASE Reset \/ Acknowledge \/ OfferFeatures \/ CheckFeatures \/ SetupQueue \/ DriverOk
  BY <1>2, <1>7 DEF Reset, Acknowledge, OfferFeatures, CheckFeatures, SetupQueue, DriverOk,
     Walking, SettingUp, Sending
<1>8. CASE Kick
  BY <1>2, <1>8 DEF Kick, WalkInv, Walking, SettingUp, Sending
<1>9. CASE DeviceResets \/ UNCHANGED giVars
  BY <1>9 DEF DeviceResets, giVars, WalkInv, NoPanic, Kind, CapNext
<1> QED BY <1>3, <1>4, <1>5, <1>6, <1>7, <1>8, <1>9 DEF GpuInitNext, Driver

\* The notify register, put together from two capabilities.
LEMMA RegisterStep ==
  ASSUME WalkInv, RegisterInv, [GpuInitNext]_giVars
  PROVE  RegisterInv'
<1> USE DEF walk, device
<1>0. BarAddr \in Int /\ NotifyAt \in Int /\ QueueOff \in Int /\ notify_cap \in Nat /\ notify_reg \in Int
  BY CapAssumption DEF RegisterInv
<1>1. ASSUME UNCHANGED <<caps, notify_cap, notify_reg>>,
             Seen("notify")' <=> Seen("notify"), Seen("common")' <=> Seen("common")
      PROVE  RegisterInv'
  BY <1>1 DEF RegisterInv, Before
<1>2. CASE FindDevice
  <2>1. caps = <<>> /\ DOMAIN caps = {} /\ UNCHANGED <<notify_cap, notify_reg>>
    BY <1>2 DEF FindDevice, WalkInv
  <2>2. ~Seen("notify") /\ ~Seen("common") /\ ~Before("common", "notify")
    BY <2>1 DEF Seen, Before
  <2>3. ~Seen("notify")' /\ ~Seen("common")'
    <3>1. caps' \in Seq(Kinds) /\ giPc' = "outer" /\ cap_offset' = IF caps' = <<>> THEN 0 ELSE 1
      BY <1>2, CapAssumption DEF FindDevice
    <3>2. \A k \in DOMAIN caps' : ~Read(k)'
      BY <3>1 DEF Read
    <3> QED BY <3>2 DEF Seen, Handled
  <2> QED BY <1>0, <2>1, <2>2, <2>3 DEF RegisterInv
<1>3. CASE ReadCapHeader
  <2>1. UNCHANGED <<caps, notify_cap, notify_reg>>
    BY <1>3 DEF ReadCapHeader
  <2>2. (Seen("notify")' <=> Seen("notify")) /\ (Seen("common")' <=> Seen("common"))
    BY <1>3, SeenAfterRead
  <2> QED BY <1>1, <2>1, <2>2
<1>4. CASE SwitchNotify
  <2>1. giPc = "switch" /\ giPc' = "outer" /\ UNCHANGED <<caps, cap_offset, cap_header>> /\ Kind = "notify"
    BY <1>4 DEF SwitchNotify
  <2>2. Seen("notify")' /\ (Seen("common")' <=> Seen("common"))
    BY <2>1, SeenAfterSwitch
  <2>3. cap_header \in Nat /\ cap_header # 0
    BY <2>1, ListIs DEF WalkInv
  <2>4. notify_cap' \in Nat /\ notify_cap' # 0 /\ notify_reg' \in Int
    BY <1>0, <1>4, <2>3 DEF SwitchNotify, FirstNotify
  <2>5. ASSUME ~Before("common", "notify")
        PROVE  notify_reg' = IF notify_cap' = 0 THEN 0
                             ELSE IF Seen("common")' THEN BarAddr + (NotifyAt * notify_cap' + QueueOff)
                             ELSE BarAddr
    <3>1. ~Seen("common") /\ ~Seen("common")'
      BY <2>1, <2>2, <2>5, SeenBefore
    <3>2. notify_reg = IF notify_cap = 0 THEN 0 ELSE BarAddr
      BY <2>5, <3>1 DEF RegisterInv
    <3>3. notify_reg' = BarAddr
      <4>1. CASE notify_cap = 0
        <5>1. notify_reg = 0 /\ notify_reg' = notify_reg + BarAddr
          BY <1>4, <3>2, <4>1 DEF SwitchNotify, FirstNotify
        <5> QED BY <1>0, <5>1
      <4>2. CASE notify_cap # 0
        BY <1>4, <3>2, <4>2 DEF SwitchNotify, FirstNotify
      <4> QED BY <4>1, <4>2
    <3> QED BY <2>4, <3>1, <3>3
  <2>6. Before("common", "notify")' <=> Before("common", "notify")
    BY <2>1 DEF Before
  <2> QED BY <2>2, <2>4, <2>5, <2>6 DEF RegisterInv
<1>5. CASE SwitchCommon
  <2>1. giPc = "switch" /\ giPc' = "reset" /\ UNCHANGED <<caps, cap_offset, cap_header, notify_cap>>
        /\ Kind = "common"
    BY <1>5 DEF SwitchCommon
  <2>2. Seen("common")' /\ (Seen("notify")' <=> Seen("notify"))
    BY <2>1, SeenAfterSwitch
  <2>3. ~Seen("common")
    <3>1. caps[cap_header] = "common" /\ cap_header \in DOMAIN caps
          /\ \A j, k \in DOMAIN caps : caps[j] = "common" /\ caps[k] = "common" => j = k
      BY <2>1, ListIs DEF WalkInv, Kind
    <3>2. \A k \in DOMAIN caps : caps[k] = "common" => ~Handled(k)
      BY <2>1, <3>1 DEF Handled
    <3> QED BY <3>2 DEF Seen
  <2>4. NotifyAt * notify_cap + QueueOff \in Int
    BY <1>0
  <2> DEFINE off == NotifyAt * notify_cap + QueueOff
  <2>5. off \in Int /\ notify_reg' = notify_reg + (IF notify_cap = 0 THEN 0 ELSE off)
        /\ NotifyAt * notify_cap' + QueueOff = off
    BY <1>5, <2>1, <2>4 DEF SwitchCommon
  <2>6. Before("common", "notify")' <=> Before("common", "notify")
    BY <2>1 DEF Before
  <2> HIDE DEF off
  <2>7. ~Before("common", "notify") =>
           notify_reg' = IF notify_cap' = 0 THEN 0
                         ELSE IF Seen("common")' THEN BarAddr + (NotifyAt * notify_cap' + QueueOff)
                         ELSE BarAddr
    <3>1. ~Before("common", "notify") => notify_reg = IF notify_cap = 0 THEN 0 ELSE BarAddr
      BY <2>3 DEF RegisterInv
    <3> QED BY <1>0, <2>1, <2>2, <2>5, <3>1
  <2>8. notify_reg' \in Int /\ notify_cap' \in Nat
    BY <1>0, <2>1, <2>5
  <2>9. ~Before("common", "notify") => (notify_cap' # 0 <=> Seen("notify")')
    BY <2>1, <2>2 DEF RegisterInv
  <2> QED BY <2>6, <2>7, <2>8, <2>9 DEF RegisterInv
<1>6. CASE SwitchOther
  <2>1. giPc = "switch" /\ giPc' = "outer" /\ UNCHANGED walk /\ Kind \notin {"notify", "common"}
    BY <1>6 DEF SwitchOther
  <2>2. (Seen("notify")' <=> Seen("notify")) /\ (Seen("common")' <=> Seen("common"))
    BY <2>1, SeenAfterSwitch
  <2> QED BY <1>1, <2>1, <2>2
<1>7. CASE \/ ListEnds \/ Search \/ ReadPastEnd \/ Reset \/ Acknowledge \/ OfferFeatures
           \/ CheckFeatures \/ SetupQueue \/ DriverOk \/ Kick
  <2>1. UNCHANGED walk /\ giPc # "switch" /\ giPc' # "switch"
    BY <1>7 DEF ListEnds, Search, ReadPastEnd, Reset, Acknowledge, OfferFeatures, CheckFeatures,
       SetupQueue, DriverOk, Kick
  <2>2. (Seen("notify")' <=> Seen("notify")) /\ (Seen("common")' <=> Seen("common"))
    BY <2>1, SeenKept
  <2> QED BY <1>1, <2>1, <2>2
<1>8. CASE DeviceResets \/ UNCHANGED giVars
  <2>1. UNCHANGED walk /\ giPc' = giPc
    BY <1>8 DEF DeviceResets, giVars
  <2>2. (Seen("notify")' <=> Seen("notify")) /\ (Seen("common")' <=> Seen("common"))
    BY <2>1 DEF Seen, Handled, Read
  <2> QED BY <1>1, <2>1, <2>2
<1> QED BY <1>2, <1>3, <1>4, <1>5, <1>6, <1>7, <1>8 DEF GpuInitNext, Driver


\* While the device is set up, the capability that told how has been seen.
LEMMA SeenWhileSettingUp ==
  ASSUME WalkInv, giPc \in SettingUp
  PROVE  Seen("common")
<1>1. Len(caps) \in Nat /\ DOMAIN caps = 1..Len(caps) /\ cap_header \in DOMAIN caps
      /\ cap_offset = CapNext(cap_header) /\ caps[cap_header] = "common"
  BY ListIs DEF WalkInv, Kind
<1>2. Read(cap_header)
  <2>1. CASE cap_header = Len(caps)
    BY <1>1, <2>1 DEF Read, CapNext
  <2>2. CASE cap_header # Len(caps)
    BY <1>1, <2>2 DEF Read, CapNext
  <2> QED BY <2>1, <2>2
<1> QED BY <1>1, <1>2 DEF Seen, Handled, SettingUp

\* What the device is told, step by step.
LEMMA HandshakeStep ==
  ASSUME WalkInv, HandshakeInv, [GpuInitNext]_giVars
  PROVE  HandshakeInv'
<1> USE DEF walk, device
<1>1. ASSUME UNCHANGED <<setUp, status, resetting, enabled>>,
             Seen("common")' <=> Seen("common"),
             giPc \notin SettingUp, giPc' \notin SettingUp
      PROVE  HandshakeInv'
  BY <1>1 DEF HandshakeInv, SettingUp
<1>2. CASE FindDevice
  <2>1. caps = <<>> /\ DOMAIN caps = {} /\ giPc = "off" /\ giPc' = "outer"
        /\ UNCHANGED <<setUp, status, resetting, enabled>>
    BY <1>2 DEF FindDevice, WalkInv
  <2>2. ~Seen("common")
    BY <2>1 DEF Seen
  <2>3. ~Seen("common")'
    <3>1. caps' \in Seq(Kinds) /\ cap_offset' = IF caps' = <<>> THEN 0 ELSE 1
      BY <1>2, CapAssumption DEF FindDevice
    <3>2. \A k \in DOMAIN caps' : ~Read(k)'
      BY <3>1 DEF Read
    <3> QED BY <3>2 DEF Seen, Handled
  <2> QED BY <1>1, <2>1, <2>2, <2>3 DEF SettingUp
<1>3. CASE ReadCapHeader
  <2>1. Seen("common")' <=> Seen("common")
    BY <1>3, SeenAfterRead
  <2>2. giPc = "inner" /\ giPc' \in {"inner", "switch"} /\ UNCHANGED <<setUp, status, resetting, enabled>>
    BY <1>3 DEF ReadCapHeader
  <2> QED BY <1>1, <2>1, <2>2 DEF SettingUp
<1>4. CASE SwitchNotify \/ SwitchOther
  <2>1. giPc = "switch" /\ giPc' = "outer" /\ UNCHANGED <<caps, cap_offset, cap_header>>
        /\ Kind # "common" /\ UNCHANGED <<setUp, status, resetting, enabled>>
    BY <1>4 DEF SwitchNotify, SwitchOther
  <2>2. Seen("common")' <=> Seen("common")
    BY <2>1, SeenAfterSwitch
  <2> QED BY <1>1, <2>1, <2>2 DEF SettingUp
<1>5. CASE SwitchCommon
  <2>1. giPc = "switch" /\ giPc' = "reset" /\ UNCHANGED <<setUp, status, resetting, enabled>>
        /\ Kind = "common"
    BY <1>5 DEF SwitchCommon
  <2>2. ~Seen("common")
    <3>1. caps[cap_header] = "common" /\ cap_header \in DOMAIN caps
          /\ \A j, k \in DOMAIN caps : caps[j] = "common" /\ caps[k] = "common" => j = k
      BY <2>1, ListIs DEF WalkInv, Kind
    <3>2. \A k \in DOMAIN caps : caps[k] = "common" => ~Handled(k)
      BY <2>1, <3>1 DEF Handled
    <3> QED BY <3>2 DEF Seen
  <2> QED BY <2>1, <2>2 DEF HandshakeInv, SettingUp
<1>6. CASE Reset
  BY <1>6 DEF Reset, HandshakeInv, SettingUp
<1>7. CASE Acknowledge
  <2>1. giPc = "wait" /\ giPc' = "features" /\ status = {} /\ status' = status \cup {"ACKNOWLEDGE", "DRIVER"}
        /\ UNCHANGED <<setUp, resetting, enabled>>
    BY <1>7 DEF Acknowledge, ResetDone
  <2>2. setUp = {} /\ ~resetting /\ enabled = {}
    BY <2>1 DEF HandshakeInv, InUse
  <2> QED BY <2>1, <2>2 DEF HandshakeInv, SettingUp
<1>8. CASE OfferFeatures
  <2>1. giPc = "features" /\ giPc' = "check" /\ UNCHANGED <<setUp, resetting, enabled>>
        /\ status' \in {status, status \cup {"FEATURES_OK"}}
    BY <1>8 DEF OfferFeatures
  <2>2. setUp = {} /\ ~resetting /\ enabled = {} /\ status = {"ACKNOWLEDGE", "DRIVER"}
    BY <2>1 DEF HandshakeInv
  <2>3. status' \in {{"ACKNOWLEDGE", "DRIVER"}, {"ACKNOWLEDGE", "DRIVER", "FEATURES_OK"}}
    BY <2>1, <2>2
  <2> QED BY <2>1, <2>2, <2>3 DEF HandshakeInv, SettingUp
<1>9. CASE CheckFeatures
  <2>0. giPc = "check" /\ giPc' \in {"setup_queue", "outer"} /\ UNCHANGED <<caps, cap_offset>>
        /\ UNCHANGED <<setUp, resetting, enabled>>
    BY <1>9 DEF CheckFeatures
  <2>1. /\ setUp = {} /\ ~resetting /\ enabled = {}
        /\ status \in {{"ACKNOWLEDGE", "DRIVER"}, {"ACKNOWLEDGE", "DRIVER", "FEATURES_OK"}}
    BY <2>0 DEF HandshakeInv
  <2>2. Seen("common")'
    BY <2>0, SeenWhileSettingUp, SeenKept DEF SettingUp
  <2>3. CASE giPc' = "setup_queue"
    <3>1. "FEATURES_OK" \in status /\ status' = status
      BY <1>9, <2>3 DEF CheckFeatures, FeaturesOk
    <3> QED BY <2>0, <2>1, <2>3, <3>1 DEF HandshakeInv, SettingUp
  <2>4. CASE giPc' = "outer"
    <3>1. "FAILED" \in status' /\ "DRIVER_OK" \notin status'
      BY <1>9, <2>1, <2>4 DEF CheckFeatures
    <3> QED BY <2>0, <2>1, <2>2, <2>4, <3>1 DEF HandshakeInv, SettingUp
  <2> QED BY <2>0, <2>3, <2>4
<1>10. CASE SetupQueue
  <2>1. giPc = "setup_queue" /\ giPc' = giPc /\ UNCHANGED <<status, resetting>>
        /\ enabled' = enabled \cup {NextQueue} /\ setUp' = setUp \cup {NextQueue}
    BY <1>10 DEF SetupQueue
  <2>2. setUp = enabled /\ ~resetting /\ status = {"ACKNOWLEDGE", "DRIVER", "FEATURES_OK"}
    BY <2>1 DEF HandshakeInv
  <2> QED BY <2>1, <2>2 DEF HandshakeInv, SettingUp
<1>11. CASE DriverOk
  <2>1. giPc = "setup_queue" /\ giPc' = "outer" /\ "control" \in enabled
        /\ status' = status \cup {"DRIVER_OK"} /\ UNCHANGED <<setUp, resetting, enabled>>
        /\ UNCHANGED <<caps, cap_offset>>
    BY <1>11 DEF DriverOk
  <2>2. setUp = enabled /\ ~resetting /\ status = {"ACKNOWLEDGE", "DRIVER", "FEATURES_OK"}
    BY <2>1 DEF HandshakeInv
  <2>3. Seen("common")'
    BY <2>1, SeenWhileSettingUp, SeenKept DEF SettingUp
  <2>4. status' = InUse
    BY <2>1, <2>2 DEF InUse
  <2> QED BY <2>1, <2>2, <2>3, <2>4 DEF HandshakeInv, SettingUp
<1>12. CASE ListEnds \/ Search \/ ReadPastEnd \/ Kick
  <2>1. /\ UNCHANGED <<caps, cap_offset>> /\ giPc # "switch" /\ giPc' # "switch"
        /\ UNCHANGED <<setUp, status, resetting, enabled>>
        /\ giPc \notin SettingUp /\ giPc' \notin SettingUp
    BY <1>12 DEF ListEnds, Search, ReadPastEnd, Kick, SettingUp
  <2>2. Seen("common")' <=> Seen("common")
    BY <2>1, SeenKept
  <2> QED BY <1>1, <2>1, <2>2
<1>13. CASE DeviceResets
  <2>1. resetting /\ ~resetting' /\ status' = {} /\ enabled' = {} /\ giPc' = giPc /\ setUp' = setUp
    BY <1>13 DEF DeviceResets
  <2>2. giPc = "wait" /\ setUp = {}
    <3>1. giPc \in SettingUp
      BY <2>1 DEF HandshakeInv
    <3> QED BY <2>1, <3>1 DEF HandshakeInv, SettingUp
  <2> QED BY <2>1, <2>2 DEF HandshakeInv, SettingUp
<1>14. CASE UNCHANGED giVars
  BY <1>14 DEF giVars, HandshakeInv, Seen, Handled, Read
<1> QED BY <1>2, <1>3, <1>4, <1>5, <1>6, <1>7, <1>8, <1>9, <1>10, <1>11, <1>12, <1>13, <1>14
  DEF GpuInitNext, Driver

\* When the list has ended, all of it has been handled.
LEMMA AllSeen ==
  ASSUME WalkInv, giPc = "kick", NEW k \in DOMAIN caps
  PROVE  Seen(caps[k])
BY DEF WalkInv, Sending, Seen, Handled, Read

\* A device that shows its common registers and agrees to the features gets its first
\* command after the reset, with the queue and the descriptors for it, at the notify
\* register of its first notify capability, one that refuses has no queue, and the search for virtio's capabilities
\* does not run past the end of a list that ends with one: for all lists with at most
\* one common capability.
THEOREM DeviceHandshake == GpuInitSpec => []DeviceReady
<1>1. GpuInv => DeviceReady
  <2> SUFFICES ASSUME GpuInv PROVE DeviceReady
    OBVIOUS
  <2>1. KickOnlyWhenReady
    <3> SUFFICES ASSUME giPc = "kick", NEW k \in DOMAIN caps, caps[k] = "common",
                        "FAILED" \notin status
                 PROVE  ~resetting /\ "control" \in enabled \cap setUp /\ status = InUse
      BY DEF KickOnlyWhenReady, InUse
    <3>1. giPc \notin SettingUp /\ Seen("common")
      BY AllSeen DEF GpuInv, SettingUp
    <3> QED BY <3>1 DEF GpuInv, HandshakeInv
  <2>2. RefusedHasNoQueue
    BY DEF RefusedHasNoQueue, GpuInv, HandshakeInv, SettingUp
  <2>3. NotifyRight
    <3> SUFFICES ASSUME giPc = "kick", ~Before("common", "notify"), Before("notify", "common")
                 PROVE  notify_reg = BarAddr + NotifyAt * notify_cap + QueueOff
      BY DEF NotifyRight
    <3>1. Seen("notify") /\ Seen("common")
      BY AllSeen DEF GpuInv, Before
    <3>2. notify_reg = BarAddr + (NotifyAt * notify_cap + QueueOff) /\ notify_cap \in Nat
      BY <3>1 DEF GpuInv, RegisterInv
    <3>3. NotifyAt * notify_cap \in Int /\ BarAddr \in Int /\ QueueOff \in Int
      BY <3>2, CapAssumption
    <3> QED BY <3>2, <3>3
  <2>4. NoPanic
    BY DEF GpuInv, WalkInv
  <2> QED BY <2>1, <2>2, <2>3, <2>4 DEF DeviceReady
<1>2. GpuInv /\ [GpuInitNext]_giVars => GpuInv'
  BY WalkStep, RegisterStep, HandshakeStep DEF GpuInv
<1> QED BY <1>1, <1>2, GpuInitInv, PTL DEF GpuInitSpec
=============================================================================
