------------------------------- MODULE PongGame -------------------------------
(***************************************************************************)
(* The game of kern/pong.c: the ball, the two paddles and the score.  One  *)
(* frame of pong() is the check for a point, the key that was pressed      *)
(* last, and the moves of the paddles and the ball, in that order.         *)
(*                                                                         *)
(* A coordinate is an int but the size of the screen is unsigned, so that  *)
(* a comparison of the two takes a negative coordinate for a huge one.     *)
(***************************************************************************)
EXTENDS Integers

CONSTANTS
  Width, Height,     \* screen.width, screen.height
  paddle_width, paddle_height, paddle_padding,
  ball_size,
  player_paddle_speed, ai_paddle_speed,
  MaxVy, Segment,    \* v_y after a hit is MaxVy - hit_pos / Segment: 4 and 7
  max_score,
  MaxSpeed           \* bound: the ball gets no faster, it is 1 faster after every hit

\* There is room on the screen for the ball at rest and the paddles in the middle.
ASSUME PongAssumption ==
  /\ Width \in Nat /\ Height \in Nat /\ ball_size \in Nat /\ paddle_height \in Nat
  /\ paddle_width \in Nat /\ paddle_padding \in Nat
  /\ player_paddle_speed \in Nat /\ ai_paddle_speed \in Nat /\ max_score \in Nat
  /\ MaxVy \in Nat \ {0} /\ Segment \in Nat \ {0}
  /\ 2 * ball_size <= Width /\ ball_size <= Height /\ 2 * paddle_height <= Height

VARIABLES
  pgPc,              \* "off", "point" or "move"; "last" is the move of the last frame
  ball,              \* [x, y, vx, vy]
  ai, user,          \* y of either paddle
  user_vy,           \* v_y of the user's
  ai_score, user_score

pgVars == <<pgPc, ball, ai, user, user_vy, ai_score, user_score>>
scores == <<ai_score, user_score>>

Served == [x |-> Width \div 2, y |-> Height \div 2, vx |-> 1, vy |-> 1]
Middle == Height \div 2 - paddle_height
Bottom == Height - paddle_height

\* What the unsigned comparison i >= n makes of an int i.
AtLeastUnsigned(i, n) == i < 0 \/ i >= n

PongGameInit ==
  /\ pgPc = "off" /\ ball = Served /\ ai = Middle /\ user = Middle
  /\ user_vy = ai_paddle_speed
  /\ ai_score = 0 /\ user_score = 0

game_init ==
  /\ ball' = Served /\ ai' = Middle /\ user' = Middle
  /\ user_vy' = ai_paddle_speed

\* The scores are those of the game before: nothing sets them back.
StartGame ==
  /\ pgPc = "off"
  /\ game_init /\ pgPc' = "point"
  /\ UNCHANGED scores

GameIsOver == ai_score = max_score \/ user_score = max_score

MutantNoServe(b) == FALSE
LeftScreen(b)  == b.x < 0
RightOfScreen(b) == b.x > Width - ball_size

\* check_game_over(): a score is reached, which pong() heeds after this frame, ...
Over ==
  /\ pgPc = "point" /\ GameIsOver
  /\ pgPc' = "last"
  /\ UNCHANGED <<ball, ai, user, user_vy, scores>>

\* ... or the game goes on.
PointForUser ==
  /\ pgPc = "point" /\ ~GameIsOver /\ LeftScreen(ball)
  /\ user_score' = user_score + 1 /\ UNCHANGED ai_score
  /\ game_init
  /\ pgPc' = "move"

PointForAi ==
  /\ pgPc = "point" /\ ~GameIsOver /\ ~LeftScreen(ball) /\ RightOfScreen(ball)
  /\ ai_score' = ai_score + 1 /\ UNCHANGED user_score
  /\ game_init
  /\ pgPc' = "move"

NoPoint ==
  /\ pgPc = "point" /\ ~GameIsOver /\ ~LeftScreen(ball) /\ ~RightOfScreen(ball)
  /\ pgPc' = "move"
  /\ UNCHANGED <<ball, ai, user, user_vy, scores>>

-----------------------------------------------------------------------------
\* The key that was last: up, down, none or an unknown one, left or right.
Keyed == {0 - player_paddle_speed, player_paddle_speed, 0, user_vy}

\* move_paddle(): what is above the screen is taken for what is below it.
MoveUser(y, v) ==
  LET m == y + v IN IF AtLeastUnsigned(m, Bottom) THEN Bottom ELSE m

Clamped(m) == IF m <= 0 THEN 0 ELSE IF m >= Bottom THEN Bottom ELSE m

Magnitude(v) == IF v < 0 THEN 0 - v ELSE v

\* move_paddle_ai()
MoveAi(y, b) ==
  LET center == y + paddle_height \div 2
      middle == Height \div 2 - paddle_height \div 2
      half   == paddle_height \div 2
      speed  == IF b.vx > 0 \/ b.vy # 0 THEN Magnitude(b.vy) ELSE player_paddle_speed
      up     == \/ b.vx > 0 /\ center > middle + half
                \/ b.vx <= 0 /\ b.vy > 0 /\ b.y <= center
                \/ b.vx <= 0 /\ b.vy < 0 /\ b.y < center
                \/ b.vx <= 0 /\ b.vy = 0 /\ b.y < center - half
      down   == \/ b.vx > 0 /\ center < middle - half
                \/ b.vx <= 0 /\ b.vy > 0 /\ b.y > center
                \/ b.vx <= 0 /\ b.vy < 0 /\ b.y >= center
                \/ b.vx <= 0 /\ b.vy = 0 /\ b.y > center + half
  IN Clamped(IF up THEN y - speed ELSE IF down THEN y + speed ELSE y)

AiX   == paddle_padding
UserX == Width - paddle_padding - paddle_width

check_collision(b, px, py) ==
  /\ b.x <= px + paddle_width /\ b.x + ball_size >= px
  /\ b.y <= py + paddle_height /\ b.y + ball_size >= py

\* A hit makes the ball turn and go one faster.
Bounce(b, py) ==
  [x  |-> IF b.x < ball_size THEN ball_size
          ELSE IF b.x > Width - ball_size THEN Width - ball_size ELSE b.x,
   y  |-> b.y,
   vx |-> 0 - (IF b.vx < 0 THEN b.vx - 1 ELSE b.vx + 1),
   vy |-> MaxVy - ((py + paddle_height) - b.y) \div Segment]

Hit(b, px, py) == IF check_collision(b, px, py) THEN Bounce(b, py) ELSE b

\* The wall turns the ball around, in every frame in which it is beyond it.
WallVy(b) == IF b.y < 0 \/ b.y > Height - ball_size THEN 0 - b.vy ELSE b.vy

\* move_ball(), after both paddles have moved.
MoveBall(b, a, u) ==
  LET moved  == [b EXCEPT !.x = @ + b.vx, !.y = @ + b.vy]
      walled == [moved EXCEPT !.vy = WallVy(moved)]
  IN Hit(Hit(walled, AiX, a), UserX, u)

Moves == pgPc \in {"move", "last"}

\* The space bar ends the game after this frame.
Frame ==
  /\ Moves
  /\ user_vy' \in Keyed
  /\ user' = MoveUser(user, user_vy')
  /\ ai' = MoveAi(ai, ball)
  /\ ball' = MoveBall(ball, ai', user')
  /\ Magnitude(ball'.vx) <= MaxSpeed
  /\ pgPc' \in (IF pgPc = "move" THEN {"point", "off"} ELSE {"off"})
  /\ UNCHANGED scores

PongGameNext == StartGame \/ Over \/ PointForUser \/ PointForAi \/ NoPoint \/ Frame
PongGameSpec == PongGameInit /\ [][PongGameNext]_pgVars

-----------------------------------------------------------------------------
(* Properties.                                                             *)

\* The paddles stay on the screen, whose rows are all the buffer has
\* (pong.c:156 and 210): the checks come in different orders for the two.
PaddlesOnScreen == ai \in 0..Bottom /\ user \in 0..Bottom

Steepest == LET low == MaxVy - (paddle_height + ball_size) \div Segment IN
            IF Magnitude(low) > MaxVy THEN Magnitude(low) ELSE MaxVy

\* The ball leaves the screen by no more than its size and its fastest move,
\* although its direction changes in every frame it is beyond the wall, and again
\* when a paddle at the edge hits it there, frame after frame (pong.c:241).
BallNearScreen == ball.y \in (0 - ball_size - Steepest)..(Height + Steepest)

\* A ball that is lost is one point, and no score goes past max_score: it is not
\* counted again in the next frame (pong.c:380).
OnePointPerBall ==
  /\ ai_score <= max_score /\ user_score <= max_score
  /\ pgPc = "move" => ball.x \in 0..(Width - ball_size)

\* Paddles and ball stay where they can be drawn, and a lost ball is one point.
PongSound == PaddlesOnScreen /\ BallNearScreen /\ OnePointPerBall
=============================================================================
