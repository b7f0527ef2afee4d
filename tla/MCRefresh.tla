------------------------------ MODULE MCRefresh -----------------------------
(***************************************************************************)
(* Refresh for TLC, on walls of every mounting: one panel that does not fill  *)
(* its window, two receivers behind panels mounted differently, and the       *)
(* regular walls.                                                            *)
(***************************************************************************)
EXTENDS Refresh

Turned90(rotation) == rotation \in {"cw90", "ccw90"}

\* A panel of w x h LEDs.
MCPanel(receiver, rx, ry, x, y, w, h, rotation, fx, fy, cap) ==
  [receiver |-> receiver, receiver_x |-> rx, receiver_y |-> ry, x |-> x, y |-> y,
   width |-> IF Turned90(rotation) THEN h ELSE w,
   height |-> IF Turned90(rotation) THEN w ELSE h,
   rotation |-> rotation, flip_x |-> fx, flip_y |-> fy, max_brightness |-> cap]

MCReceiver(index, x, y, w, h) ==
  [index |-> index, x |-> x, y |-> y, width |-> w, height |-> h]

\* A 3 x 2 panel at the right of a 4 x 2 window.
MCOne(rotation, fx, fy) ==
  LET p == MCPanel(0, 1, 0, 0, 0, 3, 2, rotation, fx, fy, 40) IN
  [width |-> p.width, height |-> p.height, max_brightness |-> 60,
   receivers |-> <<MCReceiver(0, 0, 0, 4, 2)>>, panels |-> <<p>>]

\* Two cards side by side on the screen, their panels one over the other.
MCTwo(rotation, fx, fy) ==
  LET p1 == MCPanel(7, 0, 0, 0, 0, 2, 1, "none", fx, fy, 80)
      p2 == MCPanel(3, 0, 0, 0, 1, 2, 1, rotation, fx, fy, 80) IN
  [width |-> 2, height |-> 1 + p2.height, max_brightness |-> 60,
   receivers |-> <<MCReceiver(7, 0, 0, 2, 1), MCReceiver(3, 2, 0, 3, 1)>>,
   panels |-> <<p1, p2>>]

\* Two cards of one index: panels of it hang on the first, here two that share
\* pixels.
MCShared ==
  [width |-> 2, height |-> 2, max_brightness |-> 60,
   receivers |-> <<MCReceiver(0, 2, 0, 2, 1), MCReceiver(0, 0, 0, 2, 1)>>,
   panels |-> <<MCPanel(0, 0, 0, 0, 0, 2, 1, "none", FALSE, FALSE, 80),
                MCPanel(0, 1, 0, 0, 1, 1, 1, "none", FALSE, FALSE, 80)>>]

MCWalls ==
  {MCOne(rotation, fx, fy) : rotation \in Rotations, fx \in BOOLEAN, fy \in BOOLEAN}
    \cup {MCTwo(rotation, rotation = "cw90", rotation = "ccw90") : rotation \in Rotations}
    \cup {Grid(1, 2, 3, 1), CardPerPanel(2, 1, 1, 2), MCShared}

\* What the theorems about pictures ask of a wall.
ASSUME MCWallsAreSmall == \A w \in MCWalls : NoSumWraps(w)

=============================================================================
