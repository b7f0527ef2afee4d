-------------------------------- MODULE Wall --------------------------------
(***************************************************************************)
(* The geometry of a wall (crates/wall): a canvas, the panels that show      *)
(* parts of it as they are mounted, the receivers that drive them and the    *)
(* screen the receivers' windows tile. Pure: no variables.                   *)
(***************************************************************************)
EXTENDS Integers, Sequences, FiniteSets, SequencesExt

CONSTANTS
  U32,     \* 2^32 in the code: where a u32 wraps
  U16Max,  \* 65535 in the code: the largest row and pixel offset on the wire
  Black

ASSUME U16Assumption == U16Max \in Nat
ASSUME U32Assumption == U32 \in Nat /\ U32 > 2 * U16Max

\* u32 addition of a release build.
Add(a, b) == IF a + b < U32 THEN a + b ELSE a + b - U32

Rotations == {"none", "cw90", "ccw90", "rot180"}

U32s == 0 .. U32 - 1

Receivers == [index : 0 .. U16Max, x : U32s, y : U32s, width : U32s, height : U32s]

Panels ==
  [receiver : 0 .. U16Max, receiver_x : U32s, receiver_y : U32s, x : U32s, y : U32s,
   width : U32s, height : U32s, rotation : Rotations, flip_x : BOOLEAN,
   flip_y : BOOLEAN, max_brightness : 0 .. 255]

IsCanvas(c) ==
  /\ c.width \in U32s /\ c.height \in U32s /\ c.max_brightness \in 0 .. 255
  /\ c.receivers \in Seq(Receivers) /\ c.panels \in Seq(Panels)

-----------------------------------------------------------------------------
(* Frame: a rectangle of pixels.                                            *)

Area(w, h) == (0 .. w - 1) \X (0 .. h - 1)

BlackFrame(w, h) ==
  [width |-> w, height |-> h, data |-> [q \in Area(w, h) |-> Black]]

Pixel(f, x, y) == IF x < f.width /\ y < f.height THEN f.data[<<x, y>>] ELSE Black

-----------------------------------------------------------------------------
(* Panel                                                                    *)

\* Where a point of the panel's canvas rectangle is in its receiver's pixels:
\* mirrored on the canvas, then turned back. (Variant: turned, then mirrored.)
Mirror(flip, max, at) == IF flip THEN max - at ELSE at

Turned(p, lx, ly) ==
  CASE p.rotation = "none"   -> <<lx, ly>>
    [] p.rotation = "cw90"   -> <<ly, p.width - 1 - lx>>
    [] p.rotation = "ccw90"  -> <<p.height - 1 - ly, lx>>
    [] p.rotation = "rot180" -> <<p.width - 1 - lx, p.height - 1 - ly>>

NativeSize(p) ==
  IF p.rotation \in {"none", "rot180"} THEN <<p.width, p.height>>
                                       ELSE <<p.height, p.width>>

ReceiverCoordsTurnedFirst(p, lx, ly) ==
  LET at == Turned(p, lx, ly) IN
  <<Add(p.receiver_x, Mirror(p.flip_x, NativeSize(p)[1] - 1, at[1])),
    Add(p.receiver_y, Mirror(p.flip_y, NativeSize(p)[2] - 1, at[2]))>>
ReceiverCoords(p, lx, ly) ==
  LET at == Turned(p, Mirror(p.flip_x, p.width - 1, lx),
                      Mirror(p.flip_y, p.height - 1, ly)) IN
  <<Add(p.receiver_x, at[1]), Add(p.receiver_y, at[2])>>

ScreenCoords(p, r, lx, ly) ==
  LET at == ReceiverCoords(p, lx, ly) IN <<Add(r.x, at[1]), Add(r.y, at[2])>>

Minus(a, b) == <<a[1] - b[1], a[2] - b[2]>>

\* The same as an affine map of the local point.
Placement(p, r) ==
  LET origin == ScreenCoords(p, r, 0, 0) IN
  [origin |-> origin,
   col |-> IF p.width > 1 THEN Minus(ScreenCoords(p, r, 1, 0), origin) ELSE <<0, 0>>,
   row |-> IF p.height > 1 THEN Minus(ScreenCoords(p, r, 0, 1), origin) ELSE <<0, 0>>]

Placed(place, lx, ly) ==
  <<place.origin[1] + lx * place.col[1] + ly * place.row[1],
    place.origin[2] + lx * place.col[2] + ly * place.row[2]>>

IsRowCopy(place) == place.col = <<1, 0>> /\ place.row = <<0, 1>>

\* The fast path: rows clipped to the destination, black where the source ends.
BlitRows(p, origin, src, dst) ==
  LET Inside(at, size) == at \in 0 .. size - 1 IN
  [dst EXCEPT !.data = [q \in DOMAIN dst.data |->
    LET l == Minus(q, origin) IN
    IF Inside(l[1], p.width) /\ Inside(l[2], p.height)
      THEN Pixel(src, p.x + l[1], p.y + l[2]) ELSE dst.data[q]]]

BlitPixels(p, place, src, dst) ==
  LET Lands(q) == {l \in Area(p.width, p.height) : Placed(place, l[1], l[2]) = q} IN
  [dst EXCEPT !.data = [q \in DOMAIN dst.data |->
    IF Lands(q) = {} THEN dst.data[q]
    ELSE LET l == CHOOSE l \in Lands(q) : TRUE
         IN Pixel(src, Add(p.x, l[1]), Add(p.y, l[2]))]]

Blit(p, r, src, dst) ==
  LET place == Placement(p, r) IN
  IF p.width = 0 \/ p.height = 0 THEN dst
  ELSE IF IsRowCopy(place) THEN BlitRows(p, place.origin, src, dst)
  ELSE BlitPixels(p, place, src, dst)

-----------------------------------------------------------------------------
(* Canvas                                                                   *)

HasReceiver(c, p) == \E i \in DOMAIN c.receivers : c.receivers[i].index = p.receiver

\* The first receiver of the panel's index.
ReceiverOf(c, p) == c.receivers[SelectInSeq(c.receivers, LAMBDA r : r.index = p.receiver)]

OnTheWire(r) == Add(r.x, r.width) <= U16Max /\ Add(r.y, r.height) <= U16Max

Apart(a, b) ==
  \/ Add(a.x, a.width) <= b.x \/ Add(b.x, b.width) <= a.x
  \/ Add(a.y, a.height) <= b.y \/ Add(b.y, b.height) <= a.y

OnCanvas(c, p) == Add(p.x, p.width) <= c.width /\ Add(p.y, p.height) <= c.height

OnReceiver(p, r) ==
  /\ Add(p.receiver_x, NativeSize(p)[1]) <= r.width
  /\ Add(p.receiver_y, NativeSize(p)[2]) <= r.height

\* Canvas::validate
Valid(c) ==
  /\ \A i \in DOMAIN c.receivers : OnTheWire(c.receivers[i])
  /\ \A i, j \in DOMAIN c.receivers : i < j => Apart(c.receivers[i], c.receivers[j])
  /\ \A i \in DOMAIN c.panels :
       LET p == c.panels[i] IN
       OnCanvas(c, p) /\ HasReceiver(c, p) /\ OnReceiver(p, ReceiverOf(c, p))

\* validate adds before it compares: on a wall of which this is not so it may
\* let through what does not fit.
NoSumWraps(c) ==
  /\ \A i \in DOMAIN c.receivers :
       LET r == c.receivers[i] IN r.x + r.width < U32 /\ r.y + r.height < U32
  /\ \A i \in DOMAIN c.panels :
       LET p == c.panels[i] IN
       /\ p.x + p.width < U32 /\ p.y + p.height < U32
       /\ p.receiver_x + NativeSize(p)[1] < U32
       /\ p.receiver_y + NativeSize(p)[2] < U32

BrightnessCap(c) ==
  Min({c.max_brightness} \cup {c.panels[i].max_brightness : i \in DOMAIN c.panels})

Clamp(c, value) == Min({value, BrightnessCap(c)})

ScreenSize(c) ==
  LET R == ToSet(c.receivers) IN
  <<Max({0} \cup {Add(r.x, r.width) : r \in R}),
    Max({0} \cup {Add(r.y, r.height) : r \in R})>>

\* Every panel in turn, on a black screen.
Render(c, src) ==
  LET drawn[n \in 0 .. Len(c.panels)] ==
        IF n = 0 THEN BlackFrame(ScreenSize(c)[1], ScreenSize(c)[2])
        ELSE IF HasReceiver(c, c.panels[n])
          THEN Blit(c.panels[n], ReceiverOf(c, c.panels[n]), src, drawn[n - 1])
        ELSE drawn[n - 1]
  IN drawn[Len(c.panels)]

\* The regular walls: one receiver behind all panels, or one behind each.
Grid(w, h, cols, rows) ==
  [width |-> w * cols, height |-> h * rows, max_brightness |-> 255,
   receivers |-> <<[index |-> 0, x |-> 0, y |-> 0, width |-> w * cols, height |-> h * rows]>>,
   panels |-> [i \in 1 .. cols * rows |->
     LET x == ((i - 1) % cols) * w
         y == ((i - 1) \div cols) * h IN
     [receiver |-> 0, receiver_x |-> x, receiver_y |-> y, x |-> x, y |-> y,
      width |-> w, height |-> h, rotation |-> "none", flip_x |-> FALSE,
      flip_y |-> FALSE, max_brightness |-> 255]]]

CardPerPanel(w, h, cols, rows) ==
  LET grid == Grid(w, h, cols, rows) IN
  [grid EXCEPT
    !.receivers = [i \in DOMAIN grid.panels |->
      [index |-> i - 1, x |-> grid.panels[i].x, y |-> grid.panels[i].y,
       width |-> w, height |-> h]],
    !.panels = [i \in DOMAIN grid.panels |->
      [grid.panels[i] EXCEPT !.receiver = i - 1, !.receiver_x = 0, !.receiver_y = 0]]]

-----------------------------------------------------------------------------
(* The window a card keeps of the screen: what provision writes in its       *)
(* control area (colorlight::eeprom::ControlArea), in u16 arithmetic.         *)

ForCabinet(r) ==
  LET Add16(a, b) == IF a + b <= U16Max THEN a + b ELSE a + b - U16Max - 1 IN
  [start_x |-> r.x, start_y |-> r.y,
   end_x |-> Add16(r.x, r.width), end_y |-> Add16(r.y, r.height)]

InWindow(a, q) ==
  q[1] \in a.start_x .. a.end_x - 1 /\ q[2] \in a.start_y .. a.end_y - 1

=============================================================================
