---------------------------- MODULE RefreshProofs ----------------------------
(***************************************************************************)
(* Theorems of Wall and Refresh: the geometry of every mounting, what the    *)
(* cards show of a picture, and the brightness cap.                          *)
(*                                                                         *)
(* The geometry is that of walls without a sum that wraps at 32 bits, whose   *)
(* receivers' and panels' sizes fit 16 bits once validate has let them        *)
(* through (WallIsSmall).                                                    *)
(***************************************************************************)
EXTENDS Refresh, WellFoundedInduction, TLAPS

U16s == 0 .. U16Max

SmallReceivers == [index : U16s, x : U16s, y : U16s, width : U16s, height : U16s]

SmallPanels ==
  [receiver : U16s, receiver_x : U16s, receiver_y : U16s, x : U32s, y : U32s,
   width : U16s, height : U16s, rotation : Rotations, flip_x : BOOLEAN,
   flip_y : BOOLEAN, max_brightness : 0 .. 255]

\* A set of natural numbers has a least one (Min, from the community modules).
LEMMA LeastNatural ==
  ASSUME NEW S, S \subseteq Nat, S # {}
  PROVE  Min(S) \in S /\ \A y \in S : Min(S) <= y
<1>1. \E x \in S : \A y \in S : ~(<<y, x>> \in OpToRel(<, Nat))
  BY WFMin, NatLessThanWellFounded
<1>2. PICK x \in S : \A y \in S : ~(<<y, x>> \in OpToRel(<, Nat))
  BY <1>1
<1>3. ASSUME NEW y \in S PROVE x <= y
  <2>1. x \in Nat /\ y \in Nat
    BY <1>2
  <2>2. y < x => <<y, x>> \in OpToRel(<, Nat)
    BY <2>1 DEF OpToRel
  <2>3. ~(y < x)
    BY <1>2, <1>3, <2>2, Zenon
  <2> QED BY <2>1, <2>3
<1> QED BY <1>3 DEF Min

-----------------------------------------------------------------------------
(* Geometry.                                                                *)

LEMMA AddPlain ==
  ASSUME NEW a \in Nat, NEW b \in Nat, a + b <= 2 * U16Max
  PROVE  Add(a, b) = a + b
BY U16Assumption, U32Assumption DEF Add

\* The mounting of a panel, before the window of its card is added.
Mounted(p, lx, ly) ==
  Turned(p, Mirror(p.flip_x, p.width - 1, lx), Mirror(p.flip_y, p.height - 1, ly))

\* receiver_coords: a point of the panel's canvas rectangle is lit by one of
\* its LEDs, however it is mounted.
LEMMA MountedOnPanel ==
  ASSUME NEW p \in SmallPanels, NEW lx \in 0 .. p.width - 1, NEW ly \in 0 .. p.height - 1
  PROVE  Mounted(p, lx, ly) \in Area(NativeSize(p)[1], NativeSize(p)[2])
<1> DEFINE ax == Mirror(p.flip_x, p.width - 1, lx)
           ay == Mirror(p.flip_y, p.height - 1, ly)
<1>0. p.width \in Nat /\ p.height \in Nat /\ p.rotation \in Rotations
  BY U16Assumption DEF SmallPanels, U16s
<1>1. ax \in 0 .. p.width - 1 /\ ay \in 0 .. p.height - 1
  BY <1>0 DEF Mirror
<1>2. Turned(p, ax, ay) \in Area(NativeSize(p)[1], NativeSize(p)[2])
  <2> HIDE DEF ax, ay
  <2>1. CASE p.rotation = "none"
    BY <1>0, <1>1, <2>1 DEF Turned, NativeSize, Area
  <2>2. CASE p.rotation = "cw90"
    BY <1>0, <1>1, <2>2 DEF Turned, NativeSize, Area
  <2>3. CASE p.rotation = "ccw90"
    BY <1>0, <1>1, <2>3 DEF Turned, NativeSize, Area
  <2>4. CASE p.rotation = "rot180"
    BY <1>0, <1>1, <2>4 DEF Turned, NativeSize, Area
  <2> QED BY <1>0, <2>1, <2>2, <2>3, <2>4 DEF Rotations
<1> QED BY <1>2 DEF Mounted

\* Two points of a panel are lit by two LEDs.
LEMMA MountedApart ==
  ASSUME NEW p \in SmallPanels,
         NEW lx \in 0 .. p.width - 1, NEW ly \in 0 .. p.height - 1,
         NEW mx \in 0 .. p.width - 1, NEW my \in 0 .. p.height - 1,
         Mounted(p, lx, ly) = Mounted(p, mx, my)
  PROVE  lx = mx /\ ly = my
<1>0. p.width \in Nat /\ p.height \in Nat /\ p.rotation \in Rotations
  BY U16Assumption DEF SmallPanels, U16s
<1>1. CASE p.rotation = "none"
  BY <1>0, <1>1 DEF Mounted, Turned, Mirror
<1>2. CASE p.rotation = "cw90"
  BY <1>0, <1>2 DEF Mounted, Turned, Mirror
<1>3. CASE p.rotation = "ccw90"
  BY <1>0, <1>3 DEF Mounted, Turned, Mirror
<1>4. CASE p.rotation = "rot180"
  BY <1>0, <1>4 DEF Mounted, Turned, Mirror
<1> QED BY <1>0, <1>1, <1>2, <1>3, <1>4 DEF Rotations

\* The code turns a canvas point back to its LED; the way an LED is turned and
\* mirrored when the panel is mounted (Place, of the reference) brings it back
\* to its place on the canvas, for every mounting and size.
THEOREM MountingIsUndone ==
  ASSUME NEW p \in SmallPanels, NEW lx \in 0 .. p.width - 1, NEW ly \in 0 .. p.height - 1
  PROVE  Place(p, Mounted(p, lx, ly)) = <<p.x + lx, p.y + ly>>
<1>0. /\ p.width \in Nat /\ p.height \in Nat /\ p.x \in Nat /\ p.y \in Nat
      /\ p.flip_x \in BOOLEAN /\ p.flip_y \in BOOLEAN
      /\ p.rotation \in Rotations
  BY U16Assumption, U32Assumption DEF SmallPanels, U16s, U32s
<1> DEFINE ax == Mirror(p.flip_x, p.width - 1, lx)
           ay == Mirror(p.flip_y, p.height - 1, ly)
<1>1. ax \in Int /\ ay \in Int
  BY <1>0 DEF Mirror
<1>2. TurnedLed(p, Turned(p, ax, ay)) = <<ax, ay>>
  <2> HIDE DEF ax, ay
  <2>1. CASE p.rotation = "none"
    BY <1>0, <1>1, <2>1 DEF TurnedLed, Turned, Turns, NativeSize
  <2>2. CASE p.rotation = "cw90"
    BY <1>0, <1>1, <2>2 DEF TurnedLed, Turned, Turns, QuarterTurn, NativeSize
  <2>3. CASE p.rotation = "ccw90"
    BY <1>0, <1>1, <2>3 DEF TurnedLed, Turned, Turns, QuarterTurn, NativeSize
  <2>4. CASE p.rotation = "rot180"
    BY <1>0, <1>1, <2>4 DEF TurnedLed, Turned, Turns, QuarterTurn, NativeSize
  <2> QED BY <1>0, <2>1, <2>2, <2>3, <2>4 DEF Rotations
<1>3. TurnedLed(p, Mounted(p, lx, ly)) = <<ax, ay>>
  BY <1>2 DEF Mounted
<1>4. /\ (IF p.flip_x THEN p.width - 1 - ax ELSE ax) = lx
      /\ (IF p.flip_y THEN p.height - 1 - ay ELSE ay) = ly
  BY <1>0 DEF Mirror
<1> QED BY <1>3, <1>4 DEF Place

\* receiver_coords without the wrap: the mounting, moved to the panel.
LEMMA CoordsPlain ==
  ASSUME NEW p \in SmallPanels, NEW lx \in 0 .. p.width - 1, NEW ly \in 0 .. p.height - 1
  PROVE  LET led == Mounted(p, lx, ly) IN
         ReceiverCoords(p, lx, ly) = <<p.receiver_x + led[1], p.receiver_y + led[2]>>
<1> DEFINE led == Mounted(p, lx, ly)
<1>1. led[1] \in 0 .. NativeSize(p)[1] - 1 /\ led[2] \in 0 .. NativeSize(p)[2] - 1
  BY MountedOnPanel DEF Area
<1>2. p.receiver_x \in U16s /\ p.receiver_y \in U16s
  BY DEF SmallPanels
<1>3. NativeSize(p)[1] \in U16s /\ NativeSize(p)[2] \in U16s
  BY DEF SmallPanels, NativeSize
<1>4. ReceiverCoords(p, lx, ly) = <<Add(p.receiver_x, led[1]), Add(p.receiver_y, led[2])>>
  BY DEF ReceiverCoords, Mounted
<1> HIDE DEF led
<1>5. Add(p.receiver_x, led[1]) = p.receiver_x + led[1]
  BY <1>1, <1>2, <1>3, U16Assumption, AddPlain DEF U16s
<1>6. Add(p.receiver_y, led[2]) = p.receiver_y + led[2]
  BY <1>1, <1>2, <1>3, U16Assumption, AddPlain DEF U16s
<1> QED BY <1>4, <1>5, <1>6 DEF led

\* What validate checks, in sums that do not wrap.
LEMMA NoWrap ==
  ASSUME NEW p \in SmallPanels, NEW r \in SmallReceivers, OnTheWire(r), OnReceiver(p, r)
  PROVE  /\ r.x + r.width <= U16Max /\ r.y + r.height <= U16Max
         /\ p.receiver_x + NativeSize(p)[1] <= r.width
         /\ p.receiver_y + NativeSize(p)[2] <= r.height
<1> DEFINE native == NativeSize(p)
<1>1. native[1] \in U16s /\ native[2] \in U16s
  BY DEF SmallPanels, NativeSize
<1>2. /\ p.receiver_x \in U16s /\ p.receiver_y \in U16s
      /\ r.x \in U16s /\ r.y \in U16s /\ r.width \in U16s /\ r.height \in U16s
  BY DEF SmallPanels, SmallReceivers
<1> HIDE DEF native
<1>3. Add(r.x, r.width) = r.x + r.width /\ Add(r.y, r.height) = r.y + r.height
  BY <1>2, U16Assumption, AddPlain DEF U16s
<1>4. /\ Add(p.receiver_x, native[1]) = p.receiver_x + native[1]
      /\ Add(p.receiver_y, native[2]) = p.receiver_y + native[2]
  BY <1>1, <1>2, U16Assumption, AddPlain DEF U16s
<1> QED BY <1>3, <1>4 DEF OnTheWire, OnReceiver, native

\* A pixel of a panel that fits its receiver is on the screen where the
\* receiver's window has it.
LEMMA ScreenPlain ==
  ASSUME NEW p \in SmallPanels, NEW r \in SmallReceivers, OnTheWire(r), OnReceiver(p, r),
         NEW lx \in 0 .. p.width - 1, NEW ly \in 0 .. p.height - 1
  PROVE  LET led == Mounted(p, lx, ly) IN
         /\ led[1] \in Nat /\ p.receiver_x + led[1] < r.width
         /\ led[2] \in Nat /\ p.receiver_y + led[2] < r.height
         /\ ScreenCoords(p, r, lx, ly) =
              <<r.x + (p.receiver_x + led[1]), r.y + (p.receiver_y + led[2])>>
<1> DEFINE led == Mounted(p, lx, ly)
           native == NativeSize(p)
<1>1. led[1] \in 0 .. native[1] - 1 /\ led[2] \in 0 .. native[2] - 1
  BY MountedOnPanel DEF Area
<1>2. native[1] \in U16s /\ native[2] \in U16s
  BY DEF SmallPanels, NativeSize
<1>3. /\ p.receiver_x \in U16s /\ p.receiver_y \in U16s
      /\ r.x \in U16s /\ r.y \in U16s /\ r.width \in U16s /\ r.height \in U16s
  BY DEF SmallPanels, SmallReceivers
<1>4. /\ r.x + r.width <= U16Max /\ r.y + r.height <= U16Max
      /\ p.receiver_x + native[1] <= r.width /\ p.receiver_y + native[2] <= r.height
  BY NoWrap
<1>5. ReceiverCoords(p, lx, ly) = <<p.receiver_x + led[1], p.receiver_y + led[2]>>
  BY CoordsPlain
<1> HIDE DEF led, native
<1>6. /\ led[1] \in Nat /\ p.receiver_x + led[1] \in Nat /\ p.receiver_x + led[1] < r.width
      /\ led[2] \in Nat /\ p.receiver_y + led[2] \in Nat /\ p.receiver_y + led[2] < r.height
  BY <1>1, <1>2, <1>3, <1>4, U16Assumption DEF U16s
<1>7. Add(r.x, p.receiver_x + led[1]) = r.x + (p.receiver_x + led[1])
  BY <1>3, <1>4, <1>6, U16Assumption, AddPlain DEF U16s
<1>8. Add(r.y, p.receiver_y + led[2]) = r.y + (p.receiver_y + led[2])
  BY <1>3, <1>4, <1>6, U16Assumption, AddPlain DEF U16s
<1> QED BY <1>5, <1>6, <1>7, <1>8 DEF ScreenCoords, led

\* The panel of a wall that validate lets through stays in the window its card
\* was provisioned with: no pixel of it goes to nobody, or to another card.
THEOREM PanelInItsWindow ==
  ASSUME NEW p \in SmallPanels, NEW r \in SmallReceivers, OnTheWire(r), OnReceiver(p, r),
         NEW lx \in 0 .. p.width - 1, NEW ly \in 0 .. p.height - 1
  PROVE  InWindow(ForCabinet(r), ScreenCoords(p, r, lx, ly))
<1> DEFINE led == Mounted(p, lx, ly)
<1>1. /\ p.receiver_x \in Nat /\ p.receiver_y \in Nat
      /\ r.x \in Nat /\ r.y \in Nat /\ r.width \in Nat /\ r.height \in Nat
  BY U16Assumption DEF SmallPanels, SmallReceivers, U16s
<1>2. /\ led[1] \in Nat /\ p.receiver_x + led[1] < r.width
      /\ led[2] \in Nat /\ p.receiver_y + led[2] < r.height
      /\ ScreenCoords(p, r, lx, ly) =
           <<r.x + (p.receiver_x + led[1]), r.y + (p.receiver_y + led[2])>>
  BY ScreenPlain
<1>3. ForCabinet(r) = [start_x |-> r.x, start_y |-> r.y,
                       end_x |-> r.x + r.width, end_y |-> r.y + r.height]
  BY NoWrap DEF ForCabinet
<1> HIDE DEF led
<1> QED BY <1>1, <1>2, <1>3 DEF InWindow

\* Two points of a panel never light the same pixel of its receiver.
THEOREM PixelsApart ==
  ASSUME NEW p \in SmallPanels,
         NEW lx \in 0 .. p.width - 1, NEW ly \in 0 .. p.height - 1,
         NEW mx \in 0 .. p.width - 1, NEW my \in 0 .. p.height - 1,
         ReceiverCoords(p, lx, ly) = ReceiverCoords(p, mx, my)
  PROVE  lx = mx /\ ly = my
<1> DEFINE l == Mounted(p, lx, ly)
           m == Mounted(p, mx, my)
<1>1. /\ ReceiverCoords(p, lx, ly) = <<p.receiver_x + l[1], p.receiver_y + l[2]>>
      /\ ReceiverCoords(p, mx, my) = <<p.receiver_x + m[1], p.receiver_y + m[2]>>
  BY CoordsPlain
<1>2. /\ l \in Area(NativeSize(p)[1], NativeSize(p)[2])
      /\ m \in Area(NativeSize(p)[1], NativeSize(p)[2])
  BY MountedOnPanel
<1>3. l[1] = m[1] /\ l[2] = m[2]
  <2> HIDE DEF l, m
  <2>1. p.receiver_x \in Int /\ p.receiver_y \in Int
    BY U16Assumption DEF SmallPanels, U16s
  <2>2. NativeSize(p)[1] \in Int /\ NativeSize(p)[2] \in Int
    BY U16Assumption DEF SmallPanels, NativeSize, U16s
  <2>3. l[1] \in Int /\ l[2] \in Int /\ m[1] \in Int /\ m[2] \in Int
    BY <1>2, <2>2 DEF Area
  <2>4. <<p.receiver_x + l[1], p.receiver_y + l[2]>> = <<p.receiver_x + m[1], p.receiver_y + m[2]>>
    BY <1>1, Zenon
  <2> QED BY <2>1, <2>3, <2>4
<1>4. l = m
  <2> HIDE DEF l, m
  <2> QED BY <1>2, <1>3 DEF Area
<1> QED BY <1>4, MountedApart

\* Receivers that validate finds apart have windows without a common pixel:
\* a pixel of the screen has one card at most.
THEOREM WindowsApart ==
  ASSUME NEW a \in SmallReceivers, NEW b \in SmallReceivers,
         OnTheWire(a), OnTheWire(b), Apart(a, b),
         NEW q \in Int \X Int
  PROVE  ~(InWindow(ForCabinet(a), q) /\ InWindow(ForCabinet(b), q))
<1>1. /\ a.x \in U16s /\ a.y \in U16s /\ a.width \in U16s /\ a.height \in U16s
      /\ b.x \in U16s /\ b.y \in U16s /\ b.width \in U16s /\ b.height \in U16s
  BY DEF SmallReceivers
<1>2. /\ Add(a.x, a.width) = a.x + a.width /\ Add(a.y, a.height) = a.y + a.height
      /\ Add(b.x, b.width) = b.x + b.width /\ Add(b.y, b.height) = b.y + b.height
  BY <1>1, U16Assumption, AddPlain DEF U16s
<1>3. /\ a.x + a.width <= U16Max /\ a.y + a.height <= U16Max
      /\ b.x + b.width <= U16Max /\ b.y + b.height <= U16Max
  BY <1>2 DEF OnTheWire
<1> QED BY <1>1, <1>2, <1>3, U16Assumption DEF Apart, InWindow, ForCabinet, U16s

\* placement: the affine map blit steps along is the mapping of each point.
THEOREM PlacementIsExact ==
  ASSUME NEW p \in SmallPanels, NEW r \in SmallReceivers,
         OnTheWire(r), OnReceiver(p, r),
         NEW lx \in 0 .. p.width - 1, NEW ly \in 0 .. p.height - 1
  PROVE  Placed(Placement(p, r), lx, ly) = ScreenCoords(p, r, lx, ly)
<1>0. /\ p.width \in Nat /\ p.height \in Nat /\ p.rotation \in Rotations
      /\ p.receiver_x \in Nat /\ p.receiver_y \in Nat /\ r.x \in Nat /\ r.y \in Nat
  BY U16Assumption DEF SmallPanels, SmallReceivers, U16s
<1>1. \A kx \in 0 .. p.width - 1, ky \in 0 .. p.height - 1 :
        ScreenCoords(p, r, kx, ky) =
          <<r.x + (p.receiver_x + Mounted(p, kx, ky)[1]),
            r.y + (p.receiver_y + Mounted(p, kx, ky)[2])>>
  BY ScreenPlain
<1>2. /\ 0 \in 0 .. p.width - 1 /\ 0 \in 0 .. p.height - 1
      /\ (p.width > 1 => 1 \in 0 .. p.width - 1)
      /\ (p.height > 1 => 1 \in 0 .. p.height - 1)
  BY <1>0
<1> DEFINE M(kx, ky) == Mounted(p, kx, ky)
           o == M(0, 0)
           c == IF p.width > 1 THEN Minus(M(1, 0), o) ELSE <<0, 0>>
           d == IF p.height > 1 THEN Minus(M(0, 1), o) ELSE <<0, 0>>
           X(kx) == IF p.flip_x THEN p.width - 1 - kx ELSE kx
           Y(ky) == IF p.flip_y THEN p.height - 1 - ky ELSE ky
           U(kx) == IF p.flip_x THEN kx ELSE p.width - 1 - kx
           V(ky) == IF p.flip_y THEN ky ELSE p.height - 1 - ky
           sx == IF p.flip_x THEN -1 ELSE 1
           sy == IF p.flip_y THEN -1 ELSE 1
<1>3. /\ M(lx, ly)[1] = o[1] + lx * c[1] + ly * d[1]
      /\ M(lx, ly)[2] = o[2] + lx * c[2] + ly * d[2]
  <2>1. CASE p.rotation = "none"
    <3>1. /\ M(lx, ly) = <<X(lx), Y(ly)>> /\ o = <<X(0), Y(0)>>
          /\ p.width > 1 => M(1, 0) = <<X(1), Y(0)>>
          /\ p.height > 1 => M(0, 1) = <<X(0), Y(1)>>
      BY <1>0, <2>1 DEF Mounted, Turned, Mirror
    <3> HIDE DEF M, o
    <3>2. c = (IF p.width > 1 THEN <<sx, 0>> ELSE <<0, 0>>)
      BY <1>0, <3>1 DEF Minus
    <3>3. d = (IF p.height > 1 THEN <<0, sy>> ELSE <<0, 0>>)
      BY <1>0, <3>1 DEF Minus
    <3> HIDE DEF c, d
    <3>4. lx * c[1] = X(lx) - X(0) /\ lx * c[2] = 0
      BY <1>0, <3>2
    <3>5. ly * d[1] = 0 /\ ly * d[2] = Y(ly) - Y(0)
      BY <1>0, <3>3
    <3> QED BY <1>0, <3>1, <3>4, <3>5
  <2>2. CASE p.rotation = "cw90"
    BY <1>0, <2>2 DEF Mounted, Turned, Mirror, Minus
  <2>3. CASE p.rotation = "ccw90"
    BY <1>0, <2>3 DEF Mounted, Turned, Mirror, Minus
  <2>4. CASE p.rotation = "rot180"
    <3>1. /\ M(lx, ly) = <<U(lx), V(ly)>> /\ o = <<U(0), V(0)>>
          /\ p.width > 1 => M(1, 0) = <<U(1), V(0)>>
          /\ p.height > 1 => M(0, 1) = <<U(0), V(1)>>
      BY <1>0, <2>4 DEF Mounted, Turned, Mirror
    <3> HIDE DEF M, o
    <3>2. c = (IF p.width > 1 THEN <<-sx, 0>> ELSE <<0, 0>>)
      BY <1>0, <3>1 DEF Minus
    <3>3. d = (IF p.height > 1 THEN <<0, -sy>> ELSE <<0, 0>>)
      BY <1>0, <3>1 DEF Minus
    <3> HIDE DEF c, d
    <3>4. lx * c[1] = U(lx) - U(0) /\ lx * c[2] = 0
      BY <1>0, <3>2
    <3>5. ly * d[1] = 0 /\ ly * d[2] = V(ly) - V(0)
      BY <1>0, <3>3
    <3> QED BY <1>0, <3>1, <3>4, <3>5
  <2> QED BY <1>0, <2>1, <2>2, <2>3, <2>4 DEF Rotations
<1>4. ScreenCoords(p, r, 0, 0) = <<r.x + (p.receiver_x + o[1]), r.y + (p.receiver_y + o[2])>>
  BY <1>1, <1>2
<1>5. o[1] \in Int /\ o[2] \in Int
  BY <1>2, ScreenPlain
<1>6. Placement(p, r).col = c
  <2>1. CASE p.width > 1
    <3>1. ScreenCoords(p, r, 1, 0) =
            <<r.x + (p.receiver_x + M(1, 0)[1]), r.y + (p.receiver_y + M(1, 0)[2])>>
      BY <1>1, <1>2, <2>1
    <3>2. M(1, 0)[1] \in Int /\ M(1, 0)[2] \in Int
      BY <1>2, <2>1, ScreenPlain
    <3>3. Placement(p, r).col = Minus(ScreenCoords(p, r, 1, 0), ScreenCoords(p, r, 0, 0))
      BY <2>1 DEF Placement
    <3> HIDE DEF M, o
    <3>4. Minus(ScreenCoords(p, r, 1, 0), ScreenCoords(p, r, 0, 0)) = Minus(M(1, 0), o)
      BY <1>0, <1>4, <1>5, <3>1, <3>2 DEF Minus
    <3> QED BY <2>1, <3>3, <3>4
  <2> QED BY <2>1 DEF Placement
<1>7. Placement(p, r).row = d
  <2>1. CASE p.height > 1
    <3>1. ScreenCoords(p, r, 0, 1) =
            <<r.x + (p.receiver_x + M(0, 1)[1]), r.y + (p.receiver_y + M(0, 1)[2])>>
      BY <1>1, <1>2, <2>1
    <3>2. M(0, 1)[1] \in Int /\ M(0, 1)[2] \in Int
      BY <1>2, <2>1, ScreenPlain
    <3>3. Placement(p, r).row = Minus(ScreenCoords(p, r, 0, 1), ScreenCoords(p, r, 0, 0))
      BY <2>1 DEF Placement
    <3> HIDE DEF M, o
    <3>4. Minus(ScreenCoords(p, r, 0, 1), ScreenCoords(p, r, 0, 0)) = Minus(M(0, 1), o)
      BY <1>0, <1>4, <1>5, <3>1, <3>2 DEF Minus
    <3> QED BY <2>1, <3>3, <3>4
  <2> QED BY <2>1 DEF Placement
<1>8. c \in Int \X Int /\ d \in Int \X Int
  <2>1. p.width > 1 => M(1, 0)[1] \in Int /\ M(1, 0)[2] \in Int
    BY <1>2, ScreenPlain
  <2>2. p.height > 1 => M(0, 1)[1] \in Int /\ M(0, 1)[2] \in Int
    BY <1>2, ScreenPlain
  <2> HIDE DEF M, o
  <2> QED BY <1>5, <2>1, <2>2 DEF Minus
<1>9. ScreenCoords(p, r, lx, ly) =
         <<r.x + (p.receiver_x + M(lx, ly)[1]), r.y + (p.receiver_y + M(lx, ly)[2])>>
  BY <1>1
<1> HIDE DEF M, o, c, d
<1>10. /\ lx * c[1] \in Int /\ ly * d[1] \in Int
       /\ lx * c[2] \in Int /\ ly * d[2] \in Int
  BY <1>0, <1>8
<1>11. Placed(Placement(p, r), lx, ly) =
         <<r.x + (p.receiver_x + o[1]) + lx * c[1] + ly * d[1],
           r.y + (p.receiver_y + o[2]) + lx * c[2] + ly * d[2]>>
  <2>1. Placement(p, r).origin = ScreenCoords(p, r, 0, 0)
    BY DEF Placement
  <2> QED BY <1>4, <1>6, <1>7, <2>1 DEF Placed
<1> QED BY <1>0, <1>3, <1>5, <1>9, <1>10, <1>11

\* A sum that fits does not wrap.
LEMMA AddExact ==
  ASSUME NEW a \in Nat, NEW b \in Nat, a + b < U32
  PROVE  Add(a, b) = a + b
BY U32Assumption DEF Add

\* receiver(): the first of the cards with the panel's index.
LEMMA ReceiverIsFound ==
  ASSUME NEW c, IsCanvas(c), NEW p, HasReceiver(c, p)
  PROVE  \E k \in DOMAIN c.receivers :
           /\ ReceiverOf(c, p) = c.receivers[k] /\ c.receivers[k].index = p.receiver
           /\ \A b \in DOMAIN c.receivers : c.receivers[b].index = p.receiver => k <= b
<1> DEFINE I == {i \in 1 .. Len(c.receivers) : c.receivers[i].index = p.receiver}
<1>1. c.receivers \in Seq(Receivers)
  BY DEF IsCanvas
<1>2. DOMAIN c.receivers = 1 .. Len(c.receivers) /\ Len(c.receivers) \in Nat
  BY <1>1
<1>3. I # {} /\ I \subseteq Nat
  BY <1>2 DEF HasReceiver
<1>4. Min(I) \in I /\ \A b \in I : Min(I) <= b
  BY <1>3, LeastNatural
<1>5. ReceiverOf(c, p) = c.receivers[Min(I)]
  BY <1>3 DEF ReceiverOf, SelectInSeq
<1> HIDE DEF I
<1>6. Min(I) \in 1 .. Len(c.receivers) /\ c.receivers[Min(I)].index = p.receiver
  BY <1>4 DEF I
<1>7. \A b \in DOMAIN c.receivers : c.receivers[b].index = p.receiver => Min(I) <= b
  BY <1>2, <1>4 DEF I
<1> QED BY <1>2, <1>5, <1>6, <1>7

\* validate lets no number through that is too large for the wire.
LEMMA WallIsSmall ==
  ASSUME NEW c, IsCanvas(c), Valid(c), NoSumWraps(c)
  PROVE  /\ \A i \in DOMAIN c.receivers :
              c.receivers[i] \in SmallReceivers /\ OnTheWire(c.receivers[i])
         /\ \A i \in DOMAIN c.panels :
              /\ c.panels[i] \in SmallPanels /\ HasReceiver(c, c.panels[i])
              /\ OnReceiver(c.panels[i], ReceiverOf(c, c.panels[i]))
              /\ c.panels[i].x + c.panels[i].width <= c.width
              /\ c.panels[i].y + c.panels[i].height <= c.height
<1>1. ASSUME NEW i \in DOMAIN c.receivers
      PROVE  /\ c.receivers[i] \in SmallReceivers /\ OnTheWire(c.receivers[i])
             /\ c.receivers[i].width <= U16Max /\ c.receivers[i].height <= U16Max
  <2> DEFINE r == c.receivers[i]
  <2>1. r \in Receivers
    BY DEF IsCanvas
  <2>2. OnTheWire(r) /\ r.x + r.width < U32 /\ r.y + r.height < U32
    BY DEF Valid, NoSumWraps
  <2> HIDE DEF r
  <2>3. /\ r.x \in Nat /\ r.y \in Nat /\ r.width \in Nat /\ r.height \in Nat
        /\ r.index \in 0 .. U16Max
    BY <2>1, U32Assumption DEF Receivers, U32s
  <2>4. r.x + r.width <= U16Max /\ r.y + r.height <= U16Max
    BY <2>2, <2>3, AddExact DEF OnTheWire
  <2>5. /\ r.x \in U16s /\ r.y \in U16s /\ r.width \in U16s /\ r.height \in U16s
        /\ r.index \in U16s
    BY <2>3, <2>4, U16Assumption DEF U16s
  <2>6. r \in SmallReceivers
    BY <2>1, <2>5 DEF Receivers, SmallReceivers
  <2> QED BY <2>2, <2>3, <2>4, <2>6, U16Assumption DEF r
<1>2. ASSUME NEW i \in DOMAIN c.panels
      PROVE  /\ c.panels[i] \in SmallPanels /\ HasReceiver(c, c.panels[i])
             /\ OnReceiver(c.panels[i], ReceiverOf(c, c.panels[i]))
             /\ c.panels[i].x + c.panels[i].width <= c.width
             /\ c.panels[i].y + c.panels[i].height <= c.height
  <2> DEFINE p == c.panels[i]
             r == ReceiverOf(c, p)
  <2>1. p \in Panels
    BY DEF IsCanvas
  <2>2. OnCanvas(c, p) /\ HasReceiver(c, p) /\ OnReceiver(p, r)
    BY DEF Valid
  <2>3. /\ p.x + p.width < U32 /\ p.y + p.height < U32
        /\ p.receiver_x + NativeSize(p)[1] < U32 /\ p.receiver_y + NativeSize(p)[2] < U32
    BY DEF NoSumWraps
  <2>4. PICK k \in DOMAIN c.receivers : r = c.receivers[k]
    BY <2>2, ReceiverIsFound
  <2>5. r \in SmallReceivers /\ r.width <= U16Max /\ r.height <= U16Max
    BY <1>1, <2>4
  <2> HIDE DEF p, r
  <2>6. /\ p.x \in Nat /\ p.y \in Nat /\ p.width \in Nat /\ p.height \in Nat
        /\ p.receiver_x \in Nat /\ p.receiver_y \in Nat
    BY <2>1, U32Assumption DEF Panels, U32s
  <2>7. p.x + p.width <= c.width /\ p.y + p.height <= c.height
    BY <2>2, <2>3, <2>6, AddExact DEF OnCanvas
  <2>8. NativeSize(p)[1] \in Nat /\ NativeSize(p)[2] \in Nat
    BY <2>6 DEF NativeSize
  <2>9. p.receiver_x + NativeSize(p)[1] <= r.width /\ p.receiver_y + NativeSize(p)[2] <= r.height
    BY <2>2, <2>3, <2>6, <2>8, AddExact DEF OnReceiver
  <2>10. /\ p.receiver_x \in U16s /\ p.receiver_y \in U16s
         /\ NativeSize(p)[1] \in U16s /\ NativeSize(p)[2] \in U16s
    BY <2>5, <2>6, <2>8, <2>9, U16Assumption DEF U16s, SmallReceivers
  <2>11. p.width \in U16s /\ p.height \in U16s
    BY <2>10 DEF NativeSize
  <2>12. p \in SmallPanels
    BY <2>1, <2>10, <2>11 DEF Panels, SmallPanels, U16s
  <2> QED BY <2>2, <2>7, <2>12 DEF p, r
<1> QED BY <1>1, <1>2

\* Each LED of a panel is the one of a point of the canvas.
LEMMA MountedOnto ==
  ASSUME NEW p \in SmallPanels, NEW led \in Area(NativeSize(p)[1], NativeSize(p)[2])
  PROVE  \E lx \in 0 .. p.width - 1, ly \in 0 .. p.height - 1 : Mounted(p, lx, ly) = led
<1>0. p.width \in Nat /\ p.height \in Nat /\ p.rotation \in Rotations
  BY U16Assumption DEF SmallPanels, U16s
<1> DEFINE t == TurnedLed(p, led)
           lx == IF p.flip_x THEN p.width - 1 - t[1] ELSE t[1]
           ly == IF p.flip_y THEN p.height - 1 - t[2] ELSE t[2]
<1>1. t \in Area(p.width, p.height) /\ Turned(p, t[1], t[2]) = led
  <2>1. CASE p.rotation = "none"
    BY <1>0, <2>1 DEF Turned, TurnedLed, Turns, QuarterTurn, NativeSize, Area
  <2>2. CASE p.rotation = "cw90"
    BY <1>0, <2>2 DEF Turned, TurnedLed, Turns, QuarterTurn, NativeSize, Area
  <2>3. CASE p.rotation = "ccw90"
    BY <1>0, <2>3 DEF Turned, TurnedLed, Turns, QuarterTurn, NativeSize, Area
  <2>4. CASE p.rotation = "rot180"
    BY <1>0, <2>4 DEF Turned, TurnedLed, Turns, QuarterTurn, NativeSize, Area
  <2> QED BY <1>0, <2>1, <2>2, <2>3, <2>4 DEF Rotations
<1> HIDE DEF t
<1>2. lx \in 0 .. p.width - 1 /\ ly \in 0 .. p.height - 1
  BY <1>0, <1>1 DEF Area
<1>3. Mirror(p.flip_x, p.width - 1, lx) = t[1] /\ Mirror(p.flip_y, p.height - 1, ly) = t[2]
  BY <1>0, <1>1 DEF Mirror, Area
<1>4. Mounted(p, lx, ly) = led
  BY <1>1, <1>3 DEF Mounted
<1> QED BY <1>2, <1>4

\* One turn of render_into's loop.
WithPanel(c, src, n, out) ==
  IF HasReceiver(c, c.panels[n]) THEN Blit(c.panels[n], ReceiverOf(c, c.panels[n]), src, out)
  ELSE out

\* The frame after each of the first panels, and the one after all of them.
Drawing(c, src, m, d) ==
  d = [n \in 0 .. m |-> IF n = 0 THEN BlackFrame(ScreenSize(c)[1], ScreenSize(c)[2])
                        ELSE WithPanel(c, src, n, d[n - 1])]

\* What holds at 0 and after every number where it holds, holds up to any.
LEMMA SmallestCounterexample ==
  ASSUME NEW N \in Nat, NEW T, 0 \in T, \A n \in 1 .. N : n - 1 \in T => n \in T
  PROVE  \A n \in 0 .. N : n \in T
<1> DEFINE S == {n \in 0 .. N : n \notin T}
<1> SUFFICES ASSUME S # {} PROVE FALSE
  OBVIOUS
<1>1. S \subseteq Nat
  OBVIOUS
<1>2. Min(S) \in S /\ \A y \in S : Min(S) <= y
  BY <1>1, LeastNatural
<1> DEFINE m == Min(S)
<1> HIDE DEF m
<1>3. m \in 0 .. N /\ m \notin T /\ \A y \in S : m <= y
  BY <1>2 DEF m
<1>4. m # 0
  BY <1>3
<1>5. m - 1 \notin S
  BY <1>3, <1>4
<1> QED BY <1>3, <1>4, <1>5

\* The render is the last of a sequence of drawings, one panel each.
LEMMA RenderIsADrawing ==
  ASSUME NEW c, NEW src, Len(c.panels) \in Nat
  PROVE  \E d : Drawing(c, src, Len(c.panels), d) /\ Render(c, src) = d[Len(c.panels)]
<1> DEFINE N == Len(c.panels)
           T == {m \in 0 .. N : \E d : Drawing(c, src, m, d)}
<1>1. 0 \in T
  <2>1. Drawing(c, src, 0, [n \in 0 .. 0 |-> BlackFrame(ScreenSize(c)[1], ScreenSize(c)[2])])
    BY DEF Drawing
  <2> QED BY <2>1
<1>2. ASSUME NEW m \in 1 .. N, m - 1 \in T PROVE m \in T
  <2>1. PICK d : Drawing(c, src, m - 1, d)
    BY <1>2
  <2> DEFINE e == [n \in 0 .. m |-> IF n = m THEN WithPanel(c, src, m, d[m - 1]) ELSE d[n]]
  <2>2. ASSUME NEW n \in 0 .. m
        PROVE  e[n] = IF n = 0 THEN BlackFrame(ScreenSize(c)[1], ScreenSize(c)[2])
                      ELSE WithPanel(c, src, n, e[n - 1])
    <3>1. CASE n = m
      <4>1. e[m - 1] = d[m - 1] /\ e[m] = WithPanel(c, src, m, d[m - 1])
        BY <1>2
      <4> HIDE DEF e
      <4> QED BY <3>1, <4>1
    <3>2. CASE n # m
      <4>1. n \in 0 .. m - 1 /\ (n # 0 => n - 1 \in 0 .. m - 1)
        BY <3>2
      <4>2. d[n] = IF n = 0 THEN BlackFrame(ScreenSize(c)[1], ScreenSize(c)[2])
                   ELSE WithPanel(c, src, n, d[n - 1])
        BY <2>1, <4>1 DEF Drawing
      <4>3. e[n] = d[n] /\ (n # 0 => e[n - 1] = d[n - 1])
        BY <3>2, <4>1
      <4> HIDE DEF e
      <4> QED BY <4>2, <4>3
    <3> QED BY <3>1, <3>2
  <2>3. e = [n \in 0 .. m |-> e[n]]
    OBVIOUS
  <2>4. Drawing(c, src, m, e)
    <3> HIDE DEF e
    <3> QED BY <2>2, <2>3 DEF Drawing
  <2> QED BY <2>4
<1>3. N \in T
  <2> HIDE DEF T
  <2>1. \A m \in 0 .. N : m \in T
    BY <1>1, <1>2, SmallestCounterexample
  <2> QED BY <2>1
<1>4. PICK d : Drawing(c, src, N, d)
  BY <1>3
<1>5. Render(c, src) = (CHOOSE f : Drawing(c, src, N, f))[N]
  BY DEF Render, Drawing, WithPanel
<1>6. Drawing(c, src, N, CHOOSE f : Drawing(c, src, N, f))
  BY <1>4
<1> QED BY <1>5, <1>6

\* Whether pixel q of the screen lights an LED of panel p on receiver r, and
\* the colour picture n has at the place of an LED.

Hits(p, r, q) == Led(p, r, q) \in Area(NativeSize(p)[1], NativeSize(p)[2])

Colour(n, p, led) == <<n, Place(p, led)[1], Place(p, led)[2]>>

\* A point of the panel is drawn on the pixels that light its LED.
LEMMA PointLandsOnLed ==
  ASSUME NEW p \in SmallPanels, NEW r \in SmallReceivers, OnTheWire(r), OnReceiver(p, r),
         NEW lx \in 0 .. p.width - 1, NEW ly \in 0 .. p.height - 1, NEW q \in Int \X Int
  PROVE  ScreenCoords(p, r, lx, ly) = q <=> Mounted(p, lx, ly) = Led(p, r, q)
<1> DEFINE led == Mounted(p, lx, ly)
<1>1. /\ led[1] \in Nat /\ led[2] \in Nat
      /\ ScreenCoords(p, r, lx, ly) =
           <<r.x + (p.receiver_x + led[1]), r.y + (p.receiver_y + led[2])>>
  BY ScreenPlain
<1>2. led \in Area(NativeSize(p)[1], NativeSize(p)[2])
  BY MountedOnPanel
<1>3. led = <<led[1], led[2]>>
  BY <1>2 DEF Area
<1>4. r.x \in Int /\ r.y \in Int /\ p.receiver_x \in Int /\ p.receiver_y \in Int
  BY U16Assumption DEF SmallPanels, SmallReceivers, U16s
<1> HIDE DEF led
<1>5. q = <<q[1], q[2]>> /\ q[1] \in Int /\ q[2] \in Int
  OBVIOUS
<1>6. (r.x + (p.receiver_x + led[1]) = q[1] /\ r.y + (p.receiver_y + led[2]) = q[2])
        <=> (led[1] = q[1] - r.x - p.receiver_x /\ led[2] = q[2] - r.y - p.receiver_y)
  BY <1>1, <1>4, <1>5
<1>7. ScreenCoords(p, r, lx, ly) = q
        <=> (r.x + (p.receiver_x + led[1]) = q[1] /\ r.y + (p.receiver_y + led[2]) = q[2])
  BY <1>1, <1>5
<1>8. led = Led(p, r, q)
        <=> (led[1] = q[1] - r.x - p.receiver_x /\ led[2] = q[2] - r.y - p.receiver_y)
  BY <1>3 DEF Led, ForCabinet
<1> QED BY <1>6, <1>7, <1>8 DEF led

\* A pixel that lights an LED is drawn from its point; the others from none.
LEMMA HitsArePoints ==
  ASSUME NEW p \in SmallPanels, NEW r \in SmallReceivers, OnTheWire(r), OnReceiver(p, r),
         NEW q \in Int \X Int
  PROVE  Hits(p, r, q) <=> \E lx \in 0 .. p.width - 1, ly \in 0 .. p.height - 1 :
                             ScreenCoords(p, r, lx, ly) = q
<1>1. ASSUME Hits(p, r, q)
      PROVE  \E lx \in 0 .. p.width - 1, ly \in 0 .. p.height - 1 : ScreenCoords(p, r, lx, ly) = q
  <2>1. PICK lx \in 0 .. p.width - 1, ly \in 0 .. p.height - 1 : Mounted(p, lx, ly) = Led(p, r, q)
    BY <1>1, MountedOnto DEF Hits
  <2> QED BY <2>1, PointLandsOnLed
<1>2. ASSUME NEW lx \in 0 .. p.width - 1, NEW ly \in 0 .. p.height - 1,
             ScreenCoords(p, r, lx, ly) = q
      PROVE  Hits(p, r, q)
  <2>1. Mounted(p, lx, ly) = Led(p, r, q)
    BY <1>2, PointLandsOnLed
  <2> QED BY <2>1, MountedOnPanel DEF Hits
<1> QED BY <1>1, <1>2

\* The picture at a point of a panel that is on the canvas.
LEMMA PictureAt ==
  ASSUME NEW n, NEW p \in SmallPanels, IsCanvas(wall),
         p.x + p.width <= wall.width, p.y + p.height <= wall.height,
         NEW lx \in 0 .. p.width - 1, NEW ly \in 0 .. p.height - 1
  PROVE  /\ Pixel(Picture(n), p.x + lx, p.y + ly) = Colour(n, p, Mounted(p, lx, ly))
         /\ Add(p.x, lx) = p.x + lx /\ Add(p.y, ly) = p.y + ly
<1>1. /\ p.x \in Nat /\ p.y \in Nat /\ p.width \in Nat /\ p.height \in Nat
  BY U16Assumption, U32Assumption DEF SmallPanels, U16s, U32s
<1>2. wall.width \in Nat /\ wall.height \in Nat /\ wall.width < U32 /\ wall.height < U32
  BY U32Assumption DEF IsCanvas, U32s
<1>3. p.x + lx \in 0 .. wall.width - 1 /\ p.y + ly \in 0 .. wall.height - 1
  BY <1>1, <1>2
<1>4. Add(p.x, lx) = p.x + lx /\ Add(p.y, ly) = p.y + ly
  <2>1. lx \in Nat /\ ly \in Nat /\ p.x + lx < U32 /\ p.y + ly < U32
    BY <1>1, <1>2, <1>3, U32Assumption
  <2> QED BY <1>1, <2>1, AddExact
<1>5. Pixel(Picture(n), p.x + lx, p.y + ly) = <<n, p.x + lx, p.y + ly>>
  <2>1. \A x \in 0 .. wall.width - 1, y \in 0 .. wall.height - 1 :
          /\ x < Picture(n).width /\ y < Picture(n).height
          /\ Picture(n).data[<<x, y>>] = <<n, x, y>>
    BY <1>2 DEF Picture, Area
  <2> QED BY <1>3, <2>1 DEF Pixel
<1>6. Place(p, Mounted(p, lx, ly)) = <<p.x + lx, p.y + ly>>
  BY MountingIsUndone
<1> QED BY <1>4, <1>5, <1>6 DEF Colour

WithData(d, x) == [d EXCEPT !.data = x]

\* A frame keeps its size when its pixels are replaced.
LEMMA FrameWithData ==
  ASSUME NEW w, NEW h, NEW f, NEW x, NEW d, d = [width |-> w, height |-> h, data |-> f]
  PROVE  WithData(d, x) = [width |-> w, height |-> h, data |-> x]
<1> DEFINE e == [d EXCEPT !.data = x]
<1>1. DOMAIN d = {"width", "height", "data"}
  OBVIOUS
<1>2. e["width"] = w /\ e["height"] = h /\ e["data"] = x
  BY <1>1
<1>3. e = [i \in {"width", "height", "data"} |-> e[i]]
  BY <1>1
<1> QED BY <1>2, <1>3 DEF WithData

\* What a pixel is after panel p was drawn on what was there.
Drawn(n, p, r, q, old) == IF Hits(p, r, q) THEN Colour(n, p, Led(p, r, q)) ELSE old

DrawnOver(n, p, r, D, f) == [q \in D |-> Drawn(n, p, r, q, f[q])]

IsOver(D, f) == f = [q \in D |-> f[q]]

\* Panel::blit, by rows or by pixels, draws each point of the picture where
\* the LED of its place is, and touches nothing else.
LEMMA BlitDraws ==
  ASSUME NEW p \in SmallPanels, NEW r \in SmallReceivers, OnTheWire(r), OnReceiver(p, r),
         NEW n, IsCanvas(wall),
         p.x + p.width <= wall.width, p.y + p.height <= wall.height,
         NEW D \in SUBSET (Int \X Int), NEW w, NEW h, NEW f, IsOver(D, f)
  PROVE  Blit(p, r, Picture(n), [width |-> w, height |-> h, data |-> f]) =
           [width |-> w, height |-> h, data |-> DrawnOver(n, p, r, D, f)]
<1> DEFINE src == Picture(n)
           dst == [width |-> w, height |-> h, data |-> f]
           place == Placement(p, r)
           o == place.origin
<1>0. p.width \in Nat /\ p.height \in Nat
  BY U16Assumption DEF SmallPanels, U16s
<1>f. f = [q \in D |-> f[q]]
  BY DEF IsOver
<1>1. ASSUME NEW g, g = [q \in D |-> g[q]], \A q \in D : g[q] = Drawn(n, p, r, q, f[q])
      PROVE  g = DrawnOver(n, p, r, D, f)
  BY <1>1 DEF DrawnOver
<1>2. ASSUME NEW lx \in 0 .. p.width - 1, NEW ly \in 0 .. p.height - 1, NEW q \in D,
             Placed(place, lx, ly) = q
      PROVE  /\ Drawn(n, p, r, q, f[q]) = Pixel(src, p.x + lx, p.y + ly)
             /\ Drawn(n, p, r, q, f[q]) = Pixel(src, Add(p.x, lx), Add(p.y, ly))
  <2>1. ScreenCoords(p, r, lx, ly) = q
    BY <1>2, PlacementIsExact
  <2>2. Mounted(p, lx, ly) = Led(p, r, q)
    BY <2>1, PointLandsOnLed
  <2>3. Hits(p, r, q)
    BY <2>1, HitsArePoints
  <2>4. /\ Pixel(src, p.x + lx, p.y + ly) = Colour(n, p, Mounted(p, lx, ly))
        /\ Add(p.x, lx) = p.x + lx /\ Add(p.y, ly) = p.y + ly
    BY PictureAt
  <2> QED BY <2>2, <2>3, <2>4 DEF Drawn
<1>3. ASSUME NEW q \in D,
             ~\E lx \in 0 .. p.width - 1, ly \in 0 .. p.height - 1 : Placed(place, lx, ly) = q
      PROVE  Drawn(n, p, r, q, f[q]) = f[q]
  <2>1. ~\E lx \in 0 .. p.width - 1, ly \in 0 .. p.height - 1 : ScreenCoords(p, r, lx, ly) = q
    BY <1>3, PlacementIsExact
  <2> QED BY <2>1, HitsArePoints DEF Drawn
<1>4. CASE p.width = 0 \/ p.height = 0
  <2>1. Blit(p, r, src, dst) = dst
    BY <1>4 DEF Blit
  <2>2. \A q \in D : f[q] = Drawn(n, p, r, q, f[q])
    BY <1>0, <1>3, <1>4
  <2>3. f = DrawnOver(n, p, r, D, f)
    BY <1>1, <1>f, <2>2
  <2> QED BY <2>1, <2>3
<1>5. CASE ~(p.width = 0 \/ p.height = 0) /\ IsRowCopy(place)
  <2> DEFINE Inside(k, size) == k \in 0 .. size - 1
             g == [q \in D |-> LET l == Minus(q, o) IN
                    IF Inside(l[1], p.width) /\ Inside(l[2], p.height)
                      THEN Pixel(src, p.x + l[1], p.y + l[2]) ELSE f[q]]
  <2>1. Blit(p, r, src, dst) = BlitRows(p, o, src, dst)
    BY <1>5, Zenon DEF Blit
  <2>2. BlitRows(p, o, src, dst) = [width |-> w, height |-> h, data |-> g]
    <3>1. /\ dst.data = f /\ DOMAIN f = D
          /\ dst = [width |-> w, height |-> h, data |-> f]
      BY <1>f
    <3> HIDE DEF dst, src, o
    <3>2. \A x : WithData(dst, x) = [width |-> w, height |-> h, data |-> x]
      BY <3>1, FrameWithData
    <3> DEFINE e == [q \in DOMAIN dst.data |-> LET l == Minus(q, o) IN
                      IF Inside(l[1], p.width) /\ Inside(l[2], p.height)
                        THEN Pixel(src, p.x + l[1], p.y + l[2]) ELSE dst.data[q]]
    <3>4. BlitRows(p, o, src, dst) = WithData(dst, e)
      BY Zenon DEF BlitRows, WithData
    <3>5. e = g
      BY <3>1
    <3>6. BlitRows(p, o, src, dst) = WithData(dst, g)
      BY <3>4, <3>5, Zenon
    <3> HIDE DEF g
    <3> QED BY <3>2, <3>6
  <2>3. o[1] \in Int /\ o[2] \in Int
    <3>1. 0 \in 0 .. p.width - 1 /\ 0 \in 0 .. p.height - 1
      BY <1>0, <1>5
    <3>2. /\ r.x \in Int /\ r.y \in Int /\ p.receiver_x \in Int /\ p.receiver_y \in Int
      BY U16Assumption DEF SmallPanels, SmallReceivers, U16s
    <3>3. Mounted(p, 0, 0)[1] \in Int /\ Mounted(p, 0, 0)[2] \in Int
      BY <3>1, ScreenPlain
    <3>4. o = <<r.x + (p.receiver_x + Mounted(p, 0, 0)[1]), r.y + (p.receiver_y + Mounted(p, 0, 0)[2])>>
      BY <3>1, ScreenPlain DEF Placement
    <3> HIDE DEF o
    <3> QED BY <3>2, <3>3, <3>4
  <2>4. \A lx, ly \in Int : Placed(place, lx, ly) = <<o[1] + lx, o[2] + ly>>
    <3>1. place.col = <<1, 0>> /\ place.row = <<0, 1>>
      BY <1>5 DEF IsRowCopy
    <3> HIDE DEF place
    <3> QED BY <2>3, <3>1 DEF Placed
  <2>5. ASSUME NEW q \in D PROVE g[q] = Drawn(n, p, r, q, f[q])
    <3> DEFINE l == Minus(q, o)
    <3>1. l[1] \in Int /\ l[2] \in Int /\ q[1] \in Int /\ q[2] \in Int
      BY <2>3 DEF Minus
    <3>2. q = <<o[1] + l[1], o[2] + l[2]>>
      BY <2>3 DEF Minus
    <3>3. g[q] = IF l[1] \in 0 .. p.width - 1 /\ l[2] \in 0 .. p.height - 1
                   THEN Pixel(src, p.x + l[1], p.y + l[2]) ELSE f[q]
      OBVIOUS
    <3> HIDE DEF g, src, l, o, place
    <3>4. CASE l[1] \in 0 .. p.width - 1 /\ l[2] \in 0 .. p.height - 1
      <4>1. Placed(place, l[1], l[2]) = q
        BY <2>4, <3>1, <3>2
      <4> QED BY <1>2, <3>3, <3>4, <4>1
    <3>5. CASE ~(l[1] \in 0 .. p.width - 1 /\ l[2] \in 0 .. p.height - 1)
      <4>1. ASSUME NEW lx \in 0 .. p.width - 1, NEW ly \in 0 .. p.height - 1,
                   Placed(place, lx, ly) = q
            PROVE  FALSE
        <5>1. o[1] + lx = o[1] + l[1] /\ o[2] + ly = o[2] + l[2]
          BY <2>4, <3>2, <4>1
        <5> QED BY <2>3, <3>1, <3>5, <5>1, SMTT(30)
      <4> QED BY <1>3, <3>3, <3>5, <4>1
    <3> QED BY <3>4, <3>5
  <2>6. g = [q \in D |-> g[q]]
    OBVIOUS
  <2> HIDE DEF g, src, dst, o, place
  <2>7. g = DrawnOver(n, p, r, D, f)
    BY <1>1, <2>5, <2>6
  <2> QED BY <2>1, <2>2, <2>7 DEF src, dst
<1>6. CASE ~(p.width = 0 \/ p.height = 0) /\ ~IsRowCopy(place)
  <2> DEFINE Lands(q) == {l \in Area(p.width, p.height) : Placed(place, l[1], l[2]) = q}
             g == [q \in D |->
                    IF Lands(q) = {} THEN f[q]
                    ELSE LET l == CHOOSE l \in Lands(q) : TRUE
                         IN Pixel(src, Add(p.x, l[1]), Add(p.y, l[2]))]
  <2>1. Blit(p, r, src, dst) = BlitPixels(p, place, src, dst)
    BY <1>6, Zenon DEF Blit
  <2>2. BlitPixels(p, place, src, dst) = [width |-> w, height |-> h, data |-> g]
    <3>1. /\ dst.data = f /\ DOMAIN f = D
          /\ dst = [width |-> w, height |-> h, data |-> f]
      BY <1>f
    <3> HIDE DEF dst, src, place
    <3>2. \A x : WithData(dst, x) = [width |-> w, height |-> h, data |-> x]
      BY <3>1, FrameWithData
    <3> DEFINE e == [q \in DOMAIN dst.data |->
                      IF Lands(q) = {} THEN dst.data[q]
                      ELSE LET l == CHOOSE l \in Lands(q) : TRUE
                           IN Pixel(src, Add(p.x, l[1]), Add(p.y, l[2]))]
    <3>4. BlitPixels(p, place, src, dst) = WithData(dst, e)
      BY Zenon DEF BlitPixels, WithData
    <3>5. e = g
      <4> HIDE DEF Lands
      <4> QED BY <3>1
    <3>6. BlitPixels(p, place, src, dst) = WithData(dst, g)
      BY <3>4, <3>5, Zenon
    <3> HIDE DEF g
    <3> QED BY <3>2, <3>6
  <2>3. ASSUME NEW q \in D PROVE g[q] = Drawn(n, p, r, q, f[q])
    <3> DEFINE l == CHOOSE l \in Lands(q) : TRUE
    <3>1. g[q] = IF Lands(q) = {} THEN f[q] ELSE Pixel(src, Add(p.x, l[1]), Add(p.y, l[2]))
      OBVIOUS
    <3>2. Lands(q) # {} => l \in Lands(q)
      OBVIOUS
    <3> HIDE DEF g, l
    <3>3. CASE Lands(q) # {}
      <4>1. /\ l[1] \in 0 .. p.width - 1 /\ l[2] \in 0 .. p.height - 1
            /\ Placed(place, l[1], l[2]) = q
        BY <3>2, <3>3 DEF Area
      <4> HIDE DEF Lands, src, place
      <4> QED BY <1>2, <3>1, <3>3, <4>1
    <3>4. CASE Lands(q) = {}
      <4>1. ASSUME NEW lx \in 0 .. p.width - 1, NEW ly \in 0 .. p.height - 1,
                   Placed(place, lx, ly) = q
            PROVE  FALSE
        <5>1. <<lx, ly>> \in Area(p.width, p.height)
          BY DEF Area
        <5>2. <<lx, ly>> \in Lands(q)
          <6> HIDE DEF place
          <6> QED BY <4>1, <5>1
        <5> QED BY <3>4, <5>2
      <4> HIDE DEF Lands, place
      <4> QED BY <1>3, <3>1, <3>4, <4>1
    <3> QED BY <3>3, <3>4
  <2>4. g = [q \in D |-> g[q]]
    OBVIOUS
  <2> HIDE DEF g, src, dst, o, place
  <2>5. g = DrawnOver(n, p, r, D, f)
    BY <1>1, <2>3, <2>4
  <2> QED BY <2>1, <2>2, <2>5 DEF src, dst
<1> QED BY <1>4, <1>5, <1>6

\* A pixel after the first m panels: black, or the place of an LED it lights.
ShowsPanels(n, m, q, colour) ==
  LET Hit(i) == Hits(wall.panels[i], ReceiverOf(wall, wall.panels[i]), q) IN
  /\ (\A i \in 1 .. m : ~Hit(i)) => colour = Black
  /\ (\E i \in 1 .. m : Hit(i)) =>
       \E i \in 1 .. m :
         /\ Hit(i)
         /\ colour = Colour(n, wall.panels[i],
                            Led(wall.panels[i], ReceiverOf(wall, wall.panels[i]), q))

Screen == Area(ScreenSize(wall)[1], ScreenSize(wall)[2])

ShowsFrame(n, m, out) ==
  /\ out = [width |-> ScreenSize(wall)[1], height |-> ScreenSize(wall)[2], data |-> out.data]
  /\ out.data = [q \in Screen |-> out.data[q]]
  /\ \A q \in Screen : ShowsPanels(n, m, q, out.data[q])

\* After the last panel the drawing shows the frame at every place of a panel.
LEMMA RenderShowsFrame ==
  ASSUME IsCanvas(wall), Valid(wall), NoSumWraps(wall), NEW n
  PROVE  ShowsFrame(n, Len(wall.panels), Render(wall, Picture(n)))
<1> DEFINE N == Len(wall.panels)
           src == Picture(n)
           w == ScreenSize(wall)[1]
           h == ScreenSize(wall)[2]
<1>1. N \in Nat /\ DOMAIN wall.panels = 1 .. N
  BY DEF IsCanvas
<1>2. PICK d : Drawing(wall, src, N, d) /\ Render(wall, src) = d[N]
  BY <1>1, RenderIsADrawing
<1> DEFINE T == {m \in 0 .. N : ShowsFrame(n, m, d[m])}
<1>3. 0 \in T
  <2>1. d[0] = BlackFrame(w, h)
    BY <1>1, <1>2 DEF Drawing
  <2>2. /\ BlackFrame(w, h) = [width |-> w, height |-> h, data |-> BlackFrame(w, h).data]
        /\ BlackFrame(w, h).data = [q \in Screen |-> BlackFrame(w, h).data[q]]
        /\ \A q \in Screen : BlackFrame(w, h).data[q] = Black
    <3> HIDE DEF w, h
    <3>1. \A W, H : /\ BlackFrame(W, H) = [width |-> W, height |-> H, data |-> [q \in Area(W, H) |-> Black]]
      BY DEF BlackFrame
    <3>2. BlackFrame(w, h) = [width |-> w, height |-> h, data |-> [q \in Screen |-> Black]]
      BY <3>1 DEF Screen, w, h
    <3>3. BlackFrame(w, h).data = [q \in Screen |-> Black]
      BY <3>2
    <3> QED BY <3>2, <3>3
  <2>3. \A q \in Screen : ShowsPanels(n, 0, q, Black)
    BY DEF ShowsPanels
  <2>4. ShowsFrame(n, 0, d[0])
    BY <2>1, <2>2, <2>3 DEF ShowsFrame
  <2> QED BY <1>1, <2>4
<1>4. ASSUME NEW m \in 1 .. N, m - 1 \in T PROVE m \in T
  <2> DEFINE p == wall.panels[m]
             r == ReceiverOf(wall, p)
             f == d[m - 1].data
  <2>1. ShowsFrame(n, m - 1, d[m - 1])
    BY <1>4
  <2>2. d[m] = Blit(p, r, src, d[m - 1])
    <3>1. d[m] = WithPanel(wall, src, m, d[m - 1])
      BY <1>1, <1>2, SMTT(30) DEF Drawing
    <3>2. HasReceiver(wall, p)
      BY <1>1, WallIsSmall
    <3> QED BY <3>1, <3>2 DEF WithPanel
  <2>3. /\ p \in SmallPanels /\ OnReceiver(p, r)
        /\ p.x + p.width <= wall.width /\ p.y + p.height <= wall.height
    BY <1>1, WallIsSmall
  <2>4. r \in SmallReceivers /\ OnTheWire(r)
    BY <1>1, WallIsSmall, ReceiverIsFound
  <2>5. Screen \subseteq Int \X Int
    BY DEF Screen, Area
  <2>6. d[m - 1] = [width |-> w, height |-> h, data |-> f] /\ IsOver(Screen, f)
    BY <2>1 DEF ShowsFrame, IsOver
  <2> HIDE DEF w, h, f, p, r, src
  <2>7. d[m] = [width |-> w, height |-> h, data |-> [q \in Screen |-> Drawn(n, p, r, q, f[q])]]
    <3>1. Blit(p, r, Picture(n), [width |-> w, height |-> h, data |-> f]) =
            [width |-> w, height |-> h, data |-> DrawnOver(n, p, r, Screen, f)]
      BY <2>3, <2>4, <2>5, <2>6, BlitDraws
    <3> QED BY <2>2, <2>6, <3>1 DEF src, DrawnOver
  <2>8. d[m].data = [q \in Screen |-> Drawn(n, p, r, q, f[q])]
    BY <2>7
  <2>9. ASSUME NEW q \in Screen PROVE ShowsPanels(n, m, q, d[m].data[q])
    <3>1. d[m].data[q] = Drawn(n, p, r, q, f[q])
      BY <2>8
    <3>2. ShowsPanels(n, m - 1, q, f[q])
      BY <2>1 DEF ShowsFrame, f
    <3>3. CASE Hits(p, r, q)
      <4>1. d[m].data[q] = Colour(n, p, Led(p, r, q)) /\ m \in 1 .. m
        BY <3>1, <3>3 DEF Drawn
      <4> QED BY <3>3, <4>1 DEF ShowsPanels, p, r
    <3>4. CASE ~Hits(p, r, q)
      <4>1. d[m].data[q] = f[q]
        BY <3>1, <3>4 DEF Drawn
      <4>2. \A i \in 1 .. m : i = m \/ i \in 1 .. m - 1
        OBVIOUS
      <4>3. 1 .. m - 1 \subseteq 1 .. m
        OBVIOUS
      <4> QED BY <3>2, <3>4, <4>1, <4>2, <4>3 DEF ShowsPanels, p, r
    <3> QED BY <3>3, <3>4
  <2>10. /\ d[m] = [width |-> w, height |-> h, data |-> d[m].data]
         /\ d[m].data = [q \in Screen |-> d[m].data[q]]
    <3> DEFINE e == [q \in Screen |-> Drawn(n, p, r, q, f[q])]
    <3>1. e = [q \in Screen |-> e[q]]
      OBVIOUS
    <3> HIDE DEF e
    <3>2. d[m] = [width |-> w, height |-> h, data |-> e] /\ d[m].data = e
      BY <2>7, <2>8 DEF e
    <3> QED BY <3>1, <3>2
  <2>11. ShowsFrame(n, m, d[m])
    BY <2>9, <2>10 DEF ShowsFrame, w, h
  <2> QED BY <2>11
<1>5. N \in T
  <2> HIDE DEF T
  <2>1. \A m \in 0 .. N : m \in T
    BY <1>1, <1>3, <1>4, SmallestCounterexample
  <2> QED BY <1>1, <2>1
<1> QED BY <1>2, <1>5

\* No pixel is in the windows of two receivers.
LEMMA WindowsOfReceivers ==
  ASSUME IsCanvas(wall), Valid(wall), NoSumWraps(wall),
         NEW b \in Cards, NEW c \in Cards, NEW q \in Window(c),
         InWindow(ForCabinet(wall.receivers[b]), q)
  PROVE  b = c
<1>1. q \in Int \X Int /\ InWindow(ForCabinet(wall.receivers[c]), q)
  BY DEF Window, Area
<1>2. /\ wall.receivers[b] \in SmallReceivers /\ OnTheWire(wall.receivers[b])
      /\ wall.receivers[c] \in SmallReceivers /\ OnTheWire(wall.receivers[c])
  BY WallIsSmall DEF Cards
<1>3. b \in Int /\ c \in Int
  BY DEF Cards, IsCanvas
<1>4. b < c => Apart(wall.receivers[b], wall.receivers[c])
  BY DEF Cards, Valid
<1>5. c < b => Apart(wall.receivers[c], wall.receivers[b])
  BY DEF Cards, Valid
<1>6. ~(b < c)
  BY <1>1, <1>2, <1>4, WindowsApart
<1>7. ~(c < b)
  BY <1>1, <1>2, <1>5, WindowsApart
<1> QED BY <1>3, <1>6, <1>7

\* A pixel of a card's window lights an LED of a panel as it is drawn just if it
\* does so as the panel is mounted.
LEMMA HitsAreLights ==
  ASSUME IsCanvas(wall), Valid(wall), NoSumWraps(wall),
         NEW i \in DOMAIN wall.panels, NEW c \in Cards, NEW q \in Window(c)
  PROVE  LET p == wall.panels[i] IN
         /\ Hits(p, ReceiverOf(wall, p), q) <=> Lights(wall, p, c, q)
         /\ Lights(wall, p, c, q) => Led(p, wall.receivers[c], q) = Led(p, ReceiverOf(wall, p), q)
<1> DEFINE p == wall.panels[i]
           r == ReceiverOf(wall, p)
<1>1. PICK k \in DOMAIN wall.receivers :
        /\ r = wall.receivers[k] /\ wall.receivers[k].index = p.receiver
        /\ \A b \in DOMAIN wall.receivers : wall.receivers[b].index = p.receiver => k <= b
  BY WallIsSmall, ReceiverIsFound
<1>2. p \in SmallPanels /\ r \in SmallReceivers /\ OnTheWire(r) /\ OnReceiver(p, r)
  BY <1>1, WallIsSmall
<1>3. q \in Int \X Int
  BY DEF Window, Area
<1>4. k \in Int /\ c \in Int
  BY DEF Cards, IsCanvas
<1> HIDE DEF p, r
<1>5. ASSUME Hits(p, r, q) PROVE Lights(wall, p, c, q) /\ k = c
  <2>1. PICK lx \in 0 .. p.width - 1, ly \in 0 .. p.height - 1 : ScreenCoords(p, r, lx, ly) = q
    BY <1>2, <1>3, <1>5, HitsArePoints
  <2>2. InWindow(ForCabinet(wall.receivers[k]), q)
    BY <1>1, <1>2, <2>1, PanelInItsWindow
  <2>3. k = c
    BY <2>2, WindowsOfReceivers DEF Cards
  <2> QED BY <1>1, <1>5, <2>3 DEF Lights, Hits, Cards
<1>6. ASSUME Lights(wall, p, c, q) PROVE Hits(p, r, q) /\ k = c
  <2>1. k = c
    <3>1. k <= c
      BY <1>1, <1>6 DEF Lights, Cards
    <3>2. c <= k
      BY <1>1, <1>6 DEF Lights, Cards
    <3> QED BY <1>4, <3>1, <3>2
  <2> QED BY <1>1, <1>6, <2>1 DEF Lights, Hits
<1>7. (Hits(p, r, q) <=> Lights(wall, p, c, q)) /\ (Lights(wall, p, c, q) => Led(p, wall.receivers[c], q) = Led(p, r, q))
  BY <1>1, <1>5, <1>6
<1> QED BY <1>7 DEF p, r

\* render_into, over both ways of Panel::blit, puts each point of the canvas
\* where the card that keeps the pixel lights the LED mounted there, for panels
\* of any size and mounting, and black where there is no panel.
THEOREM RenderShowsPlaces ==
  ASSUME IsCanvas(wall), Valid(wall), NoSumWraps(wall),
         NEW n, NEW c \in Cards, NEW q \in Window(c)
  PROVE  Render(wall, Picture(n)).data[q] \in Wanted(wall, n, c, q)
<1> DEFINE colour == Render(wall, Picture(n)).data[q]
           N == Len(wall.panels)
           P == {p \in ToSet(wall.panels) : Lights(wall, p, c, q)}
           Hit(i) == Hits(wall.panels[i], ReceiverOf(wall, wall.panels[i]), q)
<1>1. DOMAIN wall.panels = 1 .. N
  BY DEF IsCanvas
<1>2. q \in Screen
  BY DEF Window, Screen
<1>3. ShowsPanels(n, N, q, colour)
  BY <1>2, RenderShowsFrame DEF ShowsFrame
<1> HIDE DEF colour
<1>4. CASE \A i \in 1 .. N : ~Hit(i)
  <2>1. colour = Black
    BY <1>3, <1>4 DEF ShowsPanels
  <2>2. P = {}
    BY <1>1, <1>4, HitsAreLights DEF ToSet
  <2> QED BY <2>1, <2>2 DEF Wanted, colour
<1>5. CASE \E i \in 1 .. N : Hit(i)
  <2>1. PICK i \in 1 .. N :
          /\ Hit(i)
          /\ colour = Colour(n, wall.panels[i],
                             Led(wall.panels[i], ReceiverOf(wall, wall.panels[i]), q))
    BY <1>3, <1>5 DEF ShowsPanels
  <2> DEFINE p == wall.panels[i]
  <2>2. Lights(wall, p, c, q) /\ Led(p, wall.receivers[c], q) = Led(p, ReceiverOf(wall, p), q)
    BY <1>1, <2>1, HitsAreLights
  <2>3. p \in P
    BY <1>1, <2>2 DEF ToSet
  <2>4. colour = <<n, Place(p, Led(p, wall.receivers[c], q))[1], Place(p, Led(p, wall.receivers[c], q))[2]>>
    BY <2>1, <2>2 DEF Colour
  <2> HIDE DEF P, p
  <2>5. P # {} /\ colour \in {<<n, Place(o, Led(o, wall.receivers[c], q))[1], Place(o, Led(o, wall.receivers[c], q))[2]>> : o \in P}
    BY <2>3, <2>4
  <2> QED BY <2>5 DEF Wanted, P, colour
<1> QED BY <1>4, <1>5

-----------------------------------------------------------------------------
(* What the cards show.                                                     *)

LEMMA GreatestBounded ==
  ASSUME NEW B \in Nat, NEW S, S \subseteq 0 .. B, S # {}
  PROVE  Max(S) \in S /\ \A y \in S : Max(S) >= y
<1> DEFINE T == {B - s : s \in S}
<1>1. T \subseteq Nat /\ T # {}
  <2>1. \A s \in S : B - s \in Nat
    OBVIOUS
  <2> QED BY <2>1
<1>2. Min(T) \in T /\ \A y \in T : Min(T) <= y
  BY <1>1, LeastNatural
<1>3. PICK x \in S : Min(T) = B - x
  BY <1>2
<1>4. ASSUME NEW y \in S PROVE x >= y
  <2>1. B - y \in T
    BY <1>4
  <2>2. B - x <= B - y
    BY <1>2, <1>3, <2>1
  <2> QED BY <1>3, <2>2
<1> QED BY <1>4 DEF Max

\* screen_size() of a valid wall is a size.
LEMMA ScreenSizeIsNatural ==
  ASSUME NEW w, IsCanvas(w), Valid(w)
  PROVE  ScreenSize(w)[1] \in Nat /\ ScreenSize(w)[2] \in Nat
<1> DEFINE R == ToSet(w.receivers)
           X == {0} \cup {Add(r.x, r.width) : r \in R}
           Y == {0} \cup {Add(r.y, r.height) : r \in R}
<1>1. ASSUME NEW r \in R
      PROVE  /\ Add(r.x, r.width) \in 0 .. U16Max
             /\ Add(r.y, r.height) \in 0 .. U16Max
  <2>1. PICK i \in DOMAIN w.receivers : r = w.receivers[i]
    BY DEF ToSet
  <2>2. r \in Receivers /\ OnTheWire(r)
    BY <2>1 DEF IsCanvas, Valid
  <2>3. r.x \in U32s /\ r.y \in U32s /\ r.width \in U32s /\ r.height \in U32s
    BY <2>2 DEF Receivers
  <2>4. \A a, b \in U32s : Add(a, b) \in Nat
    BY U32Assumption DEF Add, U32s
  <2> QED BY <2>2, <2>3, <2>4, U16Assumption DEF OnTheWire
<1>2. X \subseteq 0 .. U16Max /\ X # {} /\ Y \subseteq 0 .. U16Max /\ Y # {}
  <2> HIDE DEF R
  <2> QED BY <1>1, U16Assumption
<1> HIDE DEF X, Y
<1>3. Max(X) \in X /\ Max(Y) \in Y
  BY <1>2, U16Assumption, GreatestBounded
<1>4. Max(X) \in Nat /\ Max(Y) \in Nat
  <2>1. \A v \in 0 .. U16Max : v \in Nat
    BY U16Assumption
  <2> QED BY <1>2, <1>3, <2>1, Zenon
<1>5. ScreenSize(w) = <<Max(X), Max(Y)>>
  BY Zenon DEF ScreenSize, X, Y, R
<1> QED BY <1>4, <1>5

\* The pixels of card windows whose row packets of this refresh have been sent.
Sent(q) ==
  /\ q[2] \in band
  /\ \/ pc \in {"latch", "ready"}
     \/ pc = "rows" /\ (q[2] < at[2] \/ (q[2] = at[2] /\ q[1] < at[1]))

\* A colour a card may have been left with: from before, or its own place in a
\* picture up to now.
InPlace(w, f, c, q, colour) ==
  colour # Before => \E n \in 1 .. MaxFrames : n <= f /\ colour \in Wanted(w, n, c, q)

WallInv == wall \in Walls /\ Valid(wall) /\ frame \in Nat

\* What the driver draws and sends.
ScreenInv ==
  /\ pc \in {"idle", "ready", "rows", "latch", "dim"}
  /\ pc \in {"ready", "rows", "latch"} =>
       screen.width = ScreenSize(wall)[1] /\ screen.height = ScreenSize(wall)[2]
  /\ pc \in {"rows", "latch"} =>
       frame \in 1 .. MaxFrames /\ screen = Render(wall, Picture(frame))

\* Where it is.
BandInv ==
  /\ pc \in {"idle", "dim"} => band = {}
  /\ pc \in {"idle", "dim", "rows"} => fresh = {}
  /\ band \subseteq Int
  /\ \A a, b \in band : \A y \in a .. b : y \in band
  /\ pc = "rows" /\ band # {} => at[1] \in Nat /\ at[2] \in band

\* What the cards hold and show of it.
SentInv ==
  \A c \in Cards \ missed : \A q \in Window(c) :
    Sent(q) => memory[c][q] \in Wanted(wall, frame, c, q)

FreshInv == fresh \subseteq Cards /\ \A c \in fresh : shown[c] = memory[c]

PlaceInv ==
  \A c \in Cards : \A q \in Window(c) :
    /\ InPlace(wall, frame, c, q, memory[c][q])
    /\ InPlace(wall, frame, c, q, shown[c][q])

PictureInv == WallInv /\ ScreenInv /\ BandInv /\ SentInv /\ FreshInv /\ PlaceInv

\* No sum of a wall wraps: what the geometry needs.
WallsAreSmall == \A w \in Walls : NoSumWraps(w)

\* So every pixel of a card's window is drawn as the wall wants it there.
LEMMA DrawnInPlace ==
  ASSUME WallsAreSmall, WallInv, screen = Render(wall, Picture(frame)),
         NEW c \in Cards, NEW q \in Window(c)
  PROVE  screen.data[q] \in Wanted(wall, frame, c, q)
<1>1. IsCanvas(wall) /\ Valid(wall) /\ NoSumWraps(wall)
  BY WallsAssumption DEF WallInv, WallsAreSmall
<1> QED BY <1>1, RenderShowsPlaces

\* It holds before the first refresh.
LEMMA PictureStart == Init => PictureInv
<1> SUFFICES ASSUME Init PROVE PictureInv
  OBVIOUS
<1>1. WallInv /\ ScreenInv /\ BandInv
  BY DEF Init, WallInv, ScreenInv, BandInv
<1>2. SentInv /\ FreshInv
  BY DEF Init, SentInv, Sent, FreshInv
<1>3. PlaceInv
  <2>1. \A c \in Cards : \A q \in Window(c) : memory[c][q] = Before /\ shown[c][q] = Before
    BY DEF Init
  <2> QED BY <2>1 DEF PlaceInv, InPlace
<1> QED BY <1>1, <1>2, <1>3 DEF PictureInv

\* A step that leaves the wall leaves the cards and their windows.
LEMMA CardsStay ==
  ASSUME wall' = wall
  PROVE  Cards' = Cards /\ \A c : Window(c)' = Window(c)
BY DEF Cards, Window

\* Between refreshes, whatever the command does.
LEMMA CardsKeepWhatTheyHave ==
  ASSUME PlaceInv, UNCHANGED <<wall, cards>>, frame \in Nat, frame' \in Nat, frame <= frame'
  PROVE  PlaceInv'
<1>1. Cards' = Cards /\ \A c : Window(c)' = Window(c)
  BY CardsStay
<1>2. ASSUME NEW c \in Cards, NEW q \in Window(c)
      PROVE  /\ InPlace(wall', frame', c, q, memory'[c][q])
             /\ InPlace(wall', frame', c, q, shown'[c][q])
  <2>1. \A n \in 1 .. MaxFrames : n \in Int
    OBVIOUS
  <2> QED BY <1>2, <2>1 DEF PlaceInv, InPlace, cards
<1> QED BY <1>1, <1>2 DEF PlaceInv

\* A refresh that starts keeps it.
LEMMA StartKeeps ==
  ASSUME WallsAreSmall, PictureInv, NEW rows \in Bands, StartRefresh(rows)
  PROVE  PictureInv'
<1>0. WallInv /\ ScreenInv /\ BandInv /\ PlaceInv
  BY DEF PictureInv
<1>1. IsCanvas(wall) /\ Valid(wall) /\ NoSumWraps(wall) /\ IsCanvas(wall')
  BY <1>0, WallsAssumption DEF WallInv, WallsAreSmall, StartRefresh
<1>2. /\ wall' = wall /\ UNCHANGED cards /\ pc' = "rows" /\ band' = rows
      /\ at' = <<0, Min(rows)>> /\ missed' = {} /\ fresh' = {}
      /\ frame' \in {frame, frame + 1} \cap 1 .. MaxFrames
      /\ screen' = Render(wall, Picture(frame'))
  BY DEF StartRefresh
<1>3. WallInv'
  BY <1>0, <1>2 DEF WallInv
<1>4. ScreenInv'
  <2>1. ShowsFrame(frame', Len(wall.panels), Render(wall, Picture(frame')))
    BY <1>1, RenderShowsFrame
  <2>2. screen'.width = ScreenSize(wall)[1] /\ screen'.height = ScreenSize(wall)[2]
    BY <1>2, <2>1 DEF ShowsFrame
  <2>3. Picture(frame)' = Picture(frame')
    BY <1>2 DEF Picture
  <2> QED BY <1>2, <2>2, <2>3 DEF ScreenInv
<1>5. BandInv'
  <2>1. screen.height \in Nat
    BY <1>0, <1>1, ScreenSizeIsNatural DEF ScreenInv, StartRefresh
  <2>2. /\ rows \subseteq Nat
        /\ \A a, b \in rows : \A y \in a .. b : y \in rows
    BY <2>1 DEF Bands
  <2>3. rows # {} => Min(rows) \in rows
    BY <2>2, LeastNatural
  <2> QED BY <1>2, <2>2, <2>3 DEF BandInv
<1>6. SentInv'
  <2>1. ASSUME NEW c \in Cards, NEW q \in Window(c) PROVE ~Sent(q)'
    <3>1. q[1] \in Nat /\ q[2] \in Nat
      BY DEF Window, Area
    <3>2. rows \subseteq Nat
      <4>1. screen.height \in Nat
        BY <1>0, <1>1, ScreenSizeIsNatural DEF ScreenInv, StartRefresh
      <4> QED BY <4>1 DEF Bands
    <3>3. q[2] \in rows => Min(rows) <= q[2] /\ Min(rows) \in Nat
      BY <3>2, LeastNatural
    <3> QED BY <1>2, <3>1, <3>3 DEF Sent
  <2>2. Cards' = Cards /\ \A c : Window(c)' = Window(c)
    BY <1>2, CardsStay
  <2> QED BY <2>1, <2>2 DEF SentInv
<1>7. FreshInv'
  BY <1>2 DEF FreshInv
<1>8. PlaceInv'
  BY <1>0, <1>2, CardsKeepWhatTheyHave DEF WallInv
<1> QED BY <1>3, <1>4, <1>5, <1>6, <1>7, <1>8 DEF PictureInv

\* A row that is sent keeps it.
LEMMA RowKeeps ==
  ASSUME WallsAreSmall, PictureInv, SendRow
  PROVE  PictureInv'
<1>0. WallInv /\ ScreenInv /\ BandInv /\ SentInv /\ FreshInv /\ PlaceInv
  BY DEF PictureInv
<1>1. /\ pc = "rows" /\ UNCHANGED <<wall, screen, frame, band, shown, fresh>>
  BY DEF SendRow, driver
<1>2. PICK got \in SUBSET Cards :
        /\ CardsKeep(got, at[2], at[1] .. at[1] + MaxChunk - 1)
        /\ missed' = missed \cup (Cards \ got)
  BY DEF SendRow
<1>3. Cards' = Cards /\ \A c : Window(c)' = Window(c)
  BY <1>1, CardsStay
<1>4. fresh = {} /\ fresh' = {}
  BY <1>0, <1>1 DEF BandInv
<1>5. \A c \in Cards : \A q \in Window(c) : screen.data[q] \in Wanted(wall, frame, c, q)
  BY <1>0, <1>1, DrawnInPlace DEF ScreenInv
<1>6. ASSUME NEW c \in Cards, NEW q \in Window(c)
      PROVE  memory'[c][q] = IF c \in got /\ q[2] = at[2] /\ q[1] \in at[1] .. at[1] + MaxChunk - 1
                             THEN screen.data[q] ELSE memory[c][q]
  BY <1>2 DEF CardsKeep
<1>7. /\ pc' \in {"rows", "latch"}
      /\ pc' = "rows" =>
           \/ More(at[1]) /\ at' = <<at[1] + MaxChunk, at[2]>>
           \/ ~More(at[1]) /\ at[2] + 1 \in band /\ at' = <<0, at[2] + 1>>
      /\ pc' = "latch" => ~More(at[1]) /\ at[2] + 1 \notin band
  BY <1>1 DEF SendRow
<1>8. WallInv'
  BY <1>0, <1>1 DEF WallInv
<1>9. ScreenInv'
  <2>1. Picture(frame)' = Picture(frame)
    BY <1>1 DEF Picture
  <2> QED BY <1>0, <1>1, <1>7, <2>1 DEF ScreenInv
<1>10. BandInv'
  <2>1. band # {} /\ pc' = "rows" => at'[1] \in Nat /\ at'[2] \in band
    BY <1>0, <1>1, <1>7, ChunkAssumption DEF BandInv
  <2> QED BY <1>0, <1>1, <1>4, <1>7, <2>1 DEF BandInv
<1>11. SentInv'
  <2>1. ASSUME NEW c \in Cards \ missed', NEW q \in Window(c), Sent(q)'
        PROVE  memory'[c][q] \in Wanted(wall, frame, c, q)
    <3>1. c \in got /\ c \notin missed
      BY <1>2, <2>1
    <3>2. q[1] \in Nat /\ q[2] \in Nat /\ q[1] < screen.width
      <4>1. screen.width \in Nat /\ screen.width = ScreenSize(wall)[1]
        BY <1>0, <1>1, WallsAssumption, ScreenSizeIsNatural DEF ScreenInv, WallInv
      <4> QED BY <4>1 DEF Window, Area
    <3>3. q[2] \in band /\ at[1] \in Nat /\ at[2] \in band /\ at[2] \in Int
      BY <1>0, <1>1, <2>1 DEF Sent, BandInv
    <3>4. Sent(q) \/ (q[2] = at[2] /\ q[1] \in at[1] .. at[1] + MaxChunk - 1)
      <4>1. MaxChunk \in Nat /\ screen.width \in Nat
        BY <1>0, <1>1, ChunkAssumption, WallsAssumption, ScreenSizeIsNatural DEF ScreenInv, WallInv
      <4>2. q[1] < at[1] + MaxChunk => (q[1] < at[1] \/ q[1] \in at[1] .. at[1] + MaxChunk - 1)
        BY <3>2, <3>3, <4>1
      <4>3. (q[2] < at[2] \/ (q[2] = at[2] /\ q[1] < at[1])) => Sent(q)
        BY <1>1, <3>3 DEF Sent
      <4>4. ~More(at[1]) => q[1] < at[1] + MaxChunk
        BY <3>2, <3>3, <4>1 DEF More
      <4>5. CASE pc' = "rows"
        <5>1. q[2] < at'[2] \/ (q[2] = at'[2] /\ q[1] < at'[1])
          BY <2>1, <4>5 DEF Sent
        <5>2. CASE More(at[1]) /\ at' = <<at[1] + MaxChunk, at[2]>>
          <6>1. q[2] < at[2] \/ (q[2] = at[2] /\ q[1] < at[1] + MaxChunk)
            BY <5>1, <5>2
          <6> QED BY <4>2, <4>3, <6>1
        <5>3. CASE ~More(at[1]) /\ at[2] + 1 \in band /\ at' = <<0, at[2] + 1>>
          <6>1. q[2] < at[2] \/ q[2] = at[2]
            BY <3>2, <3>3, <5>1, <5>3
          <6> QED BY <4>4, <4>2, <4>3, <5>3, <6>1
        <5> QED BY <1>7, <4>5, <5>2, <5>3
      <4>6. CASE pc' = "latch"
        <5>1. ~More(at[1]) /\ at[2] + 1 \notin band
          BY <1>7, <4>6
        <5>2. ~(at[2] < q[2])
          <6>1. at[2] < q[2] => at[2] + 1 \in at[2] .. q[2]
            BY <3>2, <3>3
          <6>2. \A y \in at[2] .. q[2] : y \in band
            BY <1>0, <3>3 DEF BandInv
          <6> QED BY <5>1, <6>1, <6>2
        <5>3. q[2] < at[2] \/ q[2] = at[2]
          BY <3>2, <3>3, <5>2
        <5> QED BY <4>4, <4>2, <4>3, <5>1, <5>3
      <4> QED BY <1>7, <4>5, <4>6
    <3>5. CASE q[2] = at[2] /\ q[1] \in at[1] .. at[1] + MaxChunk - 1
      BY <1>5, <1>6, <3>1, <3>5
    <3>6. CASE Sent(q)
      <4>1. memory[c][q] \in Wanted(wall, frame, c, q)
        BY <1>0, <3>1, <3>6 DEF SentInv
      <4> QED BY <1>5, <1>6, <4>1
    <3> QED BY <3>4, <3>5, <3>6
  <2> QED BY <1>1, <1>3, <2>1 DEF SentInv
<1>12. FreshInv'
  BY <1>4 DEF FreshInv
<1>13. PlaceInv'
  <2>1. ASSUME NEW c \in Cards, NEW q \in Window(c)
        PROVE  InPlace(wall, frame, c, q, memory'[c][q]) /\ InPlace(wall, frame, c, q, shown[c][q])
    <3>1. InPlace(wall, frame, c, q, memory[c][q]) /\ InPlace(wall, frame, c, q, shown[c][q])
      BY <1>0 DEF PlaceInv
    <3>2. InPlace(wall, frame, c, q, screen.data[q])
      <4>1. frame \in 1 .. MaxFrames /\ frame <= frame
        BY <1>0, <1>1 DEF ScreenInv
      <4> QED BY <1>5, <4>1 DEF InPlace
    <3> QED BY <1>6, <3>1, <3>2
  <2> QED BY <1>1, <1>3, <2>1 DEF PlaceInv
<1> QED BY <1>8, <1>9, <1>10, <1>11, <1>12, <1>13 DEF PictureInv

\* The latch keeps it.
LEMMA LatchKeeps ==
  ASSUME PictureInv, Latch
  PROVE  PictureInv'
<1>0. WallInv /\ ScreenInv /\ BandInv /\ SentInv /\ FreshInv /\ PlaceInv
  BY DEF PictureInv
<1>1. /\ pc \in {"latch", "dim"} /\ UNCHANGED <<wall, screen, frame, band, at, memory, missed>>
      /\ pc' \in {pc, "ready"} /\ (pc' = "ready" => pc = "latch" \/ pc = "ready")
  BY DEF Latch, driver
<1>2. PICK got \in SUBSET Cards :
        /\ shown' = [c \in Cards |-> IF c \in got THEN memory[c] ELSE shown[c]]
        /\ fresh' = fresh \cup (IF pc = "latch" THEN got ELSE {})
  BY DEF Latch, CardsLatch
<1>3. Cards' = Cards /\ \A c : Window(c)' = Window(c)
  BY <1>1, CardsStay
<1>4. WallInv'
  BY <1>0, <1>1 DEF WallInv
<1>5. ScreenInv'
  <2>1. Picture(frame)' = Picture(frame)
    BY <1>1 DEF Picture
  <2> QED BY <1>0, <1>1, <2>1 DEF ScreenInv
<1>6. BandInv'
  BY <1>0, <1>1, <1>2 DEF BandInv
<1>7. SentInv'
  <2>1. ASSUME NEW q PROVE Sent(q)' => Sent(q)
    BY <1>0, <1>1 DEF Sent, BandInv
  <2> QED BY <1>0, <1>1, <1>3, <2>1 DEF SentInv
<1>8. FreshInv'
  <2>1. fresh' \subseteq Cards
    BY <1>0, <1>2 DEF FreshInv
  <2>2. ASSUME NEW c \in fresh' PROVE shown'[c] = memory[c]
    BY <1>0, <1>2, <2>1, <2>2 DEF FreshInv
  <2> QED BY <1>1, <1>3, <2>1, <2>2 DEF FreshInv
<1>9. PlaceInv'
  <2>1. ASSUME NEW c \in Cards, NEW q \in Window(c)
        PROVE  InPlace(wall, frame, c, q, memory[c][q]) /\ InPlace(wall, frame, c, q, shown'[c][q])
    <3>1. InPlace(wall, frame, c, q, memory[c][q]) /\ InPlace(wall, frame, c, q, shown[c][q])
      BY <1>0 DEF PlaceInv
    <3>2. shown'[c] = memory[c] \/ shown'[c] = shown[c]
      BY <1>2
    <3> QED BY <3>1, <3>2
  <2> QED BY <1>1, <1>3, <2>1 DEF PlaceInv
<1> QED BY <1>4, <1>5, <1>6, <1>7, <1>8, <1>9 DEF PictureInv

\* The steps that begin and end a command: nothing of a refresh is left.
LEMMA CommandKeeps ==
  ASSUME PictureInv, UNCHANGED <<wall, frame, cards>>, band' = {}, fresh' = {}, ScreenInv',
         pc' \notin {"rows", "latch"}
  PROVE  PictureInv'
<1>0. WallInv /\ PlaceInv
  BY DEF PictureInv
<1>1. WallInv'
  BY <1>0 DEF WallInv
<1>2. BandInv'
  BY DEF BandInv
<1>3. SentInv'
  BY DEF SentInv, Sent
<1>4. FreshInv'
  BY DEF FreshInv
<1>5. PlaceInv'
  BY <1>0, CardsKeepWhatTheyHave DEF WallInv
<1> QED BY <1>1, <1>2, <1>3, <1>4, <1>5 DEF PictureInv

\* So every step keeps it.
LEMMA PictureStep ==
  ASSUME WallsAreSmall, PictureInv, [Next]_vars
  PROVE  PictureInv'
<1>0. ScreenInv /\ BandInv
  BY DEF PictureInv
<1>1. ASSUME NEW value \in Values, Open(value) PROVE PictureInv'
  <2>1. UNCHANGED <<wall, frame, cards>> /\ pc' = "ready" /\ band' = {} /\ fresh' = {}
    BY <1>0, <1>1 DEF Open, history, BandInv
  <2>2. screen' = BlackFrame(ScreenSize(wall)[1], ScreenSize(wall)[2])
    BY <1>1 DEF Open
  <2>3. ScreenInv'
    BY <2>1, <2>2 DEF ScreenInv, BlackFrame
  <2> QED BY <2>1, <2>3, CommandKeeps
<1>2. ASSUME NEW value \in Values, Dim(value) PROVE PictureInv'
  <2>1. UNCHANGED <<wall, frame, cards>> /\ pc' = "dim" /\ band' = {} /\ fresh' = {}
    BY <1>0, <1>2 DEF Dim, history, BandInv
  <2>2. ScreenInv'
    BY <2>1 DEF ScreenInv
  <2> QED BY <2>1, <2>2, CommandKeeps
<1>3. ASSUME NEW rows \in Bands, StartRefresh(rows) PROVE PictureInv'
  BY <1>3, StartKeeps
<1>4. CASE SendRow
  BY <1>4, RowKeeps
<1>5. CASE Latch
  BY <1>5, LatchKeeps
<1>6. CASE Close
  <2>1. UNCHANGED <<wall, frame, cards>> /\ pc' = "idle" /\ band' = {} /\ fresh' = {}
    BY <1>6 DEF Close
  <2>2. ScreenInv'
    BY <2>1 DEF ScreenInv
  <2> QED BY <2>1, <2>2, CommandKeeps
<1>7. CASE UNCHANGED vars
  <2>1. UNCHANGED <<wall, screen, frame, band, pc, at, memory, shown, missed, fresh>>
    BY <1>7 DEF vars, driver, progress, cards, history
  <2>2. Cards' = Cards /\ \A c : Window(c)' = Window(c)
    BY <2>1, CardsStay
  <2>3. Picture(frame)' = Picture(frame)
    BY <2>1 DEF Picture
  <2>4. WallInv' /\ ScreenInv' /\ BandInv' /\ FreshInv'
    BY <2>1, <2>2, <2>3 DEF PictureInv, WallInv, ScreenInv, BandInv, FreshInv
  <2>5. \A q : Sent(q)' <=> Sent(q)
    BY <2>1 DEF Sent
  <2>6. SentInv'
    BY <2>1, <2>2, <2>5 DEF PictureInv, SentInv
  <2>7. PlaceInv'
    BY <2>1, <2>2 DEF PictureInv, PlaceInv
  <2> QED BY <2>4, <2>6, <2>7 DEF PictureInv
<1> QED BY <1>1, <1>2, <1>3, <1>4, <1>5, <1>6, <1>7 DEF Next

\* A card that got every row of a refresh and one of its latches shows that
\* picture in those rows, each LED its own place: for walls of any size and
\* mounting, row packets of any length and any number of lost frames.
THEOREM PicturesAreShown ==
  ASSUME WallsAreSmall
  PROVE  Spec => []RefreshShowsThePicture
<1>1. PictureInv => RefreshShowsThePicture
  <2> SUFFICES ASSUME PictureInv, pc = "ready", NEW c \in fresh \ missed,
                      NEW q \in Window(c), q[2] \in band
               PROVE  shown[c][q] \in Wanted(wall, frame, c, q)
    BY DEF RefreshShowsThePicture
  <2>1. c \in Cards \ missed /\ shown[c] = memory[c]
    BY DEF PictureInv, FreshInv
  <2>2. Sent(q)
    BY DEF Sent
  <2> QED BY <2>1, <2>2 DEF PictureInv, SentInv
<1> QED BY <1>1, PictureStart, PictureStep, PTL DEF Spec

\* Whatever is lost and wherever commands stop, no LED shows another's place.
THEOREM NothingIsOutOfPlace ==
  ASSUME WallsAreSmall
  PROVE  Spec => []NothingOutOfPlace
<1>1. PictureInv => NothingOutOfPlace
  BY DEF PictureInv, PlaceInv, InPlace, NothingOutOfPlace
<1> QED BY <1>1, PictureStart, PictureStep, PTL DEF Spec

-----------------------------------------------------------------------------
(* The brightness cap.                                                      *)

LEMMA CapIsNatural ==
  ASSUME NEW c, IsCanvas(c)
  PROVE  BrightnessCap(c) \in Nat
<1> DEFINE S == {c.max_brightness} \cup {c.panels[i].max_brightness : i \in DOMAIN c.panels}
<1>1. \A i \in DOMAIN c.panels : c.panels[i] \in Panels
  BY DEF IsCanvas
<1>2. S \subseteq Nat /\ S # {}
  <2>1. c.max_brightness \in 0 .. 255
    BY Zenon DEF IsCanvas
  <2>2. \A i \in DOMAIN c.panels : c.panels[i].max_brightness \in Nat
    BY <1>1 DEF Panels
  <2> QED BY <2>1, <2>2
<1> HIDE DEF S
<1>3. Min(S) \in S
  BY <1>2, LeastNatural
<1> QED BY <1>2, <1>3 DEF BrightnessCap, S

\* clamp_brightness gives no more than the cap.
LEMMA ClampIsUnderTheCap ==
  ASSUME NEW c, IsCanvas(c), NEW value \in Nat
  PROVE  Clamp(c, value) \in Nat /\ Clamp(c, value) <= BrightnessCap(c)
<1> DEFINE S == {value, BrightnessCap(c)}
<1>1. S \subseteq Nat /\ S # {} /\ BrightnessCap(c) \in S
  BY CapIsNatural
<1> HIDE DEF S
<1>2. Min(S) \in S /\ Min(S) <= BrightnessCap(c)
  BY <1>1, LeastNatural
<1> QED BY <1>1, <1>2 DEF Clamp, S

\* What a latch may carry, and what the cards have been told.
CapInv ==
  /\ wall \in Walls
  /\ bright \in Nat /\ bright <= BrightnessCap(wall)
  /\ gain \in [Cards -> Nat]
  /\ UnderTheCap

\* It holds at the start.
LEMMA CapInitially == Init => CapInv
<1> SUFFICES ASSUME Init PROVE CapInv
  OBVIOUS
<1>1. wall \in Walls /\ BrightnessCap(wall) \in Nat
  BY WallsAssumption, CapIsNatural DEF Init
<1> QED BY <1>1 DEF Init, CapInv, UnderTheCap

\* Every step keeps it.
LEMMA CapStep == CapInv /\ [Next]_vars => CapInv'
<1> SUFFICES ASSUME CapInv, [Next]_vars PROVE CapInv'
  OBVIOUS
<1>0. IsCanvas(wall) /\ BrightnessCap(wall) \in Nat
  BY WallsAssumption, CapIsNatural DEF CapInv
<1>1. ASSUME UNCHANGED <<wall, gain>>, bright' \in Nat, bright' <= BrightnessCap(wall)
      PROVE  CapInv'
  BY <1>1 DEF CapInv, UnderTheCap, Cards, BrightnessCap
<1>2. ASSUME NEW value \in Values, Open(value) PROVE CapInv'
  <2>1. value \in Nat
    BY ValuesAssumption
  <2>2. bright' \in Nat /\ bright' <= BrightnessCap(wall)
    BY <1>0, <1>2, <2>1, ClampIsUnderTheCap DEF Open
  <2> QED BY <1>1, <1>2, <2>2 DEF Open, cards
<1>3. ASSUME NEW value \in Values, Dim(value) PROVE CapInv'
  <2>1. value \in Nat
    BY ValuesAssumption
  <2>2. bright' \in Nat /\ bright' <= BrightnessCap(wall)
    BY <1>0, <1>3, <2>1, ClampIsUnderTheCap DEF Dim
  <2> QED BY <1>1, <1>3, <2>2 DEF Dim, cards
<1>4. ASSUME NEW rows \in Bands, StartRefresh(rows) PROVE CapInv'
  BY <1>1, <1>4 DEF StartRefresh, cards, CapInv
<1>5. CASE SendRow
  BY <1>1, <1>5 DEF SendRow, driver, CapInv
<1>6. CASE Latch
  <2>1. PICK got \in SUBSET Cards : CardsLatch(got)
    BY <1>6 DEF Latch
  <2>2. UNCHANGED <<wall, bright>>
    BY <1>6 DEF Latch, driver
  <2>3. gain' = [c \in Cards |-> IF c \in got THEN bright ELSE gain[c]]
    BY <2>1 DEF CardsLatch
  <2>4. gain' \in [Cards -> Nat] /\ \A c \in Cards : gain'[c] <= BrightnessCap(wall)
    BY <2>3 DEF CapInv, UnderTheCap
  <2> QED BY <2>2, <2>4 DEF CapInv, UnderTheCap, Cards, BrightnessCap
<1>7. CASE Close
  BY <1>0, <1>1, <1>7 DEF Close, cards
<1>8. CASE UNCHANGED vars
  BY <1>1, <1>8 DEF vars, driver, cards, CapInv
<1> QED BY <1>2, <1>3, <1>4, <1>5, <1>6, <1>7, <1>8 DEF Next

\* No command of ops takes a card over the lowest cap of the wall and its
\* panels, whatever it is asked for, whichever latches are missed and wherever
\* commands stop.
THEOREM CapHolds == Spec => []UnderTheCap
<1>1. CapInv => UnderTheCap
  BY DEF CapInv
<1> QED BY <1>1, CapInitially, CapStep, PTL DEF Spec

=============================================================================
