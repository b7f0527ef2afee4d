------------------------------- MODULE Refresh ------------------------------
(***************************************************************************)
(* What the cards show: driver::Wall and the commands of ops::display over   *)
(* it, one after the other (the link has one owner: Daemon), and the cards   *)
(* of the chain, each of which keeps its window of every row it is sent and  *)
(* shows it at the next latch.                                              *)
(*                                                                         *)
(* No frame is acknowledged. The card's receive buffer drops what comes too  *)
(* fast, so any card may miss any frame (MaxLosses bounds how many).         *)
(*                                                                         *)
(* The picture with number n has the colour <<n, x, y>> at x, y, so that what *)
(* a card shows says of which picture and which place it is.                 *)
(***************************************************************************)
EXTENDS Wall

CONSTANTS
  Walls,      \* the layouts commands are given
  Values,     \* the brightnesses they ask for
  MaxChunk,   \* pixels in a row packet (497 in the code)
  Latches,    \* latch frames after the rows (3)
  MaxFrames,  \* bound: refreshes
  MaxLosses,  \* bound: frames a card misses
  Before      \* what the cards hold at first

ASSUME ChunkAssumption == MaxChunk \in Nat \ {0}
ASSUME LatchAssumption == Latches \in Nat \ {0}
ASSUME WallsAssumption == \A w \in Walls : IsCanvas(w)
ASSUME ValuesAssumption == Values \subseteq 0 .. 255

VARIABLES
  wall,
  \* driver::Wall
  bright,   \* settings.brightness
  screen,
  frame,    \* the number of the picture drawn last
  band,     \* the rows of this refresh, show_rows's argument
  \* the command
  pc,       \* "idle", "ready", "rows", "latch", "dim"
  at,       \* the next row packet: its row and its offset
  latched,  \* the latches sent
  \* the cards, by their place in wall.receivers
  memory,   \* the frame memory, by screen coordinates
  shown,    \* what was in it at the last latch
  gain,     \* the brightness of that latch
  \* history
  losses,
  missed,   \* the cards that missed a row packet of this refresh
  fresh     \* the cards that have latched since

cards    == <<memory, shown, gain>>
history  == <<losses, missed, fresh>>
driver   == <<wall, bright, screen, frame, band>>
progress == <<pc, at, latched>>
vars     == <<driver, progress, cards, history>>

Cards == DOMAIN wall.receivers

\* A card is provisioned with the place of its receiver (rxp provision
\* --position).
Window(c) == {q \in Area(ScreenSize(wall)[1], ScreenSize(wall)[2]) :
                InWindow(ForCabinet(wall.receivers[c]), q)}

Picture(n) ==
  [width |-> wall.width, height |-> wall.height,
   data |-> [q \in Area(wall.width, wall.height) |-> <<n, q[1], q[2]>>]]

NoScreen == BlackFrame(0, 0)

Init ==
  /\ wall \in {w \in Walls : Valid(w)}
  /\ bright = 0
  /\ screen = NoScreen
  /\ frame = 0
  /\ band = {}
  /\ pc = "idle" /\ at = <<0, 0>> /\ latched = 0
  /\ memory = [c \in Cards |-> [q \in Window(c) |-> Before]]
  /\ shown = memory
  /\ gain = [c \in Cards |-> 0]
  /\ losses = 0 /\ missed = {} /\ fresh = {}

-----------------------------------------------------------------------------
\* The cards a frame reaches: all of them, or all but one. (external)
Reaches(got) ==
  \/ got = Cards /\ UNCHANGED losses
  \/ losses < MaxLosses /\ losses' = losses + 1 /\ \E c \in Cards : got = Cards \ {c}

\* A card keeps the pixels of a row packet that are in its window ...
CardsKeep(got, y, xs) ==
  memory' = [c \in Cards |-> IF c \notin got THEN memory[c] ELSE
    [q \in Window(c) |-> IF q[2] = y /\ q[1] \in xs THEN screen.data[q]
                                                    ELSE memory[c][q]]]

\* ... and a latch puts up what it has, at the brightness the latch carries.
CardsLatch(got) ==
  /\ shown' = [c \in Cards |-> IF c \in got THEN memory[c] ELSE shown[c]]
  /\ gain' = [c \in Cards |-> IF c \in got THEN bright ELSE gain[c]]

-----------------------------------------------------------------------------
\* Wall::with_sink. (Variant: the brightness of the command line.)
OpenUnclamped(value) ==
  /\ pc = "idle" /\ pc' = "ready"
  /\ bright' = value
  /\ screen' = BlackFrame(ScreenSize(wall)[1], ScreenSize(wall)[2])
  /\ UNCHANGED <<wall, frame, band, at, latched, cards, history>>
Open(value) ==
  /\ pc = "idle" /\ pc' = "ready"
  /\ Valid(wall) /\ \A i \in 1 .. 2 : ScreenSize(wall)[i] <= U16Max
  /\ bright' = Clamp(wall, value)
  /\ screen' = BlackFrame(ScreenSize(wall)[1], ScreenSize(wall)[2])
  /\ UNCHANGED <<wall, frame, band, at, latched, cards, history>>

\* display::brightness sends its value at once, without a Wall.
Dim(value) ==
  /\ pc = "idle" /\ pc' = "dim"
  /\ bright' = Clamp(wall, value)
  /\ UNCHANGED <<wall, screen, frame, band, at, latched, cards, history>>

\* show and show_rows: the same picture again or the next one, drawn on the
\* whole screen or on a band of it. (The brightness frame has no step of its
\* own: the latches carry the same brightness.)
Bands == {0 .. screen.height - 1} \cup {y .. y : y \in 0 .. screen.height - 1}

StartRefresh(rows) ==
  /\ pc = "ready" /\ pc' = "rows"
  /\ frame' \in {frame, frame + 1} \cap 1 .. MaxFrames
  /\ screen' = Render(wall, Picture(frame'))
  /\ band' = rows
  /\ at' = <<0, Min(rows)>>
  /\ latched' = 0
  /\ missed' = {} /\ fresh' = {}
  /\ UNCHANGED <<wall, bright, cards, losses>>

\* A row is cut in packets of MaxChunk pixels. (Variant: no short
\* packet.)
MoreWhole(x) == x + 2 * MaxChunk <= screen.width
More(x) == x + MaxChunk < screen.width

SendRow ==
  /\ pc = "rows"
  /\ \E got \in SUBSET Cards :
       /\ Reaches(got)
       /\ CardsKeep(got, at[2], at[1] .. at[1] + MaxChunk - 1)
       /\ missed' = missed \cup (Cards \ got)
  /\ \/ /\ More(at[1])
        /\ at' = <<at[1] + MaxChunk, at[2]>>
        /\ UNCHANGED pc
     \/ /\ ~More(at[1]) /\ at[2] + 1 \in band
        /\ at' = <<0, at[2] + 1>>
        /\ UNCHANGED pc
     \/ /\ ~More(at[1]) /\ at[2] + 1 \notin band
        /\ pc' = "latch"
        /\ UNCHANGED at
  /\ UNCHANGED <<driver, latched, shown, gain, fresh>>

\* Latches in a row, then the next refresh or the end of the command.
Latch ==
  /\ pc \in {"latch", "dim"} /\ latched < Latches
  /\ \E got \in SUBSET Cards :
       /\ Reaches(got)
       /\ CardsLatch(got)
       /\ fresh' = fresh \cup (IF pc = "latch" THEN got ELSE {})
  /\ latched' = latched + 1
  /\ pc' = IF pc = "latch" /\ latched' = Latches THEN "ready" ELSE pc
  /\ UNCHANGED <<driver, at, memory, missed>>

\* The command ends: three refreshes are done, the video is over, the job is
\* cancelled; or a send fails, at any point. Its Wall is dropped.
Close ==
  /\ pc # "idle" /\ pc' = "idle"
  /\ bright' = 0
  /\ screen' = NoScreen
  /\ band' = {} /\ at' = <<0, 0>> /\ latched' = 0
  /\ missed' = {} /\ fresh' = {}
  /\ UNCHANGED <<wall, frame, cards, losses>>

Next ==
  \/ \E value \in Values : Open(value) \/ Dim(value)
  \/ \E rows \in Bands : StartRefresh(rows)
  \/ SendRow \/ Latch \/ Close

Spec == Init /\ [][Next]_vars

-----------------------------------------------------------------------------
(* Where a picture has to appear, told from how a panel is mounted: its LEDs *)
(* turned a quarter clockwise once, twice or three times, then mirrored.     *)

\* A quarter turn of an area puts the point at l here.
QuarterTurn(area, l) == <<area[2] - 1 - l[2], l[1]>>

Turns(rotation) ==
  CASE rotation = "none" -> 0 [] rotation = "cw90" -> 1
    [] rotation = "rot180" -> 2 [] rotation = "ccw90" -> 3

TurnedLed(p, led) ==
  LET size == NativeSize(p)
      once == QuarterTurn(size, led)
      twice == QuarterTurn(<<size[2], size[1]>>, once) IN
  CASE Turns(p.rotation) = 0 -> led
    [] Turns(p.rotation) = 1 -> once
    [] Turns(p.rotation) = 2 -> twice
    [] Turns(p.rotation) = 3 -> QuarterTurn(size, twice)

\* The point of the canvas an LED of panel p is at.
Place(p, led) ==
  LET l == TurnedLed(p, led) IN
  <<p.x + (IF p.flip_x THEN p.width - 1 - l[1] ELSE l[1]),
    p.y + (IF p.flip_y THEN p.height - 1 - l[2] ELSE l[2])>>

\* The LED of panel p, on receiver r, that pixel q of the screen lights.
Led(p, r, q) ==
  LET a == ForCabinet(r) IN
  <<q[1] - a.start_x - p.receiver_x, q[2] - a.start_y - p.receiver_y>>

\* A panel hangs on the first card of its index.
Lights(w, p, c, q) ==
  /\ w.receivers[c].index = p.receiver
  /\ \A b \in DOMAIN w.receivers : w.receivers[b].index = p.receiver => c <= b
  /\ Led(p, w.receivers[c], q) \in Area(NativeSize(p)[1], NativeSize(p)[2])

\* What a card of wall w may show of picture n at pixel q of its window: the
\* place of an LED it lights, black where there is none.
Wanted(w, n, c, q) ==
  LET P == {p \in ToSet(w.panels) : Lights(w, p, c, q)}
      At(p) == Place(p, Led(p, w.receivers[c], q)) IN
  IF P = {} THEN {Black} ELSE {<<n, At(p)[1], At(p)[2]>> : p \in P}

-----------------------------------------------------------------------------
(* Properties.                                                              *)

Colours == {Before, Black} \cup ((1 .. MaxFrames) \X (0 .. U16Max) \X (0 .. U16Max))

\* Every variable holds a value of its type; a row packet begins on the screen.
TypeOK ==
  /\ Valid(wall)
  /\ bright \in 0 .. 255
  /\ frame \in 0 .. MaxFrames
  /\ pc \in {"idle", "ready", "rows", "latch", "dim"}
  /\ at \in Area(U16Max, U16Max) /\ (pc = "rows" => at \in DOMAIN screen.data)
  /\ latched \in 0 .. Latches
  /\ \A c \in Cards : memory[c] \in [Window(c) -> Colours] /\ shown[c] \in [Window(c) -> Colours]
  /\ gain \in [Cards -> 0 .. 255]
  /\ missed \subseteq Cards /\ fresh \subseteq Cards

\* A card that got every row packet of a refresh and one of its latches shows
\* exactly that picture in its rows: each LED its place on the canvas whatever
\* the mounting, and black where the wall has no panel (render_into over both
\* ways of Panel::blit, the cut in packets, the card's window).
RefreshShowsThePicture ==
  pc = "ready" =>
    \A c \in fresh \ missed : \A q \in Window(c) :
      q[2] \in band => shown[c][q] \in Wanted(wall, frame, c, q)

\* Whatever frames are missed and wherever a command stops, an LED shows its
\* own place on the canvas, of this picture or an older one, and never
\* another's.
NothingOutOfPlace ==
  \A c \in Cards : \A q \in Window(c) :
    shown[c][q] # Before =>
      \E n \in 1 .. MaxFrames : n <= frame /\ shown[c][q] \in Wanted(wall, n, c, q)

\* "The most brightness the wall may be sent": no command takes a card over the
\* lowest cap of the wall and its panels.
UnderTheCap == \A c \in Cards : gain[c] <= BrightnessCap(wall)

=============================================================================
