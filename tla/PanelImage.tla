----------------------------- MODULE PanelImage -----------------------------
(***************************************************************************)
(* From a panel spec to what the card drives the panel with: the checks of *)
(* panelspec, record 0x01 and the tables of rcvbp, the boot image that    *)
(* `config gen` writes and `provision` flashes (crates/rcvbp image), and  *)
(* the packs `config send` puts in the card's RAM (crates/ops params.rs).  *)
(*                                                                         *)
(* An image is the sequence of what was placed in it, the last on top, so *)
(* that every byte has the region that holds it. Numbers are those of the  *)
(* code; the bytes inside a region are told apart where a table's entries  *)
(* have to agree with the geometry.                                        *)
(***************************************************************************)
EXTENDS Integers, FiniteSets, Sequences, FiniteSetsExt

CONSTANTS
  Specs,    \* the panel specs, see SpecFields
  MaxGens   \* bound: how many times a configuration is generated or pushed

\* width, height, scan, line_dir of the module; sw, sh of the screen; the
\* mapping's block (0: not given), reversed_groups, reversed_lines,
\* gate_phantom; arm_at_boot; chip: "table" (registers of record 0x84),
\* "custom" (none), "bad" (a register the library lacks); min_oe in 1/10000;
\* sck, the serial clock; overrides of record 0x01, the library's and its own.
SpecFields == {"width", "height", "scan", "line_dir", "sw", "sh", "block", "reversed_groups",
  "reversed_lines", "gate_phantom", "arm_at_boot", "chip", "min_oe", "sck", "chip_over", "over"}

\* The fields of record 0x01 that the rest depends on.
RecordFields == {"module_w", "module_h_half", "scan", "line_dir", "max_w", "max_h", "serial_clock",
  "min_oe", "grid_w", "grid_h", "split", "segments", "hr_style", "hr_scan_style", "x02f", "x043"}
FitsIn(n, bound) == n \in Nat /\ n < bound
PanelSpec(s) ==
  /\ DOMAIN s = SpecFields
  /\ \A n \in {s.width, s.height, s.sw, s.sh, s.block, s.sck, s.min_oe} : FitsIn(n, 65536)
  /\ FitsIn(s.scan, 256) /\ FitsIn(s.line_dir, 256)
  /\ {s.reversed_groups, s.reversed_lines, s.gate_phantom, s.arm_at_boot} \subseteq BOOLEAN
  /\ \A f \in DOMAIN s.over : f \in RecordFields /\ FitsIn(s.over[f], 65536)
  /\ \A f \in DOMAIN s.chip_over : f \in RecordFields /\ FitsIn(s.chip_over[f], 65536)

ASSUME PanelAssumption == \A s \in Specs : PanelSpec(s)
ASSUME MaxGensAssumption == MaxGens \in Nat \ {0}

U16(n) == n % 65536

\* The lengths of the regions.
Size == [pack |-> 256, swap |-> 256, tiles |-> 768, anti |-> 4096, map |-> 3 * 4096,
         scan |-> 1024, chip |-> 256]

-----------------------------------------------------------------------------
(* panelspec: what a spec may be, and the vendor's formulas.               *)
Divides(m, n) == IF m = 0 THEN n = 0 ELSE n % m = 0   \* is_multiple_of
StoredHeight(s) == s.height \div 2

Valid(s) ==
  /\ Divides(2, s.height)
  /\ s.width <= 255 /\ StoredHeight(s) <= 255
  /\ Divides(s.width, s.sw) /\ Divides(s.height, s.sh)
  /\ s.scan \in 1 .. s.height
  /\ Divides(s.scan, StoredHeight(s))

CeilDiv(a, b) == (a + b - 1) \div b
Horizontal(s) == s.line_dir >= 2
ExtentInLineDir(s)  == IF Horizontal(s) THEN s.sh ELSE s.sw
ModulesInLineDir(s) == IF Horizontal(s) THEN CeilDiv(s.sh, s.height) ELSE CeilDiv(s.sw, s.width)
ModuleInputCount(s) == Max({1, 16 \div Max({1, IF Horizontal(s) THEN s.width ELSE StoredHeight(s)})})
OneScanLen(s)  == U16(Max({1, (s.width * StoredHeight(s)) \div s.scan}))
CardScanLen(s) == U16(OneScanLen(s) * ModulesInLineDir(s))

-----------------------------------------------------------------------------
(* Record 0x01: defaults, then the spec's fields, then the chip's blocks,   *)
(* then the overrides, the chip library's first.                           *)
Own(s) == [
  module_w |-> s.width, module_h_half |-> StoredHeight(s), scan |-> s.scan, line_dir |-> s.line_dir,
  max_w |-> s.sw, max_h |-> s.sh, serial_clock |-> s.sck, min_oe |-> s.min_oe,
  grid_w |-> 16, grid_h |-> 16, split |-> 0, segments |-> 16, hr_style |-> 0, hr_scan_style |-> 0,
  x02f |-> 0, x043 |-> \h60]

Record01(s) ==
  LET over(f) == IF f \in DOMAIN s.over THEN s.over[f]
                 ELSE IF f \in DOMAIN s.chip_over THEN s.chip_over[f] ELSE Own(s)[f]
  IN [f \in DOMAIN Own(s) |-> over(f)]

\* GetSplitSegment from the code at +0x03E.
SplitSegment(rec) ==
  LET c == rec.split IN
  IF (c \div 4) % 2 = 1 THEN 4 ELSE IF c % 2 = 0 THEN 1 ELSE IF c < 8 THEN 2 ELSE c \div 8

\* Record 0x84, when the chip has a table of registers.
HasRegisters(s) == s.chip = "table"
ChipFails(s)    == s.chip = "bad"

\* Page 0: what the card tiles and times by when the module table is zero.
BasicPack(s, rec) == [
  module  |-> IF Horizontal(s) THEN <<s.width, StoredHeight(s)>> ELSE <<StoredHeight(s), s.width>>,
  modules |-> ModulesInLineDir(s) % 256, scan |-> rec.scan, dir |-> rec.line_dir,
  one_scan_len |-> OneScanLen(s), card_scan_len |-> CardScanLen(s),
  count   |-> ((s.sw \div s.width) * (s.sh \div s.height)) % 256,
  extent  |-> ExtentInLineDir(s), grid |-> <<rec.grid_w, rec.grid_h>>, inputs |-> ModuleInputCount(s)]

-----------------------------------------------------------------------------
(* Record 0x03: per stored pixel, its scan line and its slot in that line.  *)
Columns(s) == 0 .. s.width - 1
Rows(s)    == 0 .. StoredHeight(s) - 1
Groups(s)  == StoredHeight(s) \div s.scan
\* clamp(1, w) panics when there is no w.
RunOf(s)   == IF s.block = 0 THEN s.width ELSE Min({s.block, s.width})
Panics(s)  == s.width = 0

Line(s, row)  == IF s.reversed_lines THEN s.scan - 1 - (row % s.scan) ELSE row % s.scan
Group(s, row) == IF s.reversed_groups THEN Groups(s) - 1 - row \div s.scan ELSE row \div s.scan
\* (Variant: one run per group whatever the block.)
SlotUnblocked(s, row, col) == Group(s, row) * RunOf(s) + (col % RunOf(s))
Slot(s, row, col) ==
  (col \div RunOf(s)) * (Groups(s) * RunOf(s)) + Group(s, row) * RunOf(s) + (col % RunOf(s))
Entries(s) == s.width * StoredHeight(s)

\* to_blob: the length of a record is 16 bits, its header included.
Encodable(s) == 4 + 2 + 3 * Entries(s) <= 65535
\* mapping_from: the card has 4096 entries.
MapFits(s) == Entries(s) <= 4096

-----------------------------------------------------------------------------
(* The module-position table, for the tiles of the grid.                    *)
TilesX(rec) == rec.max_w \div rec.grid_w
TilesY(rec) == rec.max_h \div rec.grid_h
TableGated(rec) ==
  \/ rec.grid_w = 0 \/ rec.grid_h = 0
  \/ ~Divides(rec.grid_w, rec.max_w) \/ ~Divides(rec.grid_h, rec.max_h)
  \/ U16(TilesX(rec) * TilesY(rec)) > 64
  \/ rec.line_dir > 3
CoversAll(rec) ==
  IF rec.line_dir < 2 THEN TilesY(rec) <= 32 /\ TilesX(rec) <= 8
                      ELSE TilesX(rec) <= 32 /\ TilesY(rec) <= 8
SplitFails(rec) == ~TableGated(rec) /\ SplitSegment(rec) # 1

Tiles(rec) == (0 .. TilesY(rec) - 1) \X (0 .. TilesX(rec) - 1)
TileIndex(rec, t) ==
  CASE rec.line_dir = 0 -> <<t[1], TilesX(rec) - 1 - t[2]>>
    [] rec.line_dir = 1 -> <<t[1], t[2]>>
    [] rec.line_dir = 2 -> <<t[2], t[1]>>
    [] rec.line_dir = 3 -> <<TilesX(rec) - 1 - t[2], TilesY(rec) - 1 - t[1]>>
Keep(rec, t) ==
  IF rec.line_dir < 2 THEN t[1] < 32 /\ TileIndex(rec, t)[2] < 8
                      ELSE TileIndex(rec, t)[2] < 8 /\ t[2] < 32
\* The vertical directions drop tiles without leaving holes.
TileSlot(rec, t) ==
  LET rank == t[1] * TilesX(rec) + t[2] IN
  IF rec.line_dir < 2
  THEN Cardinality({u \in Tiles(rec) : Keep(rec, u) /\ u[1] * TilesX(rec) + u[2] < rank})
  ELSE rank
\* The entries, or none when a gate leaves the table zero.
ModulePositions(rec) ==
  IF TableGated(rec) \/ ~CoversAll(rec) THEN {}
  ELSE {[slot |-> TileSlot(rec, t), index |-> TileIndex(rec, t), x |-> rec.grid_w * t[2],
         y |-> rec.grid_h * t[1]] : t \in {u \in Tiles(rec) : Keep(rec, u)}}

-----------------------------------------------------------------------------
(* The scan table: per gray level its number of segments and the slots of   *)
(* the 14-bit field table, put into 16 buckets, the highest level first.    *)
Level == 0 .. 13
Segment == <<1, 1, 1, 1, 1, 1, 1, 1, 2, 2, 4, 8, 8, 16>>
Enabled(level) ==
  CASE level = 0 -> {1} [] level = 1 -> {2} [] level = 2 -> {6} [] level = 3 -> {7}
    [] level = 4 -> {9} [] level = 5 -> {10} [] level = 6 -> {14} [] level = 7 -> {15}
    [] level = 8 -> {5, 13} [] level = 9 -> {3, 11} [] level = 10 -> {0, 4, 8, 12}
    [] level = 11 -> {n \in 0 .. 15 : n % 2 = 0} [] level = 12 -> {n \in 0 .. 15 : n % 2 = 1}
    [] level = 13 -> 16 .. 31   \* as many segments as buckets: the upper half
Bucket(i) == {level \in Level : \E n \in Enabled(level) : n % 16 = i}
\* pos at the start of each bucket.
Before[i \in 0 .. 15] == IF i = 0 THEN 0 ELSE Before[i - 1] + Cardinality(Bucket(i - 1))
BucketRange(i) == <<Before[i], Before[i] + Cardinality(Bucket(i)) - 1>>

\* The tail: the order of the scan lines from +0x3A0, after the ranges from
\* +0x3C0 were written.
LineOrderAt == \h3A0
RangesAt    == \h3C0
RangeIn(rec, i) ==
  LET at == RangesAt + 2 * i - LineOrderAt IN
  [k \in {1, 2} |-> IF at + k - 1 < rec.scan THEN at + k - 1 ELSE BucketRange(i)[k]]

\* The transcribed cases: style 0 with 16 segments, and a line so long that
\* the top level gets all slots (min_oe * 2^e stays under 1.2 lines for the
\* first ten e).
LineTime(s, rec) == CardScanLen(s) * rec.serial_clock * 8
ScanFails(s, rec) ==
  \/ rec.hr_style # 0 \/ rec.segments # 16 \/ rec.hr_scan_style # 0
  \/ rec.min_oe * 16 > 375 * LineTime(s, rec)
\* Line orders longer than the table are indexed past its end.
ScanPanics(s, rec) == ~ScanFails(s, rec) /\ LineOrderAt + rec.scan > Size.scan

-----------------------------------------------------------------------------
(* The image.                                                              *)
Offset == [pack |-> \h0000, swap |-> \h0500, tiles |-> \h0600, chip |-> \h0900, void |-> \h1000,
       columns |-> \h1400, anti |-> \h1800, map |-> \h3000, scan |-> \h6000, rcvbp |-> \h8000]
ZeroRegions == <<
  <<\h0100, \h0500>>, <<\h0A00, \h0C00>>, <<\h0C00, \h0D00>>, <<\h1000, \h1800>>,
  <<\h6800, \h7000>>, <<\h7000, \h8000>>>>

Piece(by, from, to) == [by |-> by, from |-> from, to |-> to]
RegionOf(name) == Piece(name, Offset[name], Offset[name] + Size[name])

\* Positions past the screen the card drives; a slice that ends before it
\* starts or past the image panics.
Real(s) == Max({s.sw, s.width})
PhantomColumns(s) ==
  Piece("columns", Offset.columns + Real(s), Offset.columns + U16(Real(s) + s.width))
ColumnsPanic(s) ==
  s.gate_phantom /\ (PhantomColumns(s).from > PhantomColumns(s).to \/ PhantomColumns(s).to > \h10000)

\* The builder's calls, in the order of from_generated. (Variant: the columns
\* first, which zero_regions then clears.)
StepsColumnsFirst == <<"columns", "zeros", "pack", "swap", "tiles", "anti", "map", "scan">>
Steps == <<"zeros", "pack", "swap", "tiles", "anti", "columns", "map", "scan">>

StepFails(s, step) ==
  \/ step = "tiles" /\ SplitFails(Record01(s))
  \/ step = "map" /\ ~MapFits(s)
  \/ step = "scan" /\ ScanFails(s, Record01(s))
StepPanics(s, step) ==
  \/ step = "columns" /\ ColumnsPanic(s)
  \/ step = "scan" /\ ScanPanics(s, Record01(s))
Placements(s, step) ==
  CASE step = "zeros" -> [i \in DOMAIN ZeroRegions |-> Piece("zeros", ZeroRegions[i][1], ZeroRegions[i][2])]
    [] step = "columns" -> IF s.gate_phantom THEN <<PhantomColumns(s)>> ELSE <<>>
    [] OTHER -> <<RegionOf(step)>>

Unset == "erased"
Holder(image, byte) ==
  LET on == {i \in DOMAIN image : image[i].from <= byte /\ byte < image[i].to}
  IN IF on = {} THEN Unset ELSE image[Max(on)].by
\* The bytes at which the holder can change.
Edges(image) == {image[i].from : i \in DOMAIN image} \cup {image[i].to : i \in DOMAIN image}

\* The packs of send_generated: type 0x05 for the swap and the basic pack, the
\* void table, the tiles, the mapping in 16, void and anti-void lines in 4 and
\* 8 from two places each, the scan table.
Pack(from, len) == [from |-> from, to |-> from + len]
Packs ==
  <<Pack(Offset.swap, 256), Pack(Offset.pack, 256), Pack(\h0100, \h400), Pack(Offset.tiles, 768)>>
  \o [k \in 1 .. 16 |-> Pack(Offset.map + (k - 1) * 768, 768)]
  \o [k \in 1 .. 4 |-> Pack(IF k <= 2 THEN Offset.void + (k - 1) * \h400 ELSE \h6800 + (k - 3) * \h400, \h400)]
  \o [k \in 1 .. 8 |-> Pack(IF k <= 4 THEN Offset.anti + (k - 1) * \h400 ELSE \h7000 + (k - 5) * \h400, \h400)]
  \o <<Pack(Offset.scan, \h400)>>

-----------------------------------------------------------------------------
VARIABLES
  gat,    \* the place in the command
  gcmd,   \* "gen", "push", "chip" (push --chip-only)
  gspec,
  gstep,  \* the builder's calls made
  gimg,   \* the image so far
  gsent,  \* the packs sent
  gchip,  \* the card has the chip pack of this push
  gfiles, \* which run wrote each file of the output directory, 0 if none did
  grun

gvars == <<gat, gcmd, gspec, gstep, gimg, gsent, gchip, gfiles, grun>>
Outputs == {"rcvbp", "basic-pack", "block7", "sources"}

GInit ==
  /\ gat = "spec" /\ gcmd \in {"gen", "push", "chip"} /\ gspec \in Specs
  /\ gstep = 0 /\ gimg = <<>> /\ gsent = 0 /\ gchip = FALSE
  /\ gfiles = [f \in Outputs |-> 0]
  /\ grun = 1

GGoes(here, to) == gat = here /\ gat' = to
GFails(here) == GGoes(here, "failed")

\* generate, and what each command does before there is an image: the file is
\* encoded, the link opened.
Generated ==
  /\ \/ Valid(gspec) /\ ~Panics(gspec) /\ ~ChipFails(gspec)
        /\ IF gcmd = "gen" THEN Encodable(gspec) /\ GGoes("spec", "build") ELSE GGoes("spec", "open")
     \/ Valid(gspec) /\ Panics(gspec) /\ GGoes("spec", "panic")
     \/ (~Valid(gspec) \/ (~Panics(gspec) /\ (ChipFails(gspec) \/ (gcmd = "gen" /\ ~Encodable(gspec)))))
        /\ GFails("spec")
  /\ UNCHANGED <<gcmd, gspec, gstep, gimg, gsent, gchip, gfiles, grun>>

\* The chip pack goes first, whatever becomes of the image.
SendChip ==
  /\ \/ GGoes("open", IF gcmd = "chip" THEN "ok" ELSE "build") /\ gchip' = HasRegisters(gspec)
     \/ GFails("open") /\ UNCHANGED gchip
  /\ UNCHANGED <<gcmd, gspec, gstep, gimg, gsent, gfiles, grun>>

Build ==
  /\ gstep < Len(Steps)
  /\ GGoes("build", "build")
  /\ ~StepFails(gspec, Steps[gstep + 1]) /\ ~StepPanics(gspec, Steps[gstep + 1])
  /\ gimg' = gimg \o Placements(gspec, Steps[gstep + 1])
  /\ gstep' = gstep + 1
  /\ UNCHANGED <<gcmd, gspec, gsent, gchip, gfiles, grun>>

\* config gen goes on without an image, and says so at the end.
BuildFails ==
  /\ gstep < Len(Steps)
  /\ StepFails(gspec, Steps[gstep + 1])
  /\ IF gcmd = "gen" THEN GGoes("build", "write") ELSE GFails("build")
  /\ gimg' = <<>>
  /\ UNCHANGED <<gcmd, gspec, gstep, gsent, gchip, gfiles, grun>>

BuildPanics ==
  /\ gstep < Len(Steps)
  /\ StepPanics(gspec, Steps[gstep + 1])
  /\ GGoes("build", "panic")
  /\ UNCHANGED <<gcmd, gspec, gstep, gimg, gsent, gchip, gfiles, grun>>

\* compile: the chip page when the card is to arm at boot, and the file, with
\* erased flash after it.
Compile ==
  /\ gcmd = "gen" /\ gstep = Len(Steps)
  /\ GGoes("build", "write")
  /\ gimg' = gimg
       \o (IF gspec.arm_at_boot /\ HasRegisters(gspec) THEN <<RegionOf("chip")>> ELSE <<>>)
       \o <<Piece("rcvbp", Offset.rcvbp, \h10000)>>
  /\ UNCHANGED <<gcmd, gspec, gstep, gsent, gchip, gfiles, grun>>

\* gen_config: the files in their order; without an image it stops after two.
WriteOutput ==
  /\ \E f \in Outputs :
       /\ gfiles[f] # grun
       /\ f = "block7" => gimg # <<>>
       /\ CASE f = "rcvbp" -> TRUE [] f = "basic-pack" -> gfiles["rcvbp"] = grun
            [] f = "block7" -> gfiles["basic-pack"] = grun [] f = "sources" -> gfiles["block7"] = grun
       /\ gfiles' = [gfiles EXCEPT ![f] = grun]
  /\ GGoes("write", "write")
  /\ UNCHANGED <<gcmd, gspec, gstep, gimg, gsent, gchip, grun>>
WritesEnd ==
  /\ \/ \A f \in Outputs : gfiles[f] = grun /\ GGoes("write", "ok")
     \/ GFails("write")   \* no image, or a file that cannot be written
  /\ UNCHANGED <<gcmd, gspec, gstep, gimg, gsent, gchip, gfiles, grun>>

SendPack ==
  /\ gcmd = "push" /\ gstep = Len(Steps) /\ gat = "build"
  /\ \/ gsent < Len(Packs) /\ gsent' = gsent + 1 /\ UNCHANGED gat
     \/ gsent = Len(Packs) /\ gat' = "ok" /\ UNCHANGED gsent
     \/ gsent < Len(Packs) /\ gat' = "failed" /\ UNCHANGED gsent
  /\ UNCHANGED <<gcmd, gspec, gstep, gimg, gchip, gfiles, grun>>

\* The same output directory, for another spec of the same name.
GenerateAgain ==
  /\ gat \in {"ok", "failed"} /\ gcmd = "gen" /\ grun < MaxGens
  /\ gat' = "spec" /\ gspec' \in Specs /\ gstep' = 0 /\ gimg' = <<>> /\ grun' = grun + 1
  /\ UNCHANGED <<gcmd, gsent, gchip, gfiles>>

GNext ==
  \/ Generated \/ SendChip \/ Build \/ BuildFails \/ BuildPanics \/ Compile \/ WriteOutput \/ WritesEnd
  \/ SendPack \/ GenerateAgain

-----------------------------------------------------------------------------
Made == gat = "ok" \/ (gat = "build" /\ gstep = Len(Steps))

GTypeOK ==
  /\ gat \in {"spec", "open", "build", "write", "ok", "failed", "panic"}
  /\ gcmd \in {"gen", "push", "chip"} /\ gspec \in Specs
  /\ gstep \in 0 .. Len(Steps) /\ gsent \in 0 .. Len(Packs) /\ gchip \in BOOLEAN
  /\ \A i \in DOMAIN gimg : gimg[i].from < gimg[i].to /\ gimg[i].to <= \h10000
  /\ gfiles \in [Outputs -> 0 .. grun] /\ grun \in 1 .. MaxGens

\* No two pixels of a module share a place in the card's scan lines, each is
\* on a line of the scan, and within the line where the block divides the
\* module's width (mapping.rs, "one run per data group").
PixelsApart(s) ==
  LET place == {<<Line(s, row), Slot(s, row, col)>> : row \in Rows(s), col \in Columns(s)} IN
  /\ Cardinality(place) = Entries(s)
  /\ \A p \in place : p[1] \in 0 .. s.scan - 1
  /\ Divides(RunOf(s), s.width) => \A p \in place : p[2] < OneScanLen(s)

\* The module table describes every tile of the screen once, in a table that
\* holds it, or nothing ("A partial table describes only the last module and
\* blanks the rest", module_pos.rs).
TilesWhole(rec) ==
  LET table == ModulePositions(rec) IN
  table # {} =>
    /\ {<<e.x, e.y>> : e \in table} = {<<rec.grid_w * t[2], rec.grid_h * t[1]>> : t \in Tiles(rec)}
    /\ {e.slot : e \in table} = 0 .. Cardinality(Tiles(rec)) - 1
    /\ Cardinality({e.index : e \in table}) = Cardinality(table)
    /\ 22 + 10 * Cardinality(table) <= Size.tiles

\* The scan table gives every gray level as many slots as its time is divided
\* into, its buckets lie one after the other in the table, and a module of up
\* to 32 scan lines has their ranges in it.
LevelsWhole(rec) ==
  /\ \A level \in Level : Cardinality(Enabled(level)) = Segment[level + 1]
  /\ \A i \in 0 .. 15 : Bucket(i) # {}
  /\ \A i \in 1 .. 15 : BucketRange(i)[1] = BucketRange(i - 1)[2] + 1
  /\ BucketRange(15)[2] < \hE7
  /\ rec.scan <= 32 => \A i \in 0 .. 15 : RangeIn(rec, i) = BucketRange(i)

\* The pack, by which the card tiles when there is no module table, has the
\* screen's extent and the line's length as that many modules of the size it
\* names, unless a number is too large for its bytes or an override turns the
\* line direction after the modules were counted.
PackAgrees(s, pack) ==
  (pack.dir >= 2 <=> Horizontal(s)) /\ ModulesInLineDir(s) < 256 =>
    /\ pack.extent = pack.modules * pack.module[2] * (IF pack.dir >= 2 THEN 2 ELSE 1)
    /\ OneScanLen(s) * ModulesInLineDir(s) < 65536 => pack.card_scan_len = pack.modules * pack.one_scan_len

\* Every pixel of a spec that is accepted has a place of its own on the card:
\* the mapping, the module table and the scan table agree with the geometry
\* (docs/compiled-image-format.md's regions, for every wiring).
EveryPixelHasItsPlace ==
  gstep = 8 /\ gsent = 0 /\ gat = "build" =>
    /\ PixelsApart(gspec) /\ TilesWhole(Record01(gspec)) /\ LevelsWhole(Record01(gspec))
    /\ PackAgrees(gspec, BasicPack(gspec, Record01(gspec)))

\* What from_generated builds is in the image when it is done, in a region of
\* its own: the columns alone cover another step's bytes, the zeros of their
\* table, or more when the screen is too wide for that table. A generation
\* that says ok has all four files of one spec, whatever was in the directory.
\* The packs of a push are slices of regions that were placed, and of nothing
\* that only the boot image has ("so the card gets in RAM exactly what it would
\* boot with", params.rs).
CardGetsTheImage ==
  /\ gat = "ok" /\ gcmd = "gen" => gimg # <<>> /\ \A f \in Outputs : gfiles[f] = grun
  /\ Made /\ gimg # <<>> =>
       /\ \A i, j \in DOMAIN gimg :
            i < j /\ gimg[i].from < gimg[j].to /\ gimg[j].from < gimg[i].to =>
              \/ gimg[i].by = "zeros" /\ gimg[j].by = "columns"
              \/ "columns" \in {gimg[i].by, gimg[j].by} /\ Real(gspec) + gspec.width > \h400
       /\ gspec.gate_phantom =>
            \A x \in Edges(gimg) : Holder(gimg, x) = "columns" => x - Offset.columns >= gspec.sw
       /\ \A k \in DOMAIN Packs :
            \A x \in {Packs[k].from} \cup {e \in Edges(gimg) : Packs[k].from < e /\ e < Packs[k].to} :
              Holder(gimg, x) \notin {Unset, "chip", "rcvbp"}

=============================================================================
