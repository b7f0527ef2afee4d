-------------------------------- MODULE Rcvbp --------------------------------
(***************************************************************************)
(* Configuration files (crates/rcvbp lib.rs, spec/import.rs; crates/ops    *)
(* config.rs): the records of a .rcvbp as the stream that is stored, a file *)
(* composed of two others (`config build`), and the spec that is read back  *)
(* from a file (`config import`).                                           *)
(*                                                                         *)
(* A stream is a sequence of cells: per record its size, its two type bytes *)
(* and its payload, the size (two bytes in the code) with an empty cell     *)
(* after it so that offsets are the code's.                                 *)
(***************************************************************************)
EXTENDS PanelImage

Seqs == INSTANCE SequencesExt

CONSTANTS
  RecordLists,  \* the contents of the files there are, as lists of records
  Cuts,         \* how many cells the end of a file may lack
  Copies,       \* the lists of types that are asked for with --copy
  Drops,        \* ... and with --remove
  Sources,      \* the specs whose files are imported
  Library       \* chip id -> the record 0x01 overrides of its library

ASSUME SourcesAssumption == \A s \in Sources : PanelSpec(s)
ASSUME RecordListsAssumption == \A l \in RecordLists : l \in Seq([type : Nat, payload : Seq(Nat)])
ASSUME TypesAssumption == Cuts \subseteq Nat /\ Copies \subseteq Seq(Nat) /\ Drops \subseteq Seq(Nat)

\* Records: a type and a payload; 0x0aca is the geometry that comes last.
Geometry == 10
Rec(type, payload) == [type |-> type, payload |-> payload]
Types(list) == {list[i].type : i \in DOMAIN list}

-----------------------------------------------------------------------------
(* The stream. *)
Header == 4
ToBlob(list) ==
  Seqs!FlattenSeq([i \in DOMAIN list |->
    <<Len(list[i].payload) + Header, 0, 0, list[i].type>> \o list[i].payload])

\* What a file that is refused has for records: one of a type there is not.
Broken == <<Rec(-1, <<>>)>>
\* parse_records: the records from an offset on.
ParseRecords(blob, slack) ==
  LET from[off \in 0 .. Len(blob)] ==
        IF off + Header + slack > Len(blob)
        THEN IF Len(blob) - off > slack THEN Broken ELSE <<>>
        ELSE LET size == blob[off + 1] IN
             IF size < Header \/ off + size > Len(blob) THEN Broken
             ELSE IF from[off + size] = Broken THEN Broken
             ELSE <<Rec(blob[off + 4], SubSeq(blob, off + 5, off + size))>> \o from[off + size]
  IN from[0]

\* A file: the compressed variant has the length of its stream in its header,
\* the legacy one a trailer of four bytes after it.
Trailer == <<0, 0, 0, 0>>
ToFile(list) == [variant |-> "compressed", blob |-> ToBlob(list), raw_len |-> Len(ToBlob(list))]
Legacy(list) == [variant |-> "legacy", blob |-> ToBlob(list) \o Trailer, raw_len |-> 0]
Cut(file, n) == [file EXCEPT !.blob = SubSeq(@, 1, Len(@) - n)]

\* from_bytes. (Variant: a legacy file has no trailer.)
FromBytesNoSlack(file) ==
  IF file.variant = "compressed" /\ Len(file.blob) # file.raw_len THEN Broken
  ELSE ParseRecords(file.blob, 0)
FromBytes(file) ==
  IF file.variant = "compressed"
  THEN IF Len(file.blob) # file.raw_len THEN Broken ELSE ParseRecords(file.blob, 0)
  ELSE ParseRecords(file.blob, Len(Trailer))

\* The place of the first record of a type, 0 when there is none.
FirstOf(list, type) ==
  LET of == {i \in DOMAIN list : list[i].type = type} IN IF of = {} THEN 0 ELSE Min(of)

\* upsert: in place, else before the geometry, else at the end.
Upserted(list, type, payload) ==
  LET i == FirstOf(list, type)  g == FirstOf(list, Geometry) IN
  IF i # 0 THEN [list EXCEPT ![i].payload = payload]
  ELSE IF g # 0 THEN Seqs!InsertAt(list, g, Rec(type, payload))
  ELSE Append(list, Rec(type, payload))
\* The records of some types, in their order.
Kept(list, types) ==
  LET kept[n \in 0 .. Len(list)] ==
        IF n = 0 THEN <<>>
        ELSE IF list[n].type \in types THEN Append(kept[n - 1], list[n]) ELSE kept[n - 1]
  IN kept[Len(list)]
Removed(list, type) == Kept(list, Types(list) \ {type})

-----------------------------------------------------------------------------
(* Import: the records a spec generates, and the spec of some records.      *)
MapTable(s) == [p \in Rows(s) \X Columns(s) |-> <<Line(s, p[1]), Slot(s, p[1], p[2])>>]

\* generate and assemble: record 0x01 with the chip's id, 0x03, 0x84 with the
\* scan patched in, 0xCA; the other records are constant.
Generate1(s) == [
  main     |-> [f \in DOMAIN Own(s) \cup {"chip"} |-> IF f = "chip" THEN s.chip ELSE Record01(s)[f]],
  map      |-> MapTable(s),
  regs     |-> IF HasRegisters(s) THEN <<s.scan - 1>> ELSE <<>>,
  geometry |-> <<s.width, StoredHeight(s)>>,
  constant |-> 0]

Carried == {"x02f", "x043"}
\* The candidates in the order they are tried: w, w/2, w/4, w/8 as long as
\* there is a block, each with reversed groups and without, each of those with
\* lines from the top and reversed.
RunsOf(w) == {k \in 0 .. 3 : w \div 2^k > 0}
Candidates(w) ==
  [i \in 1 .. 4 * Cardinality(RunsOf(w)) |->
    [block |-> w \div 2^((i - 1) \div 4), groups |-> ((i - 1) \div 2) % 2 = 0, lines |-> i % 2 = 0]]
WithMapping(s, m) ==
  [s EXCEPT !.block = m.block, !.reversed_groups = m.groups, !.reversed_lines = m.lines]
\* fit_mapping: the first that gives the table; when none does the last one
\* tried stays in the spec.
Fitting(s, table) == {i \in DOMAIN Candidates(s.width) : MapTable(WithMapping(s, Candidates(s.width)[i])) = table}
Fits(s, table) == Fitting(s, table) # {}
FitMapping(s, table) ==
  LET all == Candidates(s.width)
      m   == all[IF Fits(s, table) THEN Min(Fitting(s, table)) ELSE Len(all)]
  IN IF all = <<>> THEN s
     ELSE IF Fits(s, table) /\ m.block = s.width THEN [WithMapping(s, m) EXCEPT !.block = 0]
     ELSE WithMapping(s, m)

NoOverrides == [f \in {} |-> 0]
\* Record 0x01, field by field; what is not in the file is at its default.
SpecOf(file) ==
  LET v == file.main IN [
  width |-> v.module_w, height |-> 2 * v.module_h_half, scan |-> v.scan, line_dir |-> v.line_dir,
  sw |-> v.max_w, sh |-> v.max_h, block |-> 0, reversed_groups |-> TRUE, reversed_lines |-> FALSE,
  gate_phantom |-> TRUE, arm_at_boot |-> FALSE, chip |-> v.chip, min_oe |-> v.min_oe,
  sck |-> v.serial_clock, over |-> NoOverrides,
  chip_over |-> IF v.chip \in DOMAIN Library THEN Library[v.chip] ELSE NoOverrides]

\* reconcile: the bytes that are carried become overrides. (Variant: the spec
\* keeps those it was fitted with.)
ReconciledNot(spec, file) == spec
Reconciled(spec, file) ==
  LET ours == Generate1(spec).main
      off  == {f \in Carried : ours[f] # file.main[f]}
  IN [spec EXCEPT !.over = [f \in off |-> file.main[f]]]
\* ... and everything else that differs is named.
Named(spec, file) ==
  LET ours == Generate1(spec) IN
  {f \in DOMAIN ours.main \ Carried : ours.main[f] # file.main[f]}
  \cup {r \in {"map", "regs", "geometry", "constant"} : ours[r] # file[r]}

\* The records are compared when there is a library for the chip with which
\* they are generated; "module" and the like are named where it stops before.
Imported(file) ==
  LET plain  == SpecOf(file)
      fitted == IF Valid(plain) THEN FitMapping(plain, file.map) ELSE plain
      lost   == IF ~Valid(plain) THEN {"module", "mapping", "over"}
                ELSE (IF Fits(plain, file.map) THEN {} ELSE {"mapping"})
                       \cup (IF file.main.chip \notin DOMAIN Library THEN {"library", "over"}
                             ELSE IF ChipFails(fitted) THEN {"over"} ELSE {})
  IN IF lost \subseteq {"mapping"}
     THEN [spec |-> Reconciled(fitted, file), named |-> lost \cup Named(fitted, file), generated |-> TRUE]
     ELSE [spec |-> fitted, named |-> lost, generated |-> FALSE]
\* Generating the records of a spec without a width panics.
ImportPanics(file) ==
  LET plain == SpecOf(file) IN Valid(plain) /\ file.main.chip \in DOMAIN Library /\ Panics(plain)

-----------------------------------------------------------------------------
VARIABLES
  bat,   \* the place in the command
  bbase, bsrc,   \* config build: the two files, with the list they are made of
  bcopy, bdrop,  \* the types left to copy and to remove
  basked,        \* the types asked for, as they were given
  bcfg,  \* the records, as they stand
  bout,  \* the file that was written
  bin, bspec     \* config import: the file's records, and what came of them

filevars == <<bat, bbase, bsrc, bcopy, bdrop, basked, bcfg, bout, bin, bspec>>

StoredFiles ==
  UNION {{[list |-> l, whole |-> n = 0, file |-> Cut(f, n)] : n \in Cuts, f \in {ToFile(l), Legacy(l)}}
           : l \in RecordLists}
\* What a spec generates, and the same edited by another tool: bytes that are
\* carried and one that is not, a wiring no block gives, other registers, a
\* chip without a library or with one that fails, a width of 0.
FilesOf(s) ==
  LET own == Generate1(s) IN
  {own, [own EXCEPT !.regs = <<0, 0>>], [own EXCEPT !.main.grid_w = 32, !.main.x02f = 1],
   [own EXCEPT !.main.x043 = 1, !.geometry = <<1, 1>>], [own EXCEPT !.map[<<0, 0>>] = <<0, 0>>, !.constant = 1],
   [own EXCEPT !.main.chip = "unknown"], [own EXCEPT !.main.chip = "bad"],
   [own EXCEPT !.main.module_w = 0, !.main.max_w = 0]}
ImportFiles == UNION {FilesOf(s) : s \in Sources}

EmptyFile == ToFile(<<>>)
NoRecords == Generate1(CHOOSE s \in Sources : TRUE)
FileInit ==
  /\ bat \in {"load", "import"}
  /\ IF bat = "load"
     THEN /\ bbase \in StoredFiles /\ bsrc \in StoredFiles
          /\ bcopy \in Copies /\ bdrop \in Drops
          /\ bin = NoRecords
     ELSE /\ bbase = [list |-> <<>>, whole |-> TRUE, file |-> EmptyFile] /\ bsrc = bbase
          /\ bcopy = <<>> /\ bdrop = <<>> /\ bin \in ImportFiles
  /\ basked = [copy |-> bcopy, drop |-> bdrop]
  /\ bcfg = <<>> /\ bout = EmptyFile
  /\ bspec = [spec |-> SpecOf(bin), named |-> {}, generated |-> FALSE]

BGoes(here, to) == bat = here /\ bat' = to
bfixed == <<bbase, bsrc, basked, bin>>

\* The base, then the other file if anything is copied from it.
LoadBase ==
  LET list == FromBytes(bbase.file) IN
  /\ \/ list # Broken /\ BGoes("load", "source") /\ bcfg' = list
     \/ list = Broken /\ BGoes("load", "unread") /\ UNCHANGED bcfg
  /\ UNCHANGED <<bcopy, bdrop, bout, bspec, bfixed>>

LoadSource ==
  /\ \/ bcopy = <<>> /\ BGoes("source", "remove")
     \/ bcopy # <<>> /\ BGoes("source", IF FromBytes(bsrc.file) = Broken THEN "unread" ELSE "copy")
  /\ UNCHANGED <<bcopy, bdrop, bcfg, bout, bspec, bfixed>>

CopyRecord ==
  /\ bat = "copy" /\ bcopy # <<>>
  /\ LET src == FromBytes(bsrc.file)
         i   == FirstOf(src, Head(bcopy)) IN
     \/ /\ i # 0
        /\ bcfg' = Upserted(bcfg, Head(bcopy), src[i].payload)
        /\ bcopy' = Tail(bcopy)
        /\ UNCHANGED bat
     \/ i = 0 /\ BGoes("copy", "failed") /\ UNCHANGED <<bcfg, bcopy>>
  /\ UNCHANGED <<bdrop, bout, bspec, bfixed>>

Copied ==
  /\ bcopy = <<>> /\ BGoes("copy", "remove")
  /\ UNCHANGED <<bcopy, bdrop, bcfg, bout, bspec, bfixed>>

\* A type that is not there is warned about.
RemoveRecord ==
  /\ bat = "remove" /\ bdrop # <<>>
  /\ bcfg' = Removed(bcfg, Head(bdrop)) /\ bdrop' = Tail(bdrop)
  /\ UNCHANGED <<bat, bcopy, bout, bspec, bfixed>>

Save ==
  /\ bdrop = <<>>
  /\ \/ BGoes("remove", "back") /\ bout' = ToFile(bcfg)
     \/ BGoes("remove", "failed") /\ UNCHANGED bout
  /\ UNCHANGED <<bcopy, bdrop, bcfg, bspec, bfixed>>

\* "Read it straight back so a broken file never reaches the card."
ReadBack ==
  LET back == FromBytes(bout) IN
  /\ BGoes("back", IF back # Broken /\ Len(back) = Len(bcfg) THEN "ok" ELSE "failed")
  /\ UNCHANGED <<bcopy, bdrop, bcfg, bout, bspec, bfixed>>

\* The spec is written, or cannot be.
Import ==
  /\ \/ ~ImportPanics(bin) /\ BGoes("import", "imported") /\ bspec' = Imported(bin)
     \/ ~ImportPanics(bin) /\ BGoes("import", "unwritten") /\ UNCHANGED bspec
     \/ ImportPanics(bin) /\ BGoes("import", "panic") /\ UNCHANGED bspec
  /\ UNCHANGED <<bcopy, bdrop, bcfg, bout, bfixed>>

FileNext ==
  LoadBase \/ LoadSource \/ CopyRecord \/ Copied \/ RemoveRecord \/ Save \/ ReadBack \/ Import

-----------------------------------------------------------------------------
FileTypeOK ==
  /\ bat \in {"load", "source", "copy", "remove", "back", "ok", "failed", "unread", "import", "imported",
       "unwritten", "panic"}
  /\ \A i \in DOMAIN bcfg : bcfg[i].type \in UNION {Types(l) : l \in RecordLists}
  /\ bspec.named \subseteq DOMAIN Own(bspec.spec) \cup
       {"chip", "map", "regs", "geometry", "constant", "module", "mapping", "over", "library"}

FirstPayload(list, type) == list[FirstOf(list, type)].payload
Asked(seq) == {seq[i] : i \in DOMAIN seq}
TypesOf(list) == [i \in DOMAIN list |-> list[i].type]
Order(list, types) == TypesOf(Kept(list, types))

\* What was composed: every record of the base that was not removed, in its
\* order, those asked for from the other file in its place or new, and the
\* geometry at the end where vendor files have it (upsert's comment).
Composed ==
  LET base == FromBytes(bbase.file)
      copy == Asked(basked.copy)  drop == Asked(basked.drop) IN
  /\ Types(bcfg) = (Types(base) \cup copy) \ drop
  /\ Order(bcfg, Types(base)) = Order(base, Types(base) \ drop)
  /\ \A t \in Types(bcfg) :
       FirstPayload(bcfg, t) = FirstPayload(IF t \in copy THEN FromBytes(bsrc.file) ELSE base, t)
  /\ Geometry \in Types(bcfg) /\ (Geometry \in Types(base) => Seqs!Last(base).type = Geometry)
       => Seqs!Last(bcfg).type = Geometry

\* A file reads back as the records it was made of, in both variants, or not
\* at all; a legacy file that lacks its end may read as fewer of them, never
\* as others. A file that config build calls good reads back as what was
\* composed.
FilesReadBack ==
  /\ bat = "source" => bcfg = bbase.list \/ (~bbase.whole /\ bbase.file.variant = "legacy"
                                             /\ Seqs!IsPrefix(bcfg, bbase.list))
  /\ bat = "unread" => ~bbase.whole \/ ~bsrc.whole
  /\ bat = "ok" => FromBytes(bout) = bcfg /\ Composed

\* Import names every record, and every byte of record 0x01, in which the file
\* regenerated from its spec is not the one that was read, and no other
\* ("whatever the regenerated file still differs in is reported by name rather
\* than guessed", import.rs).
ImportNamesTheRest ==
  bat = "imported" /\ bspec.generated =>
    LET again == Generate1(bspec.spec) IN
    /\ bspec.named \ {"mapping"} =
         {f \in DOMAIN again.main : again.main[f] # bin.main[f]}
         \cup {r \in DOMAIN again \ {"main"} : again[r] # bin[r]}
    /\ "mapping" \in bspec.named <=> "map" \in bspec.named
=============================================================================
