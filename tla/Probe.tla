-------------------------------- MODULE Probe --------------------------------
(***************************************************************************)
(* Which card it is (ops::capture::discover_one, ops::model), what its model  *)
(* file says of its flash (receivers), and `rxp card probe`, which checks     *)
(* that by reading: discovery, the heads of the banks, the parameter block,   *)
(* the EEPROM mirror.                                                       *)
(***************************************************************************)
EXTENDS Naturals

CONSTANTS
  Ids,     \* discovery's id bytes
  Models   \* the model files: records of the fields read here

\* A model: its id byte (or NoId) and the largest screen it drives.
NoId == 0

ASSUME ProbeAssumption ==
  /\ NoId \notin Ids
  /\ Models \subseteq [id : Ids \cup {NoId}, max : Nat]
  /\ \A m, o \in Models : m.id = o.id /\ m.id # NoId => m = o

\* by_id: a model file without an id matches nothing.
ById(id) == {m \in Models : m.id = id /\ m.id # NoId}

Heads    == {"primary", "golden"}
Regions  == {"pack", "rcvbp", "mapping", "scan", "chip", "mirror"}
\* "whole" as compiled, "erased", or "damaged": neither.
Contents == {"whole", "erased", "damaged"}
States   == {"ok", "mismatch", "unchecked"}

VARIABLES
  \* the card
  id, size, heads, regions,
  record,   \* does the embedded file agree with the pack, has it chip registers
  answers,  \* are the answers to its reads as long as they should be
  \* the command
  named,    \* the model --card or the daemon's setting names, if any
  model,    \* the one it works with
  phase,    \* "discover", "read", "report", "failed"
  report    \* by claim: its state

pvars == <<id, size, heads, regions, record, answers, named, model, phase, report>>

BlockClaims == {"pack against record"} \cup Regions
Claims == {"id", "size", "block"} \cup Heads \cup BlockClaims
None   == {}

PInit ==
  /\ id \in Ids /\ size \in 0 .. 1
  /\ heads \in [Heads -> BOOLEAN]
  /\ regions \in [Regions -> Contents]
  /\ record \in [agrees : BOOLEAN, chip_regs : BOOLEAN] /\ answers \in BOOLEAN
  /\ named \in {None} \cup {{m} : m \in Models}
  /\ model = None
  /\ phase = "discover"
  /\ report = [c \in Claims |-> "unchecked"]

\* discover_one, then the named model or the one of the reply's id; no answer,
\* or an id of no model, is an error.
Discover ==
  /\ phase = "discover"
  /\ model' = IF named # None THEN named ELSE ById(id)
  /\ phase' \in {"failed", IF model' = None THEN "failed" ELSE "read"}
  /\ UNCHANGED <<id, size, heads, regions, record, answers, named, report>>

\* A read stays without an answer.
ReadFails ==
  /\ phase = "read" /\ phase' = "failed"
  /\ UNCHANGED <<id, size, heads, regions, record, answers, named, model, report>>

Of(ok) == IF ok THEN "ok" ELSE "mismatch"

\* The pack has a marker and a checksum, the embedded file a length and a
\* parser; of the mapping and the scan table a read can only tell that they are
\* not erased; a mirror may hold anything that does not look erased.
Checkable(r) == r \in {"pack", "rcvbp"}

\* check_block and the checks before it. The chip page may be erased, and is
\* compared with the record in the embedded file, when that parses. (Variant:
\* an erased region is unchecked.)
RegionErasedUnchecked(r) ==
  IF regions[r] = "erased" THEN "unchecked"
  ELSE Of(Checkable(r) => regions[r] = "whole")
ChipRegs == regions["rcvbp"] = "whole" /\ record.chip_regs
ChipPage ==
  IF regions["chip"] = "erased" THEN "ok"
  ELSE IF ChipRegs THEN Of(regions["chip"] = "whole") ELSE "unchecked"
Region(r) ==
  CASE r = "chip"   -> ChipPage
    [] Checkable(r) -> Of(regions[r] = "whole")
    [] OTHER        -> Of(regions[r] # "erased")

\* check_discovery, check_banks and what check_block compares.
Compared(m, c) ==
  CASE c = "block"  -> Of(answers)
    [] c = "id"     -> IF m.id = NoId THEN "unchecked" ELSE Of(m.id = id)
    [] c = "size"   -> Of(size <= m.max)
    [] c \in Heads  -> Of(heads[c])
    [] c = "pack against record" ->
         IF regions["pack"] = "whole" /\ regions["rcvbp"] = "whole"
         THEN Of(record.agrees) ELSE "unchecked"
    [] OTHER        -> Region(c)

\* An answer of another length leaves nothing to compare.
Claim(m, c) == IF ~answers /\ c \in BlockClaims THEN "unchecked" ELSE Compared(m, c)

CheckClaims ==
  /\ phase = "read" /\ phase' = "report"
  /\ \E m \in model : report' = [c \in Claims |-> Claim(m, c)]
  /\ UNCHANGED <<id, size, heads, regions, record, answers, named, model>>

PNext == Discover \/ ReadFails \/ CheckClaims

Mismatches == {c \in Claims : report[c] = "mismatch"}

-----------------------------------------------------------------------------
(* Properties.                                                              *)

\* Every variable holds a value of its type.
PTypeOK ==
  /\ id \in Ids /\ size \in 0 .. 1
  /\ heads \in [Heads -> BOOLEAN]
  /\ regions \in [Regions -> Contents]
  /\ record \in [agrees : BOOLEAN, chip_regs : BOOLEAN] /\ answers \in BOOLEAN
  /\ named \subseteq Models /\ model \subseteq Models
  /\ phase \in {"discover", "read", "report", "failed"}
  /\ report \in [Claims -> States]

\* A probe without a mismatch means a card that can be driven with the model: no
\* bank without a bitstream, nothing erased but the chip page, no damage where a
\* read can tell. And every mismatch has a cause on the card or in the choice of
\* the model: a card discovered and provisioned as the model says has none.
ReportIsTrue ==
  phase = "report" =>
    /\ Mismatches = {} =>
         /\ answers
         /\ heads["primary"] /\ heads["golden"]
         /\ \A r \in Regions \ {"chip"} : regions[r] # "erased"
         /\ regions["pack"] = "whole" /\ regions["rcvbp"] = "whole" /\ record.agrees
         /\ regions["chip"] = "damaged" => ~record.chip_regs
    /\ Mismatches # {} =>
         \/ named # None \/ ~heads["primary"] \/ ~heads["golden"]
         \/ \E r \in Regions : regions[r] # "whole"
         \/ ~answers \/ ~record.agrees
         \/ \A m \in model : size > m.max

=============================================================================
