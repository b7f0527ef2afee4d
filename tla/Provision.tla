------------------------------ MODULE Provision ------------------------------
(***************************************************************************)
(* `rxp provision --commit` (crates/ops): snapshot, firmware, configuration,*)
(* EEPROM records, verification, on a chain of cards; run again after an    *)
(* earlier run stopped anywhere.                                           *)
(*                                                                         *)
(* Firmware and flash frames carry receiver index 0, the SDRAM upgrade      *)
(* broadcasts, and the EEPROM frames carry --index or broadcast. The steps  *)
(* that are programs of their own (rewrite_block is the module RewriteBlock) *)
(* are one action here, with every result they can leave on the card. The   *)
(* program may stop before any step: cancelled, failed or killed.           *)
(***************************************************************************)
EXTENDS Naturals

CONSTANTS
  N,        \* cards on the chain
  MaxRuns,  \* bound: runs of the command
  Fresh     \* does every run name a new snapshot directory, as the default does

ASSUME NAssumption == N \in Nat \ {0}
ASSUME MaxRunsAssumption == MaxRuns \in Nat
ASSUME FreshAssumption == Fresh \in BOOLEAN

Cards     == 0 .. N - 1
Broadcast == N
Dirs      == 1 .. MaxRuns
NoDir     == 0

\* The blocks of the primary bank, but the parameter block: those 16.53 keeps
\* from the host path and the others.
Parts    == {"guarded", "host"}
Releases == {"old", "new"}
Images   == Releases \cup {"junk"}
Versions == Releases \cup {"golden"}

\* The control area (at 0x002), and the other EEPROM records.
Records == {"area", "rest"}
Values  == {"old", "new", "erased"}
Nothing == [r \in Records |-> "erased"]

VARIABLES
  \* the cards
  bank,     \* the firmware bank
  running,  \* the version a card was started on
  config,   \* the parameter block
  records,  \* the EEPROM records as the card reads them, in block 7's mirror
  \* the disk
  disk,     \* by snapshot directory: the records in its primary-region.bin, if any
  \* the command
  runs,
  pc,
  index,    \* the receiver index the EEPROM frames carry
  fw,       \* --firmware: "none", "named", "auto"
  want,     \* the image it names or the ranking picks
  dir,
  before,   \* the records read in step 3
  todo,     \* the records of step 5 still to be written
  result,
  \* history
  atStart,  \* the records of the cards when the run started
  missed    \* did the card miss a record write of this run

cards   == <<bank, running, config, records>>
args    == <<runs, index, fw, want, dir, atStart>>
locals  == <<before, todo, missed>>
vars    == <<cards, disk, args, locals, pc, result>>

Whole(b, v) == \A p \in Parts : b[p] = v

Init ==
  /\ bank = [c \in Cards |-> [p \in Parts |-> "old"]]
  /\ running = [c \in Cards |-> "old"]
  /\ config = [c \in Cards |-> "old"]
  /\ records = [c \in Cards |-> [r \in Records |-> "old"]]
  /\ disk = [d \in Dirs |-> {}]
  /\ runs = 0
  /\ pc = "stopped"
  /\ index = Broadcast
  /\ fw = "none"
  /\ want = "new"
  /\ dir = NoDir
  /\ before = Nothing
  /\ todo = {}
  /\ result = "none"
  /\ atStart = records
  /\ missed = FALSE

Goto(from, to) == pc = from /\ pc' = to

-----------------------------------------------------------------------------
\* A power-cycle loads the bank, or the golden one if the bank is not whole. It
\* is done between runs, or when the command asks for it. (external)
Boots(b) ==
  IF Whole(b, "new") THEN "new" ELSE IF Whole(b, "old") THEN "old" ELSE "golden"

PowerCycle ==
  /\ pc \in {"wait", "stopped"}
  /\ running' = [c \in Cards |-> Boots(bank[c])]
  /\ UNCHANGED <<bank, config, records, disk, args, locals, pc, result>>

\* The command stops short: the flag is seen, a step fails, it is killed.
Stop ==
  /\ pc # "stopped"
  /\ pc' = "stopped"
  /\ result' = "failed"
  /\ UNCHANGED <<cards, disk, args, locals>>

-----------------------------------------------------------------------------
\* A card's index in frames is its position in the chain.
Rcv(i) == i

\* The arguments, discovery and the plan; more than one card needs --index.
Start ==
  /\ Goto("stopped", "snapshot")
  /\ runs < MaxRuns
  /\ runs' = runs + 1
  /\ \E i \in Cards \cup {Broadcast} :
       /\ N > 1 => i # Broadcast
       /\ index' = Rcv(i)
  /\ fw' \in {"none", "named", "auto"}
  /\ want' \in Releases
  /\ IF Fresh THEN dir' = runs' ELSE dir' \in Dirs
  /\ before' = Nothing /\ todo' = {} /\ missed' = FALSE
  /\ result' = "none"
  /\ atStart' = records
  /\ UNCHANGED <<cards, disk>>

\* [1/5] (Variant: left out.)
SnapshotSkipped ==
  /\ Goto("snapshot", "firmware")
  /\ UNCHANGED <<cards, disk, args, locals, result>>
Snapshot ==
  /\ Goto("snapshot", "firmware")
  /\ disk' = [disk EXCEPT ![dir] = {records[0]}]
  /\ UNCHANGED <<cards, args, locals, result>>

\* [2/5] Without --firmware, or when `auto` picks what the card runs, nothing is
\* installed; nor when the bank already holds the image.
NotAsked == fw = "none" \/ (fw = "auto" /\ running[0] = want)

SkipFirmware ==
  /\ Goto("firmware", "read")
  /\ NotAsked \/ Whole(bank[0], want)
  /\ UNCHANGED <<cards, disk, args, locals, result>>

\* upgrade::install, broadcast: every card programs its guarded blocks from what
\* reached its SDRAM, which may be a mix of the image and what was there before,
\* or keeps them if it missed the request.
SelfProgram ==
  /\ Goto("firmware", "host")
  /\ ~NotAsked /\ ~Whole(bank[0], want)
  /\ \E image \in [Cards -> Images] :
       /\ \A c \in Cards : image[c] \in {want, "junk", bank[c]["guarded"]}
       /\ bank' = [c \in Cards |-> [bank[c] EXCEPT !["guarded"] = image[c]]]
  /\ UNCHANGED <<running, config, records, disk, args, locals, result>>

\* flash_firmware for the blocks that differ and that the running firmware does
\* not guard; no frame of it is acknowledged either.
Guarded == IF running[0] = "golden" THEN {} ELSE {"guarded"}

HostWritten(p) ==
  IF p \in Guarded \/ bank[0][p] = want THEN {bank[0][p]}
  ELSE {want, "junk", bank[0][p]}

\* The whole bank is read once more. (Variant: without.)
BankUnverified(b) == TRUE
BankVerified(b) == Whole(b, want)

HostWrite ==
  /\ pc = "host"
  /\ \E b \in [Parts -> Images] :
       /\ \A p \in Parts : b[p] \in HostWritten(p)
       /\ bank' = [bank EXCEPT ![0] = b]
       /\ \/ BankVerified(b) /\ pc' = "wait" /\ UNCHANGED result
          \/ ~BankVerified(b) /\ pc' = "stopped" /\ result' = "failed"
  /\ UNCHANGED <<running, config, records, disk, args, locals>>

\* wait_for_version; the time-out is Stop.
Waited ==
  /\ Goto("wait", "read")
  /\ running[0] = want
  /\ UNCHANGED <<cards, disk, args, locals, result>>

\* [3/5] (Variant: after block 7 was written.)
ReadRecordsTooLate ==
  /\ Goto("read", "config")
  /\ before' = Nothing
  /\ UNCHANGED <<cards, disk, args, todo, missed, result>>
ReadRecords ==
  /\ Goto("read", "config")
  /\ before' = records[0]
  /\ UNCHANGED <<cards, disk, args, todo, missed, result>>

\* looks_erased: an empty window, or mostly 0xff.
LooksErased(r) == r["area"] = "erased" \/ r["rest"] = "erased"

\* rewrite_block's verdict.
BlockVerified(c) == c = "new"

\* [4/5] restore_flash writes the block, leaves it with holes, or as it was if
\* the card missed the lot; an erase the card did not miss takes the EEPROM
\* mirror along.
WriteConfig ==
  /\ pc = "config"
  /\ records' \in {records, [records EXCEPT ![0] = Nothing]}
  /\ \E c \in {"new", "junk", config[0]} :
       /\ config' = [config EXCEPT ![0] = c]
       /\ \/ /\ BlockVerified(c)
             /\ pc' = "write"
             /\ todo' = IF LooksErased(before) THEN {"area"} ELSE Records
             /\ UNCHANGED result
          \/ /\ ~BlockVerified(c)
             /\ pc' = "stopped" /\ result' = "failed"
             /\ UNCHANGED todo
  /\ UNCHANGED <<bank, running, disk, args, before, missed>>

\* [5/5] eeprom_writes: a record to the cards its frame addresses, each of which
\* may miss it. (The save after the last one carries the same index: a card that
\* misses it keeps none of them, as if it had missed them all.)
Addressed == IF index = Broadcast THEN Cards ELSE Cards \cap {index}
Written(r) == IF r = "area" THEN "new" ELSE before[r]

WriteRecord(r) ==
  /\ pc = "write" /\ r \in todo
  /\ todo' = todo \ {r}
  /\ \E got \in SUBSET Addressed :
       /\ records' = [c \in Cards |->
            IF c \in got THEN [records[c] EXCEPT ![r] = Written(r)] ELSE records[c]]
       /\ missed' = (missed \/ got # Addressed)
  /\ UNCHANGED <<bank, running, config, disk, args, before, pc, result>>

\* The control area is read back from card 0.
AreaVerified == records[0]["area"] = "new"

Verify ==
  /\ Goto("write", "stopped")
  /\ todo = {}
  /\ result' = IF AreaVerified THEN "ok" ELSE "failed"
  /\ UNCHANGED <<cards, disk, args, locals>>

Next ==
  \/ PowerCycle \/ Stop
  \/ Start \/ Snapshot
  \/ SkipFirmware \/ SelfProgram \/ HostWrite \/ Waited
  \/ ReadRecords \/ WriteConfig
  \/ \E r \in Records : WriteRecord(r)
  \/ Verify

Spec == Init /\ [][Next]_vars

-----------------------------------------------------------------------------
(* Properties.                                                              *)

\* Every variable holds a value of its type.
TypeOK ==
  /\ bank \in [Cards -> [Parts -> Images]]
  /\ running \in [Cards -> Versions]
  /\ config \in [Cards -> Images]
  /\ records \in [Cards -> [Records -> Values]]
  /\ disk \in [Dirs -> SUBSET [Records -> Values]]
  /\ runs \in 0 .. MaxRuns
  /\ pc \in {"stopped", "snapshot", "firmware", "host", "wait", "read", "config",
             "write"}
  /\ index \in Cards \cup {Broadcast}
  /\ fw \in {"none", "named", "auto"}
  /\ want \in Releases
  /\ dir \in Dirs \cup {NoDir}
  /\ before \in [Records -> Values]
  /\ todo \in SUBSET Records
  /\ result \in {"none", "ok", "failed"}
  /\ atStart \in [Cards -> [Records -> Values]]
  /\ missed \in BOOLEAN

\* "Fails at the first step whose result cannot be verified": Ok means that the
\* first card holds the image it was told to install, the configuration and its
\* place in the screen, whatever an earlier run left. `auto` believes the
\* version the card reports, whatever its bank holds by now.
OkMeansProvisioned ==
  result = "ok" =>
    /\ fw = "named" => Whole(bank[0], want)
    /\ config[0] = "new"
    /\ records[0]["area"] = "new"

\* "Snapshot: the only copy of what this card held": the records the card was
\* delivered with are on it or on the disk, wherever runs of the command stop,
\* as long as each has a directory of its own.
RecordsSurvive ==
  records[0]["rest"] = "old"
    \/ \E d \in Dirs : \E snapshot \in disk[d] : snapshot["rest"] = "old"

\* The records are read before block 7 is written because that write wipes
\* them: a run that ends well gives back what the card had at its start.
RecordsComeBack ==
  result = "ok" /\ ~missed /\ ~LooksErased(atStart[0]) =>
    records[0]["rest"] = atStart[0]["rest"]

\* What the documentation says and the code does not do:

\* "the EEPROM writes, the save and the reload then carry N and the other cards
\* keep their windows".
OthersKeepTheirWindows ==
  \A c \in Cards :
    pc # "stopped" /\ index \in Cards \ {c} =>
      records[c]["area"] = atStart[c]["area"]

=============================================================================
