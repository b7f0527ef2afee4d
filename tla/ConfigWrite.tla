----------------------------- MODULE ConfigWrite -----------------------------
(***************************************************************************)
(* The commands that change the parameter block for good, around             *)
(* rewrite_block (the module RewriteBlock, one step here): write_config with  *)
(* its back-up and the screen-size record it puts back, restore_flash, and    *)
(* screen_size, which changes the record alone. They run one after another    *)
(* on one card and may stop before any step.                                 *)
(***************************************************************************)
EXTENDS Naturals

CONSTANT MaxCommands  \* bound: commands run

ASSUME MaxCommandsAssumption == MaxCommands \in Nat

\* The record: the control area and the rest of it, the size in it.
Field   == {"good", "new", "erased"}
Record  == [area : Field \ {"new"}, size : Field]
Cleared == [area |-> "erased", size |-> "erased"]
NoFile  == [config |-> "none", record |-> Cleared]

VARIABLES
  config,    \* the configuration in the block: "old", "new", "holed"
  record,    \* the record, as a read of the block or of its mirror shows it
  backup,    \* the file --backup names, the same one for every run
  original,  \* the block image this run works on
  task,      \* "none", "write", "base" (--base-image), "restore", "size"
  next,      \* the step of the task that comes next
  commands,
  ended,     \* "none", "ok", "failed"
  before,    \* history: config and record when the task began
  ignored    \* history: did the card miss a record this task wrote

cvars == <<config, record, backup, original, task, next, commands, ended, before,
           ignored>>

CInit ==
  /\ config = "old"
  /\ record \in {[area |-> a, size |-> "good"] : a \in {"good", "erased"}}
  /\ backup = NoFile /\ original = NoFile
  /\ task = "none" /\ next = "stopped"
  /\ commands = 0 /\ ended = "none"
  /\ before = [config |-> config, record |-> record]
  /\ ignored = FALSE

Block == [config |-> config, record |-> record]

CEnd(r) == next' = "stopped" /\ ended' = r

Command(t) ==
  /\ next = "stopped" /\ commands < MaxCommands
  /\ t = "restore" => backup # NoFile
  /\ commands' = commands + 1
  /\ task' = t /\ next' = "read" /\ ended' = "none"
  /\ before' = Block /\ ignored' = FALSE
  /\ UNCHANGED <<config, record, backup, original>>

\* The link fails, the flag is seen, the command is killed.
Interrupted ==
  /\ next # "stopped"
  /\ CEnd("failed")
  /\ UNCHANGED <<config, record, backup, original, task, commands, before, ignored>>

\* write_config reads the block off the card and saves it before anything else,
\* or takes the image it is given; restore_flash reads the file. (Variant: saved
\* once the block is written.)
ReadBlockUnsaved ==
  /\ next = "read" /\ task = "write"
  /\ original' = Block
  /\ next' = "rewrite"
  /\ UNCHANGED <<config, record, backup, task, commands, ended, before, ignored>>
ReadBlock ==
  /\ next = "read" /\ task = "write"
  /\ original' = Block /\ backup' = Block
  /\ next' = "rewrite"
  /\ UNCHANGED <<config, record, task, commands, ended, before, ignored>>

ReadBaseImage ==
  /\ next = "read" /\ task = "base"
  /\ original' = NoFile
  /\ next' = "rewrite"
  /\ UNCHANGED <<config, record, backup, task, commands, ended, before, ignored>>

ReadBackup ==
  /\ next = "read" /\ task = "restore"
  /\ original' = backup
  /\ next' = "rewrite"
  /\ UNCHANGED <<config, record, backup, task, commands, ended, before, ignored>>

DryRun ==
  /\ next = "rewrite"
  /\ CEnd("ok")
  /\ UNCHANGED <<config, record, backup, original, task, commands, before, ignored>>

\* rewrite_block: the block as it should be, or a failure that leaves it with
\* holes, untouched, or right where only the last read-back did not come. An
\* erase the card hears takes the record with it.
Rewritten == IF task = "restore" THEN original.config ELSE "new"

Rewrite ==
  /\ next = "rewrite"
  /\ record' \in {record, Cleared}
  /\ \/ /\ config' = Rewritten
        /\ IF task = "restore" THEN CEnd("ok")
           ELSE next' = "record" /\ UNCHANGED ended
     \/ config' \in {config, "holed", Rewritten} /\ CEnd("failed")
  /\ UNCHANGED <<backup, original, task, commands, before, ignored>>

\* write_config puts back the record of a block it read off the card, unless
\* that is erased throughout.
PutBack == task # "base" /\ original.record # Cleared

SendRecord(r) ==
  \/ record' = r /\ UNCHANGED ignored
  \/ record' = record /\ ignored' = TRUE

RecordBack ==
  /\ next = "record"
  /\ IF PutBack THEN SendRecord(original.record) ELSE UNCHANGED <<record, ignored>>
  /\ CEnd("ok")
  /\ UNCHANGED <<config, backup, original, task, commands, before>>

\* screen_size: read, refuse an erased record, write the changed one, read it
\* back.
LooksErased(r) == r.area = "erased" \/ r.size = "erased"

SetSize ==
  /\ next = "read" /\ task = "size"
  /\ \/ /\ ~LooksErased(record) /\ record.size # "new"
        /\ SendRecord([record EXCEPT !.size = "new"])
        /\ next' = "verify" /\ UNCHANGED ended
     \/ /\ record.size = "new" /\ CEnd("ok")
        /\ UNCHANGED <<record, ignored>>
     \/ /\ LooksErased(record) /\ record.size # "new" /\ CEnd("failed")
        /\ UNCHANGED <<record, ignored>>
  /\ UNCHANGED <<config, backup, original, task, commands, before>>

VerifySize ==
  /\ next = "verify"
  /\ CEnd(IF record.size = "new" THEN "ok" ELSE "failed")
  /\ UNCHANGED <<config, record, backup, original, task, commands, before, ignored>>

CNext ==
  \/ \E t \in {"write", "base", "restore", "size"} : Command(t)
  \/ Interrupted \/ ReadBlock \/ ReadBaseImage \/ ReadBackup \/ DryRun \/ Rewrite \/ RecordBack
  \/ SetSize \/ VerifySize

-----------------------------------------------------------------------------
(* Properties.                                                              *)

\* Every variable holds a value of its type.
CTypeOK ==
  /\ config \in {"old", "new", "holed"}
  /\ record \in Record
  /\ backup \in {NoFile} \cup [config : {"old", "new", "holed"}, record : Record]
  /\ original \in {NoFile} \cup [config : {"old", "new", "holed"}, record : Record]
  /\ task \in {"none", "write", "base", "restore", "size"}
  /\ next \in {"stopped", "read", "rewrite", "record", "verify"}
  /\ commands \in 0 .. MaxCommands
  /\ ended \in {"none", "ok", "failed"}
  /\ before \in [config : {"old", "new", "holed"}, record : Record]
  /\ ignored \in BOOLEAN

\* A write_config from the card's own block takes the screen-size record through
\* the erase that clears it, and a screen_size changes nothing but the size: a
\* control area is lost by a frame the card missed, a run that did not end, or
\* one from a base image, never by a run that ended well.
RecordOutlivesTheErase ==
  ended = "ok" /\ task \in {"write", "size"} /\ ~ignored =>
    /\ record.area = before.record.area
    /\ task = "write" => record.size = before.record.size
    /\ task = "size" /\ record # before.record => record.area = "good"

\* "A backup of the original block is always saved before any write": of a run
\* without --base-image, wherever it stops, the file holds the block the run
\* found.
BackupIsTheBlock ==
  task = "write" /\ (config # before.config \/ record # before.record) =>
    backup = before

\* The commands that erase the block keep, on the card or on the disk, what the
\* erase takes.
EraseTakesNothingAway == RecordOutlivesTheErase /\ BackupIsTheBlock

=============================================================================
