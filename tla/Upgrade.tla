------------------------------- MODULE Upgrade -------------------------------
(***************************************************************************)
(* ops::upgrade::install: stage an image in the card's SDRAM, have the card  *)
(* erase and program itself, poll until it reports done. Nothing is          *)
(* acknowledged but the poll, and the poll looks at every frame on the link, *)
(* the command's own ones included where the kernel loops them back.         *)
(***************************************************************************)
EXTENDS Naturals

CONSTANTS
  Chunks,  \* of the image
  Echo     \* does the link receive what it sends (bpf does, packet does not)

ASSUME UpgradeAssumption == Chunks \in Nat \ {0} /\ Echo \in BOOLEAN

\* Where an installation may go; what the card's descriptor says of itself.
Partitions  == {"primary", "golden"}
Descriptors == [file_fits : BOOLEAN, sdram : BOOLEAN, golden_upgrade : BOOLEAN]

VARIABLES
  stage,    \* "check", "upload", "erase", "program", "poll", "stopped"
  target,   \* the partition
  offers,   \* the descriptor
  chunk,    \* chunks sent
  staged,   \* the chunks the card has
  stored,   \* what the partition holds: "old", "erased", "image", "mixed"
  busy,     \* is the card programming
  frames,   \* what waits on the link: "echo" with the status bit, "busy", "done"
  outcome,  \* "none", "complete", "late" (the bail), "refused", "dry",
            \* "cancelled", "link"
  unheard   \* history: did the card miss the erase or the request to program

card  == <<staged, stored, busy, unheard>>
uvars == <<stage, target, offers, chunk, frames, outcome, card>>

UInit ==
  /\ stage = "check"
  /\ target \in Partitions /\ offers \in Descriptors
  /\ chunk = 0 /\ staged = {} /\ stored = "old" /\ busy = FALSE
  /\ frames = {}
  /\ outcome = "none"
  /\ unheard = FALSE

UStop(r) == stage' = "stopped" /\ outcome' = r

\* The image is a bitstream of the length the card asks for, and the card takes
\* it by this route into this partition.
Accepts ==
  /\ offers.file_fits /\ offers.sdram
  /\ target = "golden" => offers.golden_upgrade

Check ==
  /\ stage = "check"
  /\ IF Accepts THEN UStop("dry") \/ (stage' = "upload" /\ UNCHANGED outcome)
     ELSE UStop("refused")
  /\ UNCHANGED <<target, offers, chunk, frames, card>>

\* A frame of the command's own comes back; the byte where an answer has its
\* status may be anything in a chunk of the image.
Echoes == IF Echo THEN {frames, frames \cup {"echo"}} ELSE {frames}

Upload ==
  /\ stage = "upload" /\ chunk < Chunks
  /\ chunk' = chunk + 1
  /\ staged' \in {staged, staged \cup {chunk}}
  /\ frames' \in Echoes
  /\ stage' = IF chunk' = Chunks THEN "erase" ELSE "upload"
  /\ UNCHANGED <<target, offers, stored, busy, unheard, outcome>>

EraseBank ==
  /\ stage = "erase" /\ stage' = "program"
  /\ \/ stored' = "erased" /\ UNCHANGED unheard
     \/ stored' = stored /\ unheard' = TRUE
  /\ UNCHANGED <<target, offers, chunk, staged, busy, frames, outcome>>

ProgramBank ==
  /\ stage = "program" /\ stage' = "poll"
  /\ \/ busy' = TRUE /\ UNCHANGED unheard
     \/ busy' = FALSE /\ unheard' = TRUE
  /\ UNCHANGED <<target, offers, chunk, staged, stored, frames, outcome>>

\* The card programs what it has, over what the partition holds. (external)
CardProgrammed ==
  /\ busy
  /\ busy' = FALSE
  /\ stored' = IF staged = 0 .. Chunks - 1 /\ stored = "erased"
               THEN "image" ELSE "mixed"
  /\ UNCHANGED <<stage, target, offers, chunk, staged, frames, outcome, unheard>>

\* The answer to the query, if the query and the answer arrive. Its status says
\* whether programming has finished: not before it began. (external)
CardFinished == ~busy /\ stored \in {"image", "mixed"}
Query ==
  /\ stage = "poll"
  /\ \/ frames' = frames
     \/ frames' = frames \cup {IF CardFinished THEN "done" ELSE "busy"}
  /\ UNCHANGED <<stage, target, offers, chunk, outcome, card>>

\* programming_finished is asked of any frame.
Finished(f) == f \in {"done", "echo"}

Poll(f) ==
  /\ stage = "poll" /\ f \in frames
  /\ frames' = frames \ {f}
  /\ IF Finished(f) THEN UStop("complete") ELSE UNCHANGED <<stage, outcome>>
  /\ UNCHANGED <<target, offers, chunk, card>>

Late ==
  /\ stage = "poll"
  /\ UStop("late")
  /\ UNCHANGED <<target, offers, chunk, frames, card>>

\* The flag is looked at before each chunk and before each poll. (Variant:
\* before each frame.)
CancelPointsAll == {"upload", "erase", "program", "poll"}
CancelPoints == {"upload", "poll"}
Cancel ==
  /\ stage \in CancelPoints
  /\ UStop("cancelled")
  /\ UNCHANGED <<target, offers, chunk, frames, card>>

LinkBreaks ==
  /\ stage \notin {"check", "stopped"}
  /\ UStop("link")
  /\ UNCHANGED <<target, offers, chunk, frames, card>>

UNext ==
  \/ Check \/ Upload \/ EraseBank \/ ProgramBank \/ CardProgrammed
  \/ Query \/ (\E f \in {"echo", "busy", "done"} : Poll(f)) \/ Late
  \/ Cancel \/ LinkBreaks

-----------------------------------------------------------------------------
(* Properties.                                                              *)

\* Every variable holds a value of its type.
UTypeOK ==
  /\ stage \in {"check", "upload", "erase", "program", "poll", "stopped"}
  /\ target \in Partitions /\ offers \in Descriptors
  /\ chunk \in 0 .. Chunks /\ staged \subseteq 0 .. Chunks - 1
  /\ stored \in {"old", "erased", "image", "mixed"} /\ busy \in BOOLEAN
  /\ frames \subseteq {"echo", "busy", "done"}
  /\ outcome \in {"none", "complete", "late", "refused", "dry", "cancelled", "link"}
  /\ unheard \in BOOLEAN

\* "wait for the card to report done": when the command says that programming
\* is complete and the card may be power-cycled, the card has finished, and it
\* holds the image unless it missed a frame.
DoneMeansProgrammed ==
  outcome = "complete" =>
    /\ CardFinished
    /\ stored = "image" \/ unheard \/ staged # 0 .. Chunks - 1

\* "Once the erase is sent the card must finish; a cancel only stops the
\* waiting": a cancelled installation leaves the partition as it was or to a
\* card that will finish it, unless that missed a frame.
CancelLeavesItToTheCard ==
  outcome = "cancelled" /\ ~unheard => stored = "old" \/ busy \/ CardFinished

\* An installation tells the truth, however it ends.
InstallTellsTheTruth == DoneMeansProgrammed /\ CancelLeavesItToTheCard

=============================================================================
