------------------------------ MODULE BankWrite ------------------------------
(***************************************************************************)
(* ops::flash::flash_firmware: write blocks of an image into the primary     *)
(* bank. The region is write-protected but between the command's unlock and  *)
(* its relock; the card acknowledges nothing; the whole bank is read back.   *)
(***************************************************************************)
EXTENDS Naturals

CONSTANTS
  Last,    \* the last block of the flash
  Bank,    \* the blocks of the primary bank, the only ones FlashMap lets through
  Guarded  \* the blocks the running firmware does not let the host write

ASSUME BankWriteAssumption ==
  /\ Last \in Nat
  /\ \E n \in 1 .. Last + 1 : Bank = 0 .. n - 1
  /\ Guarded \subseteq Bank

Blocks == 0 .. Last

VARIABLES
  range,     \* the blocks asked for: from, and up to but not including
  inputs,    \* are the image and the dump to recover with what they should be
  step,      \* "start", "unlock", "erase", "write", "relock", "verify", "stopped"
  left,      \* the blocks this step has still to do
  bank,      \* by block: "old", "image", "erased", "mixed"
  writable,  \* is the region unlocked
  verdict,   \* "none", "refused", "dry", "verified", "differs", "link"
  broke,     \* history: the step the link failed in
  deaf       \* history: did the card miss the relock

bvars == <<range, inputs, step, left, bank, writable, verdict, broke, deaf>>

BInit ==
  /\ range \in [from : Blocks, to : 0 .. Last + 1] /\ inputs \in BOOLEAN
  /\ step = "start" /\ left = {}
  /\ bank \in [Blocks -> {"old", "image"}]
  /\ writable = FALSE
  /\ verdict = "none" /\ broke = "none" /\ deaf = FALSE

RangeOf == {b \in Blocks : range.from <= b /\ b < range.to}

BStop(v) == step' = "stopped" /\ verdict' = v

\* FlashMap's check of a block before a frame is built for it.
FirmwareBlock(b) == b \in Bank

InBank == range.from < range.to /\ range.from \in Bank /\ range.to - 1 \in Bank

\* Without --commit nothing is sent.
Prepare ==
  /\ step = "start"
  /\ IF InBank /\ inputs
     THEN BStop("dry") \/ (step' = "unlock" /\ UNCHANGED verdict)
     ELSE BStop("refused")
  /\ UNCHANGED <<range, inputs, left, bank, writable, broke, deaf>>

Unlock ==
  /\ step = "unlock" /\ step' = "erase"
  /\ writable' \in {writable, TRUE}
  /\ left' = RangeOf
  /\ UNCHANGED <<range, inputs, bank, verdict, broke, deaf>>

\* Erases and page writes silently do nothing while locked, and to a guarded
\* block; or the card misses the frames.
Takes(b) == writable /\ b \notin Guarded

EraseNext(b) ==
  /\ step = "erase" /\ b \in left /\ (\A k \in left : b <= k)
  /\ FirmwareBlock(b)
  /\ bank' \in {bank} \cup (IF Takes(b) THEN {[bank EXCEPT ![b] = "erased"]} ELSE {})
  /\ left' = left \ {b}
  /\ UNCHANGED <<range, inputs, step, writable, verdict, broke, deaf>>

Erased ==
  /\ step = "erase" /\ left = {}
  /\ step' = "write" /\ left' = RangeOf
  /\ UNCHANGED <<range, inputs, bank, writable, verdict, broke, deaf>>

\* The 256 pages of a block: over erased ones the image, over others a mixture.
PagesLeave(c) == CASE c = "erased" -> {"image", "mixed", "erased"}
                   [] c = "old"    -> {"old", "mixed"}
                   [] OTHER        -> {c}

WriteNext(b) ==
  /\ step = "write" /\ b \in left /\ (\A k \in left : b <= k)
  /\ FirmwareBlock(b)
  /\ \E c \in IF Takes(b) THEN PagesLeave(bank[b]) ELSE {bank[b]} :
       bank' = [bank EXCEPT ![b] = c]
  /\ left' = left \ {b}
  /\ UNCHANGED <<range, inputs, step, writable, verdict, broke, deaf>>

\* "Relock before verifying." (Variant: after.)
RelockLater ==
  /\ step = "write" /\ left = {}
  /\ step' = "verify"
  /\ UNCHANGED <<range, inputs, left, bank, writable, verdict, broke, deaf>>
Relock ==
  /\ step = "write" /\ left = {}
  /\ step' = "verify"
  /\ \/ writable' = FALSE /\ UNCHANGED deaf
     \/ UNCHANGED writable /\ deaf' = TRUE
  /\ UNCHANGED <<range, inputs, left, bank, verdict, broke>>

\* verify_firmware reads the whole bank, not what was written only.
Verified == IF \A b \in Bank : bank[b] = "image" THEN "verified" ELSE "differs"

VerifyBank ==
  /\ step = "verify"
  /\ BStop(Verified)
  /\ UNCHANGED <<range, inputs, left, bank, writable, broke, deaf>>

\* A send fails, or a read of the verification stays without an answer.
BankLinkFails ==
  /\ step \notin {"start", "stopped"}
  /\ BStop("link") /\ broke' = step
  /\ UNCHANGED <<range, inputs, left, bank, writable, deaf>>

BNext ==
  \/ Prepare \/ Unlock \/ Erased \/ Relock \/ VerifyBank \/ BankLinkFails
  \/ \E b \in Blocks : EraseNext(b) \/ WriteNext(b)

-----------------------------------------------------------------------------
(* Properties.                                                              *)

\* Every variable holds a value of its type.
BTypeOK ==
  /\ range \in [from : Blocks, to : 0 .. Last + 1] /\ inputs \in BOOLEAN
  /\ step \in {"start", "unlock", "erase", "write", "verify", "stopped"}
  /\ left \subseteq Blocks
  /\ bank \in [Blocks -> {"old", "image", "erased", "mixed"}]
  /\ writable \in BOOLEAN /\ deaf \in BOOLEAN
  /\ verdict \in {"none", "refused", "dry", "verified", "differs", "link"}
  /\ broke \in {"none", "unlock", "erase", "write", "verify"}

\* "bank verified" is said of a bank that is the image from end to end, and
\* nothing outside the blocks asked for is ever touched, "so a
\* partially-programmed image can be repaired without disturbing what is already
\* correct".
VerifiedIsWhole ==
  /\ verdict = "verified" => \A b \in Bank : bank[b] = "image"
  /\ \A b \in Blocks \ (RangeOf \cap Bank) : bank[b] \in {"old", "image"}

\* "Relock on every exit path" is kept but for one: the region is still writable
\* after the command only if the link broke before the relock was sent, or the
\* card missed it.
LeftWritableOnlyByTheLink ==
  step \in {"verify", "stopped"} /\ writable =>
    deaf \/ broke \in {"erase", "write"}

\* What a write of the bank reports and leaves behind.
BankIsAsSaid == VerifiedIsWhole /\ LeftWritableOnlyByTheLink

=============================================================================
