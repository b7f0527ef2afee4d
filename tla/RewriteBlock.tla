---------------------------- MODULE RewriteBlock ----------------------------
(***************************************************************************)
(* ops::flash::rewrite_block: erase the card's 64 KB parameter block, write  *)
(* an image over it page by page, read it back, repair what did not take.   *)
(*                                                                         *)
(* No frame is acknowledged: the card may miss any erase or page write, and  *)
(* the program learns it from the next read-back only. The link belongs to   *)
(* this command, so nobody else changes the block meanwhile.                *)
(***************************************************************************)
EXTENDS Naturals

CONSTANTS
  Pages,       \* the 256-byte pages of the block, written in ascending order
  Window,      \* the pages the card lets the host write
  Blank,       \* the pages whose image is all 0xff, as an erase leaves them
  MustVerify,  \* the pages that have to be right for the command to succeed
  Attempts     \* 4 in the code

ASSUME PagesAssumption ==
  /\ Pages \subseteq Nat
  /\ Window \subseteq Pages /\ Blank \subseteq Pages /\ MustVerify \subseteq Pages
ASSUME AttemptsAssumption == Attempts \in Nat \ {0}

Contents == {"erased", "image", "other"}

\* What a page holds when it is right.
Want(i) == IF i \in Blank THEN "erased" ELSE "image"

VARIABLES
  flash,    \* the block on the card
  pc,       \* "erase", "write", "read", "stopped"
  attempt,
  todo,     \* `repair`: the pages this attempt has still to write
  erased,   \* did this attempt begin with an erase
  lost,     \* history: did the card miss a frame of this attempt
  result    \* "none", "ok", "unverified" (the last ensure!), "cancelled", "link"

vars == <<flash, pc, attempt, todo, erased, lost, result>>

Init ==
  /\ flash \in [Pages -> Contents]
  /\ \A i \in Blank : flash[i] # "image"
  /\ pc = "erase"
  /\ attempt = 1
  /\ todo = {}
  /\ erased = TRUE
  /\ lost = FALSE
  /\ result = "none"

-----------------------------------------------------------------------------
(* The card (external).                                                     *)

\* An erase clears the whole block, the pages it refuses to write included.
CardErases == flash' = [i \in Pages |-> "erased"]

\* Programming flash only clears bits: over an erased page it stores the
\* image, over another content what both have set, which may be the image.
Programmed(i) ==
  IF i \notin Window \/ i \in Blank THEN {flash[i]}
  ELSE IF flash[i] = "other" THEN {"other", "image"} ELSE {"image"}

CardWrites(i) == \E c \in Programmed(i) : flash' = [flash EXCEPT ![i] = c]

\* Or it misses the frame.
CardMisses == flash' = flash

-----------------------------------------------------------------------------
(* The command.                                                             *)

Stop(r) == pc' = "stopped" /\ result' = r

\* erase_and_settle; all pages are to be written after it.
Erase ==
  /\ pc = "erase"
  /\ \/ CardErases /\ lost' = FALSE
     \/ CardMisses /\ lost' = TRUE
  /\ pc' = "write"
  /\ todo' = Pages
  /\ erased' = TRUE
  /\ UNCHANGED <<attempt, result>>

WritePage(i) ==
  /\ pc = "write" /\ i \in todo
  /\ \A k \in todo : i <= k
  /\ \/ CardWrites(i) /\ UNCHANGED lost
     \/ CardMisses /\ lost' = TRUE
  /\ todo' = todo \ {i}
  /\ UNCHANGED <<pc, attempt, erased, result>>

\* The attempt is over: on to the next one, or to the read after the last.
Written ==
  /\ pc = "write" /\ todo = {}
  /\ pc' = "read"
  /\ attempt' = attempt + 1
  /\ UNCHANGED <<flash, todo, erased, lost, result>>

Bad == {i \in Pages : flash[i] # Want(i)}

\* A mismatched page that holds data cannot be rewritten as it is.
Dirty == \E i \in Bad : flash[i] # "erased"

\* (Variant: one attempt more.)
AgainOnceMore == attempt <= Attempts + 1
Again == attempt <= Attempts

\* read_block and the choice of what to repair.
Reread ==
  /\ pc = "read" /\ Again
  /\ \/ Bad = {} /\ Stop("ok") /\ UNCHANGED <<todo, erased, lost>>
     \/ /\ Bad # {} /\ Dirty
        /\ pc' = "erase"
        /\ UNCHANGED <<todo, erased, lost, result>>
     \/ /\ Bad # {} /\ ~Dirty
        /\ pc' = "write"
        /\ todo' = Bad
        /\ erased' = FALSE
        /\ lost' = FALSE
        /\ UNCHANGED result
  /\ UNCHANGED <<flash, attempt>>

\* The read-back after the last attempt: only `must_verify` decides.
\* (Variants: one right page will do; every page of the block decides.)
VerdictLenient == IF MustVerify \subseteq Bad THEN "unverified" ELSE "ok"
VerdictStrict == IF Bad = {} THEN "ok" ELSE "unverified"
Verdict == IF Bad \cap MustVerify = {} THEN "ok" ELSE "unverified"

LastRead ==
  /\ pc = "read" /\ ~Again
  /\ Stop(Verdict)
  /\ UNCHANGED <<flash, attempt, todo, erased, lost>>

\* read_blocks polls the flag before it reads the block. (Variant: the flag is
\* polled wherever a frame is sent.)
CancelledAnywhere ==
  /\ pc # "stopped"
  /\ Stop("cancelled")
  /\ UNCHANGED <<flash, attempt, todo, erased, lost>>
Cancelled ==
  /\ pc = "read"
  /\ Stop("cancelled")
  /\ UNCHANGED <<flash, attempt, todo, erased, lost>>

\* The link fails: a send, or a read that stays without an answer.
LinkFails ==
  /\ pc # "stopped"
  /\ Stop("link")
  /\ UNCHANGED <<flash, attempt, todo, erased, lost>>

Next ==
  \/ Erase \/ Written \/ Reread \/ LastRead \/ Cancelled \/ LinkFails
  \/ \E i \in Pages : WritePage(i)

Spec == Init /\ [][Next]_vars

-----------------------------------------------------------------------------
(* Properties.                                                              *)

\* Every variable holds a value of its type.
TypeOK ==
  /\ flash \in [Pages -> Contents]
  /\ pc \in {"erase", "write", "read", "stopped"}
  /\ attempt \in 1 .. Attempts + 1
  /\ todo \in SUBSET Pages
  /\ erased \in BOOLEAN
  /\ lost \in BOOLEAN
  /\ result \in {"none", "ok", "unverified", "cancelled", "link"}

\* Success is never claimed for a block whose configuration is wrong, whatever
\* the card missed (the two ways out with Ok).
OkMeansWritten ==
  result = "ok" => \A i \in MustVerify : flash[i] = Want(i)

\* "A page can only be rewritten while still erased, so a mismatched page
\* holding other data re-erases the block": an attempt that does not erase
\* writes no page that holds data.
RepairsErasedPages ==
  pc = "write" /\ ~erased => \A i \in todo : flash[i] = "erased"

\* A page the card refuses is right after an erase if its image is blank.
Writable == Window \cup Blank

\* "a flash write in progress finishes its block before the job stops" (the
\* cancellation in docs/ui.md): however the command ends, short of a broken
\* link, the pages the card lets us write hold the image if it missed nothing of
\* the last attempt.
StopsWithAWholeBlock ==
  result \in {"ok", "unverified", "cancelled"} /\ ~lost =>
    \A i \in Writable : flash[i] = Want(i)

\* A rewrite that fails to verify has a cause outside the program: the card
\* missed a frame of the last attempt, or it refuses a page that has to be
\* right. Whatever went wrong before, one good attempt is enough.
FailureHasACause ==
  result = "unverified" => lost \/ ~(MustVerify \subseteq Writable)

=============================================================================
