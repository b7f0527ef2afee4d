----------------------------- MODULE FlashReads -----------------------------
(***************************************************************************)
(* The reading commands of ops::flash: scan_flash, dump_range, read_blocks   *)
(* (dumps, snapshots, every read-back), verify_firmware and read_config. Each *)
(* asks for one place after another and takes the first answer that comes,   *)
(* which does not say what it is an answer to.                              *)
(***************************************************************************)
EXTENDS Naturals, Sequences

CONSTANTS
  Reads,      \* the most places a command asks for (--max-chunks, blocks, len)
  MaxMisses,  \* 8 in the code: dump_range gives up on the next miss
  Chunk,      \* bytes of an answer, 1024 in the code
  Prefix,     \* bytes of the length in front of the stored file, 4
  Batches     \* does one recv bring every frame that waits (bpf) or one (packet)

ASSUME FlashReadsAssumption ==
  /\ Reads \in Nat \ {0} /\ MaxMisses \in Nat
  /\ Chunk \in Nat \ {0} /\ Prefix \in 1 .. Chunk
  /\ Batches \in BOOLEAN

Commands == {"scan", "range", "blocks", "verify", "config"}
Places   == 0 .. Reads - 1
Unasked  == Reads
Missed   == Reads + 1

VARIABLES
  cmd,
  total,    \* the length the stored file opens with
  at,       \* the next place
  waiting,  \* in await_reply
  asked,    \* on its way to the card
  inbox,    \* answered, and not received yet
  shown,    \* by place: the place the bytes taken for it come from
  misses,
  rend      \* "none", "running", "ok", "failed"

rvars == <<cmd, total, at, waiting, asked, inbox, shown, misses, rend>>

RInit ==
  /\ cmd \in Commands /\ total \in 1 .. Reads * Chunk
  /\ at = 0 /\ waiting = FALSE
  /\ asked = <<>> /\ inbox = <<>>
  /\ shown = [i \in Places |-> Unasked]
  /\ misses = 0
  /\ rend = "running"

REnd(r) == rend' = r /\ waiting' = FALSE

\* The request for the next place; the card may not get it. read_blocks looks
\* at the cancel flag between blocks, and any send may fail.
Ask ==
  /\ rend = "running" /\ ~waiting /\ at < Reads
  /\ waiting' = TRUE
  /\ asked' \in {asked, Append(asked, at)}
  /\ UNCHANGED <<cmd, total, at, inbox, shown, misses, rend>>

Abandon ==
  /\ rend = "running"
  /\ REnd("failed")
  /\ UNCHANGED <<cmd, total, at, asked, inbox, shown, misses>>

\* The card answers in the order it is asked, as late as it likes; the answer
\* may be lost. (external)
CardAnswers ==
  /\ asked # <<>>
  /\ asked' = Tail(asked)
  /\ inbox' \in {inbox, Append(inbox, Head(asked))}
  /\ UNCHANGED <<cmd, total, at, waiting, shown, misses, rend>>

\* Has the last chunk been read? Only read_config finds out on the way: it stops
\* once it has as many bytes as the file, and wants those of the prefix too.
Stops == cmd = "config" /\ at' * Chunk >= total
Enough == cmd # "config" \/ at' * Chunk >= total + Prefix

Step ==
  /\ at' = at + 1
  /\ IF at' < Reads /\ ~Stops THEN rend' = "running"
     ELSE rend' = IF Enough THEN "ok" ELSE "failed"

\* await_any_frame returns the first answer of what recv brought; the rest of
\* it is gone.
Take ==
  /\ waiting /\ inbox # <<>>
  /\ shown' = [shown EXCEPT ![at] = Head(inbox)]
  /\ \E n \in IF Batches THEN 1 .. Len(inbox) ELSE {1} :
       inbox' = SubSeq(inbox, n + 1, Len(inbox))
  /\ waiting' = FALSE
  /\ Step
  /\ UNCHANGED <<cmd, total, asked, misses>>

\* scan_flash goes on to the next block, dump_range fills in 0xff, the others
\* fail. (Variant: all ask once more.)
MissedRetries == UNCHANGED <<at, shown, misses, rend>>
MissedGoesOn ==
  /\ cmd = "range" => misses < MaxMisses
  /\ cmd \in {"scan", "range"}
  /\ shown' = [shown EXCEPT ![at] = Missed]
  /\ misses' = IF cmd = "range" THEN misses + 1 ELSE misses
  /\ Step
MissedFails ==
  /\ cmd \in {"blocks", "verify", "config"}
  /\ rend' = "failed"
  /\ UNCHANGED <<at, shown, misses>>
\* The range is cut short, and written out all the same.
MissedGivesUp ==
  /\ cmd = "range" /\ misses = MaxMisses
  /\ shown' = [shown EXCEPT ![at] = Missed]
  /\ rend' = "ok"
  /\ UNCHANGED <<at, misses>>
NoAnswer == MissedGoesOn \/ MissedFails \/ MissedGivesUp

TimeOut ==
  /\ waiting
  /\ waiting' = FALSE
  /\ NoAnswer
  /\ UNCHANGED <<cmd, total, asked, inbox>>

RNext == Ask \/ Abandon \/ CardAnswers \/ Take \/ TimeOut

-----------------------------------------------------------------------------
(* Properties.                                                              *)

\* Every variable holds a value of its type.
RTypeOK ==
  /\ cmd \in Commands /\ total \in 1 .. Reads * Chunk
  /\ at \in 0 .. Reads /\ waiting \in BOOLEAN
  /\ asked \in Seq(Places) /\ inbox \in Seq(Places)
  /\ shown \in [Places -> Places \cup {Unasked, Missed}]
  /\ misses \in 0 .. MaxMisses
  /\ rend \in {"none", "running", "ok", "failed"}

\* A flash reply carries no page number: what a command takes for a place is
\* what the card answered for it as long as every read was answered in time.
\* After a late one the rest may be shifted, but to earlier places only, in
\* their order and each shown once: and it is a scan or a dump of a range, with
\* a hole to show for it. A back-up, a read-back or a verification is exact.
ReadsTellThePlace ==
  \A i \in Places : shown[i] \in Places =>
    /\ shown[i] <= i
    /\ \A k \in 0 .. i - 1 : shown[k] \in Places => shown[k] < shown[i]
    /\ shown[i] = i \/ \E k \in 0 .. i - 1 : shown[k] = Missed
    /\ cmd \notin {"scan", "range"} => shown[i] = i

\* What the code does not do: "The blob opens with its own total length, so we
\* know when to stop" (read_config). A file is read if its length and prefix fit
\* the chunks allowed and the card answers each of them.
ConfigIsRead ==
  cmd = "config" /\ rend = "failed" /\ at > 0 /\ shown[at - 1] \in Places =>
    \/ Reads * Chunk < total + Prefix
    \/ at * Chunk < total

=============================================================================
