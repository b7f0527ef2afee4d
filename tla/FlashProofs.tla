----------------------------- MODULE FlashProofs -----------------------------
(***************************************************************************)
(* What RewriteBlock, BankWrite, Upgrade, FlashReads and ConfigWrite promise, *)
(* for every size of the flash, block, write window and number of attempts,  *)
(* every set of guarded blocks, every number of chunks, reads and commands;  *)
(* and the types of all the modules of MCFlash side by side.                 *)
(***************************************************************************)
EXTENDS MCFlash, PanelProofs

-----------------------------------------------------------------------------
(* ops::flash::flash_firmware.                                              *)
BSpec == BInit /\ [][BNext]_bvars

\* No block left to do is outside the range, and none outside of range and bank
\* has been touched.
RangeKept ==
  /\ left \subseteq RangeOf
  /\ \A b \in Blocks \ (RangeOf \cap Bank) : bank[b] \in {"old", "image"}

\* Until the command stops it has no verdict and no link has failed; the region
\* is locked before the unlock, and once the relock was sent unless it was
\* missed.
LockFollowsStep ==
  /\ step # "stopped" => verdict = "none" /\ broke = "none"
  /\ step \in {"start", "unlock"} => ~writable
  /\ step = "verify" /\ writable => deaf

BankInvariant == BTypeOK /\ RangeKept /\ LockFollowsStep /\ BankIsAsSaid

\* It holds before the first command.
LEMMA BankStarts == BInit => BankInvariant
BY BankWriteAssumption
   DEF BInit, BankInvariant, BTypeOK, RangeKept, LockFollowsStep, BankIsAsSaid,
       VerifiedIsWhole, LeftWritableOnlyByTheLink, RangeOf, Blocks

\* Every step of a bank write keeps it.
LEMMA BankSteps == BankInvariant /\ [BNext]_bvars => BankInvariant'
<1> SUFFICES ASSUME BankInvariant, [BNext]_bvars PROVE BankInvariant'
    OBVIOUS
<1> USE DEF BankInvariant, RangeKept, LockFollowsStep, BankIsAsSaid, VerifiedIsWhole,
            LeftWritableOnlyByTheLink, BTypeOK
<1>1. CASE Prepare
      BY <1>1 DEF Prepare, BStop, RangeOf
<1>2. CASE Unlock
      BY <1>2 DEF Unlock, RangeOf, Blocks
<1>3. ASSUME NEW b \in Blocks, EraseNext(b) PROVE BankInvariant'
  <2>1. b \in RangeOf /\ b \in Bank
        BY <1>3 DEF EraseNext, FirmwareBlock
  <2>2. bank' = bank \/ bank' = [bank EXCEPT ![b] = "erased"]
        BY <1>3 DEF EraseNext
  <2> QED BY <1>3, <2>1, <2>2 DEF EraseNext, RangeOf
<1>4. CASE Erased
      BY <1>4 DEF Erased, RangeOf, Blocks
<1>5. ASSUME NEW b \in Blocks, WriteNext(b) PROVE BankInvariant'
  <2>1. b \in RangeOf /\ b \in Bank
        BY <1>5 DEF WriteNext, FirmwareBlock
  <2>2. PICK c \in {"old", "image", "erased", "mixed"} : bank' = [bank EXCEPT ![b] = c]
        BY <1>5 DEF WriteNext, PagesLeave
  <2> QED BY <1>5, <2>1, <2>2 DEF WriteNext, RangeOf
<1>6. CASE Relock
      BY <1>6 DEF Relock, RangeOf
<1>7. CASE VerifyBank
      BY <1>7 DEF VerifyBank, BStop, Verified, RangeOf
<1>8. CASE BankLinkFails
      BY <1>8 DEF BankLinkFails, BStop, RangeOf
<1>9. CASE UNCHANGED bvars
      BY <1>9 DEF bvars, RangeOf
<1> QED BY <1>1, <1>2, <1>3, <1>4, <1>5, <1>6, <1>7, <1>8, <1>9 DEF BNext

\* Type correctness of the bank write.
THEOREM BankTypes == BSpec => []BTypeOK
<1>1. BankInvariant => BTypeOK
      BY DEF BankInvariant
<1> QED BY <1>1, BankStarts, BankSteps, PTL DEF BSpec

\* "bank verified" is the whole image, nothing outside the blocks asked for is
\* touched, and only a broken link or a missed relock leaves the region
\* writable (ops::flash::flash_firmware, verify_firmware).
THEOREM BankTellsTheTruth == BSpec => []BankIsAsSaid
<1>1. BankInvariant => BankIsAsSaid
      BY DEF BankInvariant
<1> QED BY <1>1, BankStarts, BankSteps, PTL DEF BSpec

-----------------------------------------------------------------------------
(* ops::upgrade::install.                                                   *)
USpec == UInit /\ [][UNext]_uvars

\* The card is idle and its partition unprogrammed until it is asked to
\* program; what it programs over was erased unless the erase was missed.
CardFollows ==
  /\ stage \in {"check", "upload", "erase", "program"} =>
       ~busy /\ stored \in {"old", "erased"} /\ "done" \notin frames
  /\ stage \in {"check", "upload", "erase"} => stored = "old" /\ ~unheard
  /\ stage \in {"program", "poll"} /\ stored = "old" => unheard
  /\ busy => stored \in {"old", "erased"} /\ (stored = "old" => unheard)
  /\ stage = "poll" => unheard \/ busy \/ CardFinished
  /\ stored = "mixed" => unheard \/ staged # 0 .. Chunks - 1

\* Every answer on the link that says done is the card's, and still true; with
\* no loop-back there is no frame of the command's own.
FramesAreTheCards ==
  /\ "done" \in frames => CardFinished
  /\ "echo" \notin frames

InstallInvariant ==
  /\ UTypeOK /\ CardFollows /\ FramesAreTheCards /\ InstallTellsTheTruth
  /\ stage # "stopped" => outcome = "none"

\* It holds before the upgrade.
LEMMA InstallStarts == UInit => InstallInvariant
<1> SUFFICES ASSUME UInit PROVE InstallInvariant
    OBVIOUS
<1>1. UTypeOK
  <2>1. chunk \in 0 .. Chunks
        BY UpgradeAssumption DEF UInit
  <2> QED BY <2>1 DEF UInit, UTypeOK
<1>2. CardFollows /\ FramesAreTheCards
      BY DEF UInit, CardFollows, FramesAreTheCards, CardFinished
<1>3. InstallTellsTheTruth /\ outcome = "none"
      BY DEF UInit, InstallTellsTheTruth, DoneMeansProgrammed, CancelLeavesItToTheCard
<1> QED BY <1>1, <1>2, <1>3 DEF InstallInvariant

\* Every step keeps it, where the card's own commands are not heard back.
LEMMA InstallSteps ==
  ASSUME ~Echo PROVE InstallInvariant /\ [UNext]_uvars => InstallInvariant'
<1> SUFFICES ASSUME InstallInvariant, [UNext]_uvars PROVE InstallInvariant'
    OBVIOUS
<1> USE UpgradeAssumption
    DEF InstallInvariant, UTypeOK, CardFollows, FramesAreTheCards, InstallTellsTheTruth,
        DoneMeansProgrammed, CancelLeavesItToTheCard, CardFinished, card
<1>1. CASE Check
      BY <1>1 DEF Check, UStop
<1>2. CASE Upload
      BY <1>2 DEF Upload, Echoes
<1>3. CASE EraseBank
      BY <1>3 DEF EraseBank
<1>4. CASE ProgramBank
      BY <1>4 DEF ProgramBank
<1>5. CASE CardProgrammed
      BY <1>5 DEF CardProgrammed
<1>6. CASE Query
      BY <1>6 DEF Query
<1>7. ASSUME NEW f \in {"echo", "busy", "done"}, Poll(f) PROVE InstallInvariant'
      BY <1>7 DEF Poll, Finished, UStop
<1>8. CASE Late
      BY <1>8 DEF Late, UStop
<1>9. CASE Cancel
      BY <1>9 DEF Cancel, CancelPoints, UStop
<1>10. CASE LinkBreaks
      BY <1>10 DEF LinkBreaks, UStop
<1>11. CASE UNCHANGED uvars
      BY <1>11 DEF uvars
<1> QED BY <1>1, <1>2, <1>3, <1>4, <1>5, <1>6, <1>7, <1>8, <1>9, <1>10, <1>11 DEF UNext

\* Every step keeps the types, on any link.
LEMMA InstallTypesStep == UTypeOK /\ [UNext]_uvars => UTypeOK'
<1> SUFFICES ASSUME UTypeOK, [UNext]_uvars PROVE UTypeOK'
    OBVIOUS
<1> USE UpgradeAssumption DEF UTypeOK, card
<1>1. CASE Check
      BY <1>1 DEF Check, UStop
<1>2. CASE Upload
      BY <1>2 DEF Upload, Echoes
<1>3. CASE EraseBank
      BY <1>3 DEF EraseBank, Echoes
<1>4. CASE ProgramBank
      BY <1>4 DEF ProgramBank, Echoes
<1>5. CASE CardProgrammed
      BY <1>5 DEF CardProgrammed
<1>6. CASE Query
      BY <1>6 DEF Query, Echoes
<1>7. ASSUME NEW f \in {"echo", "busy", "done"}, Poll(f) PROVE UTypeOK'
      BY <1>7 DEF Poll, Finished, UStop
<1>8. CASE Late
      BY <1>8 DEF Late, UStop
<1>9. CASE Cancel
      BY <1>9 DEF Cancel, CancelPoints, UStop
<1>10. CASE LinkBreaks
      BY <1>10 DEF LinkBreaks, UStop
<1>11. CASE UNCHANGED uvars
      BY <1>11 DEF uvars
<1> QED BY <1>1, <1>2, <1>3, <1>4, <1>5, <1>6, <1>7, <1>8, <1>9, <1>10, <1>11 DEF UNext

\* Type correctness of the installation.
THEOREM InstallTypes == USpec => []UTypeOK
<1>1. InstallInvariant => UTypeOK
      BY DEF InstallInvariant
<1> QED BY <1>1, InstallStarts, InstallTypesStep, PTL DEF USpec

\* On a link that does not receive what it sends, an installation that reports
\* completion has programmed the card, and a cancelled one leaves it to the
\* card (ops::upgrade::install).
THEOREM InstallIsTruthful ==
  ASSUME ~Echo PROVE USpec => []InstallTellsTheTruth
<1>1. InstallInvariant => InstallTellsTheTruth
      BY DEF InstallInvariant
<1>2. UInit => InstallInvariant
      BY InstallStarts
<1>3. InstallInvariant /\ [UNext]_uvars => InstallInvariant'
      BY InstallSteps
<1> QED BY <1>1, <1>2, <1>3, PTL DEF USpec

-----------------------------------------------------------------------------
(* The reads of ops::flash.                                                 *)
RSpec == RInit /\ [][RNext]_rvars

\* The answers there are and those still to come, each as the place it is for.
Due == {inbox[i] : i \in DOMAIN inbox} \cup {asked[i] : i \in DOMAIN asked}

\* They come in the order the places were asked for, each once.
DueInOrder ==
  /\ \A i, j \in DOMAIN inbox : i < j => inbox[i] < inbox[j]
  /\ \A i, j \in DOMAIN asked : i < j => asked[i] < asked[j]
  /\ \A i \in DOMAIN inbox, j \in DOMAIN asked : inbox[i] < asked[j]

\* They are for places asked for so far, and behind every place shown.
DueIsLater ==
  /\ \A p \in Due : p <= at /\ (~waiting /\ rend = "running" => p < at)
  /\ \A k \in Places, p \in Due : shown[k] \in Places => shown[k] < p

\* Nothing is shown of a place not reached, and as long as nothing was missed
\* no answer is late.
NothingLate ==
  /\ waiting => rend = "running" /\ at < Reads
  /\ \A k \in Places : shown[k] \in Places => k < at
  /\ (\A k \in Places : k < at => shown[k] # Missed) => \A p \in Due : p >= at
  /\ cmd \notin {"scan", "range"} => \A k \in Places : shown[k] # Missed

Counts  == at \in 0 .. Reads /\ misses \in 0 .. MaxMisses
Queued  == asked \in Seq(Places) /\ inbox \in Seq(Places)
Phases  == {"none", "running", "ok", "failed"}
Showing == [Places -> Places \cup {Unasked, Missed}]

ReadTyped ==
  Counts /\ waiting \in BOOLEAN /\ Queued /\ shown \in Showing /\ rend \in Phases
Given == cmd \in Commands /\ total \in 1 .. Reads * Chunk

ReadInvariant ==
  Given /\ ReadTyped /\ DueInOrder /\ DueIsLater /\ NothingLate /\ ReadsTellThePlace

\* The marks of what was not asked and not answered are no places.
LEMMA PlacesApart ==
  /\ Unasked \notin Places /\ Missed \notin Places /\ Unasked # Missed
  /\ 0 \in Places /\ Places \subseteq Nat
BY FlashReadsAssumption DEF Places, Unasked, Missed

\* The answers due are for places.
LEMMA DueArePlaces == Queued => Due \subseteq Places
BY DEF Due, Queued

\* What a queue is after an answer more.
LEMMA QueueGrows ==
  ASSUME NEW s \in Seq(Places), NEW p \in Places
  PROVE  /\ Append(s, p) \in Seq(Places) /\ DOMAIN Append(s, p) = 1 .. Len(s) + 1
         /\ DOMAIN s = 1 .. Len(s) /\ Len(s) \in Nat
         /\ Append(s, p)[Len(s) + 1] = p /\ \A i \in 1 .. Len(s) : Append(s, p)[i] = s[i]
OBVIOUS

\* It holds before the first read.
LEMMA ReadsStart == RInit => ReadInvariant
<1> SUFFICES ASSUME RInit PROVE ReadInvariant
    OBVIOUS
<1>1. at \in 0 .. Reads /\ misses \in 0 .. MaxMisses
      BY FlashReadsAssumption DEF RInit
<1>2. asked = <<>> /\ inbox = <<>> /\ Due = {}
      BY DEF RInit, Due
<1>3. \A k \in Places : shown[k] = Unasked
      BY DEF RInit
<1>4. ReadTyped
  <2>1. Counts
        BY <1>1 DEF Counts
  <2>2. Queued
        BY <1>2 DEF Queued
  <2>3. shown \in Showing
        BY DEF RInit, Showing
  <2>4. waiting \in BOOLEAN /\ rend \in Phases
        BY DEF RInit, Phases
  <2> QED BY <2>1, <2>2, <2>3, <2>4 DEF ReadTyped
<1>7. Given
      BY DEF RInit, Given
<1>5. DueInOrder /\ DueIsLater
      BY <1>2 DEF DueInOrder, DueIsLater
<1>6. NothingLate /\ ReadsTellThePlace
      BY <1>2, <1>3, PlacesApart DEF RInit, NothingLate, ReadsTellThePlace
<1> QED BY <1>4, <1>5, <1>6, <1>7 DEF ReadInvariant

\* A step on the way to the next place, or to the end.
LEMMA StepForward ==
  ASSUME ReadTyped, waiting, at < Reads, Step
  PROVE  at' = at + 1 /\ at' \in 0 .. Reads /\ rend' \in {"running", "ok", "failed"}
BY FlashReadsAssumption DEF ReadTyped, Counts, Step

\* What was asked for stays.
LEMMA GivenStays == Given /\ [RNext]_rvars => Given'
BY DEF Given, RNext, rvars, Ask, Abandon, CardAnswers, Take, TimeOut

\* Every step of a read keeps it.
LEMMA ReadSteps == ReadInvariant /\ [RNext]_rvars => ReadInvariant'
<1> SUFFICES ASSUME ReadInvariant, [RNext]_rvars PROVE ReadInvariant'
    OBVIOUS
<1> USE FlashReadsAssumption, PlacesApart
<1>G. Given'
      BY GivenStays DEF ReadInvariant
<1>0. DueInOrder /\ DueIsLater /\ NothingLate /\ ReadsTellThePlace
      BY DEF ReadInvariant
<1>T. Counts /\ waiting \in BOOLEAN /\ Queued /\ shown \in Showing /\ rend \in Phases
      BY DEF ReadInvariant, ReadTyped
<1>D. at \in Nat /\ Due \subseteq Places
      BY <1>T, DueArePlaces DEF Counts
<1>1. CASE Ask
  <2>1. /\ ~waiting /\ waiting' /\ waiting' \in BOOLEAN /\ at < Reads /\ rend = "running"
        /\ UNCHANGED <<cmd, total, at, inbox, shown, misses, rend>>
        /\ asked' = asked \/ asked' = Append(asked, at)
        BY <1>1 DEF Ask
  <2>2. at \in Places
        BY <1>D, <2>1 DEF Places
  <2>3. \A p \in Due : p < at
        BY <1>0, <2>1 DEF DueIsLater
  <2>4. CASE asked' = asked
    <3>1. ReadTyped'
          BY <1>T, <2>1, <2>4 DEF ReadTyped, Counts, Queued
    <3>2. Due' = Due
          BY <2>1, <2>4 DEF Due
    <3>3. DueInOrder'
          BY <1>0, <2>1, <2>4 DEF DueInOrder
    <3>4. DueIsLater'
          BY <1>0, <2>1, <3>2 DEF DueIsLater
    <3>5. NothingLate'
          BY <1>0, <2>1, <3>2 DEF NothingLate
    <3>6. ReadsTellThePlace'
          BY <1>0, <2>1 DEF ReadsTellThePlace
    <3> QED BY <1>G, <3>1, <3>3, <3>4, <3>5, <3>6 DEF ReadInvariant
  <2>5. CASE asked' = Append(asked, at)
    <3>1. /\ asked' \in Seq(Places) /\ Len(asked) \in Nat
          /\ DOMAIN asked = 1 .. Len(asked) /\ DOMAIN asked' = 1 .. Len(asked) + 1
          /\ asked'[Len(asked) + 1] = at /\ \A i \in 1 .. Len(asked) : asked'[i] = asked[i]
          BY <1>T, <2>2, <2>5, QueueGrows DEF Queued
    <3>2. ReadTyped'
          BY <1>T, <2>1, <3>1 DEF ReadTyped, Counts, Queued
    <3>3. Due' \subseteq Due \cup {at}
          BY <2>1, <3>1 DEF Due
    <3>4. (\A i \in DOMAIN asked : asked[i] < at) /\ (\A i \in DOMAIN inbox : inbox[i] < at)
          BY <2>3 DEF Due
    <3>5. DueInOrder'
      <4>1. \A i, j \in DOMAIN asked' : i < j => asked'[i] < asked'[j]
            BY <1>0, <3>1, <3>4 DEF DueInOrder
      <4>2. \A i \in DOMAIN inbox, j \in DOMAIN asked' : inbox[i] < asked'[j]
            BY <1>0, <3>1, <3>4 DEF DueInOrder
      <4> QED BY <1>0, <2>1, <4>1, <4>2 DEF DueInOrder
    <3>6. DueIsLater'
      <4>1. \A k \in Places : shown[k] \in Places => shown[k] < at
        <5>1. \A k \in Places : shown[k] \in Places => shown[k] <= k /\ k < at
              BY <1>0 DEF ReadsTellThePlace, NothingLate
        <5> QED BY <1>D, <5>1 DEF Places
      <4>2. \A p \in Due' : p <= at
            BY <1>D, <2>3, <3>3 DEF Places
      <4>3. \A k \in Places, p \in Due' : shown[k] \in Places => shown[k] < p
            BY <1>0, <3>3, <4>1 DEF DueIsLater
      <4> QED BY <2>1, <4>2, <4>3 DEF DueIsLater
    <3>7. NothingLate'
      <4>1. (\A k \in Places : k < at => shown[k] # Missed) => \A p \in Due' : p >= at
            BY <1>0, <1>D, <3>3 DEF NothingLate
      <4> QED BY <1>0, <2>1, <4>1 DEF NothingLate
    <3>8. ReadsTellThePlace'
          BY <1>0, <2>1 DEF ReadsTellThePlace
    <3> QED BY <1>G, <3>2, <3>5, <3>6, <3>7, <3>8 DEF ReadInvariant
  <2> QED BY <2>1, <2>4, <2>5
<1>2. CASE Abandon
  <2>1. /\ rend' = "failed" /\ waiting' = FALSE
        /\ UNCHANGED <<cmd, total, at, asked, inbox, shown, misses>>
        BY <1>2 DEF Abandon, REnd
  <2>2. ReadTyped'
    <3>1. Counts' /\ Queued' /\ shown' \in Showing
          BY <1>T, <2>1 DEF Counts, Queued
    <3>2. waiting' \in BOOLEAN
          BY <2>1
    <3>3. rend' \in Phases
          BY <2>1 DEF Phases
    <3> QED BY <3>1, <3>2, <3>3 DEF ReadTyped
  <2>3. Due' = Due /\ DueInOrder'
        BY <1>0, <2>1 DEF Due, DueInOrder
  <2>4. DueIsLater' /\ NothingLate'
        BY <1>0, <2>1, <2>3 DEF DueIsLater, NothingLate
  <2>5. ReadsTellThePlace'
        BY <1>0, <2>1 DEF ReadsTellThePlace
  <2> QED BY <1>G, <2>2, <2>3, <2>4, <2>5 DEF ReadInvariant
<1>3. CASE CardAnswers
  <2>1. /\ asked # <<>> /\ asked' = Tail(asked)
        /\ inbox' = inbox \/ inbox' = Append(inbox, Head(asked))
        /\ UNCHANGED <<cmd, total, at, waiting, shown, misses, rend>>
        BY <1>3 DEF CardAnswers
  <2>2. /\ Head(asked) = asked[1] /\ DOMAIN asked = 1 .. Len(asked)
        /\ Len(asked) \in Nat \ {0} /\ Head(asked) \in Places
        BY <1>T, <2>1 DEF Queued
  <2>3. /\ asked' \in Seq(Places) /\ DOMAIN asked' = 1 .. Len(asked) - 1
        /\ \A i \in 1 .. Len(asked) - 1 : asked'[i] = asked[i + 1]
        BY <1>T, <2>1 DEF Queued
  <2>6. \A i \in DOMAIN asked' : i + 1 \in DOMAIN asked /\ asked'[i] = asked[i + 1] /\ 1 < i + 1
        BY <2>2, <2>3
  <2>7. /\ \A i, j \in DOMAIN asked' : i < j => asked'[i] < asked'[j]
        /\ \A j \in DOMAIN asked' : asked[1] < asked'[j]
        /\ \A i \in DOMAIN inbox, j \in DOMAIN asked' : inbox[i] < asked'[j]
    <3>1. ASSUME NEW i \in DOMAIN asked', NEW j \in DOMAIN asked', i < j
          PROVE  asked'[i] < asked'[j]
      <4>1. i + 1 \in DOMAIN asked /\ j + 1 \in DOMAIN asked /\ i + 1 < j + 1
            BY <2>2, <2>3, <3>1
      <4> QED BY <1>0, <2>6, <4>1 DEF DueInOrder
    <3>2. ASSUME NEW j \in DOMAIN asked' PROVE asked[1] < asked'[j]
      <4>1. 1 \in DOMAIN asked /\ j + 1 \in DOMAIN asked /\ 1 < j + 1
            BY <2>2, <2>3
      <4> QED BY <1>0, <2>6, <4>1 DEF DueInOrder
    <3>3. \A i \in DOMAIN inbox, j \in DOMAIN asked' : inbox[i] < asked'[j]
          BY <1>0, <2>6 DEF DueInOrder
    <3> QED BY <3>1, <3>2, <3>3
  <2>4. CASE inbox' = inbox
    <3>1. ReadTyped'
          BY <1>T, <2>1, <2>3, <2>4 DEF ReadTyped, Counts, Queued
    <3>2. Due' \subseteq Due
          BY <2>2, <2>3, <2>4 DEF Due
    <3>3. DueInOrder'
          BY <1>0, <2>4, <2>7 DEF DueInOrder
    <3> QED BY <1>G, <1>0, <2>1, <3>1, <3>2, <3>3
            DEF ReadInvariant, DueIsLater, NothingLate, ReadsTellThePlace
  <2>5. CASE inbox' = Append(inbox, Head(asked))
    <3>1. /\ inbox' \in Seq(Places) /\ Len(inbox) \in Nat
          /\ DOMAIN inbox = 1 .. Len(inbox) /\ DOMAIN inbox' = 1 .. Len(inbox) + 1
          /\ inbox'[Len(inbox) + 1] = asked[1] /\ \A i \in 1 .. Len(inbox) : inbox'[i] = inbox[i]
          BY <1>T, <2>2, <2>5, QueueGrows DEF Queued
    <3>2. ReadTyped'
          BY <1>T, <2>1, <2>3, <3>1 DEF ReadTyped, Counts, Queued
    <3>3. Due' \subseteq Due
      <4>1. asked[1] \in Due
            BY <2>2 DEF Due
      <4>2. \A i \in DOMAIN inbox' : inbox'[i] \in Due
            BY <3>1, <4>1 DEF Due
      <4>3. \A i \in DOMAIN asked' : asked'[i] \in Due
            BY <2>2, <2>3, SMTT(30) DEF Due
      <4> QED BY <4>2, <4>3 DEF Due
    <3>4. DueInOrder'
      <4>1. \A i, j \in DOMAIN inbox' : i < j => inbox'[i] < inbox'[j]
            BY <1>0, <2>2, <3>1 DEF DueInOrder
      <4>2. \A i \in DOMAIN inbox', j \in DOMAIN asked' : inbox'[i] < asked'[j]
        <5> SUFFICES ASSUME NEW i \in DOMAIN inbox', NEW j \in DOMAIN asked'
                     PROVE  inbox'[i] < asked'[j]
            OBVIOUS
        <5>1. CASE i \in DOMAIN inbox
              BY <2>7, <3>1, <5>1
        <5>2. CASE i = Len(inbox) + 1
              BY <2>7, <3>1, <5>2
        <5> QED BY <3>1, <5>1, <5>2
      <4> QED BY <2>7, <4>1, <4>2 DEF DueInOrder
    <3> QED BY <1>G, <1>0, <2>1, <3>2, <3>3, <3>4
            DEF ReadInvariant, DueIsLater, NothingLate, ReadsTellThePlace
  <2> QED BY <2>1, <2>4, <2>5
<1>4. CASE Take
  <2>1. PICK n \in 1 .. Len(inbox) : inbox' = SubSeq(inbox, n + 1, Len(inbox))
        BY <1>T, <1>4 DEF Take, Queued
  <2>2. /\ waiting /\ inbox # <<>> /\ waiting' = FALSE /\ Step
        /\ shown' = [shown EXCEPT ![at] = Head(inbox)]
        /\ UNCHANGED <<cmd, total, asked, misses>>
        BY <1>4 DEF Take
  <2>3. at < Reads /\ at \in Places
        BY <1>0, <1>D, <2>2 DEF NothingLate, Places
  <2>4. at' = at + 1 /\ at' \in 0 .. Reads /\ rend' \in {"running", "ok", "failed"}
        BY <1>T, <2>2, <2>3, StepForward DEF ReadTyped
  <2>5. /\ DOMAIN inbox = 1 .. Len(inbox) /\ Len(inbox) \in Nat \ {0} /\ inbox[1] = Head(inbox)
        /\ inbox' \in Seq(Places) /\ DOMAIN inbox' = 1 .. Len(inbox) - n
        /\ \A i \in 1 .. Len(inbox) - n : inbox'[i] = inbox[n + i]
        /\ Head(inbox) \in Places
        BY <1>T, <2>1, <2>2 DEF Queued
  <2>17. \A i \in 1 .. Len(inbox) - n : n + i \in 1 .. Len(inbox) /\ 1 < n + i
        BY <2>1, <2>5
  <2>6. Due' \subseteq Due /\ Head(inbox) \in Due
    <3>1. \A i \in DOMAIN inbox : inbox[i] \in Due
          BY DEF Due
    <3>2. \A i \in DOMAIN inbox' : inbox'[i] \in Due
          BY <2>5, <2>17, <3>1
    <3>4. asked' = asked
          BY <2>2
    <3>3. \A i \in DOMAIN asked' : asked'[i] \in Due
          BY <3>4 DEF Due
    <3>5. Due' = {inbox'[i] : i \in DOMAIN inbox'} \cup {asked'[i] : i \in DOMAIN asked'}
          BY Zenon DEF Due
    <3>6. ASSUME NEW p \in Due' PROVE p \in Due
      <4>1. CASE \E i \in DOMAIN inbox' : p = inbox'[i]
            BY <3>2, <4>1, Zenon
      <4>2. CASE \E i \in DOMAIN asked' : p = asked'[i]
            BY <3>3, <4>2, Zenon
      <4> QED BY <3>5, <3>6, <4>1, <4>2, Zenon
    <3>7. 1 \in DOMAIN inbox
          BY <2>5
    <3> QED BY <2>5, <3>1, <3>6, <3>7, Zenon
  <2>7. \A p \in Due' : Head(inbox) < p
    <3>1. \A i \in DOMAIN inbox' : Head(inbox) < inbox'[i]
      <4>1. \A i, j \in DOMAIN inbox : i < j => inbox[i] < inbox[j]
            BY <1>0 DEF DueInOrder
      <4>2. 1 \in DOMAIN inbox /\ \A i \in DOMAIN inbox' : n + i \in DOMAIN inbox /\ 1 < n + i
            BY <2>5, <2>17
      <4> QED BY <2>5, <4>1, <4>2
    <3>2. \A i \in DOMAIN asked' : Head(inbox) < asked'[i]
          BY <1>0, <2>2, <2>5, SMTT(30) DEF DueInOrder
    <3> QED BY <3>1, <3>2 DEF Due
  <2>8. ReadTyped'
    <3>1. shown' \in Showing
          BY <1>T, <2>2, <2>5 DEF Showing
    <3>2. Counts'
          BY <1>T, <2>2, <2>4 DEF Counts
    <3>5. Queued'
          BY <1>T, <2>2, <2>5 DEF Queued
    <3>3. waiting' \in BOOLEAN
          BY <2>2
    <3>4. rend' \in Phases
          BY <2>4 DEF Phases
    <3> QED BY <3>1, <3>2, <3>3, <3>4, <3>5 DEF ReadTyped
  <2>9. DueInOrder'
    <3>1. asked' = asked
          BY <2>2
    <3>2. \A i \in DOMAIN inbox' : inbox'[i] = inbox[n + i] /\ n + i \in DOMAIN inbox
          BY <2>5, <2>17
    <3>3. \A i, j \in DOMAIN inbox' : i < j => n + i < n + j
          BY <2>1, <2>5
    <3>4. \A i, j \in DOMAIN inbox' : i < j => inbox'[i] < inbox'[j]
          BY <1>0, <3>2, <3>3 DEF DueInOrder
    <3>5. \A i \in DOMAIN inbox', j \in DOMAIN asked' : inbox'[i] < asked'[j]
          BY <1>0, <3>1, <3>2 DEF DueInOrder
    <3>6. \A i, j \in DOMAIN asked' : i < j => asked'[i] < asked'[j]
          BY <1>0, <3>1 DEF DueInOrder
    <3> QED BY <3>4, <3>5, <3>6, Zenon DEF DueInOrder
  <2>10. \A k \in Places : shown'[k] = IF k = at THEN Head(inbox) ELSE shown[k]
        BY <1>T, <2>2, <2>3 DEF Showing
  <2>11. Due' \subseteq Places
        BY <1>D, <2>6
  <2>12. DueIsLater'
    <3>1. \A p \in Due' : p < at'
          BY <1>0, <1>D, <2>4, <2>6 DEF DueIsLater, Places
    <3>2. \A k \in Places, p \in Due' : shown'[k] \in Places => shown'[k] < p
          BY <1>0, <2>6, <2>7, <2>10 DEF DueIsLater
    <3>3. \A p \in Due' : p <= at'
          BY <2>4, <2>11, <3>1 DEF Places
    <3> QED BY <3>1, <3>2, <3>3 DEF DueIsLater
  <2>13. (\A k \in Places : k < at => shown[k] # Missed) => Head(inbox) = at
    <3>1. Head(inbox) <= at
          BY <1>0, <2>6 DEF DueIsLater
    <3>2. (\A k \in Places : k < at => shown[k] # Missed) => Head(inbox) >= at
          BY <1>0, <2>6 DEF NothingLate
    <3> QED BY <1>D, <2>5, <3>1, <3>2 DEF Places
  <2>14. NothingLate'
    <3>1. ASSUME \A k \in Places : k < at' => shown'[k] # Missed
          PROVE  \A p \in Due' : p >= at'
      <4>1. \A k \in Places : k < at => shown[k] # Missed
            BY <1>D, <2>4, <2>10, <3>1 DEF Places
      <4> QED BY <1>D, <2>4, <2>5, <2>7, <2>11, <2>13, <4>1 DEF Places
    <3>2. \A k \in Places : shown'[k] \in Places => k < at'
      <4>1. \A k \in Places : k # at /\ shown'[k] \in Places => k < at
            BY <1>0, <2>10 DEF NothingLate
      <4> QED BY <1>D, <2>4, <4>1 DEF Places
    <3>3. cmd' \notin {"scan", "range"} => \A k \in Places : shown'[k] # Missed
          BY <1>0, <2>2, <2>5, <2>10 DEF NothingLate
    <3> QED BY <2>2, <3>1, <3>2, <3>3 DEF NothingLate
  <2>15. ReadsTellThePlace'
    <3>1. Head(inbox) <= at
          BY <1>0, <2>6 DEF DueIsLater
    <3>2. \A k \in Places : shown[k] \in Places => shown[k] < Head(inbox)
          BY <1>0, <2>6 DEF DueIsLater
    <3>3. \A k \in Places : k < at => k \in 0 .. at - 1
          BY <2>3 DEF Places
    <3>4. ASSUME NEW i \in Places, shown'[i] \in Places, i # at
          PROVE  /\ i < at /\ shown'[i] <= i
                 /\ \A k \in 0 .. i - 1 : shown'[k] \in Places => shown'[k] < shown'[i]
                 /\ shown'[i] = i \/ \E k \in 0 .. i - 1 : shown'[k] = Missed
                 /\ cmd' \notin {"scan", "range"} => shown'[i] = i
      <4>1. i < at /\ shown'[i] = shown[i] /\ 0 .. i - 1 \subseteq Places
            BY <1>0, <2>3, <2>10, <3>4 DEF NothingLate, Places
      <4>2. \A k \in 0 .. i - 1 : shown'[k] = shown[k]
            BY <2>3, <2>10, <4>1 DEF Places
      <4> QED BY <1>0, <2>2, <3>4, <4>1, <4>2 DEF ReadsTellThePlace
    <3>5. /\ \A k \in 0 .. at - 1 : shown'[k] \in Places => shown'[k] < shown'[at]
          /\ shown'[at] = at \/ \E k \in 0 .. at - 1 : shown'[k] = Missed
          /\ cmd' \notin {"scan", "range"} => shown'[at] = at
          /\ shown'[at] <= at
      <4>1. shown'[at] = Head(inbox) /\ 0 .. at - 1 \subseteq Places
            BY <2>3, <2>10 DEF Places
      <4>2. \A k \in 0 .. at - 1 : shown'[k] = shown[k]
            BY <2>3, <2>10, <4>1 DEF Places
      <4>3. cmd \notin {"scan", "range"} => \A k \in Places : shown[k] # Missed
            BY <1>0 DEF NothingLate
      <4> QED BY <2>2, <2>3, <2>13, <3>1, <3>2, <3>3, <4>1, <4>2, <4>3
    <3> QED BY <3>4, <3>5 DEF ReadsTellThePlace
  <2> QED BY <1>G, <2>8, <2>9, <2>12, <2>14, <2>15 DEF ReadInvariant
<1>5. CASE TimeOut
  <2>1. waiting /\ waiting' = FALSE /\ NoAnswer /\ UNCHANGED <<cmd, total, asked, inbox>>
        BY <1>5 DEF TimeOut
  <2>2. at < Reads /\ at \in Places
        BY <1>0, <1>D, <2>1 DEF NothingLate, Places
  <2>3. DueInOrder' /\ Due' = Due /\ Queued' /\ waiting' \in BOOLEAN
        BY <1>0, <1>T, <2>1 DEF DueInOrder, Due, Queued
  <2>4. CASE MissedFails
    <3>1. rend' = "failed" /\ UNCHANGED <<at, shown, misses>>
          BY <2>4 DEF MissedFails
    <3>2. ReadTyped'
          BY <1>T, <2>3, <3>1 DEF ReadTyped, Counts, Phases
    <3>3. DueIsLater' /\ NothingLate'
          BY <1>0, <2>1, <2>3, <3>1 DEF DueIsLater, NothingLate
    <3>4. ReadsTellThePlace'
          BY <1>0, <2>1, <3>1 DEF ReadsTellThePlace
    <3> QED BY <1>G, <2>3, <3>2, <3>3, <3>4 DEF ReadInvariant
  <2>5. CASE MissedGoesOn \/ MissedGivesUp
    <3>1. /\ shown' = [shown EXCEPT ![at] = Missed] /\ cmd \in {"scan", "range"}
          /\ rend' \in {"running", "ok", "failed"} /\ misses' \in 0 .. MaxMisses
          /\ at' \in {at, at + 1} /\ at' \in 0 .. Reads
          /\ at' = at + 1 \/ rend' # "running"
      <4>1. ReadTyped
            BY <1>T DEF ReadTyped
      <4>2. CASE MissedGoesOn
        <5>1. at' = at + 1 /\ at' \in 0 .. Reads /\ rend' \in {"running", "ok", "failed"}
              BY <2>1, <2>2, <4>1, <4>2, StepForward DEF MissedGoesOn
        <5> QED BY <1>T, <4>2, <5>1 DEF MissedGoesOn, Counts
      <4>3. CASE MissedGivesUp
            BY <1>T, <4>3 DEF MissedGivesUp, Counts
      <4> QED BY <2>5, <4>2, <4>3
    <3>2. \A k \in Places : shown'[k] = IF k = at THEN Missed ELSE shown[k]
          BY <1>T, <2>2, <3>1 DEF Showing
    <3>3. ReadTyped'
      <4>1. shown' \in Showing
            BY <1>T, <3>1 DEF Showing
      <4> QED BY <2>3, <3>1, <4>1 DEF ReadTyped, Counts, Phases
    <3>4. DueIsLater'
      <4>1. \A k \in Places, p \in Due' : shown'[k] \in Places => shown'[k] < p
            BY <1>0, <2>3, <3>2 DEF DueIsLater
      <4>2. \A p \in Due' : p <= at
            BY <1>0, <2>3 DEF DueIsLater
      <4>3. \A p \in Due' : p <= at' /\ (rend' = "running" => p < at')
            BY <1>D, <2>3, <3>1, <4>2 DEF Places
      <4> QED BY <4>1, <4>3 DEF DueIsLater
    <3>5. NothingLate'
      <4>1. \A k \in Places : shown'[k] \in Places => k < at /\ k < at'
            BY <1>0, <1>D, <3>1, <3>2 DEF NothingLate, Places
      <4>2. (\A k \in Places : k < at' => shown'[k] # Missed) => \A p \in Due' : p >= at'
        <5>1. CASE at' = at
          <6>1. ASSUME \A k \in Places : k < at => shown'[k] # Missed
                PROVE  \A k \in Places : k < at => shown[k] # Missed
                BY <1>D, <3>2, <6>1 DEF Places
          <6> QED BY <1>0, <2>3, <5>1, <6>1 DEF NothingLate
        <5>2. CASE at' = at + 1
          <6>1. at < at' /\ shown'[at] = Missed
                BY <2>2, <3>2, <5>2 DEF Places
          <6> QED BY <2>2, <6>1
        <5> QED BY <3>1, <5>1, <5>2
      <4> QED BY <2>1, <3>1, <4>1, <4>2 DEF NothingLate
    <3>6. ReadsTellThePlace'
      <4>1. ASSUME NEW i \in Places, shown'[i] \in Places
            PROVE  /\ shown'[i] = shown[i] /\ 0 .. i - 1 \subseteq Places
                   /\ \A k \in 0 .. i - 1 : shown'[k] = shown[k]
            BY <1>0, <2>2, <3>2, <4>1 DEF NothingLate, Places
      <4> QED BY <1>0, <2>1, <4>1 DEF ReadsTellThePlace
    <3> QED BY <1>G, <2>3, <3>3, <3>4, <3>5, <3>6 DEF ReadInvariant
  <2> QED BY <2>1, <2>4, <2>5 DEF NoAnswer
<1>6. CASE UNCHANGED rvars
  <2>1. ReadTyped' /\ Due' = Due
        BY <1>T, <1>6 DEF rvars, ReadTyped, Counts, Queued, Due
  <2> QED BY <1>0, <1>G, <1>6, <2>1 DEF rvars, ReadInvariant, DueInOrder, DueIsLater,
                        NothingLate, ReadsTellThePlace
<1> QED BY <1>1, <1>2, <1>3, <1>4, <1>5, <1>6 DEF RNext

\* The types are part of the invariant.
LEMMA ReadsTyped == ReadInvariant => RTypeOK
BY DEF ReadInvariant, ReadTyped, Counts, Queued, Showing, Phases, Given, RTypeOK

\* Type correctness of the reads.
THEOREM ReadTypes == RSpec => []RTypeOK
<1> QED BY ReadsTyped, ReadsStart, ReadSteps, PTL DEF RSpec

\* A reply carries no page number; a back-up, a read-back and a verification
\* show each place's own bytes all the same, and a scan or a range that does not
\* has a hole to show for it (ops::flash read_blocks, verify_firmware, scan_flash,
\* dump_range).
THEOREM ReadsAreTruthful == RSpec => []ReadsTellThePlace
<1>1. ReadInvariant => ReadsTellThePlace
      BY DEF ReadInvariant
<1> QED BY <1>1, ReadsStart, ReadSteps, PTL DEF RSpec

-----------------------------------------------------------------------------
(* The commands that write the configuration.                               *)
CSpec == CInit /\ [][CNext]_cvars

WholeBlocks == [config : {"old", "new", "holed"}, record : Record]

\* What a command knows at each step: the block is as it found it until it
\* rewrites it, and a write_config has its image, and its file, to put the
\* record back from.
CommandOnItsWay ==
  /\ next # "stopped" => ended = "none"
  /\ next = "read" => Block = before /\ ~ignored
  /\ next = "read" /\ task = "restore" => backup \in WholeBlocks
  /\ next = "rewrite" /\ task = "restore" => original \in WholeBlocks
  /\ next \in {"rewrite", "record"} => task # "size"
  /\ next \in {"rewrite", "record"} /\ task = "write" =>
       original = before /\ backup = before /\ ~ignored
  /\ next = "rewrite" /\ task = "write" => Block = before
  /\ next = "record" /\ task = "write" => record \in {before.record, Cleared}
  /\ next = "verify" =>
       /\ task = "size" /\ record.area = before.record.area
       /\ record # before.record => record.area = "good"

EraseInvariant == CTypeOK /\ CommandOnItsWay /\ EraseTakesNothingAway

\* What can be in a block, by its parts.
LEMMA Images ==
  /\ Cleared \in Record /\ NoFile \notin WholeBlocks
  /\ \A b \in WholeBlocks : b.config \in {"old", "new", "holed"} /\ b.record \in Record
  /\ \A r \in Record : r.area \in {"good", "erased"} /\ r.size \in {"good", "new", "erased"}
<1>1. Cleared \in Record /\ \A r \in Record : r.area \in {"good", "erased"} /\ r.size \in {"good", "new", "erased"}
      BY DEF Cleared, Record, Field
<1>2. \A b \in WholeBlocks : b.config \in {"old", "new", "holed"} /\ b.record \in Record
      BY DEF WholeBlocks
<1>3. NoFile \notin WholeBlocks
  <2>1. NoFile.config \notin {"old", "new", "holed"}
        BY DEF NoFile
  <2> QED BY <1>2, <2>1
<1> QED BY <1>1, <1>2, <1>3

\* It holds before the first command.
LEMMA CommandsStart == CInit => EraseInvariant
<1> SUFFICES ASSUME CInit PROVE EraseInvariant
    OBVIOUS
<1>1. record \in Record
      BY DEF CInit, Record, Field
<1>2. CTypeOK
  <2>1. ignored \in BOOLEAN
        BY DEF CInit
  <2>2. before \in [config : {"old", "new", "holed"}, record : Record]
        BY <1>1 DEF CInit
  <2>3. commands \in 0 .. MaxCommands
        BY MaxCommandsAssumption DEF CInit
  <2>4. backup = NoFile /\ original = NoFile
        BY DEF CInit
  <2> QED BY <1>1, <2>1, <2>2, <2>3, <2>4 DEF CInit, CTypeOK
<1> QED BY <1>2 DEF CInit, EraseInvariant, CommandOnItsWay, EraseTakesNothingAway,
                    RecordOutlivesTheErase, BackupIsTheBlock

\* Every step of a configuration command keeps it.
LEMMA CommandSteps == EraseInvariant /\ [CNext]_cvars => EraseInvariant'
<1> SUFFICES ASSUME EraseInvariant, [CNext]_cvars PROVE EraseInvariant'
    OBVIOUS
<1> USE MaxCommandsAssumption, Images DEF CEnd
<1>T. CTypeOK
      BY DEF EraseInvariant
<1>W. CommandOnItsWay
      BY DEF EraseInvariant
<1>E. RecordOutlivesTheErase /\ BackupIsTheBlock
      BY DEF EraseInvariant, EraseTakesNothingAway
<1>B. Block \in WholeBlocks /\ before \in WholeBlocks
      BY <1>T DEF Block, WholeBlocks, CTypeOK
<1>F. {NoFile} \cup WholeBlocks = {NoFile} \cup [config : {"old", "new", "holed"}, record : Record]
      BY DEF WholeBlocks
<1>1. ASSUME NEW t \in {"write", "base", "restore", "size"}, Command(t)
      PROVE  EraseInvariant'
  <2>1. CTypeOK'
    <3>1. UNCHANGED <<config, record, backup, original>> /\ before' = Block /\ ignored' = FALSE
          BY <1>1 DEF Command
    <3>2. commands' \in 0 .. MaxCommands /\ next' = "read" /\ ended' = "none" /\ task' = t
          BY <1>T, <1>1 DEF CTypeOK, Command
    <3>3. before' \in [config : {"old", "new", "holed"}, record : Record]
          BY <1>B, <3>1 DEF WholeBlocks
    <3>4. ignored' \in BOOLEAN
          BY <3>1
    <3> QED BY <1>T, <3>1, <3>2, <3>3, <3>4 DEF CTypeOK
  <2>2. CommandOnItsWay'
        BY <1>T, <1>1, <1>F DEF CTypeOK, CommandOnItsWay, Command, Block
  <2>3. RecordOutlivesTheErase' /\ BackupIsTheBlock'
        BY <1>1 DEF Command, Block, RecordOutlivesTheErase, BackupIsTheBlock
  <2> QED BY <2>1, <2>2, <2>3 DEF EraseInvariant, EraseTakesNothingAway
<1>2. CASE Interrupted \/ DryRun
  <2>1. CTypeOK'
        BY <1>T, <1>2 DEF CTypeOK, Interrupted, DryRun
  <2>2. CommandOnItsWay'
        BY <1>2 DEF CommandOnItsWay, Interrupted, DryRun
  <2>3. RecordOutlivesTheErase' /\ BackupIsTheBlock'
        BY <1>2, <1>W, <1>E, <1>B DEF Interrupted, DryRun, RecordOutlivesTheErase, BackupIsTheBlock,
                                CommandOnItsWay, Block
  <2> QED BY <2>1, <2>2, <2>3 DEF EraseInvariant, EraseTakesNothingAway
<1>3. CASE ReadBlock
  <2>1. CTypeOK'
        BY <1>T, <1>3, <1>B DEF CTypeOK, ReadBlock, WholeBlocks
  <2>2. CommandOnItsWay'
        BY <1>3, <1>W DEF CommandOnItsWay, ReadBlock, Block
  <2>3. RecordOutlivesTheErase' /\ BackupIsTheBlock'
        BY <1>3, <1>W DEF ReadBlock, RecordOutlivesTheErase, BackupIsTheBlock, CommandOnItsWay, Block
  <2> QED BY <2>1, <2>2, <2>3 DEF EraseInvariant, EraseTakesNothingAway
<1>4. CASE ReadBaseImage \/ ReadBackup
  <2>1. CTypeOK'
        BY <1>T, <1>4 DEF CTypeOK, ReadBaseImage, ReadBackup
  <2>2. CommandOnItsWay'
        BY <1>4, <1>W DEF CommandOnItsWay, ReadBaseImage, ReadBackup
  <2>3. RecordOutlivesTheErase' /\ BackupIsTheBlock'
        BY <1>4, <1>W DEF ReadBaseImage, ReadBackup, RecordOutlivesTheErase, BackupIsTheBlock,
                          CommandOnItsWay
  <2> QED BY <2>1, <2>2, <2>3 DEF EraseInvariant, EraseTakesNothingAway
<1>5. CASE Rewrite
  <2>1. Rewritten \in {"old", "new", "holed"}
        BY <1>5, <1>W DEF Rewrite, Rewritten, CommandOnItsWay
  <2>2. CTypeOK'
        BY <1>T, <1>5, <2>1 DEF CTypeOK, Rewrite
  <2>3. CommandOnItsWay'
        BY <1>5, <1>W DEF CommandOnItsWay, Rewrite, Block
  <2>4. RecordOutlivesTheErase' /\ BackupIsTheBlock'
        BY <1>5, <1>W DEF Rewrite, RecordOutlivesTheErase, BackupIsTheBlock, CommandOnItsWay
  <2> QED BY <2>2, <2>3, <2>4 DEF EraseInvariant, EraseTakesNothingAway
<1>6. CASE RecordBack
  <2>1. record' \in {record, original.record}
        BY <1>6 DEF RecordBack, SendRecord
  <2>2. original.record \in Record
        BY <1>T DEF CTypeOK, NoFile, WholeBlocks
  <2>3. CTypeOK'
        BY <1>T, <1>6, <2>1, <2>2, ZenonT(60) DEF CTypeOK, RecordBack, SendRecord
  <2>4. CommandOnItsWay'
        BY <1>6 DEF CommandOnItsWay, RecordBack
  <2>5. BackupIsTheBlock'
        BY <1>6, <1>W DEF RecordBack, BackupIsTheBlock, CommandOnItsWay
  <2>6. RecordOutlivesTheErase'
        BY <1>6, <1>W DEF RecordBack, RecordOutlivesTheErase, CommandOnItsWay, PutBack, SendRecord
  <2> QED BY <2>3, <2>4, <2>5, <2>6 DEF EraseInvariant, EraseTakesNothingAway
<1>7. CASE SetSize
  <2>1. record \in Record /\ record' \in {record, [record EXCEPT !.size = "new"]}
        BY <1>T, <1>7 DEF CTypeOK, SetSize, SendRecord
  <2>2. /\ record' \in Record /\ record'.area = record.area
        /\ record' # record => ~LooksErased(record)
        BY <1>7, <2>1 DEF Record, Field, SetSize, SendRecord
  <2>3. CTypeOK'
        BY <1>T, <1>7, <2>2, ZenonT(60) DEF CTypeOK, SetSize, SendRecord
  <2>4. record' # record => record'.area = "good"
        BY <2>1, <2>2 DEF LooksErased
  <2>5. CommandOnItsWay'
        BY <1>7, <1>W, <2>2, <2>4 DEF CommandOnItsWay, SetSize, Block
  <2>6. RecordOutlivesTheErase' /\ BackupIsTheBlock'
        BY <1>7, <1>W, <2>2, <2>4 DEF SetSize, RecordOutlivesTheErase, BackupIsTheBlock, CommandOnItsWay,
                                      Block
  <2> QED BY <2>3, <2>5, <2>6 DEF EraseInvariant, EraseTakesNothingAway
<1>8. CASE VerifySize
  <2>1. CTypeOK'
        BY <1>T, <1>8 DEF CTypeOK, VerifySize
  <2>2. CommandOnItsWay'
        BY <1>8 DEF CommandOnItsWay, VerifySize
  <2>3. RecordOutlivesTheErase' /\ BackupIsTheBlock'
        BY <1>8, <1>W DEF VerifySize, RecordOutlivesTheErase, BackupIsTheBlock, CommandOnItsWay
  <2> QED BY <2>1, <2>2, <2>3 DEF EraseInvariant, EraseTakesNothingAway
<1>9. CASE UNCHANGED cvars
      BY <1>9 DEF cvars, EraseInvariant, CTypeOK, CommandOnItsWay, EraseTakesNothingAway, Block,
                  RecordOutlivesTheErase, BackupIsTheBlock
<1> QED BY <1>1, <1>2, <1>3, <1>4, <1>5, <1>6, <1>7, <1>8, <1>9 DEF CNext

\* Type correctness of the commands.
THEOREM ConfigTypes == CSpec => []CTypeOK
<1>1. EraseInvariant => CTypeOK
      BY DEF EraseInvariant
<1> QED BY <1>1, CommandsStart, CommandSteps, PTL DEF CSpec

\* Whatever commands ran before, in whatever order and cut short anywhere: a
\* write_config of the card's own block that ends well leaves the screen record
\* it found, one that stops anywhere has the block it found in its file, and
\* screen_size leaves the rest of the record alone (ops::flash write_config,
\* restore_flash; ops::screen screen_size).
THEOREM ErasesAreCovered == CSpec => []EraseTakesNothingAway
<1>1. EraseInvariant => EraseTakesNothingAway
      BY DEF EraseInvariant
<1> QED BY <1>1, CommandsStart, CommandSteps, PTL DEF CSpec

-----------------------------------------------------------------------------
(* ops::flash::rewrite_block.                                               *)
USE PagesAssumption, AttemptsAssumption

\* The types, that a page with a blank image never shows another image, and
\* that no attempt follows the last one.
Typed ==
  /\ TypeOK
  /\ \A i \in Blank : flash[i] # "image"
  /\ pc \in {"erase", "write"} => attempt <= Attempts

\* While pages are being written and the card has missed nothing: what is not
\* still to write is right, what is still to write is erased.
AttemptSoFar ==
  pc = "write" /\ ~lost =>
    /\ \A i \in Writable \ todo : flash[i] = Want(i)
    /\ \A i \in todo : flash[i] = "erased"

\* After an attempt without a loss the pages the card lets us write are right.
AttemptOver ==
  pc = "read" /\ ~lost => \A i \in Writable : flash[i] = Want(i)

\* What has been said when the command stopped.
Verdicts ==
  /\ result # "none" => pc = "stopped"
  /\ result = "ok" => \A i \in MustVerify : flash[i] = Want(i)
  /\ result \in {"ok", "unverified", "cancelled"} /\ ~lost =>
       \A i \in Writable : flash[i] = Want(i)
  /\ result = "unverified" => \E i \in MustVerify : flash[i] # Want(i)

BlockInv == Typed /\ AttemptSoFar /\ AttemptOver /\ RepairsErasedPages /\ Verdicts

-----------------------------------------------------------------------------
\* A write leaves a page erased (if its image is) or with some content, right
\* if it was erased and the card takes writes there.
LEMMA ProgramFacts ==
  ASSUME Typed, NEW i \in Pages, NEW c \in Programmed(i)
  PROVE  /\ c \in Contents
         /\ i \in Blank => c # "image"
         /\ flash[i] = "erased" /\ i \in Writable => c = Want(i)
BY DEF Typed, TypeOK, Programmed, Contents, Want, Writable

\* The types are kept.
LEMMA TypedStep == Typed /\ [Next]_vars => Typed'
<1>. SUFFICES ASSUME Typed, [Next]_vars PROVE Typed'
  OBVIOUS
<1>. USE DEF Typed, TypeOK
<1>1. CASE Erase
  BY <1>1 DEF Erase, CardErases, CardMisses, Contents
<1>2. ASSUME NEW i \in Pages, WritePage(i) PROVE Typed'
  <2>1. CASE CardMisses
    BY <1>2, <2>1 DEF WritePage, CardMisses
  <2>2. CASE CardWrites(i)
    <3>1. PICK c \in Programmed(i) : flash' = [flash EXCEPT ![i] = c]
      BY <2>2 DEF CardWrites
    <3>. QED
      BY <1>2, <3>1, ProgramFacts DEF WritePage, CardMisses
  <2>. QED
    BY <1>2, <2>1, <2>2 DEF WritePage
<1>3. CASE Written
  <2>1. attempt' \in 1 .. Attempts + 1
    BY <1>3 DEF Written
  <2>. QED
    BY <1>3, <2>1 DEF Written
<1>4. CASE Reread
  BY <1>4 DEF Reread, Stop, Bad, Again
<1>5. CASE LastRead \/ Cancelled \/ LinkFails
  BY <1>5 DEF LastRead, Cancelled, LinkFails, Stop, Verdict
<1>6. CASE UNCHANGED vars
  BY <1>6 DEF vars
<1>. QED
  BY <1>1, <1>2, <1>3, <1>4, <1>5, <1>6 DEF Next

\* An attempt's writes: what they have done is right, what is left is erased.
LEMMA AttemptStep == BlockInv /\ [Next]_vars => AttemptSoFar' /\ AttemptOver'
<1>. SUFFICES ASSUME BlockInv, [Next]_vars PROVE AttemptSoFar' /\ AttemptOver'
  OBVIOUS
<1>. USE DEF BlockInv, AttemptSoFar, AttemptOver
<1>0. Writable \subseteq Pages
  BY DEF Writable
<1>1. CASE Erase
  <2>1. CASE lost'
    BY <1>1, <2>1 DEF Erase
  <2>2. CASE CardErases
    BY <1>0, <1>1, <2>2 DEF Erase, CardErases, Writable
  <2>. QED
    BY <1>1, <2>1, <2>2 DEF Erase
<1>2. ASSUME NEW i \in Pages, WritePage(i) PROVE AttemptSoFar' /\ AttemptOver'
  <2>1. CASE lost'
    BY <1>2, <2>1 DEF WritePage
  <2>2. CASE CardWrites(i) /\ ~lost'
    <3>1. PICK c \in Programmed(i) : flash' = [flash EXCEPT ![i] = c]
      BY <2>2 DEF CardWrites
    <3>2. /\ pc = "write" /\ pc' = "write" /\ ~lost /\ i \in todo
          /\ todo' = todo \ {i}
      BY <1>2, <2>2 DEF WritePage
    <3>3. i \in Writable => c = Want(i)
      BY <3>2, ProgramFacts
    <3>4. flash'[i] = c /\ \A k \in Pages \ {i} : flash'[k] = flash[k]
      BY <3>1 DEF Typed, TypeOK
    <3>5. todo \subseteq Pages
      BY DEF Typed, TypeOK
    <3>6. \A k \in Writable \ todo' : flash'[k] = Want(k)
      BY <1>0, <3>2, <3>3, <3>4
    <3>7. \A k \in todo' : flash'[k] = "erased"
      BY <3>2, <3>4, <3>5
    <3>. QED
      BY <3>2, <3>6, <3>7
  <2>3. lost' \/ (CardWrites(i) /\ ~lost')
    BY <1>2 DEF WritePage
  <2>. QED
    BY <2>1, <2>2, <2>3
<1>3. CASE Written
  BY <1>3 DEF Written
<1>4. CASE Reread
  <2>1. pc' = "write" => todo' = Bad /\ ~Dirty /\ flash' = flash
    BY <1>4 DEF Reread, Stop
  <2>2. pc' # "read"
    BY <1>4 DEF Reread, Stop
  <2>. QED
    BY <1>0, <2>1, <2>2 DEF Bad, Dirty
<1>5. CASE LastRead \/ Cancelled \/ LinkFails
  BY <1>5 DEF LastRead, Cancelled, LinkFails, Stop
<1>6. CASE UNCHANGED vars
  BY <1>6 DEF vars
<1>. QED
  BY <1>1, <1>2, <1>3, <1>4, <1>5, <1>6 DEF Next

\* A repair only ever goes to erased pages.
LEMMA RepairStep == BlockInv /\ [Next]_vars => RepairsErasedPages'
<1>. SUFFICES ASSUME BlockInv, [Next]_vars PROVE RepairsErasedPages'
  OBVIOUS
<1>. USE DEF BlockInv, RepairsErasedPages
<1>1. CASE Erase
  BY <1>1 DEF Erase
<1>2. ASSUME NEW i \in Pages, WritePage(i) PROVE RepairsErasedPages'
  <2>1. \A k \in Pages \ {i} : flash'[k] = flash[k]
    BY <1>2 DEF WritePage, CardMisses, CardWrites, Typed, TypeOK
  <2>2. /\ todo' = todo \ {i} /\ todo \subseteq Pages
        /\ pc = "write" /\ erased' = erased
    BY <1>2 DEF WritePage, Typed, TypeOK
  <2>. QED
    BY <2>1, <2>2
<1>3. CASE Written
  BY <1>3 DEF Written
<1>4. CASE Reread
  <2>1. pc' = "write" => todo' = Bad /\ ~Dirty /\ flash' = flash
    BY <1>4 DEF Reread, Stop
  <2>. QED
    BY <2>1 DEF Dirty
<1>5. CASE LastRead \/ Cancelled \/ LinkFails
  BY <1>5 DEF LastRead, Cancelled, LinkFails, Stop
<1>6. CASE UNCHANGED vars
  BY <1>6 DEF vars
<1>. QED
  BY <1>1, <1>2, <1>3, <1>4, <1>5, <1>6 DEF Next

\* What is said at the end is true, and stays true: nothing is sent after it.
LEMMA VerdictStep == BlockInv /\ [Next]_vars => Verdicts'
<1>. SUFFICES ASSUME BlockInv, [Next]_vars PROVE Verdicts'
  OBVIOUS
<1>. USE DEF BlockInv, Verdicts
<1>1. CASE Erase
  BY <1>1 DEF Erase
<1>2. ASSUME NEW i \in Pages, WritePage(i) PROVE Verdicts'
  BY <1>2 DEF WritePage
<1>3. CASE Written
  BY <1>3 DEF Written
<1>4. CASE Reread
  <2>1. CASE Bad = {} /\ Stop("ok")
    BY <1>4, <2>1 DEF Reread, Stop, Bad, Writable
  <2>2. CASE result' = result /\ pc' # "stopped"
    BY <1>4, <2>2 DEF Reread
  <2>. QED
    BY <1>4, <2>1, <2>2 DEF Reread
<1>5. CASE LastRead
  <2>1. /\ pc = "read" /\ pc' = "stopped" /\ result' = Verdict
        /\ flash' = flash /\ lost' = lost
    BY <1>5 DEF LastRead, Stop
  <2>2. result' = "ok" => \A i \in MustVerify : flash'[i] = Want(i)
    BY <2>1 DEF Verdict, Bad
  <2>3. result' = "unverified" => \E i \in MustVerify : flash'[i] # Want(i)
    BY <2>1 DEF Verdict, Bad
  <2>. QED
    BY <2>1, <2>2, <2>3 DEF AttemptOver
<1>6. CASE Cancelled
  BY <1>6 DEF Cancelled, Stop, AttemptOver
<1>7. CASE LinkFails
  BY <1>7 DEF LinkFails, Stop
<1>8. CASE UNCHANGED vars
  BY <1>8 DEF vars
<1>. QED
  BY <1>1, <1>2, <1>3, <1>4, <1>5, <1>6, <1>7, <1>8 DEF Next

\* The types hold before the first attempt.
LEMMA TypedStart == Init => Typed
<1>1. 1 \in 1 .. Attempts + 1 /\ 1 <= Attempts
      OBVIOUS
<1> QED BY <1>1 DEF Init, Typed, TypeOK

\* The conjunction is an invariant of rewrite_block.
THEOREM BlockInvariant == Spec => []BlockInv
<1>1. Init => BlockInv
  <2>2. Init => Typed
    BY TypedStart
  <2>3. Init => AttemptSoFar /\ AttemptOver /\ RepairsErasedPages /\ Verdicts
    BY DEF Init, AttemptSoFar, AttemptOver, RepairsErasedPages, Verdicts
  <2>. QED
    BY <2>2, <2>3 DEF BlockInv
<1>2. BlockInv /\ [Next]_vars => BlockInv'
  BY TypedStep, AttemptStep, RepairStep, VerdictStep DEF BlockInv
<1>. QED
  BY <1>1, <1>2, PTL DEF Spec

\* Every variable always holds a value of its type.
THEOREM BlockTypes == Spec => []TypeOK
<1>1. BlockInv => TypeOK
  BY DEF BlockInv, Typed
<1>. QED
  BY <1>1, BlockInvariant, PTL

\* Success means that every page that has to be right is.
THEOREM OkIsWritten == Spec => []OkMeansWritten
<1>1. BlockInv => OkMeansWritten
  BY DEF BlockInv, Verdicts, OkMeansWritten
<1>. QED
  BY <1>1, BlockInvariant, PTL

\* An attempt that does not erase writes erased pages only.
THEOREM RepairsAreSafe == Spec => []RepairsErasedPages
<1>1. BlockInv => RepairsErasedPages
  BY DEF BlockInv
<1>. QED
  BY <1>1, BlockInvariant, PTL

\* A cancelled or finished rewrite leaves a whole block after a clean attempt.
THEOREM WholeWhenStopped == Spec => []StopsWithAWholeBlock
<1>1. BlockInv => StopsWithAWholeBlock
  BY DEF BlockInv, Verdicts, StopsWithAWholeBlock
<1>. QED
  BY <1>1, BlockInvariant, PTL

\* A rewrite fails to verify only when the card missed a frame of the last
\* attempt or refuses a page that has to be right.
THEOREM FailuresAreCaused == Spec => []FailureHasACause
<1>1. BlockInv => FailureHasACause
  BY DEF BlockInv, Verdicts, FailureHasACause
<1>. QED
  BY <1>1, BlockInvariant, PTL

-----------------------------------------------------------------------------
(* The modules side by side, as the run takes them.                         *)

\* A part that the behaviour is not of stays where it started.
PanelSide == IF which = "panel" THEN PanelInv ELSE GTypeOK
FileSide == IF which = "file" THEN FileInv ELSE FileTypeOK
FlashInv ==
  /\ Typed /\ ReadInvariant /\ UTypeOK /\ BankInvariant /\ EraseInvariant
  /\ PanelSide /\ FileSide

\* What the panel's and the files' commands are parked at has their types.
LEMMA ParkedTypes ==
  /\ NotGenerating => GTypeOK
  /\ NotComposing => FileTypeOK
<1>1. ASSUME NotGenerating PROVE GTypeOK
  <2>1. Len(Packs) \in Nat
    <3>1. Packs \in Seq([from : Int, to : Int])
          BY DEF Packs, Pack, Offset
    <3> QED BY <3>1, LenProperties
  <2>2. 0 \in 0 .. Len(Steps) /\ 0 \in 0 .. Len(Packs) /\ 1 \in 1 .. MaxGens
        BY <2>1, EightSteps, MaxGensAssumption
  <2>3. gspec \in Specs
        BY <1>1, ParkedAssumption DEF NotGenerating
  <2>4. \A i \in DOMAIN gimg : gimg[i].from < gimg[i].to /\ gimg[i].to <= 65536
        BY <1>1 DEF NotGenerating
  <2>5. gfiles \in [Outputs -> 0 .. grun]
        BY <1>1 DEF NotGenerating
  <2>6. gat = "failed" /\ gcmd = "push" /\ gstep = 0 /\ gsent = 0 /\ gchip = FALSE /\ grun = 1
        BY <1>1, Zenon DEF NotGenerating
  <2>7. gstep \in 0 .. Len(Steps) /\ gsent \in 0 .. Len(Packs) /\ gchip \in BOOLEAN /\ grun \in 1 .. MaxGens
        BY <2>2, <2>6
  <2> QED BY <2>3, <2>4, <2>5, <2>6, <2>7 DEF GTypeOK
<1>2. ASSUME NotComposing PROVE FileTypeOK
      BY <1>2 DEF NotComposing, FileTypeOK
<1> QED BY <1>1, <1>2

\* Every module's type invariant holds in every behaviour of the run.
THEOREM FlashTypes == MCSpec => []AllTypes
<1>1. ASSUME MCInit PROVE FlashInv
  <2>1. RInit /\ UInit /\ BInit /\ CInit
        BY <1>1 DEF MCInit
  <2>2. Typed
    <3>1. CASE which = "rewrite"
          BY <1>1, <3>1, TypedStart, Zenon DEF MCInit
    <3>2. CASE which # "rewrite"
      <4>1. 1 \in 1 .. Attempts + 1 /\ 1 <= Attempts
            OBVIOUS
      <4>2. /\ flash = [i \in Pages |-> "erased"] /\ pc = "erase" /\ attempt = 1 /\ todo = {}
            /\ erased = TRUE /\ lost = FALSE /\ result = "none"
            BY <1>1, <3>2, Zenon DEF MCInit
      <4> QED BY <4>1, <4>2 DEF Typed, TypeOK, Contents
    <3> QED BY <3>1, <3>2
  <2>3. UTypeOK
        BY <2>1, InstallStarts DEF InstallInvariant
  <2>4. PanelSide
    <3>1. IF which = "panel" THEN GInit ELSE NotGenerating
          BY <1>1, Zenon DEF MCInit
    <3> QED BY <3>1, PanelStarts, ParkedTypes DEF PanelSide
  <2>5. FileSide
    <3>1. IF which = "file" THEN FileInit /\ OneCutFile ELSE NotComposing
          BY <1>1, Zenon DEF MCInit
    <3> QED BY <3>1, FileTypesStart, ParkedTypes DEF FileSide
  <2> QED BY <2>1, <2>2, <2>3, <2>4, <2>5, ReadsStart, BankStarts, CommandsStart DEF FlashInv
<1>2. ASSUME FlashInv, [MCNext]_<<which, vars, rvars, uvars, bvars, cvars, gvars, filevars>> PROVE FlashInv'
  <2>1. /\ UNCHANGED which
        /\ Next \/ UNCHANGED vars
        /\ RNext \/ UNCHANGED rvars
        /\ UNext \/ UNCHANGED uvars
        /\ BNext \/ UNCHANGED bvars
        /\ CNext \/ UNCHANGED cvars
        /\ (which = "panel" /\ GNext) \/ UNCHANGED gvars
        /\ (which = "file" /\ FileNext) \/ UNCHANGED filevars
        BY <1>2, Zenon DEF MCNext, others
  <2>2. Typed' /\ ReadInvariant' /\ UTypeOK' /\ BankInvariant' /\ EraseInvariant'
        BY <1>2, <2>1, TypedStep, ReadSteps, InstallTypesStep, BankSteps, CommandSteps DEF FlashInv
  <2>3. PanelSide'
    <3>1. CASE which = "panel"
          BY <1>2, <2>1, <3>1, PanelSteps DEF FlashInv, PanelSide
    <3>2. CASE which # "panel"
      <4>1. UNCHANGED gvars /\ GTypeOK
            BY <1>2, <2>1, <3>2 DEF FlashInv, PanelSide
      <4>2. GTypeOK'
            BY <4>1 DEF gvars, GTypeOK
      <4> QED BY <2>1, <3>2, <4>2 DEF PanelSide
    <3> QED BY <3>1, <3>2
  <2>4. FileSide'
    <3>1. CASE which = "file"
          BY <1>2, <2>1, <3>1, FileTypesStep DEF FlashInv, FileSide
    <3>2. CASE which # "file"
      <4>1. UNCHANGED filevars /\ FileTypeOK
            BY <1>2, <2>1, <3>2 DEF FlashInv, FileSide
      <4>2. FileTypeOK'
            BY <4>1 DEF filevars, FileTypeOK
      <4> QED BY <2>1, <3>2, <4>2 DEF FileSide
    <3> QED BY <3>1, <3>2
  <2> QED BY <2>2, <2>3, <2>4 DEF FlashInv
<1>3. FlashInv => AllTypes
  <2> SUFFICES ASSUME FlashInv PROVE AllTypes
      OBVIOUS
  <2>1. TypeOK /\ UTypeOK
        BY DEF FlashInv, Typed
  <2>2. RTypeOK
        BY ReadsTyped DEF FlashInv
  <2>3. BTypeOK /\ CTypeOK
        BY DEF FlashInv, BankInvariant, EraseInvariant
  <2>4. GTypeOK
        BY GTypesFollow DEF FlashInv, PanelSide
  <2>5. FileTypeOK
        BY FileTypesAre DEF FlashInv, FileSide
  <2> QED BY <2>1, <2>2, <2>3, <2>4, <2>5 DEF AllTypes
<1> QED BY <1>1, <1>2, <1>3, PTL DEF MCSpec
=============================================================================
