--------------------------- MODULE ProvisionProofs ---------------------------
(***************************************************************************)
(* What provisioning keeps, for every chain of cards and any number of runs;  *)
(* that the firmware it installs is the right one, for every manifest and any *)
(* number of fetches; that a probe of the card tells the truth, for every set *)
(* of model files; and, with RequestsProofs, the types of all of MCFiles.      *)
(***************************************************************************)
EXTENDS MCFiles, RequestsProofs, FiniteSetTheorems, TLAPS

USE NAssumption, MaxRunsAssumption, FreshAssumption

\* The constants Broadcast and NoDir are outside the sets they extend, and the
\* chain has a first card.
LEMMA Constants == 0 \in Cards /\ NoDir \notin Dirs /\ Cards \subseteq Nat
BY DEF Cards, NoDir, Dirs

-----------------------------------------------------------------------------
\* Every step keeps the types.
LEMMA TypeStep == TypeOK /\ [Next]_vars => TypeOK'
<1>. SUFFICES ASSUME TypeOK, [Next]_vars PROVE TypeOK'
  OBVIOUS
<1>. USE DEF TypeOK, cards, args, locals, Goto
<1>1. CASE PowerCycle
  <2>1. \A c \in Cards : Boots(bank[c]) \in Versions
    BY DEF Boots, Versions, Releases
  <2>. QED
    BY <1>1, <2>1 DEF PowerCycle
<1>2. CASE Stop
  BY <1>2 DEF Stop
<1>3. CASE Start
  <2>1. index' \in Cards \cup {Broadcast}
    BY <1>3 DEF Start, Rcv
  <2>2. runs' \in 0 .. MaxRuns
    BY <1>3 DEF Start
  <2>3. dir' \in Dirs
    BY <1>3, <2>2 DEF Start, Dirs
  <2>4. before' \in [Records -> Values] /\ todo' \in SUBSET Records
    BY <1>3 DEF Start, Nothing, Values
  <2>. QED
    BY <1>3, <2>1, <2>2, <2>3, <2>4 DEF Start
<1>4. CASE Snapshot
  <2>1. records[0] \in [Records -> Values]
    BY Constants
  <2>. QED
    BY <1>4, <2>1 DEF Snapshot
<1>5. CASE SkipFirmware \/ Waited
  BY <1>5 DEF SkipFirmware, Waited
<1>6. CASE SelfProgram
  <2>1. PICK image \in [Cards -> Images] :
          bank' = [c \in Cards |-> [bank[c] EXCEPT !["guarded"] = image[c]]]
    BY <1>6 DEF SelfProgram
  <2>2. bank' \in [Cards -> [Parts -> Images]]
    BY <2>1
  <2>. QED
    BY <1>6, <2>2 DEF SelfProgram
<1>7. CASE HostWrite
  <2>1. PICK b \in [Parts -> Images] :
          /\ bank' = [bank EXCEPT ![0] = b]
          /\ pc' \in {"wait", "stopped"} /\ result' \in {result, "failed"}
    BY <1>7 DEF HostWrite
  <2>2. bank' \in [Cards -> [Parts -> Images]]
    BY <2>1
  <2>. QED
    BY <1>7, <2>1, <2>2 DEF HostWrite
<1>8. CASE ReadRecords
  BY <1>8, Constants DEF ReadRecords
<1>9. CASE WriteConfig
  <2>1. Nothing \in [Records -> Values] /\ {"new", "junk"} \subseteq Images
    BY DEF Nothing, Values, Images, Releases
  <2>2. todo' \in SUBSET Records
    BY <1>9 DEF WriteConfig, Records
  <2>3. pc' \in {"write", "stopped"} /\ result' \in {"none", "ok", "failed"}
    BY <1>9 DEF WriteConfig
  <2>4. config' \in [Cards -> Images]
    <3>1. PICK c \in {"new", "junk", config[0]} : config' = [config EXCEPT ![0] = c]
      BY <1>9 DEF WriteConfig
    <3>2. c \in Images
      BY <2>1, <3>1, Constants
    <3>. QED
      BY <3>1, <3>2
  <2>5. records' \in [Cards -> [Records -> Values]]
    BY <1>9, <2>1, ZenonT(30) DEF WriteConfig
  <2>. QED
    BY <1>9, <2>2, <2>3, <2>4, <2>5 DEF WriteConfig
<1>10. ASSUME NEW r \in Records, WriteRecord(r) PROVE TypeOK'
  <2>1. Written(r) \in Values
    BY DEF Written, Values
  <2>2. PICK got \in SUBSET Addressed :
          /\ records' = [c \in Cards |->
               IF c \in got THEN [records[c] EXCEPT ![r] = Written(r)] ELSE records[c]]
          /\ missed' = (missed \/ got # Addressed)
    BY <1>10 DEF WriteRecord
  <2>3. records' \in [Cards -> [Records -> Values]]
    BY <2>1, <2>2
  <2>4. missed' \in BOOLEAN
    BY <2>2
  <2>. QED
    BY <1>10, <2>3, <2>4 DEF WriteRecord
<1>11. CASE Verify
  BY <1>11 DEF Verify
<1>12. CASE UNCHANGED vars
  BY <1>12 DEF vars
<1>. QED
  BY <1>1, <1>2, <1>3, <1>4, <1>5, <1>6, <1>7, <1>8, <1>9, <1>10, <1>11, <1>12
  DEF Next

\* A card as it was delivered, and no run yet.
LEMMA TypeInit == Init => TypeOK
<1>1. ASSUME Init PROVE TypeOK
  <2>1. /\ bank \in [Cards -> [Parts -> Images]]
        /\ running \in [Cards -> Versions]
        /\ config \in [Cards -> Images]
    BY <1>1 DEF Init, Images, Releases, Versions
  <2>2. records \in [Cards -> [Records -> Values]]
    BY <1>1 DEF Init, Values
  <2>3. atStart \in [Cards -> [Records -> Values]]
    BY <1>1, <2>2 DEF Init
  <2>4. disk \in [Dirs -> SUBSET [Records -> Values]]
    BY <1>1 DEF Init
  <2>5. runs \in 0 .. MaxRuns
    BY <1>1 DEF Init
  <2>6. before \in [Records -> Values]
    BY <1>1 DEF Init, Nothing, Values
  <2>. QED
    BY <1>1, <2>1, <2>2, <2>3, <2>4, <2>5, <2>6 DEF Init, TypeOK, Releases
<1>. QED
  BY <1>1

\* Every variable always holds a value of its type.
THEOREM TypeCorrect == Spec => []TypeOK
BY TypeInit, TypeStep, PTL DEF Spec

-----------------------------------------------------------------------------
\* How far a run has come.
Installed ==
  pc \in {"wait", "read", "config", "write"} /\ fw = "named" => Whole(bank[0], want)
Configured == pc = "write" => config[0] = "new"
Reported ==
  /\ pc # "stopped" => result = "none"
  /\ OkMeansProvisioned

ProvisionInv == TypeOK /\ Installed /\ Configured /\ Reported

\* A run that reports Ok has checked every step of its plan.
LEMMA ReportStep == ProvisionInv /\ [Next]_vars => ProvisionInv'
<1>. SUFFICES ASSUME ProvisionInv, [Next]_vars
     PROVE  Installed' /\ Configured' /\ Reported'
  BY TypeStep DEF ProvisionInv
<1>. USE DEF ProvisionInv, Installed, Configured, Reported, OkMeansProvisioned,
             Whole, cards, args, locals, Goto
<1>1. CASE PowerCycle
  BY <1>1 DEF PowerCycle
<1>2. CASE Stop
  BY <1>2 DEF Stop
<1>3. CASE Start
  BY <1>3 DEF Start
<1>4. CASE Snapshot
  BY <1>4 DEF Snapshot
<1>5. CASE SkipFirmware
  BY <1>5 DEF SkipFirmware, NotAsked
<1>6. CASE SelfProgram
  BY <1>6 DEF SelfProgram
<1>7. CASE HostWrite
  <2>1. PICK b \in [Parts -> Images] :
          /\ bank' = [bank EXCEPT ![0] = b]
          /\ \/ BankVerified(b) /\ pc' = "wait" /\ UNCHANGED result
             \/ ~BankVerified(b) /\ pc' = "stopped" /\ result' = "failed"
    BY <1>7 DEF HostWrite
  <2>2. bank'[0] = b
    BY <2>1, Constants DEF TypeOK
  <2>. QED
    BY <1>7, <2>1, <2>2 DEF HostWrite, BankVerified
<1>8. CASE Waited
  BY <1>8 DEF Waited
<1>9. CASE ReadRecords
  BY <1>9 DEF ReadRecords
<1>10. CASE WriteConfig
  <2>1. PICK c \in {"new", "junk", config[0]} :
          /\ config' = [config EXCEPT ![0] = c]
          /\ \/ BlockVerified(c) /\ pc' = "write" /\ UNCHANGED result
             \/ ~BlockVerified(c) /\ pc' = "stopped" /\ result' = "failed"
    BY <1>10 DEF WriteConfig
  <2>2. config'[0] = c
    BY <2>1, Constants DEF TypeOK
  <2>. QED
    BY <1>10, <2>1, <2>2 DEF WriteConfig, BlockVerified
<1>11. ASSUME NEW r \in Records, WriteRecord(r)
       PROVE  Installed' /\ Configured' /\ Reported'
  BY <1>11 DEF WriteRecord
<1>12. CASE Verify
  BY <1>12 DEF Verify, AreaVerified
<1>13. CASE UNCHANGED vars
  BY <1>13 DEF vars
<1>. QED
  BY <1>1, <1>2, <1>3, <1>4, <1>5, <1>6, <1>7, <1>8, <1>9, <1>10, <1>11, <1>12,
     <1>13 DEF Next

\* Ok means provisioned, on any chain and after any number of runs.
THEOREM OkIsProvisioned == Spec => []OkMeansProvisioned
<1>1. ASSUME Init PROVE ProvisionInv
  <2>1. TypeOK
    BY <1>1, TypeInit
  <2>. QED
    BY <1>1, <2>1 DEF Init, ProvisionInv, Installed, Configured, Reported,
                      OkMeansProvisioned
<1>2. ProvisionInv => OkMeansProvisioned
  BY DEF ProvisionInv, Reported
<1>. QED
  BY <1>1, <1>2, ReportStep, PTL DEF Spec

-----------------------------------------------------------------------------
\* Directories of later runs are still empty; from the snapshot to the block
\* write the run's own holds what the card has; and the records that came with
\* the card are somewhere.
OnDisk == \E d \in Dirs : \E snapshot \in disk[d] : snapshot["rest"] = "old"
UnusedDirs == \A d \in Dirs : d > runs => disk[d] = {}
OwnDir ==
  /\ pc # "stopped" => dir = runs /\ dir \in Dirs
  /\ pc = "snapshot" => disk[dir] = {}
  /\ pc \in {"firmware", "host", "wait", "read", "config"} =>
       records[0] \in disk[dir]
  /\ pc = "write" => OnDisk

KeepInv == TypeOK /\ UnusedDirs /\ OwnDir /\ RecordsSurvive

\* A fresh directory never takes a snapshot away, and the block is written only
\* when the run's own snapshot has what it wipes.
LEMMA KeepStep ==
  ASSUME Fresh PROVE KeepInv /\ [Next]_vars => KeepInv'
<1>. SUFFICES ASSUME KeepInv, [Next]_vars
     PROVE  UnusedDirs' /\ OwnDir' /\ RecordsSurvive'
  BY TypeStep DEF KeepInv
<1>. USE DEF KeepInv, UnusedDirs, OwnDir, OnDisk, RecordsSurvive, cards, args, locals, Goto
<1>1. CASE PowerCycle
  BY <1>1 DEF PowerCycle
<1>2. CASE Stop
  BY <1>2 DEF Stop
<1>3. CASE Start
  <2>1. runs' = runs + 1 /\ runs \in Nat /\ runs' \in Dirs /\ dir' = runs'
    BY <1>3 DEF Start, TypeOK, Dirs
  <2>2. \A d \in Dirs : d \in Nat
    BY DEF Dirs
  <2>3. disk' = disk /\ records' = records /\ pc' = "snapshot"
    BY <1>3 DEF Start
  <2>4. runs' > runs /\ \A d \in Dirs : d > runs' => d > runs
    BY <2>1, <2>2
  <2>5. \A d \in Dirs : d > runs => disk[d] = {}
    OBVIOUS
  <2>6. disk[runs'] = {} /\ \A d \in Dirs : d > runs' => disk[d] = {}
    BY <2>1, <2>4, <2>5
  <2>7. UnusedDirs' /\ OwnDir'
    BY <2>1, <2>3, <2>6
  <2>8. RecordsSurvive'
    BY <2>3
  <2>. QED
    BY <2>7, <2>8
<1>4. CASE Snapshot
  <2>1. /\ disk' = [disk EXCEPT ![dir] = {records[0]}] /\ dir \in Dirs
        /\ disk[dir] = {} /\ dir = runs /\ dir' = dir /\ runs' = runs
        /\ records' = records /\ pc' = "firmware"
    BY <1>4 DEF Snapshot
  <2>2. disk'[dir] = {records[0]} /\ \A d \in Dirs \ {dir} : disk'[d] = disk[d]
    BY <2>1 DEF TypeOK
  <2>3. runs \in Nat /\ \A d \in Dirs : d \in Nat
    BY DEF TypeOK, Dirs
  <2>4. UnusedDirs' /\ OwnDir'
    BY <2>1, <2>2, <2>3
  <2>5. RecordsSurvive'
    BY <2>1, <2>2
  <2>. QED
    BY <2>4, <2>5
<1>5. CASE SkipFirmware
  BY <1>5 DEF SkipFirmware
<1>6. CASE SelfProgram
  BY <1>6 DEF SelfProgram
<1>7. CASE HostWrite
  BY <1>7 DEF HostWrite
<1>8. CASE Waited
  BY <1>8 DEF Waited
<1>9. CASE ReadRecords
  BY <1>9 DEF ReadRecords
<1>10. CASE WriteConfig
  <2>1. records[0] \in disk[dir] /\ dir \in Dirs
    BY <1>10 DEF WriteConfig
  <2>2. OnDisk
    BY <1>10, <2>1 DEF WriteConfig
  <2>. QED
    BY <1>10, <2>2 DEF WriteConfig
<1>11. ASSUME NEW r \in Records, WriteRecord(r)
       PROVE  UnusedDirs' /\ OwnDir' /\ RecordsSurvive'
  <2>1. disk' = disk /\ runs' = runs /\ dir' = dir /\ pc' = "write" /\ pc = "write"
    BY <1>11 DEF WriteRecord
  <2>2. OnDisk
    BY <2>1
  <2>. QED
    BY <2>1, <2>2
<1>12. CASE Verify
  BY <1>12 DEF Verify
<1>13. CASE UNCHANGED vars
  BY <1>13 DEF vars
<1>. QED
  BY <1>1, <1>2, <1>3, <1>4, <1>5, <1>6, <1>7, <1>8, <1>9, <1>10, <1>11, <1>12,
     <1>13 DEF Next

\* With a directory of its own for every run the records a card came with are
\* never lost, however many runs stop wherever they like.
THEOREM RecordsAreKept == ASSUME Fresh PROVE Spec => []RecordsSurvive
<1>1. ASSUME Init PROVE KeepInv
  <2>1. TypeOK
    BY <1>1, TypeInit
  <2>2. records[0]["rest"] = "old"
    BY <1>1, Constants DEF Init, Records
  <2>. QED
    BY <1>1, <2>1, <2>2 DEF Init, KeepInv, UnusedDirs, OwnDir, RecordsSurvive
<1>2. KeepInv => RecordsSurvive
  BY DEF KeepInv
<1>. QED
  BY <1>1, <1>2, KeepStep, PTL DEF Spec

-----------------------------------------------------------------------------
\* What a run knows of the first card's records: as they were at its start until
\* block 7 is written, and read before that. After it they are written back, to
\* the card the frames address; a card they do not address keeps what the write
\* of block 7 left.
Untouched ==
  pc \in {"snapshot", "firmware", "host", "wait", "read", "config"} => records[0] = atStart[0]
ReadFirst == pc \in {"config", "write"} => before = atStart[0]
GivenBack ==
  pc = "write" /\ ~LooksErased(before) =>
    IF 0 \in Addressed
      THEN "rest" \in todo \/ missed \/ records[0]["rest"] = before["rest"]
      ELSE records[0] \in {before, Nothing}
NoReport == pc # "stopped" => result = "none"

BackInv == TypeOK /\ NoReport /\ Untouched /\ ReadFirst /\ GivenBack /\ RecordsComeBack

\* A record written reaches every card it addresses, or the run missed one.
LEMMA RecordIsWritten ==
  ASSUME BackInv, NEW r \in Records, WriteRecord(r)
  PROVE  GivenBack'
<1>. USE DEF BackInv, GivenBack, Goto
<1>1. PICK got \in SUBSET Addressed :
        /\ records' = [c \in Cards |->
             IF c \in got THEN [records[c] EXCEPT ![r] = Written(r)] ELSE records[c]]
        /\ missed' = (missed \/ got # Addressed)
  BY DEF WriteRecord
<1>2. /\ pc = "write" /\ todo' = todo \ {r} /\ before' = before /\ index' = index
      /\ 0 \in Cards /\ Addressed' = Addressed
  BY Constants DEF WriteRecord, args, Addressed
<1>3. records[0] \in [Records -> Values]
  BY <1>2 DEF TypeOK
<1>4. CASE 0 \notin Addressed
  BY <1>1, <1>2, <1>4
<1>5. CASE 0 \in Addressed /\ r = "rest"
  <2>1. ~missed' => records'[0]["rest"] = before["rest"]
    <3>1. ASSUME ~missed' PROVE got = Addressed
      BY <1>1, <3>1
    <3>. QED
      BY <1>1, <1>2, <1>3, <1>5, <3>1 DEF Written
  <2>. QED
    BY <1>2, <1>5, <2>1
<1>6. CASE 0 \in Addressed /\ r = "area"
  <2>1. records'[0]["rest"] = records[0]["rest"]
    BY <1>1, <1>2, <1>3, <1>6 DEF Records
  <2>2. missed => missed'
    BY <1>1
  <2>. QED
    BY <1>2, <1>6, <2>1, <2>2
<1>. QED
  BY <1>4, <1>5, <1>6 DEF Records

\* No step takes back what BackInv says.
LEMMA BackStep == BackInv /\ [Next]_vars => BackInv'
<1>. SUFFICES ASSUME BackInv, [Next]_vars
     PROVE  NoReport' /\ Untouched' /\ ReadFirst' /\ GivenBack' /\ RecordsComeBack'
  BY TypeStep DEF BackInv
<1>. USE DEF BackInv, NoReport, Untouched, ReadFirst, GivenBack, RecordsComeBack, Addressed,
             LooksErased, cards, args, locals, Goto
<1>1. CASE PowerCycle
  BY <1>1 DEF PowerCycle
<1>2. CASE Stop
  BY <1>2 DEF Stop
<1>3. CASE Start
  BY <1>3 DEF Start
<1>4. CASE Snapshot
  BY <1>4 DEF Snapshot
<1>5. CASE SkipFirmware
  BY <1>5 DEF SkipFirmware
<1>6. CASE SelfProgram
  BY <1>6 DEF SelfProgram
<1>7. CASE HostWrite
  BY <1>7 DEF HostWrite
<1>8. CASE Waited
  BY <1>8 DEF Waited
<1>9. CASE ReadRecords
  BY <1>9 DEF ReadRecords
<1>10. CASE WriteConfig
  <2>1. /\ before' = before /\ atStart' = atStart /\ index' = index /\ missed' = missed
        /\ pc = "config" /\ before = atStart[0] /\ records[0] = before
    BY <1>10 DEF WriteConfig
  <2>2. \/ pc' = "write" /\ result' = "none" /\ todo' = IF LooksErased(before) THEN {"area"} ELSE Records
        \/ pc' = "stopped" /\ result' = "failed"
    BY <1>10 DEF WriteConfig
  <2>3. records'[0] \in {before, Nothing}
    BY <1>10, <2>1, Constants DEF WriteConfig, TypeOK
  <2>4. LooksErased(before)' <=> LooksErased(before)
    BY <2>1
  <2>5. GivenBack'
    BY <2>1, <2>2, <2>3, <2>4 DEF Records
  <2>. QED
    BY <2>1, <2>2, <2>5
<1>11. ASSUME NEW r \in Records, WriteRecord(r)
       PROVE  NoReport' /\ Untouched' /\ ReadFirst' /\ GivenBack' /\ RecordsComeBack'
  <2>1. GivenBack'
    BY <1>11, RecordIsWritten
  <2>2. NoReport' /\ Untouched' /\ ReadFirst' /\ RecordsComeBack'
    BY <1>11 DEF WriteRecord
  <2>. QED
    BY <2>1, <2>2
<1>12. CASE Verify
  <2>1. ASSUME result' = "ok", ~missed, ~LooksErased(atStart[0])
        PROVE  records[0]["rest"] = before["rest"] /\ before = atStart[0]
    <3>1. records[0]["area"] = "new" /\ pc = "write" /\ todo = {} /\ before = atStart[0]
      BY <1>12, <2>1 DEF Verify, AreaVerified
    <3>2. Nothing["area"] = "erased"
      BY DEF Nothing, Records
    <3>. QED
      BY <2>1, <3>1, <3>2
  <2>. QED
    BY <1>12, <2>1 DEF Verify
<1>13. CASE UNCHANGED vars
  BY <1>13 DEF vars
<1>. QED
  BY <1>1, <1>2, <1>3, <1>4, <1>5, <1>6, <1>7, <1>8, <1>9, <1>10, <1>11, <1>12,
     <1>13 DEF Next

\* The records are read before block 7 is written (ops::provision, step 3): a run
\* that ends well, of which no card missed a record, gives the first card back
\* what it had, on any chain, whichever card the frames address.
THEOREM RecordsAreGivenBack == Spec => []RecordsComeBack
<1>1. ASSUME Init PROVE BackInv
  BY <1>1, TypeInit DEF Init, BackInv, NoReport, Untouched, ReadFirst, GivenBack, RecordsComeBack
<1>2. BackInv => RecordsComeBack
  BY DEF BackInv
<1>. QED
  BY <1>1, <1>2, BackStep, PTL DEF Spec

-----------------------------------------------------------------------------
(* Firmware images.                                                         *)

\* Fetches and loads, and the choice for a panel, in any order.
ImageSpec ==
  /\ FInit /\ KInit
  /\ [][(FNext /\ UNCHANGED kvars) \/ (Pick /\ UNCHANGED fvars)]_<<fvars, kvars>>

\* Scores are numbers, and below CHIP_FAMILY without a reason of rule 1 or 2.
LEMMA ScoreBounds ==
  ASSUME NEW m, NEW c, NEW k
  PROVE  /\ Score(m, c, k) \in Nat
         /\ m.tested => Score(m, c, k) >= TESTED
         /\ ~m.tested => Score(m, c, k) <= CHIP_EXACT + KIND
         /\ Decided(Score(m, c, k)) => m.tested \/ NamesChip(m, c)
<1>1. ChipScore(m, c) \in {0, CHIP_EXACT, CHIP_FAMILY} /\ (~NamesChip(m, c) => ChipScore(m, c) = 0)
  BY DEF ChipScore
<1>. QED
  BY <1>1 DEF Score, Decided, TESTED, CHIP_EXACT, CHIP_FAMILY, KIND

\* Better orders the images strictly.
LEMMA BetterIsStrict ==
  ASSUME NEW m \in Listed, NEW o \in Listed, NEW c, NEW k, Better(m, o, c, k)
  PROVE  ~Better(o, m, c, k)
<1>1. Score(m, c, k) \in Nat /\ Score(o, c, k) \in Nat /\ m.date \in Nat /\ o.date \in Nat
  BY ScoreBounds, FirmwareAssumption
<1>. QED
  BY <1>1 DEF Better

\* What is chosen is one image, decided, and a tested one if there is one.
LEMMA ChosenIsRight ==
  ASSUME NEW images \in SUBSET Listed, NEW c, NEW k
  PROVE  LET best == Chosen(images, c, k) IN
         /\ best \subseteq images
         /\ Cardinality(best) <= 1
         /\ \A m \in best :
              /\ m.tested \/ NamesChip(m, c)
              /\ (\E o \in images : o.tested /\ Candidate(o, c)) => m.tested
<1>. DEFINE best == Chosen(images, c, k)
<1>1. best \subseteq images
  BY DEF Chosen
<1>2. ASSUME NEW m \in best, NEW o \in best PROVE m = o
  <2>1. ASSUME m # o PROVE Better(m, o, c, k) /\ Better(o, m, c, k)
    BY <2>1 DEF Chosen
  <2>. QED
    BY <1>1, <2>1, BetterIsStrict
<1>3. Cardinality(best) <= 1
  <2>1. CASE best = {}
    BY <2>1, FS_EmptySet
  <2>2. CASE best # {}
    <3>1. PICK m : best = {m}
      BY <1>2, <2>2
    <3>. QED
      BY <3>1, FS_Singleton
  <2>. QED
    BY <2>1, <2>2
<1>4. ASSUME NEW m \in best
      PROVE  /\ m.tested \/ NamesChip(m, c)
             /\ (\E o \in images : o.tested /\ Candidate(o, c)) => m.tested
  <2>1. Decided(Score(m, c, k))
    BY DEF Chosen
  <2>2. m.tested \/ NamesChip(m, c)
    BY <2>1, ScoreBounds
  <2>3. ASSUME NEW o \in images, o.tested, Candidate(o, c), ~m.tested PROVE FALSE
    <3>1. Better(m, o, c, k)
      BY <2>3 DEF Chosen
    <3>2. Score(m, c, k) \in Nat /\ Score(m, c, k) <= CHIP_EXACT + KIND
      BY <2>3, ScoreBounds
    <3>3. Score(o, c, k) \in Nat /\ Score(o, c, k) >= TESTED
      BY <2>3, ScoreBounds
    <3>. QED
      BY <3>1, <3>2, <3>3 DEF Better, TESTED, CHIP_EXACT, KIND
  <2>. QED
    BY <2>2, <2>3
<1>. QED
  BY <1>1, <1>3, <1>4

ImageInv == FTypeOK /\ RightImage

\* It holds where the choice of an image begins.
LEMMA ImageInit == FInit /\ KInit => ImageInv
<1>. SUFFICES ASSUME FInit, KInit PROVE ImageInv
  OBVIOUS
<1>1. FTypeOK
  BY DEF FInit, KInit, FTypeOK, Files
<1>2. OnlyListedBytesAreWritten
  BY DEF FInit, OnlyListedBytesAreWritten
<1>3. PickIsDecided
  BY FS_EmptySet DEF KInit, PickIsDecided
<1>. QED
  BY <1>1, <1>2, <1>3 DEF ImageInv, RightImage

\* A fetch, an upload or a load.
LEMMA FetchesStep == ImageInv /\ FNext /\ UNCHANGED kvars => ImageInv'
<1>. SUFFICES ASSUME ImageInv, FNext, UNCHANGED kvars PROVE ImageInv'
  OBVIOUS
<1>. USE DEF FTypeOK, Files, Bytes, At
<1>1. FTypeOK /\ OnlyListedBytesAreWritten /\ PickIsDecided
  BY DEF ImageInv, RightImage
<1>2. PickIsDecided'
  BY <1>1 DEF PickIsDecided, kvars
<1>3. manifest' \subseteq Listed /\ picked' \subseteq manifest' /\ chip' \in Chips \cup {NoChip}
      /\ class' \in {"PWM", "Normal", "unknown"}
  BY <1>1 DEF kvars
<1>4. ASSUME NEW p \in Fetchers,
             FetchLocal(p) \/ FetchStart(p) \/ FetchCurl(p)
               \/ FetchVerify(p) \/ FetchRename(p) \/ FetchGone(p)
      PROVE  /\ files' \in [Files -> Bytes \cup {Absent}]
             /\ fetching' \in [Fetchers -> {"idle", "curl", "verify", "rename", "ok", "failed"}]
             /\ loaded' = loaded /\ from' = from
  <2>1. files["part"] \in Bytes \cup {Absent}
    BY <1>1
  <2>. QED
    BY <1>1, <1>4, <2>1 DEF FetchLocal, FetchStart, FetchCurl, FetchVerify, FetchRename, FetchGone
<1>5. ASSUME NEW b \in Bytes, Upload(b)
      PROVE  /\ files' \in [Files -> Bytes \cup {Absent}]
             /\ fetching' = fetching /\ loaded' = loaded /\ from' = from
  BY <1>1, <1>5 DEF Upload
<1>6. ASSUME NEW f \in {"archive", "cache", "upload"}, Load(f)
      PROVE  /\ files' = files /\ fetching' = fetching
             /\ loaded' \in {"listed", Absent} /\ from' \in Files
  BY <1>1, <1>6 DEF Load, Loadable, Verifies
<1>7. FTypeOK'
  BY <1>1, <1>3, <1>4, <1>5, <1>6 DEF FNext
<1>8. OnlyListedBytesAreWritten'
  BY <1>1, <1>4, <1>5, <1>6 DEF FNext, OnlyListedBytesAreWritten
<1>. QED
  BY <1>2, <1>7, <1>8 DEF ImageInv, RightImage

\* The choice for a panel.
LEMMA PickStep == ImageInv /\ Pick /\ UNCHANGED fvars => ImageInv'
<1>. SUFFICES ASSUME ImageInv, Pick, UNCHANGED fvars PROVE ImageInv'
  OBVIOUS
<1>1. manifest \in SUBSET Listed /\ FTypeOK /\ OnlyListedBytesAreWritten
  BY DEF ImageInv, RightImage, FTypeOK
<1>2. /\ picked' = Chosen(manifest, chip, class)
      /\ manifest' = manifest /\ chip' = chip /\ class' = class
  BY DEF Pick
<1>3. PickIsDecided' /\ picked' \subseteq manifest'
  BY <1>1, <1>2, ChosenIsRight DEF PickIsDecided
<1>4. FTypeOK' /\ OnlyListedBytesAreWritten'
  BY <1>1, <1>2, <1>3 DEF FTypeOK, OnlyListedBytesAreWritten, fvars
<1>. QED
  BY <1>3, <1>4 DEF ImageInv, RightImage

\* What the other parts do leaves it as it is.
LEMMA ImagesAtRest == ImageInv /\ UNCHANGED <<fvars, kvars>> => ImageInv'
BY DEF ImageInv, RightImage, FTypeOK, OnlyListedBytesAreWritten, PickIsDecided, fvars, kvars

\* A command gets the listed bytes or nothing (ops::firmware::load), and a
\* firmware is installed unasked only for a reason and without a rival
\* (ops::firmware::select, chosen), whatever the manifest and the panels are.
THEOREM TheImageIsRight == ImageSpec => []RightImage
<1>1. ImageInv /\ [(FNext /\ UNCHANGED kvars) \/ (Pick /\ UNCHANGED fvars)]_<<fvars, kvars>>
        => ImageInv'
  BY FetchesStep, PickStep, ImagesAtRest
<1>2. ImageInv => RightImage
  BY DEF ImageInv
<1>. QED
  BY <1>1, <1>2, ImageInit, PTL DEF ImageSpec

-----------------------------------------------------------------------------
(* The probe.                                                               *)

ProbeSpec == PInit /\ [][PNext]_pvars

\* The model worked with is one, the named one or the one of the card's id, and
\* the report is what its claims come to.
ProbeInv ==
  /\ PTypeOK
  /\ named \in {None} \cup {{m} : m \in Models}
  /\ phase \in {"read", "report"} => \E m \in Models : model = {m} /\ (named = None => m.id = id)
  /\ phase = "report" => \E m \in model : report = [c \in Claims |-> Claim(m, c)]

\* A claim has one of the three states.
LEMMA ClaimStates == \A m, c : Claim(m, c) \in States
<1>1. \A ok \in BOOLEAN : Of(ok) \in States
  BY DEF Of, States
<1>2. \A r : Region(r) \in States
  BY DEF Region, ChipPage, Of, States
<1>. QED
  BY <1>2 DEF Claim, Compared, Of, States

\* What a claim comes to is the card's and the model's alone.
LEMMA ClaimStays ==
  ASSUME UNCHANGED <<id, size, heads, regions, record, answers>>, NEW m, NEW c
  PROVE  Claim(m, c)' = Claim(m, c)
<1>1. ChipPage' = ChipPage
  BY DEF ChipPage, ChipRegs
<1>2. Region(c)' = Region(c)
  BY <1>1 DEF Region
<1>3. Compared(m, c)' = Compared(m, c)
  <2>. HIDE DEF Region
  <2>. QED
    BY <1>2 DEF Compared
<1>. QED
  BY <1>3 DEF Claim

\* It holds before the first probe.
LEMMA ProbeInit == PInit => ProbeInv
<1>. SUFFICES ASSUME PInit PROVE ProbeInv
  OBVIOUS
<1>1. report \in [Claims -> States]
  BY DEF PInit, States
<1>2. named \subseteq Models /\ model \subseteq Models
  BY DEF PInit, None
<1>. QED
  BY <1>1, <1>2 DEF PInit, ProbeInv, PTypeOK

\* Every step of a probe keeps it.
LEMMA ProbeStep == ProbeInv /\ [PNext]_pvars => ProbeInv'
<1>. SUFFICES ASSUME ProbeInv, [PNext]_pvars PROVE ProbeInv'
  OBVIOUS
<1>. USE DEF ProbeInv, PTypeOK
<1>1. CASE Discover
  <2>1. ASSUME model' # None
        PROVE  \E m \in Models : model' = {m} /\ (named = None => m.id = id)
    <3>1. CASE named # None
      <4>1. PICK m \in Models : named = {m}
        BY <3>1
      <4>. QED
        BY <1>1, <3>1, <4>1 DEF Discover
    <3>2. CASE named = None
      <4>1. PICK m \in Models : m \in ById(id) /\ m.id = id
        BY <1>1, <2>1, <3>2 DEF Discover, ById, None
      <4>2. ById(id) = {m}
        BY <4>1, ProbeAssumption DEF ById
      <4>. QED
        BY <1>1, <3>2, <4>1, <4>2 DEF Discover
    <3>. QED
      BY <3>1, <3>2
  <2>. QED
    BY <1>1, <2>1 DEF Discover, ById
<1>2. CASE ReadFails
  BY <1>2 DEF ReadFails
<1>3. CASE CheckClaims
  <2>1. PICK m \in model : report' = [c \in Claims |-> Claim(m, c)]
    BY <1>3 DEF CheckClaims
  <2>2. report' \in [Claims -> States]
    BY <2>1, ClaimStates
  <2>3. \A c : Claim(m, c)' = Claim(m, c)
    BY <1>3, ClaimStays DEF CheckClaims
  <2>4. model' = model
    BY <1>3 DEF CheckClaims
  <2>. QED
    BY <1>3, <2>1, <2>2, <2>3, <2>4 DEF CheckClaims
<1>4. CASE UNCHANGED pvars
  <2>1. \A m, c : Claim(m, c)' = Claim(m, c)
    BY <1>4, ClaimStays DEF pvars
  <2>2. (phase = "report" => \E m \in model : report = [c \in Claims |-> Claim(m, c)])'
    BY <1>4, <2>1 DEF pvars
  <2>. QED
    BY <1>4, <2>2 DEF pvars
<1>. QED
  BY <1>1, <1>2, <1>3, <1>4 DEF PNext

\* What every claim of a report says.
LEMMA ReportSays ==
  ASSUME ProbeInv, phase = "report"
  PROVE  \E m \in Models :
           /\ model = {m} /\ (named = None => m.id = id)
           /\ \A c \in Claims : report[c] = Claim(m, c)
BY DEF ProbeInv

\* The claims, one by one.
LEMMA ClaimsAre ==
  ASSUME NEW m, NEW mm, mm = "mismatch"
  PROVE  /\ Claim(m, "block") = mm <=> ~answers
         /\ Claim(m, "id") = mm <=> m.id # NoId /\ m.id # id
         /\ Claim(m, "size") = mm <=> ~(size <= m.max)
         /\ \A h \in Heads : Claim(m, h) = mm <=> ~heads[h]
         /\ answers => \A r \in {"pack", "rcvbp"} : Claim(m, r) = mm <=> regions[r] # "whole"
         /\ answers => \A r \in {"mapping", "scan", "mirror"} :
                         Claim(m, r) = mm <=> regions[r] = "erased"
         /\ answers => (Claim(m, "chip") = mm <=>
                          ChipRegs /\ regions["chip"] \notin {"erased", "whole"})
         /\ answers => (Claim(m, "pack against record") = mm <=>
                          regions["pack"] = "whole" /\ regions["rcvbp"] = "whole" /\ ~record.agrees)
         /\ ~answers => \A c \in BlockClaims : Claim(m, c) # mm
<1>. USE DEF Claim, Compared, BlockClaims, Regions, Of, Heads
<1>1. /\ Claim(m, "block") = mm <=> ~answers
      /\ Claim(m, "id") = mm <=> m.id # NoId /\ m.id # id
      /\ Claim(m, "size") = mm <=> ~(size <= m.max)
  OBVIOUS
<1>2. \A h \in Heads : Claim(m, h) = mm <=> ~heads[h]
  OBVIOUS
<1>3. answers => \A r \in {"pack", "rcvbp"} : Claim(m, r) = mm <=> regions[r] # "whole"
  BY DEF Region, Checkable
<1>4. answers => \A r \in {"mapping", "scan", "mirror"} : Claim(m, r) = mm <=> regions[r] = "erased"
  BY DEF Region, Checkable
<1>5. answers => (Claim(m, "chip") = mm <=> ChipRegs /\ regions["chip"] \notin {"erased", "whole"})
  <2>1. answers => Claim(m, "chip") = ChipPage
    <3>1. Region("chip") = ChipPage
      BY DEF Region, Checkable
    <3>2. answers => Claim(m, "chip") = Region("chip")
      OBVIOUS
    <3>. QED
      BY <3>1, <3>2
  <2>2. ChipPage = "mismatch" <=> ChipRegs /\ regions["chip"] \notin {"erased", "whole"}
    <3>1. CASE ChipRegs
      BY <3>1 DEF ChipPage
    <3>2. CASE ~ChipRegs
      BY <3>2 DEF ChipPage
    <3>. QED
      BY <3>1, <3>2
  <2>. QED
    BY <2>1, <2>2
<1>6. answers => (Claim(m, "pack against record") = mm <=>
                   regions["pack"] = "whole" /\ regions["rcvbp"] = "whole" /\ ~record.agrees)
  OBVIOUS
<1>7. ~answers => \A c \in BlockClaims : Claim(m, c) # mm
  OBVIOUS
<1>. QED
  BY <1>1, <1>2, <1>3, <1>4, <1>5, <1>6, <1>7

\* A report without a mismatch means a card that can be driven with the model,
\* and every mismatch has a cause (ops::probe check_discovery, check_banks,
\* check_block), for every set of model files.
THEOREM ReportsAreTrue == ProbeSpec => []ReportIsTrue
<1>1. ASSUME ProbeInv PROVE ReportIsTrue
  <2>. SUFFICES ASSUME phase = "report" PROVE ReportIsTrue
    BY DEF ReportIsTrue
  <2>1. PICK m \in Models : /\ model = {m} /\ (named = None => m.id = id)
                            /\ \A c \in Claims : report[c] = Claim(m, c)
    BY <1>1, ReportSays
  <2>2. \A c \in Claims : c \in Mismatches <=> Claim(m, c) = "mismatch"
    BY <2>1 DEF Mismatches
  <2>3. /\ {"id", "size", "block", "pack against record"} \subseteq Claims
        /\ Heads \subseteq Claims /\ Regions \subseteq Claims
    BY DEF Claims, BlockClaims
  <2>4. /\ regions \in [Regions -> Contents] /\ heads \in [Heads -> BOOLEAN]
        /\ size \in Nat /\ m.max \in Nat
    BY <1>1, ProbeAssumption DEF ProbeInv, PTypeOK
  <2>5. ASSUME Mismatches = {}
        PROVE  /\ answers
               /\ heads["primary"] /\ heads["golden"]
               /\ \A r \in Regions \ {"chip"} : regions[r] # "erased"
               /\ regions["pack"] = "whole" /\ regions["rcvbp"] = "whole" /\ record.agrees
               /\ regions["chip"] = "damaged" => ~record.chip_regs
    <3>1. \A c \in Claims : Claim(m, c) # "mismatch"
      BY <2>2, <2>5
    <3>2. answers
      BY <2>3, <3>1, ClaimsAre
    <3>3. heads["primary"] /\ heads["golden"]
      BY <2>3, <3>1, ClaimsAre DEF Heads
    <3>4. regions["pack"] = "whole" /\ regions["rcvbp"] = "whole"
      BY <2>3, <3>1, <3>2, ClaimsAre DEF Regions
    <3>5. \A r \in {"mapping", "scan", "mirror"} : regions[r] # "erased"
      BY <2>3, <3>1, <3>2, ClaimsAre DEF Regions
    <3>6. record.agrees
      BY <2>3, <3>1, <3>2, <3>4, ClaimsAre
    <3>7. regions["chip"] = "damaged" => ~record.chip_regs
      BY <2>3, <3>1, <3>2, <3>4, ClaimsAre DEF Regions, ChipRegs
    <3>8. \A r \in Regions \ {"chip"} : regions[r] # "erased"
      BY <3>4, <3>5 DEF Regions
    <3>. QED
      BY <3>2, <3>3, <3>4, <3>6, <3>7, <3>8
  <2>6. ASSUME named = None, heads["primary"], heads["golden"],
               \A r \in Regions : regions[r] = "whole",
               answers, record.agrees, size <= m.max
        PROVE  Mismatches = {}
    <3>1. m.id = id
      BY <2>1, <2>6
    <3>2. Claim(m, "block") # "mismatch" /\ Claim(m, "id") # "mismatch" /\ Claim(m, "size") # "mismatch"
      BY <2>6, <3>1, ClaimsAre
    <3>3. \A h \in Heads : Claim(m, h) # "mismatch"
      BY <2>6, ClaimsAre DEF Heads
    <3>4. \A r \in Regions : Claim(m, r) # "mismatch"
      BY <2>6, ClaimsAre DEF Regions
    <3>5. Claim(m, "pack against record") # "mismatch"
      BY <2>6, ClaimsAre
    <3>6. \A c \in Claims : Claim(m, c) # "mismatch"
      BY <3>2, <3>3, <3>4, <3>5 DEF Claims, BlockClaims
    <3>. QED
      BY <2>2, <3>6 DEF Mismatches
  <2>7. (\A o \in model : size > o.max) <=> ~(size <= m.max)
    BY <2>1, <2>4
  <2>. QED
    BY <2>5, <2>6, <2>7 DEF ReportIsTrue
<1>. QED
  BY <1>1, ProbeInit, ProbeStep, PTL DEF ProbeSpec

-----------------------------------------------------------------------------
(* The modules side by side, as the run takes them.                         *)

FilesInv == ImageInv /\ ProbeInv /\ FileInvariant /\ TypeOK

\* Every module's type invariant holds in every behaviour of the run.
THEOREM FilesTypes == MCSpec => []AllTypes
<1>1. ASSUME MCInit PROVE FilesInv
  <2>1. FInit /\ KInit /\ PInit /\ RInit /\ Init
    BY <1>1 DEF MCInit
  <2>. QED
    BY <2>1, ImageInit, ProbeInit, FilesStart, TypeInit DEF FilesInv
<1>2. ASSUME FilesInv, [MCNext]_<<which, fvars, kvars, pvars, rvars, vars>> PROVE FilesInv'
  <2>1. /\ (FNext /\ UNCHANGED kvars) \/ (Pick /\ UNCHANGED fvars) \/ UNCHANGED <<fvars, kvars>>
        /\ PNext \/ UNCHANGED pvars
        /\ RNext \/ UNCHANGED rvars
        /\ Next \/ UNCHANGED vars
    BY <1>2 DEF MCNext, others
  <2>2. ImageInv'
    BY <1>2, <2>1, FetchesStep, PickStep, ImagesAtRest DEF FilesInv
  <2>3. ProbeInv'
    BY <1>2, <2>1, ProbeStep DEF FilesInv
  <2>4. FileInvariant'
    BY <1>2, <2>1, FilesStep DEF FilesInv
  <2>5. TypeOK'
    BY <1>2, <2>1, TypeStep DEF FilesInv
  <2>. QED
    BY <2>2, <2>3, <2>4, <2>5 DEF FilesInv
<1>3. FilesInv => AllTypes
  BY FileTypesAre DEF FilesInv, ImageInv, ProbeInv, AllTypes
<1>. QED
  BY <1>1, <1>2, <1>3, PTL DEF MCSpec

=============================================================================
