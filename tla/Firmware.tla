------------------------------ MODULE Firmware ------------------------------
(***************************************************************************)
(* Firmware images: where a name is looked for, what is checked before it is  *)
(* written (ops::firmware, receivers::firmware, POST /firmware/upload), and   *)
(* which image is picked for a panel.                                        *)
(*                                                                         *)
(* An image of the manifest lies in the archive, in the user's cache or where *)
(* the daemon puts uploads; commands fetch and load it at the same time, and  *)
(* a write of a file may be cut short anywhere.                              *)
(***************************************************************************)
EXTENDS Integers, FiniteSets, FiniteSetsExt, SequencesExt

CONSTANTS
  Fetchers,  \* processes that run `rxp firmware fetch NAME` (at most once each)
  Listed,    \* the manifest's images, for the ranking
  Chips,     \* part names of panels' driver chips
  NoChip

\* An image's version and build date are one number, the later the greater.
ASSUME FirmwareAssumption ==
  /\ IsFiniteSet(Fetchers) /\ IsFiniteSet(Listed) /\ NoChip \notin Chips
  /\ \A m \in Listed : m.date \in Nat

\* A file: absent, the listed bytes, other bytes, or the start of either.
Bytes  == {"listed", "other", "cut"}
Files  == {"archive", "cache", "part", "upload"}
Absent == "absent"

VARIABLES
  files,
  fetching,  \* by process: "idle", "curl", "verify", "rename", "ok", "failed"
  loaded,    \* what the last load of the name gave: Absent while it gave nothing
  from       \* the file it was read from

fvars == <<files, fetching, loaded, from>>

FInit ==
  /\ files \in [Files -> Bytes \cup {Absent}]
  /\ files["part"] = Absent
  /\ fetching = [p \in Fetchers |-> "idle"]
  /\ loaded = Absent /\ from = "archive"

\* Image::verify: the manifest's size and sha256.
Verifies(bytes) == bytes = "listed"

At(p, step, to) == fetching[p] = step /\ fetching' = [fetching EXCEPT ![p] = to]

\* A local copy that verifies is used before anything is downloaded.
FetchLocal(p) ==
  /\ At(p, "idle", "ok")
  /\ Verifies(files["archive"]) \/ Verifies(files["cache"])
  /\ UNCHANGED <<files, loaded, from>>

\* curl writes NAME.part from its start, whoever else is writing it.
FetchStart(p) ==
  /\ At(p, "idle", "curl")
  /\ ~Verifies(files["archive"]) /\ ~Verifies(files["cache"])
  /\ files' = [files EXCEPT !["part"] = "cut"]
  /\ UNCHANGED <<loaded, from>>

\* The server may send something else, and curl may fail.
FetchCurl(p) ==
  /\ \/ /\ At(p, "curl", "verify")
        /\ files' \in {[files EXCEPT !["part"] = b] : b \in {"listed", "other"}}
     \/ At(p, "curl", "failed") /\ UNCHANGED files
  /\ UNCHANGED <<loaded, from>>

\* The bytes read are checked; the file is removed or, later, renamed.
FetchVerify(p) ==
  /\ files["part"] # Absent
  /\ \/ Verifies(files["part"]) /\ At(p, "verify", "rename") /\ UNCHANGED files
     \/ /\ ~Verifies(files["part"]) /\ At(p, "verify", "failed")
        /\ files' = [files EXCEPT !["part"] = Absent]
  /\ UNCHANGED <<loaded, from>>

FetchRename(p) ==
  /\ files["part"] # Absent
  /\ At(p, "rename", "ok")
  /\ files' = [files EXCEPT !["cache"] = files["part"], !["part"] = Absent]
  /\ UNCHANGED <<loaded, from>>

\* The file another process renamed or removed is gone.
FetchGone(p) ==
  /\ files["part"] = Absent
  /\ At(p, "verify", "failed") \/ At(p, "rename", "failed")
  /\ UNCHANGED <<files, loaded, from>>

\* POST /firmware/upload under the listed name: refused unless it verifies, then
\* written in place, which a kill cuts short.
Upload(bytes) ==
  /\ Verifies(bytes)
  /\ files' \in {[files EXCEPT !["upload"] = b] : b \in {bytes, "cut"}}
  /\ UNCHANGED <<fetching, loaded, from>>

\* resolve: the name means the archive's file if there is one, then the cache's;
\* a path means itself.
Resolved(f) ==
  \/ f = "upload"
  \/ f = "archive"
  \/ f = "cache" /\ files["archive"] = Absent

\* load: an image the manifest lists is checked where it was found, whichever
\* way it was named. (Variant: only what was downloaded.)
LoadableLocal(f) == f # "archive" => Verifies(files[f])
Loadable(f) == Verifies(files[f])

Load(f) ==
  /\ files[f] # Absent /\ Resolved(f)
  /\ from' = f
  /\ loaded' = IF Loadable(f) THEN files[f] ELSE Absent
  /\ UNCHANGED <<files, fetching>>

FNext ==
  \/ \E p \in Fetchers : FetchLocal(p) \/ FetchStart(p) \/ FetchCurl(p)
                         \/ FetchVerify(p) \/ FetchRename(p) \/ FetchGone(p)
  \/ \E b \in Bytes : Upload(b)
  \/ \E f \in {"archive", "cache", "upload"} : Load(f)

-----------------------------------------------------------------------------
(* The ranking (ops::firmware::select, chosen).                             *)

TESTED      == 1000
CHIP_EXACT  == 500
CHIP_FAMILY == 400
KIND        == 100

\* A part name: letters and digits, and the letters behind them.
\* The same part: one's trailing letters begin the other's.
SamePart(a, b) ==
  /\ a.part = b.part
  /\ IsPrefix(a.suffix, b.suffix) \/ IsPrefix(b.suffix, a.suffix)

\* The first chip of the image's list that is the same part decides, so a
\* list that names the family first hides the exact name behind it. A panel
\* whose chip library is not found has no chip.
Hits(image, chip) == {i \in DOMAIN image.chips : chip # NoChip /\ SamePart(chip, image.chips[i])}
NamesChip(image, chip) == Hits(image, chip) # {}
ChipScore(image, chip) ==
  IF ~NamesChip(image, chip) THEN 0
  ELSE IF image.chips[Min(Hits(image, chip))] = chip THEN CHIP_EXACT ELSE CHIP_FAMILY

\* candidate: a build for one chip family only counts when its chips matched.
Candidate(image, chip) == image.kind \in {"PWM", "Normal"} \/ NamesChip(image, chip)

Score(image, chip, class) ==
  (IF image.tested THEN TESTED ELSE 0)
  + ChipScore(image, chip)
  + (IF image.kind = class THEN KIND ELSE 0)

\* Rule 1 or 2 decided it.
Decided(score) == score >= CHIP_FAMILY

\* Better by score, then by version and build date.
Better(a, b, chip, class) ==
  \/ Score(a, chip, class) > Score(b, chip, class)
  \/ Score(a, chip, class) = Score(b, chip, class) /\ a.date > b.date

\* chosen: the best candidate, if it is decided and nothing ranks with it.
\* (Variant: of the images there are, not those the manifest lists.)
ChosenAnyway(images, chip, class) ==
  {m \in Listed : Candidate(m, chip) /\ \A o \in Listed \ {m} : Better(m, o, chip, class)}
Chosen(images, chip, class) ==
  LET ranked == {m \in images : Candidate(m, chip)}
  IN {m \in ranked :
        Decided(Score(m, chip, class))
        /\ \A o \in ranked \ {m} : Better(m, o, chip, class)}

VARIABLES
  manifest,
  chip,    \* the panel's, NoChip when its library is not found
  class,   \* "PWM", "Normal", or "unknown" with NoChip
  picked   \* the images chosen, one at most

kvars == <<manifest, chip, class, picked>>

KInit ==
  /\ manifest \in SUBSET Listed
  /\ chip \in Chips \cup {NoChip}
  /\ class \in IF chip = NoChip THEN {"unknown"} ELSE {"PWM", "Normal"}
  /\ picked = {}

Pick ==
  /\ picked' = Chosen(manifest, chip, class)
  /\ UNCHANGED <<manifest, chip, class>>

-----------------------------------------------------------------------------
(* Properties.                                                              *)

\* Every variable holds a value of its type.
FTypeOK ==
  /\ files \in [Files -> Bytes \cup {Absent}]
  /\ fetching \in [Fetchers -> {"idle", "curl", "verify", "rename", "ok", "failed"}]
  /\ loaded \in Bytes \cup {Absent} /\ from \in Files
  /\ manifest \subseteq Listed /\ picked \subseteq manifest
  /\ chip \in Chips \cup {NoChip}
  /\ class \in {"PWM", "Normal", "unknown"}

\* "every image that is in the manifest is checked against it before a write":
\* whatever fetches that share one .part file, cut uploads and files put there
\* by hand leave on the disk, a command that gets an image under a listed name
\* gets the listed bytes.
OnlyListedBytesAreWritten == loaded \in {"listed", Absent}

\* A firmware is installed unasked (`--firmware auto`) only if it was driven
\* with this panel on this card or its vendor names the panel's chip, it is the
\* only one of its rank, and an image that was driven with the panel is never
\* passed over for one that was not.
PickIsDecided ==
  /\ Cardinality(picked) <= 1
  /\ \A m \in picked :
       /\ m.tested \/ NamesChip(m, chip)
       /\ (\E o \in manifest : o.tested /\ Candidate(o, chip)) => m.tested

\* Both: the image a command takes is the one it should.
RightImage == OnlyListedBytesAreWritten /\ PickIsDecided

=============================================================================
