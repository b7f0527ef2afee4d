------------------------------- MODULE Requests -------------------------------
(***************************************************************************)
(* The HTTP surface of the daemon (crates/daemon routes.rs, api.rs,        *)
(* error.rs): the token, the bodies, the commit gate, the files a handler *)
(* leaves under the data directory before it asks for the link, and the    *)
(* commands that read those files once they hold it. Handlers of different *)
(* requests interleave at every step; how the link is waited for is        *)
(* Daemon's, what a command does on the wire FlashReads', Upgrade's,       *)
(* ConfigWrite's and Provision's.                                          *)
(*                                                                         *)
(* A client makes one request, whose body is told from all others by the   *)
(* client's name: a file holds a client's body, or Empty while             *)
(* std::fs::write has opened it and not written. Specs have one name, and  *)
(* so have the images generated from them; uploads have one name.          *)
(***************************************************************************)
EXTENDS Naturals, FiniteSets

CONSTANTS
  Clients,  \* the requests of one run
  MaxClock  \* bound: the seconds that pass

Missing == "missing"
Empty   == "empty"
Factory == "factory"  \* what the card held before the daemon was asked for anything
Theirs  == "theirs"   \* a config.rcvbp the user put in a directory of their own
Nobody  == "nobody"
NoReply == "none"

\* A client's name is none of these words.
ASSUME RequestsAssumption ==
  /\ MaxClock \in Nat
  /\ Clients \cap {Missing, Empty, Factory, Theirs, Nobody, NoReply} = {}

-----------------------------------------------------------------------------
(* The routes, one of each behaviour. "look" stands for those that use the  *)
(* link and leave the flash alone: discover, brightness, config/read,       *)
(* config/send, card/reload, card/test-mode, card/set-layout and GET        *)
(* card/screen-size.                                                        *)
Saving  == {"write", "provision", "upload"}  \* leave a file first
Showing == {"still", "video"}                \* replace a running show
Jobs    == {"provision", "snapshot", "restore", "install", "video"}
Gated   == {"write", "size", "provision", "restore", "install"}
Reading == {"write", "provision", "restore", "install"}  \* read a file
Routes  == {"health", "look"} \cup Saving \cup Showing \cup Jobs \cup Gated

Credentials == {NoReply, "right", "wrong"}
Commits     == {"absent", "yes"}  \* false is what the absent is taken for

\* The header counts when there is one, the query otherwise.
Presented(header, query) == IF header # NoReply THEN header ELSE query

\* Every route but GET /health is behind the token.
Passes(route, token) == route = "health" \/ token = "right"

\* commit is false when the body does not say it. (Variant: only false is.)
CommitUnlessNo(q) == q.commit # "no"
Commit(q) == q.commit = "yes"

\* The fields a route's body has; those it has not are at their defaults.
Fields(route) == [
  route  : {route},
  token  : {"right"},
  commit : IF route \in Gated THEN Commits ELSE {"absent"},
  given  : IF route \in {"provision", "snapshot"} THEN BOOLEAN ELSE {route = "restore"},
  hold   : IF route = "still" THEN BOOLEAN ELSE {route = "video"},
  \* PUT card/screen-size may name the size the card has
  same   : IF route = "size" THEN BOOLEAN ELSE {FALSE}]

NoRequest == CHOOSE q \in Fields("look") : TRUE

-----------------------------------------------------------------------------
VARIABLES
  clock,   \* the seconds of unix_seconds()
  data,   \* what is under the data directory, and in the directory requests name
  link,    \* the client whose command or job has it, or Nobody
  card,    \* the card's configuration, screen size and firmware: whose
  stage, req, reply, \* per client: its handler's place, its request, the answer
  at,      \* per client: the directory, or the second, its file names carry
  read,    \* per client: what its command has read from its file
  \* history, for the properties
  wrote,   \* the clients whose command changed the card
  replaced,  \* per client: the configuration its command replaced
  when     \* per client: the second it named its files

perClient  == <<stage, req, reply, at, read>>
history == <<wrote, replaced, when>>
rvars   == <<clock, data, link, card, perClient, history>>

Seconds == 0 .. MaxClock
Given   == MaxClock + 1   \* the directory requests name
Places  == 0 .. Given
NoPlace == MaxClock + 2
Uploads == 0              \* <data dir>/firmware/<name>
Names   == {"config", "block07", "spec", "bank", "block7", "undo", "image"}

\* The file each route reads, and the one it saves what the card had in.
FileOf(route) ==
  CASE route = "write" -> "config"
    [] route = "provision" -> "spec"
    [] route = "restore" -> "theirs"
    [] OTHER -> "image"
\* (Variant: a provisioning saves it under the name of the image it makes.)
BackupOfImage(route) ==
  CASE route = "write" -> "block07" [] route = "provision" -> "block7" [] OTHER -> "bank"
BackupOf(route) ==
  CASE route = "write" -> "block07"
    [] route = "restore" -> "undo"
    [] OTHER -> "bank"

\* A user's directory holds a config.rcvbp, which nothing here writes.
Content(f, place) == IF f = "theirs" THEN Theirs ELSE data[f][place]
Put(f, place, what) == data' = [data EXCEPT ![f][place] = what]

RInit ==
  /\ clock = 0
  /\ data = [f \in Names |-> [p \in Places |-> Missing]]
  /\ link = Nobody
  /\ card = [config |-> Factory, size |-> Factory, firmware |-> Factory]
  /\ stage = [r \in Clients |-> "idle"]
  /\ req = [r \in Clients |-> NoRequest]
  /\ reply = [r \in Clients |-> NoReply]
  /\ at = [r \in Clients |-> NoPlace]
  /\ read = [r \in Clients |-> Missing]
  /\ wrote = {}
  /\ replaced = [r \in Clients |-> Missing]
  /\ when = [r \in Clients |-> NoPlace]

Moves(r, here, to) == stage[r] = here /\ stage' = [stage EXCEPT ![r] = to]
Answer(r, what)   == reply' = [reply EXCEPT ![r] = what]
Finish(r, here, what) == Moves(r, here, "done") /\ Answer(r, what)
\* A job answers when it starts and keeps its result; a command answers now.
Result(r, here, what) == Finish(r, here, what) /\ link' = Nobody

Tick ==
  /\ clock < MaxClock
  /\ clock' = clock + 1
  /\ UNCHANGED <<data, link, card, perClient, history>>

-----------------------------------------------------------------------------
(* Before the link. *)
FirstStep(route) ==
  IF route \in Saving THEN "save"
  ELSE IF route \in Showing THEN "show"
  ELSE IF route \in {"snapshot", "restore"} THEN "name" ELSE "take"

\* The token layer, the extractors, and what a handler decodes before it
\* touches anything: 401, 400, 500.
Arrive(r, route, header, query) ==
  LET token == Presented(header, query) IN
  /\ \/ /\ ~Passes(route, token)
        /\ Finish(r, "idle", "401")
        /\ UNCHANGED req
     \/ /\ Passes(route, token) /\ route # "health"
        /\ \E status \in {"400", "500"} : Finish(r, "idle", status)
        /\ UNCHANGED req
     \/ /\ route = "health"
        /\ Finish(r, "idle", IF token = "right" THEN "whole" ELSE "version")
        /\ UNCHANGED req
     \/ /\ Passes(route, token) /\ route # "health"
        /\ Moves(r, "idle", FirstStep(route))
        /\ \E q \in Fields(route) : req' = [req EXCEPT ![r] = [q EXCEPT !.token = token]]
        /\ UNCHANGED reply
  /\ UNCHANGED <<clock, data, link, card, at, read, history>>

\* unix_seconds() at the handler. (Variant: minutes.)
StampMinutes == clock \div 60
Stamp == clock

PlaceOf(q) == IF q.given THEN Given ELSE IF q.route = "upload" THEN Uploads ELSE Stamp
Name(r) ==
  /\ at' = [at EXCEPT ![r] = PlaceOf(req[r])]
  /\ when' = [when EXCEPT ![r] = clock]

\* data_path and the opening half of fs::write.
OpenFile(r) ==
  /\ Moves(r, "save", "fill")
  /\ Name(r)
  /\ Put(FileOf(req[r].route), at'[r], Empty)
  /\ UNCHANGED <<clock, link, card, req, reply, read, wrote, replaced>>

\* The other half: an upload is done, the others ask for the link.
FillFile(r) ==
  /\ \/ req[r].route = "upload" /\ Finish(r, "fill", "ok")
     \/ req[r].route # "upload" /\ Moves(r, "fill", "take") /\ UNCHANGED reply
  /\ Put(FileOf(req[r].route), at[r], r)
  /\ UNCHANGED <<clock, link, card, req, at, read, history>>

\* The directory cannot be made, or the file not written.
SaveFails(r) ==
  /\ \E here \in {"save", "fill"} : Finish(r, here, "500")
  /\ UNCHANGED <<clock, data, link, card, req, at, read, history>>

\* The directory of a snapshot or a restore is named before the link, not
\* written.
NameDirectory(r) ==
  /\ Moves(r, "name", "take")
  /\ Name(r)
  /\ UNCHANGED <<clock, data, link, card, req, reply, read, wrote, replaced>>

\* cancel_show: a show that has the link ends first.
CancelShow(r) ==
  LET shown == {s \in Clients : stage[s] = "shown"} IN
  /\ stage[r] = "show"
  /\ stage' = [s \in Clients |-> IF s = r THEN "take" ELSE IF s \in shown THEN "done" ELSE stage[s]]
  /\ link' = IF shown # {} THEN Nobody ELSE link
  /\ UNCHANGED <<clock, data, card, req, reply, at, read, history>>

\* command() and start_job(): the link, or 409.
Take(r) ==
  /\ link = Nobody
  /\ Moves(r, "take", "run")
  /\ link' = r
  /\ UNCHANGED <<clock, data, card, req, reply, at, read, history>>

Conflict(r) ==
  /\ link # Nobody
  /\ Finish(r, "take", "409")
  /\ UNCHANGED <<clock, data, link, card, req, at, read, history>>

-----------------------------------------------------------------------------
(* With the link. *)
untouched == <<clock, data, card, req, at, read, history>>

\* Commands that leave the flash alone, and shows that end by themselves.
Look(r) ==
  /\ req[r].route = "look" \/ (req[r].route = "still" /\ ~req[r].hold)
  /\ Result(r, "run", "ok")
  /\ UNCHANGED untouched

Hold(r) ==
  /\ req[r].route \in Showing /\ req[r].hold
  /\ Moves(r, "run", "shown")
  /\ Answer(r, "ok")
  /\ UNCHANGED <<link, untouched>>

ShowEnds(r) ==
  /\ Moves(r, "shown", "done")
  /\ link' = Nobody
  /\ UNCHANGED <<reply, untouched>>

\* The card does not answer, a file cannot be read, a job is cancelled: at
\* any step, with what was done by then done.
Breaks(r) ==
  /\ \E here \in {"run", "parsed", "read", "saved", "made"} : Result(r, here, "500")
  /\ UNCHANGED untouched

\* The command reads its file: the configuration is parsed first and read
\* again, the others are read once.
ReadFile(r) ==
  LET place == IF req[r].route = "install" THEN Uploads ELSE at[r]
      has   == Content(FileOf(req[r].route), place) IN
  /\ req[r].route \in Reading
  /\ Moves(r, "run", IF req[r].route = "write" THEN "parsed" ELSE "read")
  /\ has \notin {Missing, Empty}
  /\ read' = [read EXCEPT ![r] = has]
  /\ UNCHANGED <<clock, data, link, card, req, reply, at, history>>

ReadAgain(r) ==
  /\ Moves(r, "parsed", "read")
  /\ read' = [read EXCEPT ![r] = Content("config", at[r])]
  /\ UNCHANGED <<clock, data, link, card, req, reply, at, history>>

\* What the card has is saved before it is changed: by config/write even in a
\* dry run, by the others when they commit. A snapshot is nothing else.
SavesFirst(q) == q.route = "write" \/ (q.route \in {"provision", "restore"} /\ Commit(q))
BackUp(r) ==
  /\ \/ req[r].route = "snapshot" /\ Result(r, "run", "ok")
     \/ SavesFirst(req[r]) /\ Moves(r, "read", "saved") /\ UNCHANGED <<link, reply>>
  /\ Put(BackupOf(req[r].route), at[r], card.config)
  /\ UNCHANGED <<clock, card, req, at, read, history>>

\* The commit gate: the plan, and nothing written.
\* (Variant of the outcome: it says committed whatever the gate.)
OutcomeCommitted(q) == "committed"
Outcome(q) == IF Commit(q) THEN "committed" ELSE "plan"
GatePoint(route) ==
  CASE route = "write" -> "saved" [] route = "size" -> "run" [] OTHER -> "read"
DryRun(r) ==
  /\ req[r].route \in Gated /\ ~Commit(req[r])
  /\ Result(r, GatePoint(req[r].route), Outcome(req[r]))
  /\ UNCHANGED untouched

\* provision reads the spec a second time, and writes the image it makes of it
\* into the directory it will read it from.
Generate(r) ==
  LET spec == Content("spec", at[r]) IN
  /\ req[r].route = "provision" /\ Moves(r, "saved", "made")
  /\ spec \notin {Missing, Empty}
  /\ Put("block7", at[r], spec)
  /\ UNCHANGED <<clock, link, card, req, reply, at, read, history>>

\* A command writes part of the card, and says so unless the check of what it
\* wrote fails.
Write(r, here, part, what) ==
  /\ Commit(req[r])
  /\ card' = [card EXCEPT ![part] = what]
  /\ \E answer \in {"committed", "500"} : Result(r, here, answer)
  /\ wrote' = wrote \cup {r}
  /\ replaced' = [replaced EXCEPT ![r] = card.config]
  /\ UNCHANGED <<clock, data, req, at, read, when>>

InstallConfig(r) == req[r].route \in {"write", "restore"} /\ Write(r, "saved", "config", read[r])
ProvisionCard(r) == stage[r] = "made" /\ Write(r, "made", "config", Content("block7", at[r]))
Install(r)     == req[r].route = "install" /\ Write(r, "read", "firmware", read[r])
SetSize(r)     == req[r].route = "size" /\ ~req[r].same /\ Write(r, "run", "size", r)

\* The size the card has is not written again; the answer is the gate's.
KeepSize(r) ==
  /\ req[r].route = "size" /\ req[r].same
  /\ Result(r, "run", Outcome(req[r]))
  /\ UNCHANGED untouched

RNext ==
  \/ Tick
  \/ \E r \in Clients :
       \/ \E route \in Routes, header, query \in Credentials : Arrive(r, route, header, query)
       \/ OpenFile(r) \/ FillFile(r) \/ SaveFails(r) \/ NameDirectory(r)
       \/ CancelShow(r) \/ Take(r) \/ Conflict(r)
       \/ Look(r) \/ Hold(r) \/ ShowEnds(r) \/ Breaks(r)
       \/ ReadFile(r) \/ ReadAgain(r) \/ BackUp(r) \/ DryRun(r) \/ Generate(r)
       \/ InstallConfig(r) \/ ProvisionCard(r) \/ Install(r) \/ SetSize(r) \/ KeepSize(r)

-----------------------------------------------------------------------------
Whose == Clients \cup {Missing, Empty, Factory, Theirs}

\* Types, and who has the link: the command or job that is past Take.
RTypeOK ==
  /\ clock \in Seconds
  /\ data \in [Names -> [Places -> Whose]]
  /\ link \in Clients \cup {Nobody}
  /\ card \in [{"config", "size", "firmware"} -> Whose]
  /\ at \in [Clients -> Places \cup {NoPlace}]
  /\ read \in [Clients -> Whose] /\ replaced \in [Clients -> Whose]
  /\ \A r \in Clients :
       link = r <=> stage[r] \in {"run", "parsed", "read", "saved", "made", "shown"}

\* Two requests share file names: they name the same directory, or have their
\* files named by the clock in the same second.
Meets(q, r) ==
  /\ q # r
  /\ req[q].route = req[r].route \/ {req[q].route, req[r].route} = {"provision", "snapshot"}
  /\ \/ req[q].given /\ req[r].given
     \/ ~req[q].given /\ ~req[r].given /\ when[q] = when[r]
Alone(r) == \A q \in Clients : ~Meets(q, r)

\* The commit gate (routes.rs, "commit: r.commit.unwrap_or(false)"): the card
\* changes only under a request that carried the token and said commit.
CommitGate == [][card' # card =>
  /\ link # Nobody
  /\ req[link].commit = "yes" /\ req[link].token = "right"]_rvars

\* The bytes that reach the card are those of the request they are written for
\* (or of a whole upload, or of the user's directory), although they travel
\* through a file and are read twice; only requests that share a name mix.
OwnBytes == [][
  /\ card'.config # card.config /\ req[link].route \in {"write", "provision"} /\ Alone(link)
       => card'.config = link
  /\ card'.firmware # card.firmware => card'.firmware \in {r \in Clients : req[r].route = "upload"}
  ]_rvars

\* What a request replaced on the card is in its backup for good, unless
\* another request shares the name.
BackupIsKept ==
  \A r \in wrote : req[r].route \in {"write", "provision"} /\ Alone(r) =>
    data[BackupOf(req[r].route)][at[r]] = replaced[r]

\* The answers tell what was done: committed means written, or the size was
\* that already; every other answer but a failure means nothing was.
AnswersAreTrue == \A r \in Clients :
  /\ reply[r] = "committed" => r \in wrote \/ req[r].same
  /\ r \in wrote => reply[r] \in {"committed", "500"}
  /\ reply[r] \in {"committed", "plan"} => req[r].route \in Gated
  /\ reply[r] = "plan" => req[r].commit # "yes"
  /\ link = r => reply[r] = IF stage[r] = "shown" THEN "ok" ELSE NoReply

=============================================================================
