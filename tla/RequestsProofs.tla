--------------------------- MODULE RequestsProofs ---------------------------
(***************************************************************************)
(* What the HTTP surface promises, for any number of requests and any length  *)
(* of time.                                                                 *)
(***************************************************************************)
EXTENDS Requests, TLAPS

RSpec == RInit /\ [][RNext]_rvars

Running == {"run", "parsed", "read", "saved", "made", "shown"}
Waiting == {"idle", "save", "fill", "show", "name", "take", "done"}
Request == [route : Routes, token : Credentials, commit : Commits,
            given : BOOLEAN, hold : BOOLEAN, same : BOOLEAN]

\* The link belongs to the request whose command or job is past Take.
LinkIsTheRunners ==
  /\ link \in Clients \cup {Nobody}
  /\ stage \in [Clients -> Running \cup Waiting]
  /\ \A r \in Clients : link = r <=> stage[r] \in Running

\* A request that was let in carried the token.
TokenChecked ==
  /\ req \in [Clients -> Request]
  /\ \A r \in Clients : stage[r] \notin {"idle", "done"} => req[r].token = "right"

GateInvariant == LinkIsTheRunners /\ TokenChecked

\* The fields a route reads make a request.
LEMMA FieldsAreRequests == \A route \in Routes : Fields(route) \subseteq Request
<1> SUFFICES ASSUME NEW route \in Routes, NEW q \in Fields(route) PROVE q \in Request
    OBVIOUS
<1> QED BY DEF Fields, Request, Credentials, Commits

\* So does the one that asks for nothing.
LEMMA NoRequestIsOne == NoRequest \in Request /\ NoRequest.route = "look"
<1>1. [route |-> "look", token |-> "right", commit |-> "absent", given |-> FALSE,
       hold |-> FALSE, same |-> FALSE] \in Fields("look")
  <2>1. "look" \notin Gated /\ ("look" = "restore") = FALSE /\ ("look" = "video") = FALSE
        BY DEF Gated
  <2> QED BY <2>1 DEF Fields
<1>2. NoRequest \in Fields("look")
      BY <1>1 DEF NoRequest
<1>3. NoRequest.route = "look"
      BY <1>2 DEF Fields
<1> QED BY <1>2, <1>3, FieldsAreRequests DEF Routes

\* It holds before the first request.
LEMMA GateStarts == RInit => GateInvariant
BY NoRequestIsOne, RequestsAssumption
   DEF RInit, GateInvariant, LinkIsTheRunners, TokenChecked, Running, Waiting

\* What an action does that moves one client: along, to an end with the link or
\* to one without.
LEMMA Moving ==
  ASSUME GateInvariant, NEW r \in Clients, NEW here, NEW to \in Running \cup Waiting,
         Moves(r, here, to), req' = req, here \notin {"idle", "done"},
         \/ here \in Running /\ to \in Running /\ link' = link
         \/ here \in Waiting /\ to \in Waiting /\ link' = link
         \/ here \in Running /\ to \in Waiting /\ link' = Nobody
         \/ link = Nobody /\ here \in Waiting /\ to \in Running /\ link' = r
  PROVE  GateInvariant'
<1> USE DEF GateInvariant, LinkIsTheRunners, TokenChecked
<1>1. stage' \in [Clients -> Running \cup Waiting] /\ link' \in Clients \cup {Nobody}
      BY DEF Moves
<1>2. ASSUME NEW s \in Clients PROVE link' = s <=> stage'[s] \in Running
  <2>1. Running \cap Waiting = {} /\ s # Nobody /\ r # Nobody
        BY RequestsAssumption DEF Running, Waiting
  <2>2. CASE s = r
        BY <2>1, <2>2 DEF Moves
  <2>3. CASE s # r
    <3>1. stage'[s] = stage[s] /\ stage[r] = here
          BY <2>3 DEF Moves
    <3> QED BY <2>1, <2>3, <3>1
  <2> QED BY <2>2, <2>3
<1>3. ASSUME NEW s \in Clients, stage'[s] \notin {"idle", "done"} PROVE req'[s].token = "right"
      BY <1>3 DEF Moves
<1> QED BY <1>1, <1>2, <1>3

\* Every step keeps it.
LEMMA GateSteps == GateInvariant /\ [RNext]_rvars => GateInvariant'
<1> SUFFICES ASSUME GateInvariant, [RNext]_rvars PROVE GateInvariant'
    OBVIOUS
<1> USE DEF Finish, Result, Running, Waiting
<1>1. ASSUME UNCHANGED <<link, stage, req>> PROVE GateInvariant'
      BY <1>1 DEF GateInvariant, LinkIsTheRunners, TokenChecked
<1>2. ASSUME NEW r \in Clients, NEW route \in Routes, NEW header \in Credentials,
             NEW query \in Credentials, Arrive(r, route, header, query)
      PROVE GateInvariant'
  <2> USE DEF GateInvariant, LinkIsTheRunners, TokenChecked
  <2>1. link' = link /\ stage[r] = "idle"
        BY <1>2 DEF Arrive, Moves
  <2>2. CASE stage' = [stage EXCEPT ![r] = "done"] /\ req' = req
        BY <2>1, <2>2
  <2>3. ASSUME Passes(route, Presented(header, query)), route # "health",
               stage' = [stage EXCEPT ![r] = FirstStep(route)],
               NEW q \in Fields(route),
               req' = [req EXCEPT ![r] = [q EXCEPT !.token = Presented(header, query)]]
        PROVE GateInvariant'
    <3>1. FirstStep(route) \in {"save", "show", "name", "take"}
          BY DEF FirstStep
    <3>2. q \in Request /\ Presented(header, query) = "right"
          BY <2>3, FieldsAreRequests DEF Passes
    <3>3. [q EXCEPT !.token = Presented(header, query)] \in Request
          BY <3>2 DEF Request, Credentials
    <3>4. [q EXCEPT !.token = Presented(header, query)].token = "right"
          BY <3>2 DEF Request
    <3>5. stage' \in [Clients -> Running \cup Waiting] /\ req' \in [Clients -> Request]
          BY <2>3, <3>1, <3>3
    <3>6. ASSUME NEW s \in Clients
          PROVE /\ link' = s <=> stage'[s] \in Running
                /\ stage'[s] \notin {"idle", "done"} => req'[s].token = "right"
          BY <2>1, <2>3, <3>1, <3>4, <3>6
    <3> QED BY <2>1, <3>5, <3>6
  <2>4. \/ stage' = [stage EXCEPT ![r] = "done"] /\ req' = req
        \/ /\ Passes(route, Presented(header, query)) /\ route # "health"
           /\ stage' = [stage EXCEPT ![r] = FirstStep(route)]
           /\ \E q \in Fields(route) :
                req' = [req EXCEPT ![r] = [q EXCEPT !.token = Presented(header, query)]]
        BY <1>2 DEF Arrive, Moves
  <2> QED BY <2>2, <2>3, <2>4
<1>3. ASSUME NEW r \in Clients, OpenFile(r) \/ FillFile(r) \/ SaveFails(r) \/ NameDirectory(r)
                                \/ Conflict(r) \/ Take(r)
      PROVE GateInvariant'
      BY <1>3, Moving DEF OpenFile, FillFile, SaveFails, NameDirectory, Conflict, Take
<1>4. ASSUME NEW r \in Clients, CancelShow(r) PROVE GateInvariant'
  <2> USE DEF GateInvariant, LinkIsTheRunners, TokenChecked
  <2>1. req' = req /\ stage' \in [Clients -> Running \cup Waiting]
        BY <1>4 DEF CancelShow
  <2>2. link' \in Clients \cup {Nobody}
        BY <1>4 DEF CancelShow
  <2>3. ASSUME NEW s \in Clients PROVE link' = s <=> stage'[s] \in Running
    <3>1. stage[r] = "show" /\ s # Nobody
          BY <1>4, RequestsAssumption DEF CancelShow
    <3>2. CASE \E c \in Clients : stage[c] = "shown"
      <4>1. PICK c \in Clients : stage[c] = "shown"
            BY <3>2
      <4>2. link = c /\ link' = Nobody
            BY <1>4, <4>1 DEF CancelShow
      <4>3. \A d \in Clients : stage[d] \in Running => d = c
            BY <4>2
      <4> QED BY <1>4, <3>1, <4>1, <4>2, <4>3 DEF CancelShow
    <3>3. CASE ~ \E c \in Clients : stage[c] = "shown"
      <4>1. link' = link /\ stage' = [c \in Clients |-> IF c = r THEN "take" ELSE stage[c]]
            BY <1>4, <3>3 DEF CancelShow
      <4> QED BY <3>1, <4>1
    <3> QED BY <3>2, <3>3
  <2>4. ASSUME NEW s \in Clients, stage'[s] \notin {"idle", "done"} PROVE req'[s].token = "right"
        BY <1>4, <2>1, <2>4 DEF CancelShow
  <2> QED BY <2>1, <2>2, <2>3, <2>4
<1>5. ASSUME NEW r \in Clients, Look(r) \/ Hold(r) \/ ShowEnds(r) \/ Breaks(r)
      PROVE GateInvariant'
      BY <1>5, Moving DEF Look, Hold, ShowEnds, Breaks, untouched
<1>6. ASSUME NEW r \in Clients, ReadFile(r) \/ ReadAgain(r) \/ BackUp(r) \/ DryRun(r) \/ Generate(r)
      PROVE GateInvariant'
      BY <1>6, Moving DEF ReadFile, ReadAgain, BackUp, DryRun, Generate, GatePoint, untouched
<1>7. ASSUME NEW r \in Clients, InstallConfig(r) \/ ProvisionCard(r) \/ Install(r) \/ SetSize(r)
                                \/ KeepSize(r)
      PROVE GateInvariant'
      BY <1>7, Moving DEF InstallConfig, ProvisionCard, Install, SetSize, KeepSize, Write, untouched
<1>8. CASE Tick
      BY <1>1, <1>8 DEF Tick, perClient
<1>9. CASE UNCHANGED rvars
      BY <1>1, <1>9 DEF rvars, perClient
<1> QED BY <1>2, <1>3, <1>4, <1>5, <1>6, <1>7, <1>8, <1>9 DEF RNext

\* The card changes only in the action that writes it.
LEMMA OnlyWritesChangeTheCard ==
  ASSUME [RNext]_rvars, card' # card
  PROVE  \E r \in Clients : InstallConfig(r) \/ ProvisionCard(r) \/ Install(r) \/ SetSize(r)
BY DEF RNext, rvars, Tick, Arrive, OpenFile, FillFile, SaveFails, NameDirectory, CancelShow,
       Take, Conflict, Look, Hold, ShowEnds, Breaks, untouched, ReadFile, ReadAgain, BackUp,
       DryRun, Generate, KeepSize

\* The card changes under a request with the commit flag and the right token.
LEMMA WritesAreCommitted ==
  ASSUME GateInvariant, [RNext]_rvars, card' # card
  PROVE  link # Nobody /\ req[link].commit = "yes" /\ req[link].token = "right"
<1>1. PICK r \in Clients : InstallConfig(r) \/ ProvisionCard(r) \/ Install(r) \/ SetSize(r)
      BY OnlyWritesChangeTheCard
<1>2. /\ \E here \in {"saved", "made", "read", "run"} : stage[r] = here
      /\ Commit(req[r])
      BY <1>1 DEF InstallConfig, ProvisionCard, Install, SetSize, Write, Result, Finish, Moves
<1>3. link = r /\ r # Nobody
      BY <1>2, RequestsAssumption DEF GateInvariant, LinkIsTheRunners, Running
<1> QED BY <1>2, <1>3 DEF GateInvariant, TokenChecked, Commit

\* The commit gate (crates/daemon routes.rs): the card changes only under a
\* request that carried the token and said commit.
THEOREM CardIsGated == RSpec => CommitGate
<1>1. GateInvariant /\ [RNext]_rvars =>
        [card' # card => /\ link # Nobody
                         /\ req[link].commit = "yes" /\ req[link].token = "right"]_rvars
      BY WritesAreCommitted
<1> QED BY <1>1, GateStarts, GateSteps, PTL DEF RSpec, CommitGate

-----------------------------------------------------------------------------
(* What travels through files.                                              *)
Through == {"write", "provision"}
Named(r) == when[r] \in Seconds
AtWork == {"take", "run", "parsed", "read", "saved", "made"}

FileTypes ==
  /\ clock \in Seconds
  /\ data \in [Names -> [Places -> Whose]]
  /\ card \in [{"config", "size", "firmware"} -> Whose]
  /\ at \in [Clients -> Places \cup {NoPlace}]
  /\ when \in [Clients -> Seconds \cup {NoPlace}]
  /\ read \in [Clients -> Whose] /\ replaced \in [Clients -> Whose]
  /\ wrote \subseteq Clients

\* Where a request may be, by its route, and where its files are.
StageFits(r) ==
  /\ stage[r] = "idle" => req[r].route = "look"
  /\ stage[r] \in {"idle", "save", "name"} => when[r] = NoPlace
  /\ stage[r] \in {"show", "shown"} => req[r].route \in Showing
  /\ stage[r] = "name" => req[r].route \in {"snapshot", "restore"}
  /\ stage[r] \in {"save", "fill"} => req[r].route \in Saving
  /\ stage[r] = "fill" => Named(r)
  /\ req[r].route = "snapshot" /\ stage[r] \in AtWork => Named(r)
  /\ stage[r] = "parsed" => req[r].route = "write"
  /\ stage[r] = "made" => req[r].route = "provision"
  /\ Named(r) /\ req[r].route # "upload" =>
       at[r] = IF req[r].given THEN Given ELSE when[r]

\* A request nobody shares a name with finds its own bytes, and the card's in
\* its backup.
FilesAreItsOwn(r) ==
  /\ stage[r] \in AtWork => Named(r) /\ (Alone(r) => data[FileOf(req[r].route)][at[r]] = r)
  /\ req[r].route = "write" /\ stage[r] \in {"parsed", "read", "saved"} /\ Alone(r) => read[r] = r
  /\ stage[r] = "made" /\ Alone(r) => data["block7"][at[r]] = r
  /\ stage[r] \in {"saved", "made"} /\ Alone(r) =>
       data[BackupOf(req[r].route)][at[r]] = card.config
  /\ r \in wrote /\ Alone(r) => data[BackupOf(req[r].route)][at[r]] = replaced[r]

\* Every image is one that was uploaded.
Uploaded == {Missing, Empty} \cup {r \in Clients : stage[r] # "idle" /\ req[r].route = "upload"}
ImagesAreUploads ==
  /\ \A p \in Places : data["image"][p] \in Uploaded
  /\ \A r \in Clients : req[r].route = "install" /\ stage[r] = "read" => read[r] \in Uploaded \ {Missing, Empty}

FileInvariant ==
  /\ GateInvariant /\ FileTypes
  /\ \A r \in Clients : StageFits(r)
  /\ \A r \in wrote : stage[r] = "done" /\ (req[r].route \in Through => Named(r))
  /\ \A r \in Clients : req[r].route \in Through => FilesAreItsOwn(r)
  /\ ImagesAreUploads

\* The files a request that saves one may write.
Mine(q) == CASE q.route = "write" -> {"config", "block07"}
             [] q.route = "provision" -> {"spec", "block7", "bank"}
             [] q.route = "snapshot" -> {"bank"}
             [] OTHER -> {"image", "undo"}

\* Two requests that put the same file in the same place share a name.
LEMMA SamePlaceMeets ==
  ASSUME NEW q \in Request, NEW p \in Request, NEW wq \in Seconds, NEW wp \in Seconds,
         p.route \in Through, Mine(q) \cap Mine(p) # {},
         (IF q.given THEN Given ELSE wq) = (IF p.given THEN Given ELSE wp)
  PROVE  /\ q.route = p.route \/ {q.route, p.route} = {"provision", "snapshot"}
         /\ (q.given /\ p.given) \/ (~q.given /\ ~p.given /\ wq = wp)
<1>1. Given \notin Seconds
      BY RequestsAssumption DEF Given, Seconds
<1>2. q.route = p.route \/ {q.route, p.route} = {"provision", "snapshot"}
  <2>1. CASE p.route = "write"
        BY <2>1 DEF Mine
  <2>2. CASE p.route = "provision"
        BY <2>2 DEF Mine
  <2> QED BY <2>1, <2>2 DEF Through
<1>3. (q.given /\ p.given) \/ (~q.given /\ ~p.given /\ wq = wp)
      BY <1>1 DEF Request
<1> QED BY <1>2, <1>3

\* Sharing a name once is sharing it for good.
LEMMA AloneShrinks ==
  ASSUME NEW r \in Clients, req[r].route \in Through, Named(r), Alone(r)',
         req'[r] = req[r], when'[r] = when[r],
         \A q \in Clients : q # r =>
           /\ req'[q] = req[q] \/ req[q].route = "look"
           /\ when'[q] = when[q] \/ when[q] = NoPlace
  PROVE  Alone(r)
<1> SUFFICES ASSUME NEW q \in Clients, Meets(q, r) PROVE FALSE
    BY DEF Alone
<1>1. NoPlace \notin Seconds
      BY RequestsAssumption DEF NoPlace, Seconds
<1>2. q # r /\ req[q].route # "look"
      BY DEF Meets, Through
<1>3. req'[q] = req[q]
      BY <1>2
<1>4. ~ req[r].given => when'[q] = when[q]
      BY <1>1, <1>2 DEF Meets, Named
<1>5. Meets(q, r)'
      BY <1>3, <1>4, <1>2 DEF Meets
<1> QED BY <1>5 DEF Alone

\* A step that leaves a request's own state, its files and, while it is about to
\* be replaced, the card alone.
LEMMA Undisturbed ==
  ASSUME NEW r \in Clients, req[r].route \in Through, FilesAreItsOwn(r), StageFits(r),
         stage'[r] = stage[r], req'[r] = req[r], at'[r] = at[r], read'[r] = read[r],
         when'[r] = when[r], replaced'[r] = replaced[r], r \in wrote' <=> r \in wrote,
         r \in wrote => Named(r),
         \A q \in Clients : q # r =>
           /\ req'[q] = req[q] \/ req[q].route = "look"
           /\ when'[q] = when[q] \/ when[q] = NoPlace,
         stage[r] \in {"saved", "made"} => card'.config = card.config,
         Named(r) /\ Alone(r)' => \A f \in Mine(req[r]) : data'[f][at[r]] = data[f][at[r]]
  PROVE  FilesAreItsOwn(r)' /\ StageFits(r)'
<1>1. Named(r) /\ Alone(r)' => Alone(r)
      BY AloneShrinks
<1>2. Named(r)' <=> Named(r)
      BY DEF Named
<1>3. /\ FileOf(req[r].route) \in Mine(req[r]) /\ BackupOf(req[r].route) \in Mine(req[r])
      /\ req[r].route = "provision" => "block7" \in Mine(req[r])
      BY DEF Through, FileOf, BackupOf, Mine
<1>4. StageFits(r)'
      BY <1>2 DEF StageFits
<1>5. stage[r] \in AtWork \/ r \in wrote => Named(r)
      BY DEF FilesAreItsOwn
<1>6. {"parsed", "read", "saved", "made"} \subseteq AtWork
      BY DEF AtWork
<1>7. (stage[r] \in AtWork => Named(r) /\ (Alone(r) => data[FileOf(req[r].route)][at[r]] = r))'
      BY <1>1, <1>2, <1>3 DEF FilesAreItsOwn
<1>8. (req[r].route = "write" /\ stage[r] \in {"parsed", "read", "saved"} /\ Alone(r) => read[r] = r)'
      BY <1>1, <1>5, <1>6 DEF FilesAreItsOwn
<1>9. (stage[r] = "made" /\ Alone(r) => data["block7"][at[r]] = r)'
      BY <1>1, <1>3, <1>5, <1>6 DEF FilesAreItsOwn, StageFits
<1>10. (stage[r] \in {"saved", "made"} /\ Alone(r) =>
          data[BackupOf(req[r].route)][at[r]] = card.config)'
      BY <1>1, <1>3, <1>5, <1>6 DEF FilesAreItsOwn
<1>11. (r \in wrote /\ Alone(r) => data[BackupOf(req[r].route)][at[r]] = replaced[r])'
      BY <1>1, <1>3, <1>5 DEF FilesAreItsOwn
<1> QED BY <1>4, <1>7, <1>8, <1>9, <1>10, <1>11 DEF FilesAreItsOwn

\* A request that writes a file of its own, in the place its names carry, does
\* not write over one of a request that shares no name with it.
LEMMA PutElsewhere ==
  ASSUME FileTypes, TokenChecked, NEW r \in Clients, NEW s \in Clients, s # r,
         req[r].route \in Through, Named(r), StageFits(r), Alone(r)', req' = req,
         at'[r] = at[r], when'[r] = when[r],
         NEW f \in Mine(req[s]), NEW x, NEW place,
         when'[s] \in Seconds,
         req[s].route # "upload" => place = IF req[s].given THEN Given ELSE when'[s],
         data' = [data EXCEPT ![f][place] = x]
  PROVE  \A g \in Mine(req[r]) : data'[g][at[r]] = data[g][at[r]]
<1> SUFFICES ASSUME NEW g \in Mine(req[r]) PROVE data'[g][at[r]] = data[g][at[r]]
    OBVIOUS
<1>1. CASE g # f
      BY <1>1 DEF FileTypes
<1>2. CASE g = f /\ place # at[r]
      BY <1>2 DEF FileTypes
<1>3. CASE g = f /\ place = at[r]
  <2>1. req[s].route # "upload"
        BY <1>3 DEF Mine, Through
  <2>2. at[r] = IF req[r].given THEN Given ELSE when[r]
        BY DEF StageFits, Through
  <2>3. req[s] \in Request /\ req[r] \in Request /\ when[r] \in Seconds
        BY DEF TokenChecked, Named
  <2>4. Mine(req[s]) \cap Mine(req[r]) # {}
        BY <1>3
  <2>5. /\ req[s].route = req[r].route \/ {req[s].route, req[r].route} = {"provision", "snapshot"}
        /\ (req[s].given /\ req[r].given) \/ (~req[s].given /\ ~req[r].given /\ when'[s] = when[r])
        BY <1>3, <2>1, <2>2, <2>3, <2>4, SamePlaceMeets, ZenonT(30)
  <2>6. Meets(s, r)'
        BY <2>5 DEF Meets
  <2> QED BY <2>6 DEF Alone
<1> QED BY <1>1, <1>2, <1>3

\* A request at work that saves or generates files has a place for them.
LEMMA AtWorkInPlace ==
  ASSUME FileInvariant, NEW r \in Clients, stage[r] \in AtWork \cup {"fill"},
         req[r].route \in Through \cup {"snapshot"}
  PROVE  Named(r) /\ at[r] \in Places
<1>1. Named(r)
      BY DEF FileInvariant, FilesAreItsOwn, StageFits
<1>2. at[r] = IF req[r].given THEN Given ELSE when[r]
      BY <1>1 DEF FileInvariant, StageFits, Through
<1> QED BY <1>1, <1>2, RequestsAssumption DEF Named, Places, Given, Seconds

\* Types.
LEMMA TypesKept == FileInvariant /\ [RNext]_rvars => FileTypes'
<1> SUFFICES ASSUME FileInvariant, [RNext]_rvars PROVE FileTypes'
    OBVIOUS
<1> USE DEF FileInvariant, FileTypes
<1>1. /\ \A r \in Clients : r \in Whose
      /\ {Missing, Empty, Factory, Theirs} \subseteq Whose
      BY DEF Whose
<1>2. ASSUME NEW f, NEW place, NEW x \in Whose, Put(f, place, x)
      PROVE data' \in [Names -> [Places -> Whose]]
      BY <1>2 DEF Put
<1>3. ASSUME NEW r \in Clients, OpenFile(r) \/ NameDirectory(r) PROVE FileTypes'
  <2>1. PlaceOf(req[r]) \in Places /\ clock \in Seconds
        BY RequestsAssumption DEF PlaceOf, Places, Given, Uploads, Stamp, Seconds
  <2>2. Name(r) /\ UNCHANGED <<clock, card, read, replaced, wrote>>
        BY <1>3 DEF OpenFile, NameDirectory
  <2>3. at' \in [Clients -> Places \cup {NoPlace}] /\ when' \in [Clients -> Seconds \cup {NoPlace}]
        BY <2>1, <2>2 DEF Name
  <2>4. data' \in [Names -> [Places -> Whose]]
        BY <1>1, <1>2, <1>3 DEF OpenFile, NameDirectory
  <2> QED BY <2>2, <2>3, <2>4
<1>4. ASSUME NEW r \in Clients, FillFile(r) \/ BackUp(r) PROVE FileTypes'
  <2>1. data' \in [Names -> [Places -> Whose]]
        BY <1>1, <1>2, <1>4 DEF FillFile, BackUp
  <2> QED BY <1>4, <2>1 DEF FillFile, BackUp, history
<1>5. ASSUME NEW r \in Clients, ReadFile(r) \/ ReadAgain(r) PROVE FileTypes'
  <2>1. stage[r] \in {"run", "parsed"} /\ (stage[r] = "parsed" => req[r].route = "write")
        BY <1>5 DEF ReadFile, ReadAgain, Moves, StageFits
  <2>2. req[r].route \in Through => at[r] \in Places
        BY <2>1, AtWorkInPlace DEF AtWork
  <2>3. Uploads \in Places
        BY RequestsAssumption DEF Uploads, Places, Given
  <2>4. Content(FileOf(req[r].route), IF req[r].route = "install" THEN Uploads ELSE at[r]) \in Whose
        \/ req[r].route \notin Reading
    <3>1. CASE req[r].route \in Through
          BY <3>1, <2>2, <1>1 DEF Content, FileOf, Through, Names
    <3>2. CASE req[r].route \in {"restore", "install"}
          BY <3>2, <2>3, <1>1 DEF Content, FileOf, Names
    <3> QED BY <3>1, <3>2 DEF Reading, Through
  <2>5. read' \in [Clients -> Whose]
    <3>1. CASE ReadFile(r)
          BY <3>1, <2>4 DEF ReadFile
    <3>2. CASE ReadAgain(r)
      <4>1. req[r].route = "write"
            BY <3>2, <2>1 DEF ReadAgain, Moves
      <4> QED BY <3>2, <4>1, <2>2 DEF ReadAgain, Content, Names, Through
    <3> QED BY <1>5, <3>1, <3>2
  <2> QED BY <1>5, <2>5 DEF ReadFile, ReadAgain, history
<1>6. ASSUME NEW r \in Clients, Generate(r) PROVE FileTypes'
  <2>1. at[r] \in Places
        BY <1>6, AtWorkInPlace DEF Generate, Moves, AtWork, Through
  <2>2. Content("spec", at[r]) \in Whose
        BY <2>1 DEF Content, Names
  <2> QED BY <1>2, <1>6, <2>2 DEF Generate, history
<1>7. ASSUME NEW r \in Clients, NEW here, NEW part, NEW x \in Whose, Write(r, here, part, x)
      PROVE FileTypes'
      BY <1>7 DEF Write
<1>8. ASSUME NEW r \in Clients, InstallConfig(r) \/ ProvisionCard(r) \/ Install(r) \/ SetSize(r)
      PROVE FileTypes'
  <2>1. CASE ProvisionCard(r)
    <3>1. stage[r] = "made" /\ req[r].route = "provision"
          BY <2>1 DEF ProvisionCard, StageFits
    <3>2. at[r] \in Places
          BY <3>1, AtWorkInPlace DEF AtWork, Through
    <3> QED BY <2>1, <3>2, <1>7 DEF ProvisionCard, Content, Names
  <2> QED BY <1>1, <1>7, <1>8, <2>1 DEF InstallConfig, Install, SetSize
<1>9. CASE Tick
      BY <1>9, RequestsAssumption DEF Tick, Seconds, perClient, history
<1>10. CASE UNCHANGED <<data, card, at, when, read, replaced, wrote, clock>>
      BY <1>10
<1> QED BY <1>3, <1>4, <1>5, <1>6, <1>8, <1>9, <1>10
        DEF RNext, rvars, perClient, history, untouched, Arrive, SaveFails, CancelShow, Take,
            Conflict, Look, Hold, ShowEnds, Breaks, DryRun, KeepSize

\* Where requests are, by their routes.
LEMMA StagesKept ==
  FileInvariant /\ [RNext]_rvars => \A r \in Clients : StageFits(r)'
<1> SUFFICES ASSUME FileInvariant, [RNext]_rvars, NEW r \in Clients PROVE StageFits(r)'
    OBVIOUS
<1> USE DEF FileInvariant, StageFits, Named
<1>1. StageFits(r) /\ req[r] \in Request /\ NoPlace \notin Seconds
      BY RequestsAssumption DEF GateInvariant, TokenChecked, NoPlace, Seconds
<1>2. ASSUME stage'[r] = stage[r], req'[r] = req[r], at'[r] = at[r], when'[r] = when[r]
      PROVE StageFits(r)'
      BY <1>1, <1>2
<1>3. ASSUME NEW s \in Clients, NEW route \in Routes, NEW header \in Credentials,
             NEW query \in Credentials, Arrive(s, route, header, query)
      PROVE StageFits(r)'
  <2>1. CASE s # r
        BY <1>2, <1>3, <2>1 DEF Arrive, Finish, Moves, history, GateInvariant, TokenChecked, LinkIsTheRunners
  <2>2. CASE s = r
    <3>1. stage[r] = "idle" /\ when' = when /\ at' = at /\ when[r] = NoPlace
          BY <1>3, <2>2 DEF Arrive, Finish, Moves, history
    <3>2. CASE stage'[r] = "done" /\ req' = req
          BY <1>1, <3>1, <3>2
    <3>3. CASE stage'[r] = FirstStep(route) /\ req'[r].route = route
          BY <1>1, <3>1, <3>3 DEF FirstStep, AtWork, Saving, Showing
    <3>4. \/ stage'[r] = "done" /\ req' = req
          \/ stage'[r] = FirstStep(route) /\ req'[r].route = route
      <4>1. CASE stage' = [stage EXCEPT ![r] = "done"] /\ req' = req
            BY <4>1 DEF GateInvariant, LinkIsTheRunners
      <4>2. ASSUME stage' = [stage EXCEPT ![r] = FirstStep(route)], NEW q \in Fields(route),
                   req' = [req EXCEPT ![r] = [q EXCEPT !.token = Presented(header, query)]]
            PROVE stage'[r] = FirstStep(route) /\ req'[r].route = route
        <5>1. q.route = route
              BY DEF Fields
        <5>2. "route" \in DOMAIN q /\ [q EXCEPT !.token = Presented(header, query)].route = q.route
              BY DEF Fields
        <5> QED BY <4>2, <5>1, <5>2 DEF GateInvariant, LinkIsTheRunners, TokenChecked
      <4>3. \/ stage' = [stage EXCEPT ![r] = "done"] /\ req' = req
            \/ /\ stage' = [stage EXCEPT ![r] = FirstStep(route)]
               /\ \E q \in Fields(route) :
                    req' = [req EXCEPT ![r] = [q EXCEPT !.token = Presented(header, query)]]
            BY <1>3, <2>2 DEF Arrive, Finish, Moves
      <4> QED BY <4>1, <4>2, <4>3
    <3> QED BY <3>2, <3>3, <3>4
  <2> QED BY <2>1, <2>2
<1>4. ASSUME NEW s \in Clients, NEW here \in AtWork \cup {"fill", "shown", "save"},
             NEW to \in AtWork \cup {"shown", "done"},
             Moves(s, here, to), req' = req, at' = at, when' = when,
             to \in AtWork => here \in AtWork \cup {"fill"},
             to = "shown" => req[s].route \in Showing,
             to = "parsed" => req[s].route = "write",
             to = "made" => req[s].route = "provision"
      PROVE StageFits(r)'
  <2>1. CASE s # r
        BY <1>2, <1>4, <2>1 DEF Moves, GateInvariant, LinkIsTheRunners
  <2>2. CASE s = r
    <3>1. stage[r] = here /\ stage'[r] = to
          BY <1>4, <2>2 DEF Moves, GateInvariant, LinkIsTheRunners
    <3>2. req[r].route = "snapshot" /\ to \in AtWork => Named(r)
          BY <1>1, <1>4, <3>1, <2>2 DEF Saving
    <3> QED BY <1>1, <1>4, <2>2, <3>1, <3>2 DEF AtWork
  <2> QED BY <2>1, <2>2
<1>5. ASSUME NEW s \in Clients, OpenFile(s) \/ NameDirectory(s) PROVE StageFits(r)'
  <2>1. CASE s # r
        BY <1>2, <1>5, <2>1 DEF OpenFile, NameDirectory, Moves, Name, FileTypes, GateInvariant, LinkIsTheRunners
  <2>2. CASE s = r
    <3>1. /\ req' = req /\ when'[r] = clock /\ at'[r] = PlaceOf(req[r]) /\ clock \in Seconds
          /\ \/ stage[r] = "save" /\ stage'[r] = "fill"
             \/ stage[r] = "name" /\ stage'[r] = "take"
          BY <1>5, <2>2 DEF OpenFile, NameDirectory, Moves, Name, FileTypes, GateInvariant, LinkIsTheRunners
    <3>2. req[r].route # "upload" => at'[r] = IF req[r].given THEN Given ELSE when'[r]
          BY <3>1 DEF PlaceOf, Stamp
    <3>3. Named(r)' /\ req'[r] = req[r]
          BY <3>1
    <3> QED BY <1>1, <3>1, <3>2, <3>3
  <2> QED BY <2>1, <2>2
<1>6. ASSUME NEW s \in Clients, CancelShow(s) PROVE StageFits(r)'
  <2>1. /\ req' = req /\ at' = at /\ when' = when
        /\ \/ stage'[r] = stage[r]
           \/ stage'[r] = "done"
           \/ stage[r] = "show" /\ stage'[r] = "take"
        BY <1>6 DEF CancelShow, history
  <2>2. CASE stage'[r] = "done"
        BY <1>1, <2>1, <2>2 DEF AtWork
  <2>3. CASE stage[r] = "show" /\ stage'[r] = "take"
        BY <1>1, <2>1, <2>3, SMTT(30) DEF Showing
  <2> QED BY <1>2, <2>1, <2>2, <2>3
<1>7. ASSUME NEW s \in Clients,
             FillFile(s) \/ SaveFails(s) \/ Take(s) \/ Conflict(s) \/ Look(s) \/ Hold(s)
             \/ ShowEnds(s) \/ Breaks(s)
      PROVE StageFits(r)'
      BY <1>4, <1>7, SMTT(30) DEF FillFile, SaveFails, Take, Conflict, Look, Hold, ShowEnds, Breaks,
         Result, Finish, untouched, history, AtWork
<1>8. ASSUME NEW s \in Clients,
             ReadFile(s) \/ ReadAgain(s) \/ BackUp(s) \/ DryRun(s) \/ Generate(s) \/ KeepSize(s)
      PROVE StageFits(r)'
      BY <1>4, <1>8, SMTT(30) DEF ReadFile, ReadAgain, BackUp, DryRun, Generate, KeepSize, GatePoint,
         Result, Finish, untouched, history, AtWork
<1>9. ASSUME NEW s \in Clients, InstallConfig(s) \/ ProvisionCard(s) \/ Install(s) \/ SetSize(s)
      PROVE StageFits(r)'
      BY <1>4, <1>9 DEF InstallConfig, ProvisionCard, Install, SetSize, Write, Result, Finish, AtWork
<1>10. CASE Tick \/ UNCHANGED rvars
      BY <1>2, <1>10 DEF Tick, rvars, perClient, history
<1> QED BY <1>3, <1>5, <1>6, <1>7, <1>8, <1>9, <1>10 DEF RNext

\* A request that changed the card is over, and had its files named.
LEMMA WroteKept ==
  FileInvariant /\ [RNext]_rvars =>
    \A r \in wrote' : stage'[r] = "done" /\ (req'[r].route \in Through => Named(r)')
<1> SUFFICES ASSUME FileInvariant, [RNext]_rvars, NEW r \in wrote'
             PROVE  stage'[r] = "done" /\ (req'[r].route \in Through => Named(r)')
    OBVIOUS
<1> USE DEF FileInvariant, Named
<1>1. stage \in [Clients -> Running \cup Waiting] /\ wrote \subseteq Clients
      BY DEF GateInvariant, LinkIsTheRunners, FileTypes
<1>2. ASSUME NEW s \in Clients, NEW here \in {"saved", "made", "read", "run"}, NEW part, NEW x,
             Write(s, here, part, x), req[s].route \in Through => here \in {"saved", "made"}
      PROVE  stage'[r] = "done" /\ (req'[r].route \in Through => Named(r)')
  <2>1. stage' = [stage EXCEPT ![s] = "done"] /\ wrote' = wrote \cup {s} /\ stage[s] = here
        /\ req' = req /\ when' = when
        BY <1>2 DEF Write, Result, Finish, Moves
  <2>2. CASE r = s
        BY <1>1, <1>2, <2>1, <2>2, AtWorkInPlace DEF AtWork
  <2>3. CASE r # s /\ r \in wrote
        BY <1>1, <2>1, <2>3
  <2> QED BY <2>1, <2>2, <2>3
<1>3. ASSUME NEW s \in Clients, InstallConfig(s) \/ ProvisionCard(s) \/ Install(s) \/ SetSize(s)
      PROVE  stage'[r] = "done" /\ (req'[r].route \in Through => Named(r)')
      BY <1>2, <1>3 DEF InstallConfig, ProvisionCard, Install, SetSize, Through
<1>4. ASSUME wrote' = wrote, req'[r] = req[r], when'[r] = when[r],
             stage'[r] = stage[r] \/ stage[r] # "done"
      PROVE  stage'[r] = "done" /\ (req'[r].route \in Through => Named(r)')
      BY <1>4
<1>5. ASSUME NEW s \in Clients, NEW here, NEW to, Moves(s, here, to), here # "done", wrote' = wrote,
             req' = req \/ req' = [req EXCEPT ![s] = req'[s]],
             when' = when \/ when' = [when EXCEPT ![s] = when'[s]]
      PROVE  stage'[r] = "done" /\ (req'[r].route \in Through => Named(r)')
  <2>1. r # s
        BY <1>1, <1>5 DEF Moves
  <2>2. stage'[r] = stage[r] /\ req'[r] = req[r] /\ when'[r] = when[r]
        BY <1>1, <1>5, <2>1 DEF Moves, GateInvariant, TokenChecked, FileTypes
  <2> QED BY <1>4, <1>5, <2>2
<1>6. ASSUME NEW s \in Clients, NEW route \in Routes, NEW header \in Credentials,
             NEW query \in Credentials, Arrive(s, route, header, query)
      PROVE  stage'[r] = "done" /\ (req'[r].route \in Through => Named(r)')
      BY <1>5, <1>6 DEF Arrive, Finish, history, GateInvariant, TokenChecked
<1>7. ASSUME NEW s \in Clients, OpenFile(s) \/ NameDirectory(s) \/ FillFile(s) \/ SaveFails(s)
                                \/ Take(s) \/ Conflict(s) \/ Look(s) \/ Hold(s) \/ ShowEnds(s) \/ Breaks(s)
      PROVE  stage'[r] = "done" /\ (req'[r].route \in Through => Named(r)')
  <2>1. ASSUME Name(s) PROVE when' = [when EXCEPT ![s] = when'[s]]
        BY <2>1 DEF Name, FileTypes
  <2> QED BY <1>5, <1>7, <2>1 DEF OpenFile, NameDirectory, FillFile, SaveFails, Take, Conflict, Look,
             Hold, ShowEnds, Breaks, Result, Finish, untouched, history
<1>8. ASSUME NEW s \in Clients, ReadFile(s) \/ ReadAgain(s) \/ BackUp(s) \/ DryRun(s) \/ Generate(s)
                                \/ KeepSize(s)
      PROVE  stage'[r] = "done" /\ (req'[r].route \in Through => Named(r)')
      BY <1>5, <1>8 DEF ReadFile, ReadAgain, BackUp, DryRun, Generate, KeepSize, GatePoint, Result,
         Finish, untouched, history
<1>9. ASSUME NEW s \in Clients, CancelShow(s)
      PROVE  stage'[r] = "done" /\ (req'[r].route \in Through => Named(r)')
      BY <1>1, <1>4, <1>9 DEF CancelShow, history
<1>10. CASE Tick \/ UNCHANGED rvars
      BY <1>4, <1>10 DEF Tick, rvars, perClient, history
<1> QED BY <1>3, <1>6, <1>7, <1>8, <1>9, <1>10 DEF RNext

\* The steps of one request, and what is its own.
Acts(r) ==
  \/ \E route \in Routes, header, query \in Credentials : Arrive(r, route, header, query)
  \/ OpenFile(r) \/ FillFile(r) \/ SaveFails(r) \/ NameDirectory(r)
  \/ CancelShow(r) \/ Take(r) \/ Conflict(r)
  \/ Look(r) \/ Hold(r) \/ ShowEnds(r) \/ Breaks(r)
  \/ ReadFile(r) \/ ReadAgain(r) \/ BackUp(r) \/ DryRun(r) \/ Generate(r)
  \/ InstallConfig(r) \/ ProvisionCard(r) \/ Install(r) \/ SetSize(r) \/ KeepSize(r)

OwnUnchanged(r) ==
  /\ req'[r] = req[r] /\ at'[r] = at[r] /\ read'[r] = read[r] /\ when'[r] = when[r]
  /\ replaced'[r] = replaced[r] /\ (r \in wrote' <=> r \in wrote)

\* A request's own state is left alone by the others; a show is ended by them.
LEMMA OthersLeaveItAlone ==
  ASSUME FileInvariant, NEW s \in Clients, Acts(s), NEW r \in Clients, r # s
  PROVE  /\ OwnUnchanged(r)
         /\ stage'[r] = stage[r] \/ (stage[r] = "shown" /\ stage'[r] = "done")
<1> USE DEF FileInvariant, OwnUnchanged
<1>1. /\ stage \in [Clients -> Running \cup Waiting] /\ req \in [Clients -> Request]
      /\ at \in [Clients -> Places \cup {NoPlace}]
      /\ when \in [Clients -> Seconds \cup {NoPlace}]
      /\ read \in [Clients -> Whose] /\ replaced \in [Clients -> Whose]
      BY DEF GateInvariant, LinkIsTheRunners, TokenChecked, FileTypes
<1>2. ASSUME NEW here, NEW to, Moves(s, here, to) PROVE stage'[r] = stage[r]
      BY <1>1, <1>2 DEF Moves
<1>3. CASE CancelShow(s)
      BY <1>1, <1>3 DEF CancelShow, history
<1>4. ASSUME NEW route \in Routes, NEW header \in Credentials, NEW query \in Credentials,
             Arrive(s, route, header, query)
      PROVE  OwnUnchanged(r) /\ stage'[r] = stage[r]
      BY <1>1, <1>2, <1>4 DEF Arrive, Finish, history
<1>5. CASE OpenFile(s) \/ NameDirectory(s)
      BY <1>1, <1>2, <1>5 DEF OpenFile, NameDirectory, Name
<1>6. CASE FillFile(s) \/ SaveFails(s) \/ Take(s) \/ Conflict(s) \/ Look(s) \/ Hold(s)
           \/ ShowEnds(s) \/ Breaks(s)
      BY <1>2, <1>6 DEF FillFile, SaveFails, Take, Conflict, Look, Hold, ShowEnds, Breaks, Result,
         Finish, untouched, history
<1>7. CASE ReadFile(s) \/ ReadAgain(s) \/ BackUp(s) \/ DryRun(s) \/ Generate(s) \/ KeepSize(s)
      BY <1>1, <1>2, <1>7 DEF ReadFile, ReadAgain, BackUp, DryRun, Generate, KeepSize, Result,
         Finish, untouched, history
<1>8. CASE InstallConfig(s) \/ ProvisionCard(s) \/ Install(s) \/ SetSize(s)
      BY <1>1, <1>2, <1>8 DEF InstallConfig, ProvisionCard, Install, SetSize, Write, Result, Finish
<1> QED BY <1>3, <1>4, <1>5, <1>6, <1>7, <1>8 DEF Acts

\* A request is made once, and its files are named once.
LEMMA NamedOnce ==
  ASSUME FileInvariant, NEW s \in Clients, Acts(s)
  PROVE  /\ req'[s] = req[s] \/ (stage[s] = "idle" /\ req[s].route = "look")
         /\ when'[s] = when[s] \/ when[s] = NoPlace
         /\ stage[s] # "idle" => stage'[s] # "idle"
<1> USE DEF FileInvariant, StageFits
<1>1. /\ stage \in [Clients -> Running \cup Waiting] /\ req \in [Clients -> Request]
      /\ when \in [Clients -> Seconds \cup {NoPlace}]
      BY DEF GateInvariant, LinkIsTheRunners, TokenChecked, FileTypes
<1>2. ASSUME NEW here, NEW to, Moves(s, here, to) PROVE stage[s] = here /\ stage'[s] = to
      BY <1>1, <1>2 DEF Moves
<1>3. CASE CancelShow(s)
      BY <1>1, <1>3 DEF CancelShow, history
<1>4. ASSUME NEW route \in Routes, NEW header \in Credentials, NEW query \in Credentials,
             Arrive(s, route, header, query)
      PROVE  stage[s] = "idle" /\ when' = when
      BY <1>2, <1>4 DEF Arrive, Finish, history
<1>5. CASE OpenFile(s) \/ NameDirectory(s)
      BY <1>1, <1>2, <1>5 DEF OpenFile, NameDirectory, Name
<1>6. CASE FillFile(s) \/ SaveFails(s) \/ Take(s) \/ Conflict(s) \/ Look(s) \/ Hold(s)
           \/ ShowEnds(s) \/ Breaks(s)
      BY <1>2, <1>6 DEF FillFile, SaveFails, Take, Conflict, Look, Hold, ShowEnds, Breaks, Result,
         Finish, untouched, history
<1>7. CASE ReadFile(s) \/ ReadAgain(s) \/ BackUp(s) \/ DryRun(s) \/ Generate(s) \/ KeepSize(s)
      BY <1>1, <1>2, <1>7 DEF ReadFile, ReadAgain, BackUp, DryRun, Generate, KeepSize, Result,
         Finish, untouched, history
<1>8. CASE InstallConfig(s) \/ ProvisionCard(s) \/ Install(s) \/ SetSize(s)
      BY <1>1, <1>2, <1>8 DEF InstallConfig, ProvisionCard, Install, SetSize, Write, Result, Finish
<1> QED BY <1>3, <1>4, <1>5, <1>6, <1>7, <1>8 DEF Acts

\* A request stays as it was asked, and its hour as it was taken, until it is answered.
LEMMA RequestsStay ==
  ASSUME FileInvariant, [RNext]_rvars, NEW q \in Clients
  PROVE  /\ req'[q] = req[q] \/ (stage[q] = "idle" /\ req[q].route = "look")
         /\ when'[q] = when[q] \/ when[q] = NoPlace
         /\ stage[q] # "idle" => stage'[q] # "idle"
<1>1. CASE \E s \in Clients : Acts(s)
  <2>1. PICK s \in Clients : Acts(s)
        BY <1>1
  <2>2. CASE s = q
        BY <2>1, <2>2, NamedOnce
  <2>3. CASE s # q
        BY <2>1, <2>3, OthersLeaveItAlone DEF OwnUnchanged
  <2> QED BY <2>2, <2>3
<1>2. CASE Tick \/ UNCHANGED rvars
      BY <1>2 DEF Tick, rvars, perClient, history
<1> QED BY <1>1, <1>2 DEF RNext, Acts

\* Which steps write a file, and which.
LEMMA WhoWrites ==
  ASSUME FileInvariant, [RNext]_rvars
  PROVE  \/ data' = data
         \/ \E s \in Clients : OpenFile(s) \/ FillFile(s) \/ BackUp(s) \/ Generate(s)
BY DEF RNext, rvars, perClient, Tick, Arrive, SaveFails, NameDirectory, CancelShow, Take, Conflict,
       Look, Hold, ShowEnds, Breaks, untouched, ReadFile, ReadAgain, DryRun, KeepSize,
       InstallConfig, ProvisionCard, Install, SetSize, Write

\* The images are uploads.
LEMMA ImagesKept == FileInvariant /\ [RNext]_rvars => ImagesAreUploads'
<1> SUFFICES ASSUME FileInvariant, [RNext]_rvars PROVE ImagesAreUploads'
    OBVIOUS
<1>1. Uploaded \subseteq Uploaded'
      BY RequestsStay DEF Uploaded
<1>2. ASSUME NEW p \in Places PROVE data'["image"][p] \in Uploaded'
  <2>1. data["image"][p] \in Uploaded /\ {Missing, Empty} \subseteq Uploaded
        BY DEF FileInvariant, ImagesAreUploads, Uploaded
  <2>2. ASSUME NEW f, NEW place, NEW x, data' = [data EXCEPT ![f][place] = x],
               f = "image" => x \in Uploaded
        PROVE  data'["image"][p] \in Uploaded'
    <3>1. data \in [Names -> [Places -> Whose]] /\ "image" \in Names
          BY DEF FileInvariant, FileTypes, Names
    <3>2. CASE f = "image" /\ place = p
          BY <1>1, <2>2, <3>1, <3>2
    <3>3. CASE f # "image" \/ place # p
          BY <1>1, <2>1, <2>2, <3>1, <3>3
    <3> QED BY <3>2, <3>3
  <2>3. ASSUME NEW s \in Clients, OpenFile(s) PROVE data'["image"][p] \in Uploaded'
    <3>1. data' = [data EXCEPT ![FileOf(req[s].route)][at'[s]] = Empty] /\ Empty \in Uploaded
          BY <2>1, <2>3 DEF OpenFile, Put
    <3> QED BY <2>2, <3>1
  <2>4. ASSUME NEW s \in Clients, FillFile(s) PROVE data'["image"][p] \in Uploaded'
    <3>1. stage[s] = "fill" /\ req[s].route \in Saving
          BY <2>4 DEF FillFile, Finish, Moves, FileInvariant, StageFits
    <3>2. FileOf(req[s].route) = "image" => s \in Uploaded
          BY <3>1 DEF FileOf, Saving, Uploaded
    <3> QED BY <2>2, <2>4, <3>2 DEF FillFile, Put
  <2>5. ASSUME NEW s \in Clients, BackUp(s) PROVE data'["image"][p] \in Uploaded'
    <3>1. BackupOf(req[s].route) # "image"
          BY DEF BackupOf
    <3> QED BY <2>2, <2>5, <3>1 DEF BackUp, Put
  <2>6. ASSUME NEW s \in Clients, Generate(s) PROVE data'["image"][p] \in Uploaded'
    <3>1. data' = [data EXCEPT !["block7"][at[s]] = Content("spec", at[s])]
          BY <2>6 DEF Generate, Put
    <3> QED BY <1>1, <2>1, <3>1 DEF FileInvariant, FileTypes, Names
  <2> QED BY <1>1, <2>1, <2>3, <2>4, <2>5, <2>6, WhoWrites
<1>3. ASSUME NEW r \in Clients, req'[r].route = "install", stage'[r] = "read"
      PROVE  read'[r] \in Uploaded' \ {Missing, Empty}
  <2>1. stage \in [Clients -> Running \cup Waiting] /\ read \in [Clients -> Whose]
        BY DEF FileInvariant, GateInvariant, LinkIsTheRunners, FileTypes
  <2>2. ASSUME stage[r] = "read", req'[r] = req[r], read'[r] = read[r]
        PROVE  read'[r] \in Uploaded' \ {Missing, Empty}
        BY <1>1, <1>3, <2>2 DEF FileInvariant, ImagesAreUploads
  <2>3. CASE ReadFile(r)
    <3>1. req'[r] = req[r] /\ read'[r] = data["image"][Uploads] /\ read'[r] \notin {Missing, Empty}
          BY <1>3, <2>1, <2>3 DEF ReadFile, Content, FileOf
    <3>2. Uploads \in Places
          BY RequestsAssumption DEF Uploads, Places, Given
    <3> QED BY <1>1, <3>1, <3>2 DEF FileInvariant, ImagesAreUploads
  <2>4. ASSUME NEW s \in Clients, Acts(s), s # r PROVE read'[r] \in Uploaded' \ {Missing, Empty}
        BY <1>3, <2>2, <2>4, OthersLeaveItAlone DEF OwnUnchanged
  <2>5. ASSUME Acts(r), ~ReadFile(r) PROVE FALSE
    <3>1. ASSUME NEW here, NEW to, Moves(r, here, to) PROVE stage[r] = here /\ to = "read"
          BY <1>3, <2>1, <3>1 DEF Moves
    <3>2. ~ReadAgain(r)
      <4> SUFFICES ASSUME ReadAgain(r) PROVE FALSE
          OBVIOUS
      <4>1. stage[r] = "parsed" /\ req'[r] = req[r]
            BY <3>1 DEF ReadAgain
      <4> QED BY <1>3, <4>1 DEF FileInvariant, StageFits
    <3>3. ~CancelShow(r)
          BY <1>3, <2>1 DEF CancelShow
    <3>4. \A route \in Routes, header \in Credentials, query \in Credentials :
            ~Arrive(r, route, header, query)
          BY <3>1 DEF Arrive, Finish, FirstStep
    <3> QED BY <2>5, <3>1, <3>2, <3>3, <3>4
            DEF Acts, OpenFile, FillFile, SaveFails, NameDirectory, Take, Conflict, Look, Hold,
                ShowEnds, Breaks, BackUp, DryRun, Generate, InstallConfig, ProvisionCard, Install,
                SetSize, KeepSize, Write, Result, Finish
  <2>6. CASE Tick \/ UNCHANGED rvars
        BY <1>3, <2>2, <2>6 DEF Tick, rvars, perClient, history
  <2> QED BY <2>3, <2>4, <2>5, <2>6 DEF RNext, Acts
<1> QED BY <1>2, <1>3 DEF ImagesAreUploads

\* What a step of another request does to the files of one that shares no name
\* with it: nothing.
LEMMA OthersLeaveItsFiles ==
  ASSUME FileInvariant, NEW s \in Clients, Acts(s), NEW r \in Clients, r # s,
         req[r].route \in Through, Named(r), Alone(r)'
  PROVE  \A f \in Mine(req[r]) : data'[f][at[r]] = data[f][at[r]]
<1>1. /\ FileTypes /\ TokenChecked /\ StageFits(r) /\ StageFits(s)
      /\ at'[r] = at[r] /\ when'[r] = when[r]
      BY OthersLeaveItAlone DEF FileInvariant, GateInvariant, OwnUnchanged
<1>2. ASSUME NEW f, NEW place, NEW x, data' = [data EXCEPT ![f][place] = x],
             req' = req, when'[s] \in Seconds, f \in Mine(req[s]) \/ f \notin Mine(req[r]),
             req[s].route # "upload" => place = IF req[s].given THEN Given ELSE when'[s]
      PROVE  \A g \in Mine(req[r]) : data'[g][at[r]] = data[g][at[r]]
  <2>1. CASE f \in Mine(req[s])
        BY <1>1, <1>2, <2>1, PutElsewhere
  <2>2. CASE f \notin Mine(req[r])
        BY <1>1, <1>2, <2>2 DEF FileTypes
  <2> QED BY <1>2, <2>1, <2>2
<1>3. FileOf(req[s].route) \in Mine(req[s]) \/ req[s].route \notin Saving
      BY DEF FileOf, Mine, Saving
<1>4. CASE OpenFile(s)
  <2>1. req[s].route \in Saving /\ req' = req
        BY <1>1, <1>4 DEF OpenFile, Moves, StageFits
  <2>2. when'[s] = clock /\ clock \in Seconds /\ at'[s] = PlaceOf(req[s])
        BY <1>1, <1>4 DEF OpenFile, Name, FileTypes
  <2> QED BY <1>2, <1>3, <1>4, <2>1, <2>2 DEF OpenFile, Put, PlaceOf, Stamp
<1>5. CASE FillFile(s)
  <2>1. req[s].route \in Saving /\ Named(s) /\ req' = req /\ when' = when
        BY <1>1, <1>5 DEF FillFile, Finish, Moves, StageFits, history
  <2>2. req[s].route # "upload" => at[s] = IF req[s].given THEN Given ELSE when[s]
        BY <1>1, <2>1 DEF StageFits
  <2> QED BY <1>2, <1>3, <1>5, <2>1, <2>2 DEF FillFile, Put, Named
<1>6. ASSUME BackUp(s) \/ Generate(s), req[s].route \in Through \cup {"snapshot"}
      PROVE  \A g \in Mine(req[r]) : data'[g][at[r]] = data[g][at[r]]
  <2>1. stage[s] \in AtWork /\ req' = req /\ when' = when
        BY <1>6 DEF BackUp, Generate, Result, Finish, Moves, AtWork, history
  <2>2. Named(s)
        BY <1>6, <2>1, AtWorkInPlace
  <2>3. at[s] = IF req[s].given THEN Given ELSE when[s]
        BY <1>1, <1>6, <2>2 DEF StageFits, Through
  <2>4. BackupOf(req[s].route) \in Mine(req[s]) /\ (req[s].route = "provision" => "block7" \in Mine(req[s]))
        BY <1>6 DEF BackupOf, Mine, Through
  <2> QED BY <1>2, <1>6, <2>1, <2>2, <2>3, <2>4, SMTT(30) DEF BackUp, Generate, Put, Named
<1>7. ASSUME BackUp(s), req[s].route \notin Through \cup {"snapshot"}
      PROVE  \A g \in Mine(req[r]) : data'[g][at[r]] = data[g][at[r]]
  <2>1. req[s].route = "restore"
        BY <1>7 DEF BackUp, SavesFirst, Through
  <2>2. BackupOf(req[s].route) \notin Mine(req[r])
        BY <2>1 DEF BackupOf, Mine, Through
  <2> QED BY <1>1, <1>7, <2>2 DEF BackUp, Put, FileTypes
<1>8. CASE data' = data
      BY <1>8
<1>9. Generate(s) => req[s].route \in Through
      BY DEF Generate, Through
<1> QED BY <1>4, <1>5, <1>6, <1>7, <1>8, <1>9
        DEF Acts, Arrive, SaveFails, NameDirectory, CancelShow, Take, Conflict, Look, Hold, ShowEnds,
            Breaks, untouched, ReadFile, ReadAgain, DryRun, KeepSize, InstallConfig, ProvisionCard,
            Install, SetSize, Write

\* A step of the request's own.
LEMMA ItsStepsKeepItsFiles ==
  ASSUME FileInvariant, NEW r \in Clients, Acts(r), req[r].route \in Through, stage[r] # "idle"
  PROVE  FilesAreItsOwn(r)'
<1> USE DEF FileInvariant
<1>1. /\ stage \in [Clients -> Running \cup Waiting]
      /\ data \in [Names -> [Places -> Whose]]
      /\ read \in [Clients -> Whose] /\ replaced \in [Clients -> Whose]
      /\ FilesAreItsOwn(r) /\ StageFits(r)
      BY DEF GateInvariant, LinkIsTheRunners, FileTypes
<1>2. r \in wrote => stage[r] = "done"
      OBVIOUS
<1>3. ASSUME NEW here, NEW to, Moves(r, here, to) PROVE stage[r] = here /\ stage'[r] = to
      BY <1>1, <1>3 DEF Moves
<1>4. stage[r] \in AtWork => Named(r) /\ at[r] \in Places
      BY AtWorkInPlace
<1>5. ASSUME req' = req, when' = when
      PROVE  (Alone(r)' <=> Alone(r)) /\ (Named(r)' <=> Named(r)) /\ req'[r] = req[r]
      BY <1>5 DEF Alone, Meets, Named
<1>6. ASSUME stage'[r] \notin AtWork, r \notin wrote' PROVE FilesAreItsOwn(r)'
      BY <1>6 DEF FilesAreItsOwn, AtWork
\* Up to the link, and with nothing done.
<1>7. ASSUME OpenFile(r) \/ SaveFails(r) \/ Conflict(r) \/ ShowEnds(r) \/ Breaks(r) \/ Hold(r)
             \/ Look(r) \/ DryRun(r) \/ KeepSize(r)
      PROVE FilesAreItsOwn(r)'
  <2>1. stage'[r] \in {"fill", "done", "shown"} /\ stage[r] # "done" /\ wrote' = wrote
        BY <1>3, <1>7 DEF OpenFile, SaveFails, Conflict, ShowEnds, Breaks, Hold, Look, DryRun, KeepSize,
           GatePoint, Result, Finish, untouched, history
  <2> QED BY <1>2, <1>6, <2>1 DEF AtWork
<1>8. CASE Take(r)
  <2>1. /\ stage[r] = "take" /\ stage'[r] = "run"
        /\ UNCHANGED <<data, req, at, read, when, wrote, replaced, card>>
        BY <1>3, <1>8 DEF Take, history
  <2> QED BY <1>1, <1>2, <1>5, <2>1 DEF FilesAreItsOwn, AtWork
<1>9. CASE FillFile(r)
  <2>1. /\ stage[r] = "fill" /\ stage'[r] \in {"done", "take"} /\ Put(FileOf(req[r].route), at[r], r)
        /\ UNCHANGED <<req, at, when, wrote>>
        BY <1>3, <1>9 DEF FillFile, Finish, history
  <2>2. Named(r) /\ at[r] \in Places /\ FileOf(req[r].route) \in Names
        BY <2>1, AtWorkInPlace DEF FileOf, Through, Names
  <2>3. data'[FileOf(req[r].route)][at[r]] = r
        BY <1>1, <2>1, <2>2 DEF Put
  <2> QED BY <1>2, <1>5, <2>1, <2>2, <2>3 DEF FilesAreItsOwn, AtWork
<1>10. CASE ReadFile(r)
  <2>1. /\ stage[r] = "run" /\ stage'[r] = (IF req[r].route = "write" THEN "parsed" ELSE "read")
        /\ read'[r] = data[FileOf(req[r].route)][at[r]]
        /\ UNCHANGED <<data, req, at, when, wrote, replaced, card>>
        BY <1>1, <1>3, <1>10 DEF ReadFile, Content, FileOf, Through, history
  <2> QED BY <1>1, <1>2, <1>5, <2>1 DEF FilesAreItsOwn, AtWork
<1>11. CASE ReadAgain(r)
  <2>1. /\ stage[r] = "parsed" /\ stage'[r] = "read" /\ req[r].route = "write"
        /\ read'[r] = data["config"][at[r]]
        /\ UNCHANGED <<data, req, at, when, wrote, replaced, card>>
        BY <1>1, <1>3, <1>11 DEF ReadAgain, Content, StageFits, history
  <2> QED BY <1>1, <1>2, <1>5, <2>1 DEF FilesAreItsOwn, AtWork, FileOf
<1>12. CASE BackUp(r)
  <2>1. /\ stage[r] = "read" /\ stage'[r] = "saved"
        /\ Put(BackupOf(req[r].route), at[r], card.config)
        /\ UNCHANGED <<card, req, at, read, when, wrote, replaced>>
        BY <1>3, <1>12 DEF BackUp, history, Through
  <2>2. /\ {BackupOf(req[r].route), FileOf(req[r].route)} \subseteq Names
        /\ BackupOf(req[r].route) # FileOf(req[r].route)
        BY DEF BackupOf, FileOf, Through, Names
  <2>3. Named(r) /\ at[r] \in Places
        BY <1>4, <2>1 DEF AtWork
  <2>4. /\ data'[BackupOf(req[r].route)][at[r]] = card.config
        /\ data'[FileOf(req[r].route)][at[r]] = data[FileOf(req[r].route)][at[r]]
        BY <1>1, <2>1, <2>2, <2>3 DEF Put
  <2> QED BY <1>1, <1>2, <1>5, <2>1, <2>3, <2>4 DEF FilesAreItsOwn, AtWork
<1>13. CASE Generate(r)
  <2>1. /\ stage[r] = "saved" /\ stage'[r] = "made" /\ req[r].route = "provision"
        /\ Put("block7", at[r], data["spec"][at[r]])
        /\ UNCHANGED <<card, req, at, read, when, wrote, replaced>>
        BY <1>3, <1>13 DEF Generate, Content, history
  <2>2. Named(r) /\ at[r] \in Places
        BY <1>4, <2>1 DEF AtWork
  <2>3. /\ data'["block7"][at[r]] = data["spec"][at[r]]
        /\ data'["spec"][at[r]] = data["spec"][at[r]]
        /\ data'["bank"][at[r]] = data["bank"][at[r]]
        BY <1>1, <2>1, <2>2 DEF Put, Names
  <2> QED BY <1>1, <1>2, <1>5, <2>1, <2>2, <2>3 DEF FilesAreItsOwn, AtWork, FileOf, BackupOf
<1>14. CASE InstallConfig(r) \/ ProvisionCard(r)
  <2>1. /\ stage[r] \in {"saved", "made"} /\ stage'[r] = "done" /\ replaced'[r] = card.config
        /\ UNCHANGED <<data, req, at, when>>
        BY <1>1, <1>3, <1>14 DEF InstallConfig, ProvisionCard, Write, Result, Finish
  <2> QED BY <1>1, <1>5, <2>1 DEF FilesAreItsOwn, AtWork
<1>15. ~Install(r) /\ ~SetSize(r)
      BY DEF Install, SetSize, Through
<1>16. ~NameDirectory(r)
      BY <1>1, <1>3 DEF NameDirectory, StageFits, Through
<1>17. ~CancelShow(r)
      BY <1>1 DEF CancelShow, StageFits, Through, Showing
<1>18. \A route \in Routes, header \in Credentials, query \in Credentials :
         ~Arrive(r, route, header, query)
      BY <1>3 DEF Arrive, Finish
<1> QED BY <1>7, <1>8, <1>9, <1>10, <1>11, <1>12, <1>13, <1>14, <1>15, <1>16, <1>17, <1>18 DEF Acts

\* The files of every request that saves one.
LEMMA OwnKept ==
  FileInvariant /\ [RNext]_rvars =>
    \A r \in Clients : req'[r].route \in Through => FilesAreItsOwn(r)'
<1> SUFFICES ASSUME FileInvariant, [RNext]_rvars, NEW r \in Clients, req'[r].route \in Through
             PROVE  FilesAreItsOwn(r)'
    OBVIOUS
<1> USE DEF FileInvariant
<1>1. stage \in [Clients -> Running \cup Waiting] /\ StageFits(r) /\ (r \in wrote => stage[r] = "done")
      BY DEF GateInvariant, LinkIsTheRunners
<1>2. CASE stage[r] = "idle"
  <2>1. ASSUME NEW s \in Clients, Acts(s), s # r PROVE FALSE
        BY <1>1, <1>2, <2>1, OthersLeaveItAlone DEF OwnUnchanged, StageFits, Through
  <2>2. ASSUME Acts(r) PROVE stage'[r] \notin AtWork /\ wrote' = wrote
    <3>1. ASSUME NEW here, NEW to, Moves(r, here, to) PROVE here = "idle" /\ stage'[r] = to
          BY <1>1, <1>2, <3>1 DEF Moves
    <3>2. ASSUME NEW route \in Routes, NEW header \in Credentials, NEW query \in Credentials,
                 Arrive(r, route, header, query)
          PROVE  stage'[r] \notin AtWork /\ wrote' = wrote
      <4>1. CASE stage'[r] = "done"
            BY <3>2, <4>1 DEF Arrive, history, AtWork
      <4>2. CASE /\ stage'[r] = FirstStep(route)
                 /\ \E q \in Fields(route) :
                      req' = [req EXCEPT ![r] = [q EXCEPT !.token = Presented(header, query)]]
        <5>1. PICK q \in Fields(route) :
                req' = [req EXCEPT ![r] = [q EXCEPT !.token = Presented(header, query)]]
              BY <4>2
        <5>2. q.route = route /\ "route" \in DOMAIN q
              BY DEF Fields
        <5>3. req'[r].route = route
              BY <5>1, <5>2 DEF GateInvariant, TokenChecked
        <5>4. FirstStep(route) = "save"
              BY <5>3 DEF Through, FirstStep, Saving
        <5> QED BY <3>2, <4>2, <5>4 DEF Arrive, history, AtWork
      <4> QED BY <3>1, <3>2, <4>1, <4>2 DEF Arrive, Finish
    <3>3. ~CancelShow(r)
          BY <1>2 DEF CancelShow
    <3> QED BY <2>2, <3>1, <3>2, <3>3
            DEF Acts, OpenFile, FillFile, SaveFails, NameDirectory, Take, Conflict, Look, Hold,
                ShowEnds, Breaks, ReadFile, ReadAgain, BackUp, DryRun, Generate, InstallConfig,
                ProvisionCard, Install, SetSize, KeepSize, Write, Result, Finish, GatePoint
  <2>3. ~(Tick \/ UNCHANGED rvars)
        BY <1>1, <1>2 DEF Tick, rvars, perClient, StageFits, Through
  <2>4. stage'[r] \notin AtWork /\ wrote' = wrote
        BY <2>1, <2>2, <2>3 DEF RNext, Acts
  <2> QED BY <1>1, <1>2, <2>4 DEF FilesAreItsOwn, AtWork
<1>3. CASE stage[r] # "idle"
  <2>1. req'[r] = req[r] /\ req[r].route \in Through
        BY <1>3, RequestsStay
  <2>2. CASE Acts(r)
        BY <1>3, <2>1, <2>2, ItsStepsKeepItsFiles
  <2>3. ASSUME OwnUnchanged(r), stage'[r] = stage[r],
               stage[r] \in {"saved", "made"} => card'.config = card.config,
               Named(r) /\ Alone(r)' => \A f \in Mine(req[r]) : data'[f][at[r]] = data[f][at[r]]
        PROVE  FilesAreItsOwn(r)'
    <3>1. FilesAreItsOwn(r) /\ StageFits(r) /\ (r \in wrote => Named(r))
          BY <2>1 DEF FilesAreItsOwn
    <3>2. \A q \in Clients : q # r => /\ req'[q] = req[q] \/ req[q].route = "look"
                                      /\ when'[q] = when[q] \/ when[q] = NoPlace
          BY RequestsStay
    <3> HIDE DEF FileInvariant
    <3> QED BY <2>1, <2>3, <3>1, <3>2, Undisturbed DEF OwnUnchanged
  <2>4. ASSUME NEW s \in Clients, Acts(s), s # r PROVE FilesAreItsOwn(r)'
    <3>1. OwnUnchanged(r) /\ stage'[r] = stage[r]
      <4>1. OwnUnchanged(r) /\ (stage'[r] = stage[r] \/ (stage[r] = "shown" /\ stage'[r] = "done"))
            BY <2>4, OthersLeaveItAlone
      <4>2. stage[r] # "shown"
            BY <1>1, <2>1 DEF StageFits, Through, Showing
      <4> QED BY <4>1, <4>2
    <3>2. ASSUME stage[r] \in {"saved", "made"}, card' # card PROVE FALSE
      <4>1. link = r /\ r # Nobody
            BY <3>2, RequestsAssumption DEF GateInvariant, LinkIsTheRunners, Running
      <4>2. PICK w \in Clients : InstallConfig(w) \/ ProvisionCard(w) \/ Install(w) \/ SetSize(w)
            BY <3>2, OnlyWritesChangeTheCard
      <4>3. stage[w] \in Running /\ stage'[w] = "done"
            BY <1>1, <4>2 DEF InstallConfig, ProvisionCard, Install, SetSize, Write, Result, Finish,
               Moves, Running
      <4>4. w = r
            BY <4>1, <4>3 DEF GateInvariant, LinkIsTheRunners
      <4> QED BY <3>1, <3>2, <4>3, <4>4
    <3>3. Named(r) /\ Alone(r)' => \A f \in Mine(req[r]) : data'[f][at[r]] = data[f][at[r]]
          BY <2>1, <2>4, OthersLeaveItsFiles
    <3> QED BY <2>3, <3>1, <3>2, <3>3
  <2>5. CASE Tick \/ UNCHANGED rvars
        BY <2>3, <2>5 DEF Tick, rvars, perClient, history, OwnUnchanged
  <2> QED BY <2>2, <2>4, <2>5 DEF RNext, Acts
<1> QED BY <1>2, <1>3

\* It holds before the first request.
LEMMA FilesStart == RInit => FileInvariant
<1> SUFFICES ASSUME RInit PROVE FileInvariant
    OBVIOUS
<1>1. GateInvariant
      BY GateStarts
<1>2. NoRequest \in Request /\ NoRequest.route = "look"
      BY NoRequestIsOne
<1>3. FileTypes
      BY RequestsAssumption DEF RInit, FileTypes, Whose, Seconds, Places
<1>4. ASSUME NEW r \in Clients PROVE StageFits(r) /\ req[r].route \notin Through
  <2>1. stage[r] = "idle" /\ req[r].route = "look" /\ when[r] = NoPlace
        BY <1>2 DEF RInit
  <2>2. NoPlace \notin Seconds
        BY RequestsAssumption DEF NoPlace, Seconds
  <2> QED BY <2>1, <2>2 DEF StageFits, Named, AtWork, Through
<1>5. wrote = {}
      BY DEF RInit
<1>6. ImagesAreUploads
      BY DEF RInit, ImagesAreUploads, Uploaded, Names
<1> QED BY <1>1, <1>3, <1>4, <1>5, <1>6 DEF FileInvariant

\* Every step keeps it.
LEMMA FilesStep == FileInvariant /\ [RNext]_rvars => FileInvariant'
BY GateSteps, TypesKept, StagesKept, WroteKept, OwnKept, ImagesKept DEF FileInvariant

\* What a step may do to the card.
LEMMA WritesAreTheirOwn ==
  ASSUME FileInvariant, [RNext]_rvars
  PROVE  /\ card'.config # card.config /\ req[link].route \in Through /\ Alone(link)
              => card'.config = link
         /\ card'.firmware # card.firmware => card'.firmware \in {r \in Clients : req[r].route = "upload"}
<1> USE DEF FileInvariant
<1>1. CASE card' = card
      BY <1>1
<1>2. ASSUME NEW r \in Clients, NEW here \in Running, NEW part \in {"config", "size", "firmware"}, NEW x,
             Write(r, here, part, x)
      PROVE  link = r /\ stage[r] = here /\ card' = [card EXCEPT ![part] = x]
      BY <1>2, RequestsAssumption
         DEF Write, Result, Finish, Moves, GateInvariant, LinkIsTheRunners
<1>3. DOMAIN card = {"config", "size", "firmware"}
      BY DEF FileTypes
<1>4. ASSUME NEW r \in Clients, InstallConfig(r)
      PROVE  /\ card'.firmware = card.firmware
             /\ req[link].route \in Through /\ Alone(link) => card'.config = link
  <2>1. link = r /\ stage[r] = "saved" /\ card' = [card EXCEPT !["config"] = read[r]]
        BY <1>2, <1>4 DEF InstallConfig, Running
  <2> QED BY <1>3, <1>4, <2>1 DEF InstallConfig, Through, FilesAreItsOwn
<1>5. ASSUME NEW r \in Clients, ProvisionCard(r)
      PROVE  /\ card'.firmware = card.firmware
             /\ req[link].route \in Through /\ Alone(link) => card'.config = link
  <2>1. /\ link = r /\ stage[r] = "made"
        /\ card' = [card EXCEPT !["config"] = Content("block7", at[r])]
        BY <1>2, <1>5 DEF ProvisionCard, Running
  <2> QED BY <1>3, <2>1 DEF Content, FilesAreItsOwn
<1>6. ASSUME NEW r \in Clients, Install(r)
      PROVE  /\ card'.config = card.config
             /\ card'.firmware \in {u \in Clients : req[u].route = "upload"}
  <2>1. stage[r] = "read" /\ card' = [card EXCEPT !["firmware"] = read[r]]
        BY <1>2, <1>6 DEF Install, Running
  <2>2. read[r] \in Uploaded \ {Missing, Empty}
        BY <1>6, <2>1 DEF Install, ImagesAreUploads
  <2> QED BY <1>3, <2>1, <2>2 DEF Uploaded
<1>7. ASSUME NEW r \in Clients, SetSize(r)
      PROVE  card'.config = card.config /\ card'.firmware = card.firmware
  <2>1. card' = [card EXCEPT !["size"] = r]
        BY <1>2, <1>7 DEF SetSize, Running
  <2> QED BY <1>3, <2>1
<1> QED BY <1>1, <1>4, <1>5, <1>6, <1>7, OnlyWritesChangeTheCard

\* The bytes that reach the card are those of the request they are written for,
\* or of an upload, unless another request shares the name (routes.rs data_path,
\* ops::flash::write_config, ops::provision).
THEOREM BytesAreItsOwn == RSpec => OwnBytes
<1>1. FileInvariant /\ [RNext]_rvars =>
        [/\ card'.config # card.config /\ req[link].route \in {"write", "provision"} /\ Alone(link)
              => card'.config = link
         /\ card'.firmware # card.firmware =>
              card'.firmware \in {r \in Clients : req[r].route = "upload"}]_rvars
      BY WritesAreTheirOwn DEF Through
<1> QED BY <1>1, FilesStart, FilesStep, PTL DEF RSpec, OwnBytes

\* What a request replaced on the card is in its backup for good, unless another
\* request shares the name (ops::flash::save_block, ops::provision, ops::restore).
THEOREM BackupsAreKept == RSpec => []BackupIsKept
<1>1. FileInvariant => BackupIsKept
      BY DEF FileInvariant, FileTypes, BackupIsKept, FilesAreItsOwn, Through
<1> QED BY <1>1, FilesStart, FilesStep, PTL DEF RSpec

-----------------------------------------------------------------------------
(* What the answers say.                                                    *)
Failures == {"400", "401", "409", "500"}
Told     == Failures \cup {NoReply, "ok", "version", "whole", "committed", "plan"}

\* A request is answered when it ends, a show once it is up; and the answer says
\* what happened to the card.
ReplyFits(r) ==
  /\ stage[r] = "shown" => reply[r] = "ok"
  /\ stage[r] \notin {"shown", "done"} => reply[r] = NoReply
  /\ reply[r] = "committed" => r \in wrote \/ req[r].same
  /\ r \in wrote => reply[r] \in {"committed", "500"}
  /\ reply[r] \in {"committed", "plan"} => req[r].route \in Gated
  /\ reply[r] = "plan" => req[r].commit # "yes"

RepliesFit == reply \in [Clients -> Told] /\ \A r \in Clients : ReplyFits(r)

\* A step answers its own request at most.
LEMMA AnswersItsOwn ==
  ASSUME RepliesFit, NEW s \in Clients, Acts(s)
  PROVE  reply' \in [Clients -> Told] /\ \A r \in Clients : r # s => reply'[r] = reply[r]
<1> USE DEF RepliesFit
<1>1. CASE reply' = reply
      BY <1>1
<1>2. ASSUME NEW what \in Told, Answer(s, what)
      PROVE  reply' \in [Clients -> Told] /\ \A r \in Clients : r # s => reply'[r] = reply[r]
      BY <1>2 DEF Answer
<1>3. \A q : Outcome(q) \in Told
      BY DEF Outcome, Told
<1> USE DEF Failures, Told
<1>4. ASSUME NEW route \in Routes, NEW header \in Credentials, NEW query \in Credentials,
             Arrive(s, route, header, query)
      PROVE  reply' = reply \/ \E what \in Told : Answer(s, what)
      BY <1>4 DEF Arrive, Finish
<1>5. CASE OpenFile(s) \/ FillFile(s) \/ SaveFails(s) \/ NameDirectory(s) \/ CancelShow(s)
           \/ Take(s) \/ Conflict(s)
      BY <1>1, <1>2, <1>5 DEF OpenFile, FillFile, SaveFails, NameDirectory, CancelShow, Take,
         Conflict, Finish
<1>6. CASE Look(s) \/ Hold(s) \/ ShowEnds(s) \/ Breaks(s) \/ BackUp(s)
      BY <1>1, <1>2, <1>6 DEF Look, Hold, ShowEnds, Breaks, BackUp, Result, Finish
<1>7. CASE DryRun(s) \/ KeepSize(s)
      BY <1>2, <1>3, <1>7 DEF DryRun, KeepSize, Result, Finish
<1>8. CASE ReadFile(s) \/ ReadAgain(s) \/ Generate(s)
      BY <1>1, <1>8 DEF ReadFile, ReadAgain, Generate
<1>9. CASE InstallConfig(s) \/ ProvisionCard(s) \/ Install(s) \/ SetSize(s)
      BY <1>2, <1>9 DEF InstallConfig, ProvisionCard, Install, SetSize, Write, Result, Finish
<1> QED BY <1>1, <1>2, <1>4, <1>5, <1>6, <1>7, <1>8, <1>9 DEF Acts

\* An answer given to another request leaves this one's true, though its show
\* may be ended.
LEMMA OthersKeepItsReply ==
  ASSUME FileInvariant, RepliesFit, NEW s \in Clients, Acts(s), NEW r \in Clients, r # s
  PROVE  ReplyFits(r)'
<1>1. reply'[r] = reply[r] /\ ReplyFits(r)
      BY AnswersItsOwn DEF RepliesFit
<1>2. req'[r] = req[r] /\ (r \in wrote' <=> r \in wrote)
      BY OthersLeaveItAlone DEF OwnUnchanged
<1>3. stage'[r] = stage[r] \/ (stage[r] = "shown" /\ stage'[r] = "done")
      BY OthersLeaveItAlone
<1> QED BY <1>1, <1>2, <1>3 DEF ReplyFits

\* A step of the request itself.
LEMMA ItsReplyIsTrue ==
  ASSUME FileInvariant, RepliesFit, NEW r \in Clients, Acts(r)
  PROVE  ReplyFits(r)'
<1> USE DEF FileInvariant, RepliesFit
<1>1. /\ stage \in [Clients -> Running \cup Waiting] /\ req \in [Clients -> Request]
      /\ ReplyFits(r) /\ StageFits(r)
      BY DEF GateInvariant, LinkIsTheRunners, TokenChecked
<1>2. stage[r] # "done" => r \notin wrote
      OBVIOUS
\* It goes on without an answer.
<1>3. ASSUME stage[r] \notin {"shown", "done"}, stage'[r] \notin {"shown", "done"},
             reply' = reply, wrote' = wrote
      PROVE  ReplyFits(r)'
      BY <1>1, <1>2, <1>3 DEF ReplyFits, NoReply
\* It ends with an answer that says nothing of the card.
<1>4. ASSUME NEW what \in Failures \cup {"ok", "version", "whole"}, stage[r] # "done",
             stage'[r] = "done", reply'[r] = what, wrote' = wrote
      PROVE  ReplyFits(r)'
      BY <1>2, <1>4 DEF ReplyFits, Failures
<1>5. ASSUME NEW here, NEW what, Finish(r, here, what)
      PROVE  stage[r] = here /\ stage'[r] = "done" /\ reply'[r] = what
      BY <1>1, <1>5 DEF Finish, Moves, Answer
<1>6. ASSUME NEW here, NEW to, Moves(r, here, to) PROVE stage[r] = here /\ stage'[r] = to
      BY <1>1, <1>6 DEF Moves
<1>7. ASSUME NEW route \in Routes, NEW header \in Credentials, NEW query \in Credentials,
             Arrive(r, route, header, query)
      PROVE  ReplyFits(r)'
  <2>1. stage[r] = "idle" /\ wrote' = wrote
        BY <1>5, <1>6, <1>7 DEF Arrive, history
  <2>2. \/ \E what \in Failures \cup {"ok", "version", "whole"} : Finish(r, "idle", what)
        \/ Moves(r, "idle", FirstStep(route)) /\ reply' = reply
        BY <1>7 DEF Arrive, Failures
  <2>3. FirstStep(route) \notin {"shown", "done"}
        BY DEF FirstStep
  <2> QED BY <1>3, <1>4, <1>5, <1>6, <2>1, <2>2, <2>3
<1>8. CASE OpenFile(r) \/ NameDirectory(r) \/ Take(r) \/ ReadFile(r) \/ ReadAgain(r) \/ Generate(r)
      BY <1>3, <1>6, <1>8 DEF OpenFile, NameDirectory, Take, ReadFile, ReadAgain, Generate, history
<1>9. CASE FillFile(r)
      BY <1>3, <1>4, <1>5, <1>6, <1>9 DEF FillFile, history
<1>10. CASE CancelShow(r)
      BY <1>3, <1>10 DEF CancelShow, history
<1>11. CASE SaveFails(r) \/ Conflict(r)
      BY <1>4, <1>5, <1>11 DEF SaveFails, Conflict, Failures, history
<1>12. CASE Look(r) \/ Breaks(r)
      BY <1>4, <1>5, <1>12 DEF Look, Breaks, Result, Failures, untouched, history
<1>13. CASE Hold(r)
      BY <1>1, <1>2, <1>6, <1>13 DEF Hold, Answer, ReplyFits, untouched, history
<1>14. CASE ShowEnds(r)
      BY <1>1, <1>2, <1>6, <1>14 DEF ShowEnds, ReplyFits, untouched, history
<1>15. CASE BackUp(r)
      BY <1>3, <1>4, <1>5, <1>6, <1>15 DEF BackUp, Result, history
<1>16. CASE DryRun(r)
  <2>1. GatePoint(req[r].route) # "done"
        BY DEF GatePoint
  <2>2. /\ stage[r] # "done" /\ stage'[r] = "done" /\ reply'[r] = "plan"
        /\ wrote' = wrote /\ req' = req /\ req[r].route \in Gated /\ req[r].commit # "yes"
        BY <1>5, <1>16, <2>1 DEF DryRun, Result, Outcome, Commit, untouched, history
  <2> QED BY <1>2, <2>2 DEF ReplyFits, NoReply
<1>17. CASE KeepSize(r)
  <2>1. /\ stage[r] # "done" /\ stage'[r] = "done" /\ reply'[r] = Outcome(req[r])
        /\ wrote' = wrote /\ req' = req /\ req[r].route \in Gated /\ req[r].same
        BY <1>5, <1>17 DEF KeepSize, Result, Gated, untouched, history
  <2> QED BY <1>2, <2>1 DEF ReplyFits, NoReply, Outcome, Commit
<1>18. ASSUME NEW here, NEW part, NEW what, Write(r, here, part, what), req[r].route \in Gated
       PROVE  ReplyFits(r)'
  <2>1. stage'[r] = "done" /\ reply'[r] \in {"committed", "500"} /\ r \in wrote' /\ req' = req
        BY <1>5, <1>18 DEF Write, Result
  <2> QED BY <1>18, <2>1 DEF ReplyFits
<1>19. CASE InstallConfig(r) \/ ProvisionCard(r) \/ Install(r) \/ SetSize(r)
      BY <1>1, <1>18, <1>19 DEF InstallConfig, ProvisionCard, Install, SetSize, StageFits, Gated
<1> QED BY <1>7, <1>8, <1>9, <1>10, <1>11, <1>12, <1>13, <1>14, <1>15, <1>16, <1>17, <1>19 DEF Acts

\* The answers stay those of their requests.
LEMMA RepliesStep == FileInvariant /\ RepliesFit /\ [RNext]_rvars => RepliesFit'
<1> SUFFICES ASSUME FileInvariant, RepliesFit, [RNext]_rvars PROVE RepliesFit'
    OBVIOUS
<1>1. CASE \E s \in Clients : Acts(s)
  <2>1. PICK s \in Clients : Acts(s)
        BY <1>1
  <2>2. ASSUME NEW r \in Clients PROVE ReplyFits(r)'
        BY <2>1, ItsReplyIsTrue, OthersKeepItsReply
  <2> QED BY <2>1, <2>2, AnswersItsOwn DEF RepliesFit
<1>2. CASE Tick \/ UNCHANGED rvars
      BY <1>2 DEF Tick, rvars, perClient, history, RepliesFit, ReplyFits
<1> QED BY <1>1, <1>2 DEF RNext, Acts

\* The answers tell what was done to the card (crates/daemon routes.rs, api.rs
\* Outcome): committed only after a write or for the size it had, no write
\* behind any other answer but a failure.
THEOREM TheAnswersAreTrue == RSpec => []AnswersAreTrue
<1>1. RInit => RepliesFit
  <2> SUFFICES ASSUME RInit PROVE RepliesFit
      OBVIOUS
  <2>1. reply \in [Clients -> Told]
        BY DEF RInit, Told
  <2>2. ASSUME NEW r \in Clients PROVE ReplyFits(r)
    <3>1. stage[r] = "idle" /\ reply[r] = NoReply /\ wrote = {}
          BY DEF RInit
    <3> QED BY <3>1 DEF ReplyFits, NoReply
  <2> QED BY <2>1, <2>2 DEF RepliesFit
<1>2. FileInvariant /\ RepliesFit => AnswersAreTrue
  <2> SUFFICES ASSUME FileInvariant, RepliesFit, NEW r \in Clients, link = r
               PROVE  reply[r] = IF stage[r] = "shown" THEN "ok" ELSE NoReply
      BY DEF AnswersAreTrue, RepliesFit, ReplyFits
  <2>1. stage[r] \in Running
        BY DEF FileInvariant, GateInvariant, LinkIsTheRunners
  <2> QED BY <2>1 DEF RepliesFit, ReplyFits, Running
<1> QED BY <1>1, <1>2, FilesStart, FilesStep, RepliesStep, PTL DEF RSpec

\* The types are part of it.
LEMMA FileTypesAre == FileInvariant => RTypeOK
BY DEF FileInvariant, GateInvariant, LinkIsTheRunners, FileTypes, RTypeOK, Running

\* Types of the HTTP surface, and who has the link: exactly the command or job
\* that is past Take.
THEOREM RequestTypes == RSpec => []RTypeOK
BY FileTypesAre, FilesStart, FilesStep, PTL DEF RSpec

=============================================================================
