--------------------------- MODULE SettingsProofs ---------------------------
(***************************************************************************)
(* What the daemon's memory, its two files and its live state have to do with *)
(* each other, for any number of requests, values, walls, kills and failed   *)
(* writes.                                                                  *)
(***************************************************************************)
EXTENDS Settings, TLAPS

\* The full brightness, under a name the first-order prover can read.
LEMMA FullIsANumber == Full \in Nat
BY DEF Full

USE SettingsAssumption, FullIsANumber

-----------------------------------------------------------------------------
\* Where a request of each kind can be; none is anywhere unless the daemon is up.
StepsOfOp ==
  /\ \A r \in Reqs :
       /\ op[r] = "show"       => pc[r] \in {"idle", "acquire", "send"}
       /\ op[r] = "brightness" => pc[r] \in {"acquire", "send", "open", "text", "assign", "tell"}
       /\ op[r] = "put"        => pc[r] \in {"open", "text", "assign"}
       /\ op[r] = "wall"       => pc[r] \in {"open", "text", "assign", "cap"}
       /\ op[r] = "cap"        => pc[r] \in {"open", "text", "assign", "tell"}
  /\ up # "up" => \A r \in Reqs : pc[r] = "idle"

Memory(f) == IF f = "wall" THEN wall ELSE settings
Writes(r, f) == r \in Setters /\ FileOf(r) = f

\* What holds while setters come one after another and their writes succeed.
OneSetter == \A q, r \in Setters : q = r

\* A setter works on the wall the daemon has.
SetterIsCurrent ==
  \A r \in Setters :
    /\ op[r] \in {"brightness", "cap"} => seen[r] = wall /\ arg[r] <= CapOf[wall]
    /\ op[r] = "wall" /\ pc[r] = "cap" => seen[r] = wall
    /\ pc[r] = "tell" => arg[r] = settings

\* A file holds what the memory has, but between its opening and the assignment.
FileIsCurrent(f) ==
  /\ (\A r \in Reqs : Writes(r, f) => pc[r] \notin {"text", "assign"}) =>
       Parses(f) /\ disk[f].has = Memory(f)
  /\ \A r \in Reqs : Writes(r, f) =>
       /\ pc[r] = "text" => disk[f].is = "empty" /\ disk[f].has = Memory(f)
       /\ pc[r] = "assign" => disk[f].is = "text" /\ disk[f].has = TextOf(r)

LiveIsCurrent == (\A r \in Setters : pc[r] # "tell") => live = settings \/ put

InSequence ==
  up = "up" /\ ~messy =>
    OneSetter /\ SetterIsCurrent /\ FileIsCurrent("wall") /\ FileIsCurrent("settings")
    /\ LiveIsCurrent

\* A brightness above the cap that nothing excuses is one a PUT /wall is about
\* to lower; none is on the disk of a daemon that is down.
Lowering(r) == op[r] = "cap" \/ (op[r] = "wall" /\ pc[r] = "cap")
UnderTheCap ==
  /\ messy => excused
  /\ up = "up" /\ ~excused => settings <= CapOf[wall] \/ \E r \in Setters : Lowering(r)
  /\ up = "down" /\ ~excused => disk.settings.has <= CapOf[disk.wall.has]

SettingsInv == TypeOK /\ StepsOfOp /\ InSequence /\ UnderTheCap

-----------------------------------------------------------------------------
\* It holds when the daemon has loaded its files.
LEMMA TypesStart == Init => TypeOK
<1> SUFFICES ASSUME Init PROVE TypeOK
    OBVIOUS
<1>1. disk \in Disk
      BY DEF Init, Disk, File
<1>2. pc \in [Reqs -> Steps] /\ op \in [Reqs -> Kinds]
      BY DEF Init, Idle, Steps, Kinds
<1>3. messy \in BOOLEAN /\ excused \in BOOLEAN /\ put \in BOOLEAN /\ apart \in Causes
      BY DEF Init, Causes
<1> QED BY <1>1, <1>2, <1>3 DEF Init, TypeOK

\* The set a request's locals are in, whatever step of it is taken.
LEMMA LocalsTyped ==
  ASSUME TypeOK, NEW r \in Reqs, NEW here \in Steps, NEW to \in Steps
  PROVE  /\ Goto(r, here, to) => pc' \in [Reqs -> Steps]
         /\ Return(r, here) =>
              /\ pc' \in [Reqs -> Steps] /\ op' \in [Reqs -> Kinds]
              /\ arg' \in [Reqs -> 0 .. Full] /\ seen' \in [Reqs -> Walls]
<1>1. Goto(r, here, to) => pc' \in [Reqs -> Steps]
      BY DEF Goto, TypeOK
<1>2. "idle" \in Steps /\ "show" \in Kinds
      BY DEF Steps, Kinds
<1> QED BY <1>1, <1>2 DEF Return, Goto, TypeOK

\* The set the files are in, whatever is written over one of them.
LEMMA DiskTyped ==
  ASSUME TypeOK, NEW r \in Reqs PROVE Open(r) \/ WriteText(r) => disk' \in Disk
<1>1. TextOf(r) \in (IF FileOf(r) = "wall" THEN Walls ELSE 0 .. Full)
      BY DEF TypeOK, TextOf, FileOf
<1>2. CASE FileOf(r) = "wall"
  <2>1. Over("wall", disk["wall"], TextOf(r)) \in File(Walls)
        BY <1>1, <1>2 DEF Over, File
  <2> QED BY <1>2, <2>1 DEF TypeOK, Open, WriteText, Disk, File
<1>3. CASE FileOf(r) = "settings"
  <2>1. Over("settings", disk["settings"], TextOf(r)) \in File(0 .. Full)
        BY <1>1, <1>3 DEF Over, File
  <2> QED BY <1>3, <2>1 DEF TypeOK, Open, WriteText, Disk, File
<1> QED BY <1>2, <1>3 DEF FileOf

\* Every step keeps the types.
LEMMA TypeStep == TypeOK /\ [Next]_vars => TypeOK'
<1> SUFFICES ASSUME TypeOK, [Next]_vars PROVE TypeOK'
    OBVIOUS
<1> USE DEF memory, locals, history
<1>0. /\ {"idle", "acquire", "send", "open", "text", "assign", "cap", "tell"} \subseteq Steps
      /\ {"show", "brightness", "put", "wall", "cap"} \subseteq Kinds
      BY DEF Steps, Kinds
<1>1. ASSUME NEW r \in Reqs, NEW k \in Kinds, NEW s \in 0 .. Full, NEW w \in Walls,
             NEW to \in Steps, Begin(r, k, s, w, to)
      PROVE TypeOK'
  <2>1. pc' \in [Reqs -> Steps] /\ op' \in [Reqs -> Kinds]
        BY <1>0, <1>1 DEF Begin, TypeOK, Goto
  <2>2. arg' \in [Reqs -> 0 .. Full] /\ seen' \in [Reqs -> Walls]
        BY <1>1 DEF Begin, TypeOK
  <2>3. UNCHANGED <<up, settings, wall, live, disk, holder, panel, crashes, fails, put, apart>>
        BY <1>1 DEF Begin
  <2>4. messy' \in BOOLEAN /\ excused' \in BOOLEAN
        BY <1>1 DEF Begin, TypeOK
  <2> QED BY <2>1, <2>2, <2>3, <2>4 DEF TypeOK
<1>2. ASSUME NEW r \in Reqs, PutSettings(r) \/ PutWall(r) \/ Brightness(r) \/ Show(r)
      PROVE TypeOK'
  <2>1. \A b \in Values : b \in 0 .. Full
        OBVIOUS
  <2>2. \A b \in 0 .. Full : Clamp(wall, b) \in 0 .. Full
        BY DEF Clamp, Lower, TypeOK
  <2>3. wall \in Walls
        BY DEF TypeOK
  <2>4. {"put", "show", "brightness", "wall"} \subseteq Kinds /\ {"open", "acquire"} \subseteq Steps
        BY <1>0
  <2>5. CASE PutSettings(r)
    <3>1. PICK b \in Values : Begin(r, "put", b, FirstWall, "open")
          BY <2>5 DEF PutSettings
    <3>2. b \in 0 .. Full /\ FirstWall \in Walls /\ "put" \in Kinds /\ "open" \in Steps
          BY <2>1, <2>4, SettingsAssumption
    <3> QED BY <1>1, <3>1, <3>2, Zenon
  <2>6. CASE PutWall(r)
    <3>1. PICK w \in Walls : Begin(r, "wall", Full, w, "open")
          BY <2>6 DEF PutWall
    <3>2. Full \in 0 .. Full /\ "wall" \in Kinds /\ "open" \in Steps
          BY <2>4
    <3> QED BY <1>1, <3>1, <3>2, Zenon
  <2>7. CASE Brightness(r)
    <3>1. PICK b \in Values : Begin(r, "brightness", Clamp(wall, b), wall, "acquire")
          BY <2>7 DEF Brightness
    <3>2. Clamp(wall, b) \in 0 .. Full /\ "brightness" \in Kinds /\ "acquire" \in Steps
          BY <2>1, <2>2, <2>4
    <3> QED BY <1>1, <2>3, <3>1, <3>2, Zenon
  <2>8. CASE Show(r)
    <3>1. Begin(r, "show", Full, wall, "acquire")
          BY <2>8 DEF Show
    <3>2. Full \in 0 .. Full /\ "show" \in Kinds /\ "acquire" \in Steps
          BY <2>4
    <3> QED BY <1>1, <2>3, <3>1, <3>2, Zenon
  <2> QED BY <1>2, <2>5, <2>6, <2>7, <2>8
<1>3. ASSUME NEW r \in Reqs, Acquire(r) \/ Conflict(r) \/ SendFails(r) \/ ClientGone(r)
      PROVE TypeOK'
  <2>1. CASE Acquire(r)
        BY <1>0, <2>1, LocalsTyped DEF Acquire, TypeOK
  <2>2. CASE Conflict(r)
        BY <1>0, <2>2, LocalsTyped DEF Conflict, TypeOK
  <2>3. CASE SendFails(r)
    <3>1. Clamp(seen[r], arg[r]) \in 0 .. Full /\ "disturbed" \in Causes
          BY DEF Clamp, Lower, TypeOK, Causes
    <3>2. panel' \in 0 .. Full /\ apart' \in Causes \cup Reqs \cup {"no"}
          BY <2>3, <3>1 DEF SendFails, TypeOK
    <3> QED BY <1>0, <2>3, <3>2, LocalsTyped DEF SendFails, TypeOK
  <2>4. CASE ClientGone(r)
        BY <1>0, <2>4, LocalsTyped DEF ClientGone, TypeOK
  <2> QED BY <1>3, <2>1, <2>2, <2>3, <2>4
<1>4. ASSUME NEW r \in Reqs, Send(r) PROVE TypeOK'
  <2>1. Clamp(seen[r], arg[r]) \in 0 .. Full
        BY DEF Clamp, Lower, TypeOK
  <2>2. apart' \in Causes \cup Reqs \cup {"no"}
        BY <1>4 DEF Send, SendShow, SendBrightness, Causes
  <2>3. CASE SendShow(r)
        BY <1>0, <2>1, <2>2, <2>3, LocalsTyped DEF SendShow, TypeOK
  <2>4. CASE SendBrightness(r)
        BY <1>0, <2>1, <2>2, <2>4, LocalsTyped DEF SendBrightness, TypeOK
  <2> QED BY <1>4, <2>3, <2>4 DEF Send
<1>5. ASSUME NEW r \in Reqs, Open(r) \/ WriteText(r) PROVE TypeOK'
  <2>1. disk' \in Disk
        BY <1>5, DiskTyped
  <2>2. pc' \in [Reqs -> Steps]
        BY <1>0, <1>5, LocalsTyped DEF Open, WriteText
  <2>3. CASE Open(r)
        BY <2>1, <2>2, <2>3 DEF Open, TypeOK
  <2>4. CASE WriteText(r)
        BY <2>1, <2>2, <2>4 DEF WriteText, TypeOK
  <2> QED BY <1>5, <2>3, <2>4
<1>6. ASSUME NEW r \in Reqs, SaveFails(r) PROVE TypeOK'
  <2>1. /\ pc' \in [Reqs -> Steps] /\ op' \in [Reqs -> Kinds]
        /\ arg' \in [Reqs -> 0 .. Full] /\ seen' \in [Reqs -> Walls]
        BY <1>0, <1>6, LocalsTyped DEF SaveFails, TypeOK
  <2>2. fails' \in 0 .. MaxFail /\ messy' \in BOOLEAN /\ apart' \in Causes \cup Reqs \cup {"no"}
        BY <1>6 DEF SaveFails, TypeOK, Causes
  <2> QED BY <1>6, <2>1, <2>2 DEF SaveFails, TypeOK
<1>7. ASSUME NEW r \in Reqs, AssignSettings(r) \/ AssignWall(r) PROVE TypeOK'
  <2>1. arg[r] \in 0 .. Full /\ seen[r] \in Walls
        BY DEF TypeOK
  <2>2. CASE AssignSettings(r)
    <3>1. /\ pc' \in [Reqs -> Steps] /\ op' \in [Reqs -> Kinds]
          /\ arg' \in [Reqs -> 0 .. Full] /\ seen' \in [Reqs -> Walls]
      <4>1. CASE Return(r, "assign")
            BY <1>0, <4>1, LocalsTyped
      <4>2. CASE Goto(r, "assign", "tell") /\ UNCHANGED <<op, arg, seen>>
            BY <1>0, <4>2, LocalsTyped DEF TypeOK
      <4> QED BY <2>2, <4>1, <4>2 DEF AssignSettings
    <3>2. put' \in BOOLEAN /\ excused' \in BOOLEAN
      <4>1. put \in BOOLEAN /\ excused \in BOOLEAN
            BY DEF TypeOK
      <4> QED BY <2>2, <4>1, Zenon DEF AssignSettings
    <3>3. settings' \in 0 .. Full
          BY <2>1, <2>2 DEF AssignSettings
    <3>4. UNCHANGED <<up, wall, live, disk, holder, panel, crashes, fails, messy, apart>>
          BY <2>2 DEF AssignSettings
    <3> QED BY <3>1, <3>2, <3>3, <3>4 DEF TypeOK
  <2>3. CASE AssignWall(r)
    <3>1. pc' \in [Reqs -> Steps] /\ wall' \in Walls
          BY <1>0, <2>1, <2>3, LocalsTyped DEF AssignWall
    <3> QED BY <2>3, <3>1 DEF AssignWall, TypeOK
  <2> QED BY <1>7, <2>2, <2>3
<1>8. ASSUME NEW r \in Reqs, CapBrightness(r) PROVE TypeOK'
  <2>1. CapOf[seen[r]] \in 0 .. Full
        BY DEF TypeOK
  <2>2. op' \in [Reqs -> Kinds] /\ arg' \in [Reqs -> 0 .. Full]
    <3>1. CASE Return(r, "cap")
          BY <1>0, <3>1, LocalsTyped
    <3>2. CASE op' = [op EXCEPT ![r] = "cap"] /\ arg' = [arg EXCEPT ![r] = CapOf[seen[r]]]
          BY <1>0, <2>1, <3>2 DEF TypeOK
    <3> QED BY <1>8, <3>1, <3>2 DEF CapBrightness
  <2> QED BY <1>0, <1>8, <2>2, LocalsTyped DEF CapBrightness, SaveCap, TypeOK
<1>9. ASSUME NEW r \in Reqs, Tell(r) PROVE TypeOK'
  <2>1. put' \in BOOLEAN /\ apart' \in Causes \cup Reqs \cup {"no"}
        BY <1>9 DEF Tell, TypeOK, Causes
  <2>2. live' \in 0 .. Full
        BY <1>9 DEF Tell, Told, TypeOK
  <2> QED BY <1>0, <1>9, <2>1, <2>2, LocalsTyped DEF Tell, TypeOK
<1>10. CASE Crash
      BY <1>0, <1>10 DEF Crash, Idle, TypeOK, Causes
<1>11. CASE Start
  <2>1. disk["settings"].has \in 0 .. Full /\ disk["wall"].has \in Walls
        BY DEF TypeOK, Disk, File
  <2>2. up' \in {"up", "refused"}
        BY <1>11 DEF Start
  <2>3. settings' \in 0 .. Full /\ wall' \in Walls /\ live' \in 0 .. Full
        BY <1>11, <2>1 DEF Start, Loaded, TypeOK
  <2> QED BY <1>11, <2>2, <2>3 DEF Start, TypeOK
<1>12. CASE UNCHANGED vars
      BY <1>12 DEF vars, TypeOK
<1> QED BY <1>2, <1>3, <1>4, <1>5, <1>6, <1>7, <1>8, <1>9, <1>10, <1>11, <1>12 DEF Next

-----------------------------------------------------------------------------
\* Where requests are by their kind.
LEMMA StepsKept == TypeOK /\ StepsOfOp /\ [Next]_vars => StepsOfOp'
<1> SUFFICES ASSUME TypeOK, StepsOfOp, [Next]_vars PROVE StepsOfOp'
    OBVIOUS
<1> USE DEF memory, locals, history
<1>1. ASSUME NEW r \in Reqs, NEW k, NEW s, NEW w, NEW to, Begin(r, k, s, w, to),
             \/ k \in {"put", "wall"} /\ to = "open"
             \/ k \in {"show", "brightness"} /\ to = "acquire"
      PROVE StepsOfOp'
      BY <1>1 DEF Begin, Goto, StepsOfOp, TypeOK
<1>2. ASSUME NEW r \in Reqs, PutSettings(r) \/ PutWall(r) \/ Brightness(r) \/ Show(r)
      PROVE StepsOfOp'
      BY <1>1, <1>2 DEF PutSettings, PutWall, Brightness, Show
<1>3. ASSUME NEW r \in Reqs, NEW here, Return(r, here), UNCHANGED up PROVE StepsOfOp'
      BY <1>3 DEF Return, Goto, StepsOfOp, TypeOK
<1>4. ASSUME NEW r \in Reqs,
             Conflict(r) \/ SendFails(r) \/ SaveFails(r) \/ Tell(r)
      PROVE StepsOfOp'
      BY <1>3, <1>4 DEF Conflict, SendFails, SaveFails, Tell
<1>5. ASSUME NEW r \in Reqs, Acquire(r) \/ Open(r) \/ WriteText(r) \/ AssignWall(r) \/ ClientGone(r)
      PROVE StepsOfOp'
      BY <1>5 DEF Acquire, ClientGone, Open, WriteText, AssignWall, Goto, StepsOfOp, TypeOK
<1>6. ASSUME NEW r \in Reqs, Send(r) PROVE StepsOfOp'
      BY <1>3, <1>6 DEF Send, SendShow, SendBrightness, Goto, StepsOfOp, TypeOK
<1>7. ASSUME NEW r \in Reqs, AssignSettings(r) PROVE StepsOfOp'
      BY <1>3, <1>7 DEF AssignSettings, Goto, StepsOfOp, TypeOK
<1>8. ASSUME NEW r \in Reqs, CapBrightness(r) PROVE StepsOfOp'
      BY <1>3, <1>8 DEF CapBrightness, SaveCap, Goto, StepsOfOp, TypeOK
<1>9. CASE Crash
      BY <1>9 DEF Crash, Idle, StepsOfOp
<1>10. CASE Start
      BY <1>10 DEF Start, StepsOfOp
<1>11. CASE UNCHANGED vars
      BY <1>11 DEF vars, StepsOfOp
<1> QED BY <1>2, <1>4, <1>5, <1>6, <1>7, <1>8, <1>9, <1>10, <1>11 DEF Next

-----------------------------------------------------------------------------
\* Setters that come one after another find memory, files and live state agreed.
Current ==
  /\ OneSetter /\ SetterIsCurrent /\ FileIsCurrent("wall") /\ FileIsCurrent("settings")
  /\ LiveIsCurrent

\* A setter that follows the others finds the files and the live state agreed,
\* and is the only one.
LEMMA SetterArrives ==
  ASSUME TypeOK, StepsOfOp, Current, NEW r \in Reqs,
         NEW k \in {"put", "wall", "brightness"}, NEW s, NEW w,
         NEW to \in {"open", "acquire"}, Begin(r, k, s, w, to), ~messy'
  PROVE  /\ Setters' = {r} /\ pc'[r] = to /\ op'[r] = k
         /\ k = "brightness" => seen'[r] = w /\ arg'[r] = s
         /\ \A f \in Files : Parses(f) /\ disk[f].has = Memory(f)
         /\ live = settings \/ put
<1>1. Setters = {}
      BY DEF Begin, TypeOK
<1>2. Setters' = {r} /\ pc'[r] = to /\ op'[r] = k
      BY <1>1 DEF Begin, Goto, Setters, TypeOK, StepsOfOp
<1>3. k = "brightness" => seen'[r] = w /\ arg'[r] = s
      BY DEF Begin, TypeOK
<1>4. \A f \in Files : Parses(f) /\ disk[f].has = Memory(f)
      BY <1>1 DEF Current, FileIsCurrent, Writes, Files
<1>5. live = settings \/ put
      BY <1>1 DEF Current, LiveIsCurrent
<1> QED BY <1>2, <1>3, <1>4, <1>5

\* A request that comes alone is judged by what is in memory.
LEMMA ArrivalIsCurrent ==
  ASSUME NEW r \in Reqs, Setters' = {r}, pc'[r] \in {"open", "acquire"},
         op'[r] = "brightness" => seen'[r] = wall /\ arg'[r] <= CapOf[wall],
         op'[r] \in {"put", "wall", "brightness"},
         \A f \in Files : Parses(f) /\ disk[f].has = Memory(f),
         live = settings \/ put,
         UNCHANGED <<disk, settings, wall, live, put>>
  PROVE  Current'
<1>1. FileIsCurrent("wall")' /\ FileIsCurrent("settings")'
      BY DEF FileIsCurrent, Writes, Files, Parses, Memory
<1>2. OneSetter' /\ SetterIsCurrent' /\ LiveIsCurrent'
      BY DEF OneSetter, SetterIsCurrent, LiveIsCurrent
<1> QED BY <1>1, <1>2 DEF Current

\* So a request that comes keeps them.
LEMMA ArrivalsKept ==
  ASSUME TypeOK, StepsOfOp, Current, NEW r \in Reqs, ~messy',
         PutSettings(r) \/ PutWall(r) \/ Brightness(r)
  PROVE  Current'
<1> USE DEF memory, locals, history
<1>1. CASE PutSettings(r)
  <2>1. PICK b \in Values : Begin(r, "put", b, FirstWall, "open")
        BY <1>1 DEF PutSettings
  <2>2. /\ Setters' = {r} /\ pc'[r] = "open" /\ op'[r] = "put"
        /\ \A f \in Files : Parses(f) /\ disk[f].has = Memory(f)
        /\ live = settings \/ put
        BY <2>1, SetterArrives
  <2> QED BY <2>1, <2>2, ArrivalIsCurrent DEF Begin
<1>2. CASE PutWall(r)
  <2>1. PICK w \in Walls : Begin(r, "wall", Full, w, "open")
        BY <1>2 DEF PutWall
  <2>2. /\ Setters' = {r} /\ pc'[r] = "open" /\ op'[r] = "wall"
        /\ \A f \in Files : Parses(f) /\ disk[f].has = Memory(f)
        /\ live = settings \/ put
        BY <2>1, SetterArrives
  <2> QED BY <2>1, <2>2, ArrivalIsCurrent DEF Begin
<1>3. CASE Brightness(r)
  <2>1. PICK b \in Values : Begin(r, "brightness", Clamp(wall, b), wall, "acquire")
        BY <1>3 DEF Brightness
  <2>2. /\ Setters' = {r} /\ pc'[r] = "acquire" /\ op'[r] = "brightness"
        /\ \A f \in Files : Parses(f) /\ disk[f].has = Memory(f)
        /\ live = settings \/ put
        BY <2>1, SetterArrives
  <2>3. seen'[r] = wall /\ arg'[r] = Clamp(wall, b)
        BY <2>1, SetterArrives
  <2>4. Clamp(wall, b) <= CapOf[wall]
        BY DEF Clamp, Lower, TypeOK
  <2> QED BY <2>1, <2>2, <2>3, <2>4, ArrivalIsCurrent DEF Begin
<1> QED BY <1>1, <1>2, <1>3

\* The cap of the wall in memory is a brightness (its last part only spells out
\* an order the first-order prover does not compute).
LEMMA CapIsANumber == TypeOK => CapOf[wall] \in 0 .. Full /\ CapOf[wall] <= CapOf[wall]
<1> SUFFICES ASSUME TypeOK PROVE CapOf[wall] \in 0 .. Full
    OBVIOUS
<1> QED BY SettingsAssumption DEF TypeOK

\* Only the wall request comes to the cap.
LEMMA CapIsOfAWall ==
  ASSUME TypeOK, StepsOfOp, NEW r \in Reqs, CapBrightness(r)
  PROVE  pc[r] = "cap" /\ op[r] = "wall"
<1>1. pc[r] = "cap"
      BY DEF CapBrightness, Goto, Return
<1>2. op[r] \in {"show", "brightness", "put", "wall", "cap"}
      BY DEF TypeOK, Kinds
<1>3. op[r] \notin {"show", "brightness", "put", "cap"}
      BY <1>1 DEF StepsOfOp
<1> QED BY <1>1, <1>2, <1>3

\* A setter at its file is the only one, and its step is about that file.
LEMMA OneWriter ==
  ASSUME TypeOK, StepsOfOp, OneSetter, NEW r \in Reqs, pc[r] \in {"open", "text"}
  PROVE  /\ op[r] \in {"brightness", "put", "wall", "cap"} /\ r \in Setters
         /\ \A q \in Reqs : q # r => pc[q] = "idle" \/ op[q] = "show"
<1>1. op[r] \in {"show", "brightness", "put", "wall", "cap"}
      BY DEF TypeOK, Kinds
<1>2. op[r] # "show"
      BY DEF StepsOfOp
<1>3. r \in Setters
      BY <1>2 DEF Setters
<1> QED BY <1>1, <1>2, <1>3 DEF OneSetter, Setters

\* A step on a request's own file leaves the other file and the other requests.
LEMMA FileStep ==
  ASSUME TypeOK, NEW r \in Reqs, NEW to \in Steps, Goto(r, pc[r], to), UNCHANGED op,
         NEW text, disk' = [disk EXCEPT ![FileOf(r)] = text]
  PROVE  /\ FileOf(r) \in {"settings", "wall"} /\ disk'[FileOf(r)] = text
         /\ \A f \in {"settings", "wall"} : f # FileOf(r) => disk'[f] = disk[f]
         /\ pc'[r] = to /\ \A q \in Reqs : q # r => pc'[q] = pc[q]
<1>1. FileOf(r) \in {"settings", "wall"}
      BY DEF FileOf
<1>2. pc' = [pc EXCEPT ![r] = to] /\ pc \in [Reqs -> Steps]
      BY DEF Goto, TypeOK
<1>3. disk \in Disk
      BY DEF TypeOK
<1> QED BY <1>1, <1>2, <1>3 DEF Disk

\* What is left to show of a step of the one setter at its file.
LEMMA AtItsFile ==
  ASSUME Current, NEW r \in Reqs, r \in Setters, UNCHANGED <<settings, wall, live, op, arg, seen, put>>,
         pc'[r] \in {"text", "assign"}, \A q \in Reqs : q # r => pc'[q] = pc[q],
         \A q \in Reqs : q # r => pc[q] = "idle" \/ op[q] = "show",
         pc[r] \in {"open", "text"},
         \A f \in {"settings", "wall"} : f # FileOf(r) => disk'[f] = disk[f],
         pc'[r] = "text" =>
           disk'[FileOf(r)].is = "empty" /\ disk'[FileOf(r)].has = disk[FileOf(r)].has /\ pc[r] = "open",
         pc'[r] = "assign" =>
           disk'[FileOf(r)].is = "text" /\ disk'[FileOf(r)].has = TextOf(r)
  PROVE  Current'
<1>1. Setters' = {r} /\ Setters = {r}
      BY DEF Setters
<1>2. OneSetter'
      BY <1>1, Zenon DEF OneSetter
<1>3. SetterIsCurrent'
      BY <1>1 DEF Current, SetterIsCurrent
<1>4. LiveIsCurrent'
      BY <1>1 DEF Current, LiveIsCurrent
<1>5. ASSUME NEW f \in {"settings", "wall"} PROVE FileIsCurrent(f)'
  <2>0. FileIsCurrent(f)
        BY DEF Current
  <2>1. CASE f = FileOf(r)
    <3>1. Writes(r, f) /\ Writes(r, f)' /\ \A q \in Reqs : Writes(q, f)' => q = r
          BY <1>1, <2>1 DEF Writes, FileOf
    <3>2. pc'[r] = "text" => disk[f].has = Memory(f)
          BY <1>1, <2>0, <2>1, <3>1 DEF FileIsCurrent, Writes
    <3>3. Memory(f)' = Memory(f) /\ TextOf(r)' = TextOf(r)
          BY DEF Memory, TextOf
    <3> QED BY <2>1, <3>1, <3>2, <3>3 DEF FileIsCurrent, TextOf
  <2>2. CASE f # FileOf(r)
    <3>1. \A q \in Reqs : ~Writes(q, f) /\ ~Writes(q, f)'
          BY <1>1, <2>2 DEF Writes, FileOf
    <3>2. disk'[f] = disk[f] /\ Memory(f)' = Memory(f)
          BY <2>2 DEF Memory
    <3>3. Parses(f) /\ disk[f].has = Memory(f)
          BY <2>0, <3>1, Zenon DEF FileIsCurrent
    <3>4. Parses(f)' /\ disk'[f].has = Memory(f)'
          BY <3>2, <3>3 DEF Parses
    <3> QED BY <3>1, <3>4, Zenon DEF FileIsCurrent
  <2> QED BY <2>1, <2>2
<1> QED BY <1>2, <1>3, <1>4, <1>5 DEF Current

\* Every step keeps the writers in their sequence.
LEMMA SequenceKept ==
  TypeOK /\ StepsOfOp /\ InSequence /\ [Next]_vars => InSequence'
<1> SUFFICES ASSUME TypeOK, StepsOfOp, InSequence, [Next]_vars, up' = "up", ~messy'
             PROVE Current'
    BY DEF InSequence, Current
<1> USE DEF memory, locals, history, Current, OneSetter, SetterIsCurrent, FileIsCurrent,
            LiveIsCurrent, Writes, Setters, Memory, Parses, FileOf, TextOf
<1>1. CASE Start
      BY <1>1 DEF Start, StepsOfOp, Files, Loaded
<1>2. CASE UNCHANGED vars
      BY <1>2 DEF vars, InSequence
<1>3. CASE Crash
      BY <1>3, SMTT(30) DEF Crash
<1>4. ASSUME NEW r \in Reqs,
             \/ PutSettings(r) \/ PutWall(r) \/ Brightness(r) \/ Show(r)
             \/ Acquire(r) \/ Conflict(r) \/ Send(r) \/ SendFails(r) \/ ClientGone(r)
             \/ Open(r) \/ WriteText(r) \/ SaveFails(r)
             \/ AssignSettings(r) \/ AssignWall(r) \/ CapBrightness(r) \/ Tell(r)
      PROVE Current'
  <2>1. up = "up" /\ ~messy /\ Current
    <3>1. up = "up" /\ ~messy
          BY <1>4 DEF PutSettings, PutWall, Brightness, Show, Begin, Acquire, Conflict, Send,
             SendShow, SendBrightness, SendFails, ClientGone, Open, WriteText, SaveFails, AssignSettings, AssignWall,
             CapBrightness, Tell, Return, Goto, TypeOK
    <3> QED BY <3>1 DEF InSequence
  <2>2. CASE Show(r)
        BY <2>1, <2>2 DEF Show, Begin, Goto, StepsOfOp, TypeOK
  <2>3. CASE PutSettings(r) \/ PutWall(r) \/ Brightness(r)
        BY <2>1, <2>3, ArrivalsKept
  <2>6. CASE Acquire(r)
        BY <2>1, <2>6 DEF Acquire, Goto, StepsOfOp, TypeOK
  <2>7. CASE Conflict(r) \/ SendFails(r)
    <3>1. CASE Conflict(r)
          BY <2>1, <3>1 DEF Conflict, Return, Goto, StepsOfOp, TypeOK
    <3>2. CASE SendFails(r)
          BY <2>1, <3>2 DEF SendFails, Return, Goto, StepsOfOp, TypeOK
    <3> QED BY <2>7, <3>1, <3>2
  <2>8. CASE Send(r)
    <3>1. CASE SendShow(r)
          BY <2>1, <3>1 DEF SendShow, Return, Goto, StepsOfOp, TypeOK
    <3>2. CASE SendBrightness(r)
          BY <2>1, <3>2 DEF SendBrightness, Goto, StepsOfOp, TypeOK
    <3> QED BY <2>8, <3>1, <3>2 DEF Send
  <2>16. CASE ClientGone(r)
        BY <2>1, <2>16 DEF ClientGone, Goto, StepsOfOp, TypeOK
  <2>9. CASE Open(r)
    <3> HIDE DEF Current, OneSetter, SetterIsCurrent, FileIsCurrent, LiveIsCurrent, Writes,
                 Setters, Memory, Parses, FileOf, TextOf
    <3>0. OneSetter
          BY <2>1 DEF Current
    <3>1. /\ pc[r] = "open" /\ disk' = [disk EXCEPT ![FileOf(r)] = [@ EXCEPT !.is = "empty"]]
          /\ UNCHANGED <<settings, wall, live, op, arg, seen, put>>
          BY <2>9 DEF Open, Goto
    <3>2. /\ op[r] # "show" /\ r \in Setters
          /\ \A q \in Reqs : q # r => pc[q] = "idle" \/ op[q] = "show"
          BY <3>0, <3>1, OneWriter
    <3>3. /\ disk'[FileOf(r)] = [disk[FileOf(r)] EXCEPT !.is = "empty"] /\ pc'[r] = "text"
          /\ \A f \in {"settings", "wall"} : f # FileOf(r) => disk'[f] = disk[f]
          /\ \A q \in Reqs : q # r => pc'[q] = pc[q]
      <4> DEFINE text == [disk[FileOf(r)] EXCEPT !.is = "empty"]
      <4>1. Goto(r, pc[r], "text") /\ "text" \in Steps /\ UNCHANGED op
            BY <2>9, <3>1 DEF Open, Steps
      <4>2. disk' = [disk EXCEPT ![FileOf(r)] = text]
            BY <3>1
      <4> HIDE DEF text
      <4>3. /\ disk'[FileOf(r)] = text /\ pc'[r] = "text"
            /\ \A f \in {"settings", "wall"} : f # FileOf(r) => disk'[f] = disk[f]
            /\ \A q \in Reqs : q # r => pc'[q] = pc[q]
            BY <4>1, <4>2, FileStep
      <4> QED BY <4>3 DEF text
    <3>4. disk'[FileOf(r)].is = "empty" /\ disk'[FileOf(r)].has = disk[FileOf(r)].has
          BY <3>3 DEF TypeOK, Disk, File
    <3> QED BY <2>1, <3>1, <3>2, <3>3, <3>4, AtItsFile
  <2>10. CASE WriteText(r)
    <3> HIDE DEF Current, OneSetter, SetterIsCurrent, FileIsCurrent, LiveIsCurrent, Writes,
                 Setters, Memory, Parses, FileOf, TextOf
    <3>0. OneSetter
          BY <2>1 DEF Current
    <3>1. /\ pc[r] = "text"
          /\ disk' = [disk EXCEPT ![FileOf(r)] = Over(FileOf(r), disk[FileOf(r)], TextOf(r))]
          /\ UNCHANGED <<settings, wall, live, op, arg, seen, put>>
          BY <2>10 DEF WriteText, Goto, TypeOK, Disk
    <3>2. /\ op[r] # "show" /\ r \in Setters
          /\ \A q \in Reqs : q # r => pc[q] = "idle" \/ op[q] = "show"
          BY <3>0, <3>1, OneWriter
    <3>3. /\ disk'[FileOf(r)] = Over(FileOf(r), disk[FileOf(r)], TextOf(r)) /\ pc'[r] = "assign"
          /\ \A f \in {"settings", "wall"} : f # FileOf(r) => disk'[f] = disk[f]
          /\ \A q \in Reqs : q # r => pc'[q] = pc[q]
      <4> DEFINE text == Over(FileOf(r), disk[FileOf(r)], TextOf(r))
      <4>1. Goto(r, pc[r], "assign") /\ "assign" \in Steps /\ UNCHANGED op
            BY <2>10, <3>1 DEF WriteText, Steps
      <4>2. disk' = [disk EXCEPT ![FileOf(r)] = text]
            BY <3>1
      <4> HIDE DEF text
      <4>3. /\ disk'[FileOf(r)] = text /\ pc'[r] = "assign"
            /\ \A f \in {"settings", "wall"} : f # FileOf(r) => disk'[f] = disk[f]
            /\ \A q \in Reqs : q # r => pc'[q] = pc[q]
            BY <4>1, <4>2, FileStep
      <4> QED BY <4>3 DEF text
    <3>4. disk[FileOf(r)].is = "empty"
      <4>1. FileIsCurrent(FileOf(r))
            BY <2>1 DEF Current, FileOf
      <4> QED BY <3>1, <3>2, <4>1 DEF FileIsCurrent, Writes
    <3>5. disk'[FileOf(r)].is = "text" /\ disk'[FileOf(r)].has = TextOf(r)
          BY <3>3, <3>4 DEF Over
    <3> QED BY <2>1, <3>1, <3>2, <3>3, <3>5, AtItsFile
  <2>11. CASE SaveFails(r)
        BY <2>1, <2>11 DEF SaveFails
  <2>12. CASE AssignSettings(r)
        BY <2>1, <2>12 DEF AssignSettings, Return, Goto, StepsOfOp, TypeOK
  <2>13. CASE AssignWall(r)
        BY <2>1, <2>13 DEF AssignWall, Goto, StepsOfOp, TypeOK
  <2>14. CASE CapBrightness(r)
    <3>0. pc[r] = "cap" /\ op[r] = "wall"
          BY <2>14, CapIsOfAWall
    <3>1. /\ op[r] = "wall" /\ pc[r] = "cap" /\ seen[r] = wall
          /\ \A q \in Setters : q = r
          BY <2>1, <3>0
    <3>2. CASE settings > CapOf[seen[r]] /\ Goto(r, "cap", "open")
      <4>1. /\ pc'[r] = "open" /\ op'[r] = "cap" /\ arg'[r] = CapOf[wall] /\ seen'[r] = wall
            /\ \A q \in Reqs : q # r => pc'[q] = pc[q] /\ op'[q] = op[q]
            /\ UNCHANGED <<wall, settings, live, disk, put, seen>>
            BY <2>14, <3>1, <3>2 DEF CapBrightness, Return, Goto, TypeOK
      <4>2. CapOf[wall] <= CapOf[wall]
            BY CapIsANumber, Zenon
      <4> QED BY <2>1, <3>1, <4>1, <4>2
    <3>3. CASE Return(r, "cap")
          BY <2>1, <2>14, <3>1, <3>3 DEF CapBrightness, Return, Goto, TypeOK
    <3> QED BY <2>14, <3>2, <3>3 DEF CapBrightness, SaveCap
  <2>15. CASE Tell(r)
        BY <2>1, <2>15 DEF Tell, Told, Return, Goto, StepsOfOp, TypeOK
  <2> QED BY <1>4, <2>2, <2>3, <2>6, <2>7, <2>8, <2>9, <2>10, <2>11, <2>12,
             <2>13, <2>14, <2>15, <2>16
<1> QED BY <1>1, <1>2, <1>3, <1>4 DEF Next

-----------------------------------------------------------------------------
\* Nothing but what the history records brings a brightness above the cap.
LEMMA CapKept == SettingsInv /\ [Next]_vars => UnderTheCap'
<1> SUFFICES ASSUME SettingsInv, [Next]_vars PROVE UnderTheCap'
    OBVIOUS
<1> USE DEF memory, locals, history
<1>0. TypeOK /\ StepsOfOp /\ InSequence /\ UnderTheCap
      BY DEF SettingsInv
<1>1. ASSUME NEW r \in Reqs,
             PutSettings(r) \/ PutWall(r) \/ Brightness(r) \/ Show(r)
      PROVE UnderTheCap'
  <2>1. \E k, s, w, to : Begin(r, k, s, w, to)
        BY <1>1 DEF PutSettings, PutWall, Brightness, Show
  <2>2. pc[r] = "idle" /\ op[r] = "show" /\ up = "up" /\ up' = "up"
        BY <1>0, <2>1 DEF Begin, Goto, StepsOfOp, TypeOK, Kinds
  <2>3. \A q \in Setters : q \in Setters' /\ pc'[q] = pc[q] /\ op'[q] = op[q]
        BY <1>0, <2>1, <2>2 DEF Begin, Goto, Setters, TypeOK
  <2>4. (messy' => excused') /\ (~excused' => ~excused) /\ UNCHANGED <<settings, wall>>
        BY <1>0, <2>1 DEF Begin, UnderTheCap, TypeOK
  <2> QED BY <1>0, <2>2, <2>3, <2>4 DEF UnderTheCap, Lowering
<1>2. ASSUME NEW r \in Reqs,
             \/ Acquire(r) \/ Conflict(r) \/ Send(r) \/ SendFails(r) \/ ClientGone(r)
             \/ Open(r) \/ WriteText(r)
      PROVE UnderTheCap'
  <2>1. /\ up = "up" /\ up' = "up" /\ UNCHANGED <<settings, wall, messy, excused>>
        /\ pc[r] \in {"acquire", "send", "open", "text"}
        BY <1>2 DEF Acquire, Conflict, Send, SendShow, SendBrightness, SendFails, ClientGone, Open,
                    WriteText, Return, Goto
  <2>2. ASSUME NEW q \in Setters, Lowering(q) PROVE q \in Setters' /\ Lowering(q)'
    <3>1. q = r => op[r] = "cap" /\ pc[r] \in {"open", "text"}
          BY <1>0, <2>1, <2>2 DEF Lowering, StepsOfOp
    <3> QED BY <1>0, <1>2, <2>1, <2>2, <3>1 DEF Lowering, Setters, TypeOK, Acquire, Conflict,
               Send, SendShow, SendBrightness, SendFails, ClientGone, Open, WriteText, Return, Goto
  <2> QED BY <1>0, <2>1, <2>2 DEF UnderTheCap
<1>3. ASSUME NEW r \in Reqs, SaveFails(r) PROVE UnderTheCap'
      BY <1>3 DEF SaveFails, Return, Goto, UnderTheCap
<1>4. ASSUME NEW r \in Reqs, AssignSettings(r) PROVE UnderTheCap'
  <2>1. /\ up = "up" /\ up' = "up" /\ wall' = wall /\ settings' = arg[r]
        /\ messy' = messy /\ r \in Setters
        BY <1>0, <1>4 DEF AssignSettings, Return, Goto, Setters, StepsOfOp, TypeOK, Kinds
  <2>2. CASE op[r] = "put"
        BY <1>4, <2>1, <2>2 DEF AssignSettings, UnderTheCap
  <2>3. CASE op[r] # "put" /\ excused'
        BY <2>1, <2>3 DEF UnderTheCap
  <2>4. CASE op[r] # "put" /\ ~excused'
    <3>1. ~messy
          BY <1>0, <1>4, <2>4 DEF AssignSettings, UnderTheCap, TypeOK
    <3>2. op[r] \in {"brightness", "cap"}
      <4>1. pc[r] = "assign" /\ op[r] # "wall" /\ op[r] \in Kinds
            BY <1>0, <1>4 DEF AssignSettings, Return, Goto, TypeOK
      <4> QED BY <1>0, <2>4, <4>1 DEF StepsOfOp, Kinds
    <3>3. settings' <= CapOf[wall]'
          BY <1>0, <2>1, <3>1, <3>2 DEF InSequence, SetterIsCurrent
    <3> QED BY <2>1, <3>1, <3>3 DEF UnderTheCap
  <2> QED BY <2>2, <2>3, <2>4
<1>5. ASSUME NEW r \in Reqs, AssignWall(r) PROVE UnderTheCap'
  <2>1. r \in Setters' /\ Lowering(r)'
        BY <1>0, <1>5 DEF AssignWall, Goto, Setters, Lowering, TypeOK
  <2> QED BY <1>0, <1>5, <2>1 DEF UnderTheCap, AssignWall, Goto
<1>6. ASSUME NEW r \in Reqs, CapBrightness(r) PROVE UnderTheCap'
  <2>1. /\ up = "up" /\ up' = "up" /\ UNCHANGED <<settings, wall, messy, excused>>
        /\ op[r] = "wall" /\ pc[r] = "cap"
        BY <1>0, <1>6 DEF CapBrightness, Return, Goto, StepsOfOp, TypeOK, Kinds
  <2>2. CASE excused
        BY <1>0, <2>1, <2>2 DEF UnderTheCap
  <2>3. CASE ~excused
    <3>1. seen[r] = wall
          BY <1>0, <2>1, <2>3 DEF UnderTheCap, InSequence, SetterIsCurrent, Setters
    <3>2. CASE settings > CapOf[seen[r]]
      <4>1. settings \in 0 .. Full /\ CapOf[seen[r]] \in 0 .. Full
            BY <1>0 DEF TypeOK
      <4>2. pc' = [pc EXCEPT ![r] = "open"] /\ op' = [op EXCEPT ![r] = "cap"]
            BY <1>6, <3>2, <4>1 DEF CapBrightness, SaveCap, Goto
      <4>3. r \in Setters' /\ Lowering(r)'
            BY <1>0, <4>2 DEF Setters, Lowering, TypeOK
      <4> QED BY <1>0, <2>1, <4>3 DEF UnderTheCap
    <3>3. CASE settings <= CapOf[seen[r]]
          BY <1>0, <2>1, <3>1, <3>3 DEF UnderTheCap
    <3> QED BY <1>0, <1>6, <3>2, <3>3 DEF CapBrightness
  <2> QED BY <2>2, <2>3
<1>7. ASSUME NEW r \in Reqs, Tell(r) PROVE UnderTheCap'
  <2>1. /\ up = "up" /\ up' = "up" /\ UNCHANGED <<settings, wall, messy, excused>>
        /\ op[r] \in {"brightness", "cap"} /\ pc[r] = "tell"
        BY <1>0, <1>7 DEF Tell, Return, Goto, StepsOfOp, TypeOK, Kinds
  <2>2. CASE excused
        BY <1>0, <2>1, <2>2 DEF UnderTheCap
  <2>3. CASE ~excused
    <3>1. arg[r] = settings /\ arg[r] <= CapOf[wall]
          BY <1>0, <2>1, <2>3 DEF UnderTheCap, InSequence, SetterIsCurrent, Setters
    <3> QED BY <1>0, <2>1, <3>1 DEF UnderTheCap
  <2> QED BY <2>2, <2>3
<1>8. CASE Crash
  <2>1. up = "up" /\ up' = "down" /\ (messy' => excused') /\ disk' = disk
        BY <1>0, <1>8 DEF Crash, UnderTheCap, TypeOK
  <2>2. ASSUME ~excused' PROVE disk.settings.has <= CapOf[disk.wall.has]
    <3>1. ~messy /\ \A r \in Setters : op[r] = "brightness"
          BY <1>0, <1>8, <2>2 DEF Crash, UnderTheCap, TypeOK
    <3>2. disk["wall"].has = wall
          BY <1>0, <2>1, <3>1 DEF InSequence, FileIsCurrent, Writes, FileOf, Memory
    <3>3. settings <= CapOf[wall]
          BY <1>0, <1>8, <2>1, <2>2, <3>1 DEF UnderTheCap, Lowering, Crash, TypeOK
    <3>4. CASE \E r \in Setters : pc[r] = "assign"
          BY <1>0, <2>1, <3>1, <3>2, <3>4
          DEF InSequence, FileIsCurrent, Writes, FileOf, Setters, SetterIsCurrent, TextOf
    <3>5. CASE \A r \in Setters : pc[r] # "assign"
      <4>1. disk["settings"].has = settings
            BY <1>0, <2>1, <3>1, <3>5
            DEF InSequence, FileIsCurrent, Writes, FileOf, Memory, Setters
      <4> QED BY <3>2, <3>3, <4>1
    <3> QED BY <3>4, <3>5
  <2> QED BY <2>1, <2>2 DEF UnderTheCap
<1>9. CASE Start
  <2>1. up = "down" /\ messy' = FALSE /\ excused' = excused /\ disk' = disk
        BY <1>9 DEF Start
  <2>2. \/ up' = "refused"
        \/ up' = "up" /\ settings' = disk.settings.has /\ wall' = disk.wall.has
        BY <1>9 DEF Start, Loaded
  <2>3. messy' => excused'
        BY <2>1
  <2>4. up' = "up" /\ ~excused' => settings' <= CapOf[wall']
        BY <1>0, <2>1, <2>2 DEF UnderTheCap
  <2> QED BY <2>2, <2>3, <2>4 DEF UnderTheCap
<1>10. CASE UNCHANGED vars
      BY <1>0, <1>10 DEF vars, UnderTheCap, Setters, Lowering
<1> QED BY <1>1, <1>2, <1>3, <1>4, <1>5, <1>6, <1>7, <1>8, <1>9, <1>10 DEF Next

-----------------------------------------------------------------------------
(* The frames the wall was sent last, and what the live state tells of them. *)

\* The link is behind it and Live::set_brightness ahead of it.
Sent(r) == op[r] = "brightness" /\ pc[r] \in {"open", "text", "assign", "tell"}

PanelInv ==
  /\ \A r \in Reqs : op[r] = "brightness" => arg[r] <= CapOf[seen[r]]
  /\ \A r \in Reqs : apart = r => Sent(r) /\ panel = arg[r]
  /\ apart = "no" => up = "up" /\ (put \/ live = panel)

\* A value under the cap is sent as it is.
LEMMA ClampIsIdle ==
  ASSUME TypeOK, NEW r \in Reqs, arg[r] <= CapOf[seen[r]] PROVE Clamp(seen[r], arg[r]) = arg[r]
BY DEF Clamp, Lower, TypeOK

\* Every step keeps it.
LEMMA PanelKept == SettingsInv /\ PanelInv /\ [Next]_vars => PanelInv'
<1> SUFFICES ASSUME SettingsInv, PanelInv, [Next]_vars PROVE PanelInv'
    OBVIOUS
<1> USE DEF memory, locals, history
<1>0. TypeOK /\ StepsOfOp
      BY DEF SettingsInv
<1>1. \A r \in Reqs : r \notin Causes /\ r # "no"
      OBVIOUS
\* The steps of a request that was not about to tell of the last frames.
<1>2. ASSUME NEW r \in Reqs, apart # r, UNCHANGED <<up, panel, apart, live, put>>, up = "up",
             op'[r] = "brightness" => arg'[r] <= CapOf[seen'[r]],
             \A q \in Reqs : q # r =>
               pc'[q] = pc[q] /\ op'[q] = op[q] /\ arg'[q] = arg[q] /\ seen'[q] = seen[q]
      PROVE PanelInv'
      BY <1>2 DEF PanelInv, Sent
<1>3. ASSUME NEW r \in Reqs, NEW k, NEW s, NEW w, NEW to, Begin(r, k, s, w, to),
             k = "brightness" => s <= CapOf[w]
      PROVE PanelInv'
  <2>1. /\ apart # r /\ up = "up" /\ UNCHANGED <<up, panel, apart, live, put>>
        BY <1>0, <1>3 DEF Begin, Goto, PanelInv, Sent
  <2>2. op'[r] = "brightness" => arg'[r] <= CapOf[seen'[r]]
        BY <1>0, <1>3 DEF Begin, TypeOK
  <2>3. \A q \in Reqs : q # r =>
          pc'[q] = pc[q] /\ op'[q] = op[q] /\ arg'[q] = arg[q] /\ seen'[q] = seen[q]
        BY <1>0, <1>3 DEF Begin, Goto, TypeOK
  <2> QED BY <1>2, <2>1, <2>2, <2>3
<1>4. ASSUME NEW r \in Reqs, PutSettings(r) \/ PutWall(r) \/ Brightness(r) \/ Show(r)
      PROVE PanelInv'
  <2>1. \A b \in Values : Clamp(wall, b) <= CapOf[wall]
        BY <1>0 DEF Clamp, Lower, TypeOK
  <2> QED BY <1>3, <1>4, <2>1 DEF PutSettings, PutWall, Brightness, Show
<1>5. ASSUME NEW r \in Reqs, Acquire(r) \/ Conflict(r) \/ ClientGone(r) PROVE PanelInv'
  <2>1. /\ apart # r /\ up = "up" /\ UNCHANGED <<up, panel, apart, live, put>>
        BY <1>0, <1>5 DEF Acquire, Conflict, ClientGone, Return, Goto, PanelInv, Sent
  <2>2. op'[r] = "brightness" => arg'[r] <= CapOf[seen'[r]]
        BY <1>0, <1>5 DEF Acquire, Conflict, ClientGone, Return, Goto, TypeOK, PanelInv
  <2>3. \A q \in Reqs : q # r =>
          pc'[q] = pc[q] /\ op'[q] = op[q] /\ arg'[q] = arg[q] /\ seen'[q] = seen[q]
        BY <1>0, <1>5 DEF Acquire, Conflict, ClientGone, Return, Goto, TypeOK
  <2> QED BY <1>2, <2>1, <2>2, <2>3
\* A show sends the stored value, which is what the live state tells of unless a
\* PUT /settings came.
<1>6. ASSUME NEW r \in Reqs, SendShow(r) PROVE PanelInv'
  <2>1. /\ apart' \in Causes \cup {"no"} /\ UNCHANGED <<up, live, put, settings>> /\ up = "up"
        /\ panel' = Clamp(seen[r], arg[r])
        BY <1>6 DEF SendShow, Return, Goto, Causes
  <2>2. \A q \in Reqs : apart' # q
        BY <1>1, <2>1
  <2>3. \A q \in Reqs : op'[q] = "brightness" => arg'[q] <= CapOf[seen'[q]]
        BY <1>0, <1>6 DEF SendShow, Return, Goto, TypeOK, PanelInv
  <2>4. ASSUME apart' = "no" PROVE put \/ live = panel'
    <3>1. Undisturbed(r) /\ ~(arg[r] > CapOf[seen[r]])
          BY <1>6, <2>4 DEF SendShow
    <3>2. put \/ live = settings
          BY <2>1, <3>1 DEF SettingsInv, InSequence, LiveIsCurrent, Undisturbed
    <3>3. arg[r] <= CapOf[seen[r]] /\ arg[r] = settings
          BY <1>0, <3>1 DEF TypeOK, Undisturbed
    <3>4. panel' = settings
          BY <1>0, <2>1, <3>3, ClampIsIdle
    <3> QED BY <3>2, <3>4
  <2> QED BY <2>1, <2>2, <2>3, <2>4 DEF PanelInv
<1>7. ASSUME NEW r \in Reqs, SendBrightness(r) PROVE PanelInv'
  <2>1. /\ apart' = r /\ panel' = Clamp(seen[r], arg[r]) /\ UNCHANGED <<op, arg, seen>>
        /\ op[r] = "brightness" /\ pc'[r] = "open"
        BY <1>0, <1>7 DEF SendBrightness, Goto, TypeOK
  <2>2. panel' = arg[r]
        BY <1>0, <2>1, ClampIsIdle DEF PanelInv
  <2> QED BY <1>1, <2>1, <2>2 DEF PanelInv, Sent
<1>8. ASSUME NEW r \in Reqs, SendFails(r) PROVE PanelInv'
  <2>1. /\ apart # r /\ up = "up" /\ UNCHANGED <<up, live, put>> /\ op'[r] = "show"
        BY <1>0, <1>8 DEF SendFails, Return, Goto, PanelInv, Sent, TypeOK
  <2>2. \A q \in Reqs : q # r =>
          pc'[q] = pc[q] /\ op'[q] = op[q] /\ arg'[q] = arg[q] /\ seen'[q] = seen[q]
        BY <1>0, <1>8 DEF SendFails, Return, Goto, TypeOK
  <2>3. CASE UNCHANGED <<panel, apart>>
        BY <1>2, <2>1, <2>2, <2>3
  <2>4. CASE apart' = "disturbed"
        BY <1>1, <2>1, <2>2, <2>4 DEF PanelInv, Causes
  <2> QED BY <1>8, <2>3, <2>4 DEF SendFails
\* The setter that sent the last frames goes on to tell of them.
<1>9. ASSUME NEW r \in Reqs, Open(r) \/ WriteText(r) PROVE PanelInv'
  <2>1. /\ UNCHANGED <<up, live, put, panel, apart, op, arg, seen>>
        /\ pc' = [pc EXCEPT ![r] = IF pc[r] = "open" THEN "text" ELSE "assign"]
        BY <1>9 DEF Open, WriteText, Goto
  <2>2. \A q \in Reqs : Sent(q) => Sent(q)'
        BY <1>0, <2>1 DEF Sent, TypeOK
  <2> QED BY <2>1, <2>2 DEF PanelInv
<1>10. ASSUME NEW r \in Reqs, SaveFails(r) PROVE PanelInv'
  <2>1. /\ UNCHANGED <<up, live, put, panel>> /\ op'[r] = "show" /\ up = "up"
        /\ apart' = IF apart = r THEN "disturbed" ELSE apart
        BY <1>0, <1>10 DEF SaveFails, Return, Goto, TypeOK
  <2>2. \A q \in Reqs : q # r =>
          pc'[q] = pc[q] /\ op'[q] = op[q] /\ arg'[q] = arg[q] /\ seen'[q] = seen[q]
        BY <1>0, <1>10 DEF SaveFails, Return, Goto, TypeOK
  <2>3. CASE apart # r
        BY <1>2, <2>1, <2>2, <2>3
  <2>4. CASE apart = r
        BY <1>1, <2>1, <2>2, <2>4 DEF PanelInv, Causes
  <2> QED BY <2>3, <2>4
<1>11. ASSUME NEW r \in Reqs, AssignSettings(r) PROVE PanelInv'
  <2>1. UNCHANGED <<up, live, panel, apart>> /\ pc[r] = "assign"
        BY <1>11 DEF AssignSettings, Return, Goto
  <2>2. CASE op[r] = "put"
    <3>1. /\ put' /\ op'[r] = "show" /\ apart # r
          BY <1>0, <1>11, <2>2 DEF AssignSettings, Return, Goto, TypeOK, PanelInv, Sent
    <3>2. \A q \in Reqs : q # r =>
            pc'[q] = pc[q] /\ op'[q] = op[q] /\ arg'[q] = arg[q] /\ seen'[q] = seen[q]
          BY <1>0, <1>11, <2>2 DEF AssignSettings, Return, Goto, TypeOK
    <3> QED BY <2>1, <3>1, <3>2 DEF PanelInv, Sent
  <2>3. CASE op[r] # "put"
    <3>1. UNCHANGED <<op, arg, seen, put>> /\ pc' = [pc EXCEPT ![r] = "tell"]
          BY <1>11, <2>3 DEF AssignSettings, Goto
    <3>2. \A q \in Reqs : Sent(q) => Sent(q)'
          BY <1>0, <3>1 DEF Sent, TypeOK
    <3> QED BY <2>1, <3>1, <3>2 DEF PanelInv
  <2> QED BY <2>2, <2>3
<1>12. ASSUME NEW r \in Reqs, AssignWall(r) \/ CapBrightness(r) PROVE PanelInv'
  <2>1. /\ op[r] = "wall" /\ up = "up" /\ UNCHANGED <<up, panel, apart, live, put>>
        BY <1>0, <1>12, CapIsOfAWall DEF AssignWall, CapBrightness, Return, Goto
  <2>2. apart # r
        BY <2>1 DEF PanelInv, Sent
  <2>3. op'[r] # "brightness"
        BY <1>0, <1>12, <2>1 DEF AssignWall, CapBrightness, Return, TypeOK
  <2>4. \A q \in Reqs : q # r =>
          pc'[q] = pc[q] /\ op'[q] = op[q] /\ arg'[q] = arg[q] /\ seen'[q] = seen[q]
        BY <1>0, <1>12 DEF AssignWall, CapBrightness, SaveCap, Return, Goto, TypeOK
  <2> QED BY <1>2, <2>1, <2>2, <2>3, <2>4
<1>13. ASSUME NEW r \in Reqs, Tell(r) PROVE PanelInv'
  <2>1. /\ op'[r] = "show" /\ live' = arg[r] /\ UNCHANGED <<up, panel>> /\ up = "up"
        /\ apart' = IF apart = r THEN "no"
                    ELSE IF op[r] # "cap" THEN "disturbed"
                    ELSE IF apart \in Reqs THEN apart ELSE "lowered"
        BY <1>0, <1>13 DEF Tell, Told, Return, Goto, TypeOK
  <2>2. \A q \in Reqs : q # r =>
          pc'[q] = pc[q] /\ op'[q] = op[q] /\ arg'[q] = arg[q] /\ seen'[q] = seen[q]
        BY <1>0, <1>13 DEF Tell, Return, Goto, TypeOK
  <2>3. CASE apart = r
        BY <1>1, <2>1, <2>2, <2>3 DEF PanelInv
  <2>4. CASE apart # r
    <3>1. apart' # "no" /\ apart' # r /\ (apart' \in Reqs => apart' = apart)
          BY <1>1, <2>1, <2>4 DEF Causes
    <3> QED BY <2>1, <2>2, <3>1 DEF PanelInv, Sent
  <2> QED BY <2>3, <2>4
<1>14. CASE Crash
  <2>1. apart' = "start" /\ up' = "down" /\ \A q \in Reqs : op'[q] = "show"
        BY <1>14 DEF Crash
  <2> QED BY <1>1, <2>1 DEF PanelInv, Causes
<1>15. CASE Start
  <2>1. up = "down" /\ UNCHANGED <<apart, pc, op, arg, seen>>
        BY <1>15 DEF Start
  <2>2. \A q \in Reqs : ~Sent(q)
        BY <1>0, <2>1 DEF Sent, StepsOfOp
  <2>3. apart # "no" /\ \A q \in Reqs : apart # q
        BY <2>1, <2>2 DEF PanelInv
  <2> QED BY <2>1, <2>3 DEF PanelInv
<1>16. CASE UNCHANGED vars
      BY <1>16 DEF vars, PanelInv, Sent
<1> QED BY <1>4, <1>5, <1>6, <1>7, <1>8, <1>9, <1>10, <1>11, <1>12, <1>13, <1>14, <1>15, <1>16
        DEF Next, Send

-----------------------------------------------------------------------------
\* It holds when the daemon has loaded its files.
LEMMA SettingsStart == Init => SettingsInv /\ PanelInv
<1> SUFFICES ASSUME Init PROVE SettingsInv /\ PanelInv
    OBVIOUS
<1>1. Setters = {} /\ \A r \in Reqs : pc[r] = "idle" /\ op[r] = "show"
      BY DEF Init, Idle, Setters
<1>2. StepsOfOp
      BY <1>1 DEF StepsOfOp
<1>3. FileIsCurrent("wall") /\ FileIsCurrent("settings")
      BY <1>1 DEF Init, FileIsCurrent, Writes, Parses, Memory
<1>4. InSequence
      BY <1>1, <1>3 DEF Init, InSequence, OneSetter, SetterIsCurrent, LiveIsCurrent
<1>5. UnderTheCap
      BY DEF Init, UnderTheCap
<1>6. PanelInv
      BY <1>1 DEF Init, PanelInv, Causes
<1> QED BY <1>2, <1>4, <1>5, <1>6, TypesStart DEF SettingsInv

\* Every step keeps it.
LEMMA SettingsStep == SettingsInv /\ PanelInv /\ [Next]_vars => SettingsInv' /\ PanelInv'
BY TypeStep, StepsKept, SequenceKept, CapKept, PanelKept DEF SettingsInv

\* So it always holds.
LEMMA SettingsHold == Spec => [](SettingsInv /\ PanelInv)
BY SettingsStart, SettingsStep, PTL DEF Spec

\* Every variable always holds a value of its type.
THEOREM SettingsTypes == Spec => []TypeOK
<1>1. SettingsInv => TypeOK
      BY DEF SettingsInv
<1> QED BY <1>1, SettingsHold, PTL

\* After requests that came one after another and whose writes succeeded both
\* files parse and hold what the memory has (state.rs set_settings, set_wall),
\* whatever was killed before.
THEOREM SettingsArePersisted == Spec => []Persisted
<1>1. ASSUME SettingsInv, AtRest, ~messy
      PROVE  \A f \in Files : Parses(f) /\ Loaded(f) = Memory(f)
  <2>1. FileIsCurrent("wall") /\ FileIsCurrent("settings")
        BY <1>1 DEF SettingsInv, AtRest, InSequence
  <2>2. \A f \in Files, r \in Reqs : ~Writes(r, f)
        BY <1>1 DEF AtRest, Writes
  <2> QED BY <2>1, <2>2 DEF FileIsCurrent, Loaded, Files
<1>2. SettingsInv => Persisted
      BY <1>1 DEF Persisted, Memory, Files
<1> QED BY <1>2, SettingsHold, PTL

\* A stored brightness over the wall's cap has one of the causes the history
\* names (routes.rs brightness, state.rs set_wall).
THEOREM StoredCapHolds == Spec => []CapHolds
<1>1. ASSUME SettingsInv, AtRest, ~excused PROVE ~(settings > CapOf[wall])
  <2>1. settings <= CapOf[wall]
        BY <1>1 DEF SettingsInv, AtRest, UnderTheCap
  <2>2. settings \in 0 .. Full /\ CapOf[wall] \in 0 .. Full
        BY <1>1 DEF SettingsInv, TypeOK
  <2> QED BY <2>1, <2>2
<1>2. SettingsInv => CapHolds
      BY <1>1 DEF CapHolds
<1> QED BY <1>2, SettingsHold, PTL

\* Between requests the live state tells the brightness of the last sync frames
\* (docs/ui.md, State), or there is one of the causes of `apart` and `put`
\* (routes.rs brightness, state.rs set_wall and new, live.rs set_brightness).
THEOREM LiveToldOfThePanel == Spec => []LiveTellsThePanel
<1>1. ASSUME SettingsInv, PanelInv, AtRest, apart \notin Causes, ~put PROVE live = panel
  <2>1. apart \notin Reqs
    <3>1. ASSUME NEW r \in Reqs PROVE ~Sent(r)
          BY <1>1, <3>1 DEF AtRest, Setters, Sent
    <3> QED BY <1>1, <3>1 DEF PanelInv
  <2>2. apart = "no"
        BY <1>1, <2>1 DEF SettingsInv, TypeOK
  <2> QED BY <1>1, <2>2 DEF PanelInv
<1>2. SettingsInv /\ PanelInv => LiveTellsThePanel
      BY <1>1 DEF LiveTellsThePanel
<1> QED BY <1>2, SettingsHold, PTL

=============================================================================
