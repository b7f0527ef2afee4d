------------------------------ MODULE Settings ------------------------------
(***************************************************************************)
(* What the daemon remembers: the settings and the wall, in memory and in  *)
(* settings.json and wall.json (crates/daemon state.rs, store.rs), the     *)
(* routes that change them (PUT /settings, POST /brightness, PUT /wall)    *)
(* and a show, which sends the brightness it finds. The handlers of        *)
(* different requests interleave: no lock is held from the read of a value *)
(* to the write of its successor, nor over the write of a file.            *)
(*                                                                         *)
(* A file is written by opening it, which empties it, and writing the text *)
(* at its start (std::fs::write): when two writers have it open the tail   *)
(* of a longer text stays behind a shorter one. The settings are their     *)
(* brightness here: the interface and the card model are carried along and *)
(* change nothing.                                                         *)
(***************************************************************************)
EXTENDS Naturals, FiniteSets

CONSTANTS
  Reqs,      \* the requests served at the same time
  Values,    \* the brightness values requests name
  Walls,     \* the walls PUT /wall names
  CapOf,     \* [Walls -> 0 .. 255]: the brightness cap of each
  FirstWall, \* what a daemon without wall.json has: Canvas::single
  MaxCrash,  \* bound: how often the daemon is killed
  MaxFail    \* bound: how many writes fail

Full == 255

\* What may have parted the live state from the wall (see `apart`).
Causes == {"start", "lowered", "over", "disturbed"}

ASSUME SettingsAssumption ==
  /\ Values \subseteq 0 .. Full
  /\ FirstWall \in Walls /\ CapOf \in [Walls -> 0 .. Full]
  /\ CapOf[FirstWall] = Full
  /\ Reqs \cap (Causes \cup {"no"}) = {}
  /\ MaxCrash \in Nat /\ MaxFail \in Nat

Lower(a, b) == IF a < b THEN a ELSE b
\* The cap of a wall is the lowest of its own and its panels' values.
Clamp(w, v) == Lower(v, CapOf[w])

\* The length of a settings text, as far as two of them differ.
TextLen(b) == IF b < 10 THEN 1 ELSE IF b < 100 THEN 2 ELSE 3

VARIABLES
  up,        \* "up", "down" (killed) or "refused" (a file does not parse)
  settings,  \* AppState.settings: the brightness
  wall,      \* AppState.wall
  live,      \* Live.state.brightness: what GET /state says
  disk,      \* settings.json and wall.json: a state and what was written last
  holder,    \* the request that has the link, or Free
  panel,     \* the brightness the wall was sent last
  pc, op, arg, seen, \* per request: its place, its kind, its value, its wall
  crashes, fails,
  \* history, for the properties
  messy,     \* since the start, setters overlapped or a write failed
  excused,   \* why the stored brightness may be above the cap
  put,       \* a PUT /settings came after the live state was told
  apart      \* what parts the live state from the frames the wall was sent last:
             \*   "no"        nothing, they were told of;
             \*   a request   the POST /brightness that sent them and is about to
             \*               tell;
             \*   "start"     the daemon started, and told what it stores;
             \*   "lowered"   PUT /wall lowered the brightness, told that and
             \*               sent nothing;
             \*   "over"      a show sent a stored value that is above the cap;
             \*   "disturbed" requests overlapped, or one ended half-way

memory  == <<settings, wall, live>>
locals  == <<pc, op, arg, seen>>
history == <<messy, excused, put, apart>>
vars    == <<up, memory, disk, holder, panel, locals, crashes, fails, history>>

Free == "free"
Files == {"settings", "wall"}

Idle == [r \in Reqs |-> "idle"]

Init ==
  /\ up = "up"
  /\ settings = Full /\ wall = FirstWall /\ live = Full
  /\ disk = [settings |-> [is |-> "absent", has |-> Full],
             wall     |-> [is |-> "absent", has |-> FirstWall]]
  /\ holder = Free /\ panel = 0
  /\ pc = Idle
  /\ op = [r \in Reqs |-> "show"]
  /\ arg = [r \in Reqs |-> Full]
  /\ seen = [r \in Reqs |-> FirstWall]
  /\ crashes = 0 /\ fails = 0
  /\ messy = FALSE /\ excused = FALSE
  /\ put = FALSE /\ apart = "start"

-----------------------------------------------------------------------------
Setters    == {r \in Reqs : pc[r] # "idle" /\ op[r] # "show"}
Goto(r, from, to) ==
  /\ up = "up"
  /\ pc[r] = from
  /\ pc' = [pc EXCEPT ![r] = to]

\* The handler returns and forgets its locals.
Return(r, from) ==
  /\ Goto(r, from, "idle")
  /\ op' = [op EXCEPT ![r] = "show"]
  /\ arg' = [arg EXCEPT ![r] = Full]
  /\ seen' = [seen EXCEPT ![r] = FirstWall]

\* A request of kind k arrives with what it brings or has read.
Begin(r, k, s, w, to) ==
  /\ Goto(r, "idle", to)
  /\ op' = [op EXCEPT ![r] = k]
  /\ arg' = [arg EXCEPT ![r] = s]
  /\ seen' = [seen EXCEPT ![r] = w]
  /\ LET overlaps == k # "show" /\ Setters # {}
     IN /\ messy' = (messy \/ overlaps)
        /\ excused' = (excused \/ overlaps)
  /\ UNCHANGED <<up, memory, disk, holder, panel, crashes, fails, put, apart>>

PutSettings(r) == \E b \in Values : Begin(r, "put", b, FirstWall, "open")

PutWall(r) == \E w \in Walls : Begin(r, "wall", Full, w, "open")

\* POST /brightness holds the value under the cap of the wall it finds.
\* (Variant: the value as it came.)
BrightnessRaw(r) == \E b \in Values : Begin(r, "brightness", b, wall, "acquire")
Brightness(r) == \E b \in Values :
  Begin(r, "brightness", Clamp(wall, b), wall, "acquire")

Show(r) == Begin(r, "show", Full, wall, "acquire")

-----------------------------------------------------------------------------
(* The link: command() takes it or answers 409, reads the settings for the  *)
(* command's context, sends, and frees it.                                  *)
Acquire(r) ==
  /\ holder = Free
  /\ Goto(r, "acquire", "send")
  /\ holder' = r
  /\ arg' = IF op[r] = "show" THEN [arg EXCEPT ![r] = settings] ELSE arg
  /\ UNCHANGED <<up, memory, disk, panel, op, seen, crashes, fails, history>>

Conflict(r) ==
  /\ holder # Free
  /\ Return(r, "acquire")
  /\ UNCHANGED <<up, memory, disk, holder, panel, crashes, fails, history>>

\* Since the start no setters overlapped and no write failed, none is at work
\* now, and the show read what the daemon still stores.
Undisturbed(r) ==
  ~messy /\ Setters = {} /\ arg[r] = settings /\ seen[r] = wall

\* The brightness and sync frames of a show and of the brightness command,
\* both under the cap of the wall the request read.
SendShow(r) ==
  /\ op[r] = "show" /\ Return(r, "send")
  /\ holder' = Free
  /\ panel' = Clamp(seen[r], arg[r])
  /\ apart' = IF ~Undisturbed(r) THEN "disturbed"
              ELSE IF arg[r] > CapOf[seen[r]] THEN "over" ELSE "no"
  /\ UNCHANGED <<up, memory, disk, crashes, fails, messy, excused, put>>

SendBrightness(r) ==
  /\ op[r] = "brightness" /\ Goto(r, "send", "open")
  /\ holder' = Free
  /\ panel' = Clamp(seen[r], arg[r])
  /\ apart' = r
  /\ UNCHANGED <<up, memory, disk, op, arg, seen, crashes, fails, messy, excused, put>>

Send(r) == SendShow(r) \/ SendBrightness(r)

\* The link fails, before the first frame of the brightness or after it.
SendFails(r) ==
  /\ fails < MaxFail
  /\ Return(r, "send")
  /\ holder' = Free
  /\ fails' = fails + 1
  /\ \/ UNCHANGED <<panel, apart>>
     \/ panel' = Clamp(seen[r], arg[r]) /\ apart' = "disturbed"
  /\ UNCHANGED <<up, memory, disk, crashes, messy, excused, put>>

\* The client of POST /brightness leaves while the command has the link, which
\* is the handler's only await: nothing is stored or told, and the command goes
\* on and sends, as a show would.
ClientGone(r) ==
  /\ op[r] = "brightness" /\ Goto(r, "send", "send")
  /\ op' = [op EXCEPT ![r] = "show"]
  /\ UNCHANGED <<up, memory, disk, holder, panel, arg, seen, crashes, fails, history>>

-----------------------------------------------------------------------------
(* store::save, then the memory: set_settings and set_wall.                 *)
FileOf(r) == IF op[r] = "wall" THEN "wall" ELSE "settings"
TextOf(r) == IF op[r] = "wall" THEN seen[r] ELSE arg[r]

\* What a file holds after text s is written over it. Wall texts are taken to
\* be of one length.
Over(f, old, s) ==
  IF \/ old.is = "torn"
     \/ f = "settings" /\ old.is = "text" /\ TextLen(old.has) > TextLen(s)
  THEN [is |-> "torn", has |-> s]
  ELSE [is |-> "text", has |-> s]

Open(r) ==
  /\ Goto(r, "open", "text")
  /\ disk' = [disk EXCEPT ![FileOf(r)].is = "empty"]
  /\ UNCHANGED <<up, memory, holder, panel, op, arg, seen, crashes, fails, history>>

WriteText(r) ==
  /\ Goto(r, "text", "assign")
  /\ disk' = [disk EXCEPT ![FileOf(r)] = Over(FileOf(r), @, TextOf(r))]
  /\ UNCHANGED <<up, memory, holder, panel, op, arg, seen, crashes, fails, history>>

\* The directory or the file cannot be written, opened already or not: the
\* error is the answer and the memory stays.
SaveFails(r) ==
  /\ fails < MaxFail
  /\ \E at \in {"open", "text"} : Return(r, at)
  /\ fails' = fails + 1
  /\ messy' = TRUE /\ excused' = TRUE
  /\ apart' = IF apart = r THEN "disturbed" ELSE apart
  /\ UNCHANGED <<up, memory, disk, holder, panel, crashes, put>>

AssignSettings(r) ==
  /\ op[r] # "wall"
  /\ settings' = arg[r]
  /\ \/ /\ op[r] = "put"
        /\ Return(r, "assign")
        /\ put' = TRUE /\ excused' = TRUE
     \/ /\ op[r] # "put"
        /\ Goto(r, "assign", "tell")
        /\ excused' = (excused /\ (messy \/ Setters # {r}))
        /\ UNCHANGED <<op, arg, seen, put>>
  /\ UNCHANGED <<up, wall, live, disk, holder, panel, crashes, fails, messy, apart>>

AssignWall(r) ==
  /\ op[r] = "wall"
  /\ Goto(r, "assign", "cap")
  /\ wall' = seen[r]
  /\ UNCHANGED <<up, settings, live, disk, holder, panel, op, arg, seen, crashes, fails, history>>

\* set_wall after the wall: a stored brightness above the new cap is lowered
\* to it, and saved. (Variant: it is lowered in memory.)
SaveCapNowhere == "assign"
SaveCap == "open"
CapBrightness(r) ==
  /\ \/ /\ settings > CapOf[seen[r]]
        /\ Goto(r, "cap", SaveCap)
        /\ op' = [op EXCEPT ![r] = "cap"]
        /\ arg' = [arg EXCEPT ![r] = CapOf[seen[r]]]
        /\ UNCHANGED seen
     \/ settings <= CapOf[seen[r]] /\ Return(r, "cap")
  /\ UNCHANGED <<up, memory, disk, holder, panel, crashes, fails, history>>

\* Live::set_brightness. (Variant: the daemon forgets to.)
ToldNothing(r) == live
Told(r) == arg[r]
Tell(r) ==
  /\ Return(r, "tell")
  /\ live' = Told(r)
  /\ put' = FALSE
  /\ apart' = IF apart = r THEN "no"
              ELSE IF op[r] # "cap" THEN "disturbed"
              ELSE IF apart \in Reqs THEN apart ELSE "lowered"
  /\ UNCHANGED <<up, settings, wall, disk, holder, panel, crashes, fails, messy, excused>>

-----------------------------------------------------------------------------
(* The daemon is killed and started again: AppState::new.                   *)
Crash ==
  /\ up = "up" /\ crashes < MaxCrash
  /\ up' = "down"
  /\ crashes' = crashes + 1
  /\ holder' = Free
  /\ excused' = (excused \/ \E r \in Setters : op[r] # "brightness")
  /\ pc' = Idle
  /\ op' = [r \in Reqs |-> "show"]
  /\ arg' = [r \in Reqs |-> Full]
  /\ seen' = [r \in Reqs |-> FirstWall]
  /\ apart' = "start"
  /\ UNCHANGED <<memory, disk, panel, fails, messy, put>>

Parses(f) == disk[f].is \in {"absent", "text"}
\* A file's value: the default when there is none. An absent file was never
\* written, so it `has` the default.
Loaded(f) == disk[f].has

Start ==
  /\ up = "down"
  /\ IF \A f \in Files : Parses(f)
     THEN /\ up' = "up"
          /\ settings' = Loaded("settings") /\ wall' = Loaded("wall")
          /\ live' = Loaded("settings")
     ELSE /\ up' = "refused"
          /\ UNCHANGED memory
  /\ messy' = FALSE /\ put' = FALSE
  /\ UNCHANGED <<disk, holder, panel, locals, crashes, fails, excused, apart>>

-----------------------------------------------------------------------------
Next ==
  \/ \E r \in Reqs :
       \/ PutSettings(r) \/ PutWall(r) \/ Brightness(r) \/ Show(r)
       \/ Acquire(r) \/ Conflict(r) \/ Send(r) \/ SendFails(r) \/ ClientGone(r)
       \/ Open(r) \/ WriteText(r) \/ SaveFails(r)
       \/ AssignSettings(r) \/ AssignWall(r) \/ CapBrightness(r) \/ Tell(r)
  \/ Crash \/ Start

Spec == Init /\ [][Next]_vars

-----------------------------------------------------------------------------
\* What a file can be, what both can be, where a request can be.
File(texts) == [is : {"absent", "empty", "text", "torn"}, has : texts]
Disk  == [settings : File(0 .. Full), wall : File(Walls)]
Steps == {"idle", "acquire", "send", "open", "text", "assign", "cap", "tell"}
Kinds == {"show", "brightness", "put", "wall", "cap"}

\* Every variable is in the set its declaration describes.
TypeOK ==
  /\ up \in {"up", "down", "refused"}
  /\ settings \in 0 .. Full /\ wall \in Walls /\ live \in 0 .. Full
  /\ disk \in Disk
  /\ holder \in Reqs \cup {Free} /\ panel \in 0 .. Full
  /\ pc \in [Reqs -> Steps] /\ op \in [Reqs -> Kinds]
  /\ arg \in [Reqs -> 0 .. Full] /\ seen \in [Reqs -> Walls]
  /\ crashes \in 0 .. MaxCrash /\ fails \in 0 .. MaxFail
  /\ messy \in BOOLEAN /\ excused \in BOOLEAN /\ put \in BOOLEAN
  /\ apart \in Causes \cup Reqs \cup {"no"}

AtRest == up = "up" /\ Setters = {}

\* Between requests that came one after another and whose writes succeeded,
\* a restart would find what the daemon has: both files parse and hold the
\* settings and the wall in memory (state.rs set_settings, set_wall: save,
\* then replace). Kills at any moment are allowed for.
Persisted ==
  AtRest /\ ~messy =>
    /\ \A f \in Files : Parses(f)
    /\ Loaded("settings") = settings
    /\ Loaded("wall") = wall

\* A stored brightness above the cap of the wall has a reason: PUT /settings
\* put it there, a kill or a failed write cut a PUT /wall short between its two
\* files, or requests overlapped. Neither POST /brightness nor
\* PUT /wall alone leaves one, whatever came before.
CapHolds ==
  AtRest /\ settings > CapOf[wall] => excused

\* Between requests the brightness GET /state tells is "the value the last sync
\* frames carried" (docs/ui.md), or one of the named causes came since they
\* agreed last. A POST /brightness that nothing got in the way of leaves none,
\* whatever came before it, and a show only that of a PUT /settings or a cap.
LiveTellsThePanel ==
  AtRest /\ live # panel => apart \in Causes \/ put
=============================================================================
