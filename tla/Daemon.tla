------------------------------- MODULE Daemon -------------------------------
(***************************************************************************)
(* The core of `rxp ui` (crates/daemon): one raw link, the jobs and        *)
(* commands that own it in turn, the HTTP handlers that start, replace and *)
(* cancel them. DaemonLive adds the live state `GET /state` returns.       *)
(*                                                                         *)
(* The processes are                                                       *)
(*   - a handler per request r \in Reqs, an async task of the runtime that *)
(*     runs one request after another; `pc[r]` is where it stands;         *)
(*   - a worker per job, on the blocking pool: `worker[j]`;                *)
(*   - a watcher per job, the task start_job spawns: `watcher[j]`.         *)
(* A step is what one process does between two points where another can    *)
(* see or change the shared state: one critical section of a mutex, one    *)
(* atomic access, one channel operation.                                   *)
(*                                                                         *)
(* The four kinds of job that drive the cards' flash (provision,           *)
(* firmware/install, flash/snapshot, flash/restore) are told apart by      *)
(* nothing here and are the kind "hardware"; show/hold and show/video are  *)
(* the kind "show"; show/stream is "stream".                               *)
(***************************************************************************)
EXTENDS Naturals, FiniteSets

CONSTANTS
  Reqs,     \* the requests served at the same time
  MaxJobs,  \* bound: how many jobs a run of the daemon starts
  Free      \* the holder when nobody has the link

ASSUME MaxJobsAssumption == MaxJobs \in Nat
ASSUME ReqsAssumption ==
  /\ Reqs \cap (0 .. MaxJobs) = {}
  /\ Free \notin Reqs \cup (0 .. MaxJobs)

JobIds == 1 .. MaxJobs
NoJob  == 0

Kinds     == {"hardware", "show", "stream"}
ShowKinds == {"show", "stream"}
\* Done and Failed differ in what they report, not in what the daemon does
\* next: both are "Over".
States    == {"none", "Running", "Over", "Cancelled"}

\* What a request asks for: a hardware job; a show kept up by a job; a still
\* frame drawn once; any other command on the link; a pushed frame; DELETE of
\* a job.
Asks  == {"hardware", "show", "still", "command", "frame", "delete"}

VARIABLES
  \* AppState
  holder,    \* who has the link: Free, a job, or the request of a command
  pushing,   \* the stream job POST /show/frame feeds
  next,      \* Jobs.next: ids handed out
  \* Handle, by job id
  kind,
  state,
  cancel,
  done,      \* the value of the `done` watch channel
  worker,
  watcher,
  \* the handlers
  pc,
  ask,
  job        \* the job a handler waits for, then the one it started

handlers == <<pc, ask, job>>
handles  == <<kind, state, cancel, done, worker, watcher>>
app      == <<holder, pushing, next>>
vars     == <<app, handles, handlers>>

-----------------------------------------------------------------------------
Init ==
  /\ holder = Free
  /\ pushing = NoJob
  /\ next = 0
  /\ kind = [j \in JobIds |-> "hardware"]
  /\ state = [j \in JobIds |-> "none"]
  /\ cancel = [j \in JobIds |-> FALSE]
  /\ done = [j \in JobIds |-> FALSE]
  /\ worker = [j \in JobIds |-> "none"]
  /\ watcher = [j \in JobIds |-> "none"]
  /\ pc = [r \in Reqs |-> "idle"]
  /\ ask = [r \in Reqs |-> "command"]
  /\ job = [r \in Reqs |-> NoJob]

Goto(r, from, to) ==
  /\ pc[r] = from
  /\ pc' = [pc EXCEPT ![r] = to]

\* The handler goes from one step to the next, or returns and forgets its
\* locals.
Step(r, from, to) == Goto(r, from, to) /\ UNCHANGED <<ask, job>>

Return(r, from) ==
  /\ Goto(r, from, "idle")
  /\ ask' = [ask EXCEPT ![r] = "command"]
  /\ job' = [job EXCEPT ![r] = NoJob]

-----------------------------------------------------------------------------
(* AppState::acquire, command and start_job. A route that does not draw     *)
(* starts here, from "idle"; a show/* route comes here from cancel_show, at *)
(* "acquire". A 409 to the former changes nothing.                          *)

\* Nobody has the link. (Variant: a check that forgets the commands.)
LinkIsFreeOfJobs == holder \notin JobIds
LinkIsFree == holder = Free

\* The conflict answer of a show/* route.
Conflict(r) ==
  /\ ~LinkIsFree
  /\ Return(r, "acquire")
  /\ UNCHANGED <<app, handles>>

TakeLink(r, from) ==
  /\ LinkIsFree
  /\ Goto(r, from, "busy")
  /\ holder' = r
  /\ UNCHANGED <<pushing, next, handles>>

StartCommand(r) == TakeLink(r, "idle") /\ UNCHANGED <<ask, job>>
StartStill(r)   == ask[r] = "still" /\ TakeLink(r, "acquire") /\ UNCHANGED <<ask, job>>

\* The command's closure ends on the blocking pool, with its guard; then its
\* handler resumes with the result. A still that was drawn is shown next.
EndCommand(r) ==
  /\ Return(r, "busy")
  /\ holder' = Free
  /\ UNCHANGED <<pushing, next, handles>>

EndStill(r) ==
  /\ ask[r] = "still"
  /\ Step(r, "busy", "showing")
  /\ holder' = Free
  /\ UNCHANGED <<pushing, next, handles>>

\* The client of a command went away: its handler is dropped, its closure
\* runs to its end.
EndOrphan(r) ==
  /\ Return(r, "orphan")
  /\ holder' = Free
  /\ UNCHANGED <<pushing, next, handles>>

\* start_job, under the holder lock: the id, the handle and the link.
Register(r, from, k) ==
  /\ LinkIsFree
  /\ next < MaxJobs
  /\ Goto(r, from, "announce")
  /\ next' = next + 1
  /\ holder' = next'
  /\ job' = [job EXCEPT ![r] = next']
  /\ kind' = [kind EXCEPT ![next'] = k]
  /\ state' = [state EXCEPT ![next'] = "Running"]
  /\ UNCHANGED <<pushing, cancel, done, worker, watcher>>

\* (Variant: the job is filed under the name of the route.)
JobKindAsAsked(r) == ask[r]
JobKind(r) == IF ask[r] = "frame" THEN "stream" ELSE "show"

StartHardware(r) ==
  /\ Register(r, "idle", "hardware")
  /\ ask' = [ask EXCEPT ![r] = "hardware"]

StartShow(r) ==
  /\ ask[r] \in {"show", "frame"}
  /\ Register(r, "acquire", JobKind(r))
  /\ UNCHANGED ask

AfterStart(r) ==
  \/ ask[r] = "hardware" /\ Return(r, "announce")
  \/ ask[r] = "show" /\ Step(r, "announce", "showing")
  \/ ask[r] = "frame" /\ Step(r, "announce", "feed")

\* start_job goes on: publish the job, then spawn its watcher and its worker.
Announce(r) ==
  LET j == job[r] IN
  /\ AfterStart(r)
  /\ watcher' = [watcher EXCEPT ![j] = "spawned"]
  /\ worker' = [worker EXCEPT ![j] = "run"]
  /\ UNCHANGED <<app, kind, state, cancel, done>>

\* push_frame keeps the sender for the next frames. The sender it replaces is
\* dropped, which ends that stream.
Feed(r) ==
  /\ Step(r, "feed", "showing")
  /\ pushing' = job[r]
  /\ UNCHANGED <<holder, next, handles>>

\* AppState::showing, the last step of every show/* route.
Showing(r) ==
  /\ Return(r, "showing")
  /\ UNCHANGED <<app, handles>>

-----------------------------------------------------------------------------
(* The show/* routes: AppState::offer for a pushed frame, then cancel_show. *)

\* cancel_show drops the sender first, which ends a pushed stream.
DropPushing(r, a) ==
  /\ Goto(r, "idle", "look")
  /\ pushing' = NoJob
  /\ ask' = [ask EXCEPT ![r] = a]
  /\ UNCHANGED <<job, holder, next, handles>>

ArriveShow(r) == \E a \in {"show", "still"} : DropPushing(r, a)

\* A frame a stream takes changes nothing here. Otherwise (no stream, one that
\* is over, or one of another size, which any stream may be) push_frame goes
\* on to replace the show.
ArriveFrame(r) == DropPushing(r, "frame")

\* show_job's filter. (Variant: any job.)
HeldByJob  == holder \in JobIds
HeldByShow == holder \in JobIds /\ kind[holder] \in ShowKinds

FindShow(r) ==
  /\ HeldByShow
  /\ Goto(r, "look", "cancel")
  /\ job' = [job EXCEPT ![r] = holder]
  /\ UNCHANGED <<ask, app, handles>>

FindNoShow(r) ==
  /\ ~HeldByShow
  /\ Step(r, "look", "acquire")
  /\ UNCHANGED <<app, handles>>

-----------------------------------------------------------------------------
(* delete_job, and the cancel and wait it shares with cancel_show.          *)

\* A job that is not running is only reported, which changes nothing.
ArriveDelete(r) ==
  /\ Goto(r, "idle", "cancel")
  /\ ask' = [ask EXCEPT ![r] = "delete"]
  /\ \E j \in JobIds :
       /\ state[j] = "Running"
       /\ job' = [job EXCEPT ![r] = j]
  /\ UNCHANGED <<app, handles>>

\* Handle::cancel
Cancel(r) ==
  /\ Step(r, "cancel", "subscribe")
  /\ cancel' = [cancel EXCEPT ![job[r]] = TRUE]
  /\ UNCHANGED <<app, kind, state, done, worker, watcher>>

\* Handle::wait takes a receiver on the done channel ...
Subscribe(r) ==
  /\ Step(r, "subscribe", "wait")
  /\ UNCHANGED <<app, handles>>

\* ... and returns once it reads true, dropping the receiver.
WakeShow(r) ==
  /\ pc[r] = "wait" /\ ask[r] # "delete"
  /\ done[job[r]]
  /\ Goto(r, "wait", "acquire")
  /\ job' = [job EXCEPT ![r] = NoJob]
  /\ UNCHANGED <<ask, app, handles>>

WakeDelete(r) ==
  /\ pc[r] = "wait" /\ ask[r] = "delete"
  /\ done[job[r]]
  /\ Return(r, "wait")
  /\ UNCHANGED <<app, handles>>

-----------------------------------------------------------------------------
(* The client closes its connection: its handler is dropped at its await.   *)

GoneWaiting(r) ==
  /\ Return(r, "wait")
  /\ UNCHANGED <<app, handles>>

\* A command other than a still has nothing left to do after its closure, so
\* that its client stays or goes makes no difference.
GoneBusy(r) ==
  /\ ask[r] = "still"
  /\ Step(r, "busy", "orphan")
  /\ UNCHANGED <<app, handles>>

-----------------------------------------------------------------------------
(* jobs::spawn: the worker of a job                                         *)

\* The command returns, whether at its end, with an error, or at a poll that
\* saw the flag; `after` then drops the guard, and the link is free.
\* (Variant: the guard outlives finish.)
WorkerReturnHolding(j) ==
  /\ worker[j] = "run"
  /\ worker' = [worker EXCEPT ![j] = "released"]
  /\ UNCHANGED <<app, kind, state, cancel, done, watcher, handlers>>
WorkerReturn(j) ==
  /\ worker[j] = "run"
  /\ worker' = [worker EXCEPT ![j] = "released"]
  /\ holder' = Free
  /\ UNCHANGED <<pushing, next, kind, state, cancel, done, watcher, handlers>>

\* (Variant: the flag is forgotten.)
OutcomeAsReturned(j) == "Over"
Outcome(j) == IF cancel[j] THEN "Cancelled" ELSE "Over"

\* Handle::finish, the part under the job lock.
WorkerFinish(j) ==
  /\ worker[j] = "released"
  /\ worker' = [worker EXCEPT ![j] = "finished"]
  /\ state' = [state EXCEPT ![j] = Outcome(j)]
  /\ UNCHANGED <<app, kind, cancel, done, watcher, handlers>>

Receivers(j) ==
  {r \in Reqs : pc[r] = "wait" /\ job[r] = j}
    \cup {w \in {j} : watcher[w] = "wait"}

\* Handle::finish, done.send(true): a watch channel with no receiver refuses
\* the value and keeps the old one. (Variant: a cancelled job tells nobody.)
WorkerNotifyUnlessCancelled(j) ==
  /\ worker[j] = "finished"
  /\ worker' = [worker EXCEPT ![j] = "stopped"]
  /\ done' = [done EXCEPT ![j] = Receivers(j) # {} /\ ~cancel[j]]
  /\ UNCHANGED <<app, kind, state, cancel, watcher, handlers>>
WorkerNotify(j) ==
  /\ worker[j] = "finished"
  /\ worker' = [worker EXCEPT ![j] = "stopped"]
  /\ done' = [done EXCEPT ![j] = Receivers(j) # {}]
  /\ UNCHANGED <<app, kind, state, cancel, watcher, handlers>>

-----------------------------------------------------------------------------
(* The watcher start_job spawns: wait for the end, publish it.              *)

WatcherSubscribe(j) ==
  /\ watcher[j] = "spawned"
  /\ watcher' = [watcher EXCEPT ![j] = "wait"]
  /\ UNCHANGED <<app, kind, state, cancel, done, worker, handlers>>

\* (Variant: in the hook that releases the link.)
WatcherPublishAtRelease(j) ==
  /\ watcher[j] = "wait"
  /\ worker[j] = "released"
  /\ watcher' = [watcher EXCEPT ![j] = "gone"]
  /\ UNCHANGED <<app, kind, state, cancel, done, worker, handlers>>
WatcherPublish(j) ==
  /\ watcher[j] = "wait"
  /\ done[j]
  /\ watcher' = [watcher EXCEPT ![j] = "gone"]
  /\ UNCHANGED <<app, kind, state, cancel, done, worker, handlers>>

-----------------------------------------------------------------------------
Arrive(r) ==
  \/ StartCommand(r) \/ StartHardware(r)
  \/ ArriveShow(r) \/ ArriveFrame(r) \/ ArriveDelete(r)

Go(r) ==
  \/ FindShow(r) \/ FindNoShow(r)
  \/ Cancel(r) \/ Subscribe(r) \/ WakeShow(r) \/ WakeDelete(r)
  \/ Conflict(r) \/ StartStill(r) \/ EndCommand(r) \/ EndStill(r) \/ EndOrphan(r)
  \/ StartShow(r) \/ Feed(r)

\* Announce, Showing and WatcherPublish write the live state: DaemonLive adds
\* what they write.
Handle(r) == Go(r) \/ Announce(r) \/ Showing(r)

Gone(r) == GoneWaiting(r) \/ GoneBusy(r)

Finish(j) == WorkerFinish(j) \/ WorkerNotify(j)
Watch(j)  == WatcherSubscribe(j) \/ WatcherPublish(j)

Next ==
  \/ \E r \in Reqs : Arrive(r) \/ Handle(r) \/ Gone(r)
  \/ \E j \in JobIds : WorkerReturn(j) \/ Finish(j) \/ Watch(j)

Spec == Init /\ [][Next]_vars

-----------------------------------------------------------------------------
(* Properties.                                                              *)

\* Every variable holds a value of its type.
TypeOK ==
  /\ holder \in {Free} \cup JobIds \cup Reqs
  /\ pushing \in JobIds \cup {NoJob}
  /\ next \in 0 .. MaxJobs
  /\ kind \in [JobIds -> Kinds]
  /\ state \in [JobIds -> States]
  /\ cancel \in [JobIds -> BOOLEAN]
  /\ done \in [JobIds -> BOOLEAN]
  /\ worker \in [JobIds -> {"none", "run", "released", "finished", "stopped"}]
  /\ watcher \in [JobIds -> {"none", "spawned", "wait", "gone"}]
  /\ pc \in [Reqs -> {"idle", "look", "cancel", "subscribe", "wait", "acquire",
                      "busy", "orphan", "announce", "feed", "showing"}]
  /\ ask \in [Reqs -> Asks]
  /\ job \in [Reqs -> JobIds \cup {NoJob}]

\* Who holds a Guard: the closure of a command, a handler between taking the
\* link for a job and starting its worker, a worker that has not returned.
CommandGuards == {r \in Reqs : pc[r] \in {"busy", "orphan"}}
StartGuards   == {r \in Reqs : pc[r] = "announce"}
WorkerGuards  == {j \in JobIds : worker[j] = "run"}

\* One owner of the link: whatever has a guard is the holder, and the holder
\* has a guard, so two workers or commands never drive the cards at once and
\* the link is never left held by nobody (holder, Guard and its Drop).
LinkHasOneOwner ==
  /\ \A r \in CommandGuards : holder = r
  /\ \A r \in StartGuards : holder = job[r]
  /\ \A j \in WorkerGuards : holder = j
  /\ holder \in Reqs => holder \in CommandGuards
  /\ holder \in JobIds =>
       holder \in WorkerGuards \/ \E r \in StartGuards : job[r] = holder

\* "The id is taken only once the link is free, so a 409 burns none": the
\* jobs that exist are exactly those numbered up to the counter.
NoIdBurned == \A j \in JobIds : state[j] # "none" <=> j <= next

\* A job that has left Running has left the link: a client that sees it over
\* never meets its worker on the cards (`after` runs before finish).
OverMeansOffTheLink ==
  \A j \in JobIds : state[j] \in {"Over", "Cancelled"} => holder # j

\* "provision, firmware/install, flash/* are never cancelled implicitly": the
\* flag of a hardware job is raised by a DELETE and by nothing else.
HardwareCancelledOnlyByDelete ==
  [][\A j \in JobIds :
       kind[j] = "hardware" /\ ~cancel[j] /\ cancel'[j] =>
         \E r \in Reqs : ask[r] = "delete" /\ job[r] = j]_vars

\* What the sources say of the daemon and the code does not do:

\* "Record the worker's result and wake everyone waiting on it": nobody is
\* still waiting for a worker that has stopped without raising `done`.
NobodyWaitsForAStoppedWorker ==
  \A r \in Reqs : pc[r] = "wait" /\ worker[job[r]] = "stopped" => done[job[r]]

=============================================================================
