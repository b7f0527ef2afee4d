----------------------------- MODULE DaemonLive -----------------------------
(***************************************************************************)
(* Daemon with the part of Live (crates/daemon/src/live.rs) that follows    *)
(* the jobs: the newest job's line and what is on the panel, as             *)
(* `GET /state` returns them. The brightness is Settings's, the delivery    *)
(* of the changes to subscribers is LiveEvents's.                           *)
(***************************************************************************)
EXTENDS Daemon

VARIABLES
  liveJob,    \* State.job: its id
  liveState,  \*            and the state it is shown in
  show        \* State.show: whether something is up, and the job that keeps it

live     == <<liveJob, liveState, show>>
liveVars == <<vars, live>>

NoShow == [up |-> FALSE, by |-> NoJob]

LiveInit ==
  /\ Init
  /\ liveJob = NoJob
  /\ liveState = "none"
  /\ show = NoShow

-----------------------------------------------------------------------------
\* Live::job: the job's line, and the end of the show it kept on the panel.
\* The handle is read before the live state is locked, but what it says is by
\* then settled: Running before the worker exists, final once `done` is up.
\* (Variant: any job's end takes the show down.)
PublishJobClearing(j) ==
  /\ liveJob' = j
  /\ liveState' = state[j]
  /\ show' = IF state[j] # "Running" THEN NoShow ELSE show
PublishJob(j) ==
  /\ liveJob' = j
  /\ liveState' = state[j]
  /\ show' = IF state[j] # "Running" /\ show.by = j THEN NoShow ELSE show

\* start_job
AnnounceLive(r) == Announce(r) /\ PublishJob(job[r])

\* AppState::showing
ShowingLive(r) ==
  /\ Showing(r)
  /\ show' = [up |-> TRUE, by |-> IF ask[r] = "still" THEN NoJob ELSE job[r]]
  /\ UNCHANGED <<liveJob, liveState>>

WatcherPublishLive(j) == WatcherPublish(j) /\ PublishJob(j)

Silent ==
  /\ \/ \E r \in Reqs : Arrive(r) \/ Go(r) \/ Gone(r)
     \/ \E j \in JobIds : WorkerReturn(j) \/ Finish(j) \/ WatcherSubscribe(j)
  /\ UNCHANGED live

LiveNext ==
  \/ \E r \in Reqs : AnnounceLive(r) \/ ShowingLive(r)
  \/ \E j \in JobIds : WatcherPublishLive(j)
  \/ Silent

LiveSpec == LiveInit /\ [][LiveNext]_liveVars

\* The runtime polls every ready task and the blocking pool runs every
\* closure. A command ends by itself (its waits are bounded); a job ends once
\* it polls the cancel flag (a hold or a looping video never ends otherwise).
\* Clients are under no obligation.
LiveFairness ==
  /\ \A r \in Reqs :
       /\ WF_liveVars(Go(r) /\ UNCHANGED live)
       /\ WF_liveVars(AnnounceLive(r) \/ ShowingLive(r))
  /\ \A j \in JobIds :
       /\ WF_liveVars(cancel[j] /\ WorkerReturn(j) /\ UNCHANGED live)
       /\ WF_liveVars(Finish(j) /\ UNCHANGED live)
       /\ WF_liveVars(WatcherSubscribe(j) /\ UNCHANGED live)
       /\ WF_liveVars(WatcherPublishLive(j))

LiveFairSpec == LiveSpec /\ LiveFairness

-----------------------------------------------------------------------------
(* Properties.                                                              *)

\* The live state names a job, a state a job can be in and a show.
LiveTypeOK ==
  /\ liveJob \in JobIds \cup {NoJob}
  /\ liveState \in States
  /\ show \in [up : BOOLEAN, by : JobIds \cup {NoJob}]

\* Once its watcher has published a job's end, the live state never again
\* shows that job as running ("read after `finish`, not in the `after` hook").
WatcherToldTheEnd ==
  \A j \in JobIds :
    watcher[j] = "gone" /\ liveJob = j => liveState = state[j] /\ state[j] # "Running"

\* A show leaves the panel's line only with the end of the job that kept it,
\* or because another show replaced it: a hardware job starting or ending, or
\* an older show's late end, leaves it alone.
ShowLeavesOnlyWithItsJob ==
  [][show.up /\ ~show'.up => show.by # NoJob /\ state[show.by] # "Running"]_liveVars

\* Raising a running job's flag ends the job and frees the link.
CancelEndsTheJob ==
  \A j \in JobIds :
    cancel[j] /\ state[j] = "Running" ~> state[j] = "Cancelled" /\ holder # j

\* A handler that was waiting before its job's worker reached finish goes on.
EarlyWaiterIsWoken ==
  \A r \in Reqs :
    pc[r] = "wait" /\ worker[job[r]] # "stopped" ~> pc[r] # "wait"

=============================================================================
