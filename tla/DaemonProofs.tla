---------------------------- MODULE DaemonProofs ----------------------------
(***************************************************************************)
(* Theorems about Daemon and DaemonLive, for any number of requests and     *)
(* jobs.                                                                    *)
(***************************************************************************)
EXTENDS DaemonLive, TLAPS

USE MaxJobsAssumption, ReqsAssumption DEF JobIds, NoJob

-----------------------------------------------------------------------------
(* The type invariant.                                                      *)

\* Every step keeps every variable of Daemon in its type.
LEMMA TypeStep == TypeOK /\ [Next]_vars => TypeOK'
<1> SUFFICES ASSUME TypeOK, [Next]_vars PROVE TypeOK'
  OBVIOUS
<1> USE DEF TypeOK, Kinds, ShowKinds, States, Asks, app, handles, handlers,
            Goto, Step, Return
<1>1. CASE UNCHANGED vars
  BY <1>1 DEF vars
<1>2. ASSUME NEW r \in Reqs, Arrive(r) PROVE TypeOK'
  <2>1. CASE StartCommand(r)
    BY <2>1 DEF StartCommand, TakeLink
  <2>2. CASE StartHardware(r)
    BY <2>2 DEF StartHardware, Register
  <2>3. CASE ArriveShow(r)
    BY <2>3 DEF ArriveShow, DropPushing
  <2>4. CASE ArriveFrame(r)
    BY <2>4 DEF ArriveFrame, DropPushing
  <2>5. CASE ArriveDelete(r)
    BY <2>5 DEF ArriveDelete
  <2> QED
    BY <1>2, <2>1, <2>2, <2>3, <2>4, <2>5 DEF Arrive
<1>3. ASSUME NEW r \in Reqs, Handle(r) PROVE TypeOK'
  <2>1. CASE FindShow(r)
    BY <2>1 DEF FindShow, HeldByShow
  <2>2. CASE FindNoShow(r)
    BY <2>2 DEF FindNoShow
  <2>3. CASE Cancel(r)
    BY <2>3 DEF Cancel
  <2>4. CASE Subscribe(r)
    BY <2>4 DEF Subscribe
  <2>5. CASE WakeShow(r)
    BY <2>5 DEF WakeShow
  <2>6. CASE WakeDelete(r)
    BY <2>6 DEF WakeDelete
  <2>7. CASE Conflict(r)
    BY <2>7 DEF Conflict
  <2>8. CASE StartStill(r)
    BY <2>8 DEF StartStill, TakeLink
  <2>9. CASE EndCommand(r)
    BY <2>9 DEF EndCommand
  <2>10. CASE EndStill(r)
    BY <2>10 DEF EndStill
  <2>11. CASE EndOrphan(r)
    BY <2>11 DEF EndOrphan
  <2>12. CASE StartShow(r)
    BY <2>12 DEF StartShow, Register, JobKind
  <2>13. CASE Feed(r)
    BY <2>13 DEF Feed
  <2>14. CASE Announce(r)
    BY <2>14, ZenonT(30) DEF Announce, AfterStart
  <2>15. CASE Showing(r)
    BY <2>15 DEF Showing
  <2> QED
    BY <1>3, <2>1, <2>2, <2>3, <2>4, <2>5, <2>6, <2>7, <2>8, <2>9, <2>10,
       <2>11, <2>12, <2>13, <2>14, <2>15 DEF Handle, Go
<1>4. ASSUME NEW r \in Reqs, Gone(r) PROVE TypeOK'
  <2>1. CASE GoneWaiting(r)
    BY <2>1 DEF GoneWaiting
  <2>2. CASE GoneBusy(r)
    BY <2>2 DEF GoneBusy
  <2> QED
    BY <1>4, <2>1, <2>2 DEF Gone
<1>5. ASSUME NEW j \in JobIds, WorkerReturn(j) PROVE TypeOK'
  BY <1>5 DEF WorkerReturn
<1>6. ASSUME NEW j \in JobIds, Finish(j) PROVE TypeOK'
  <2>1. CASE WorkerFinish(j)
    BY <2>1 DEF WorkerFinish, Outcome
  <2>2. CASE WorkerNotify(j)
    BY <2>2 DEF WorkerNotify
  <2> QED
    BY <1>6, <2>1, <2>2 DEF Finish
<1>7. ASSUME NEW j \in JobIds, Watch(j) PROVE TypeOK'
  <2>1. CASE WatcherSubscribe(j)
    BY <2>1 DEF WatcherSubscribe
  <2>2. CASE WatcherPublish(j)
    BY <2>2 DEF WatcherPublish
  <2> QED
    BY <1>7, <2>1, <2>2 DEF Watch
<1> QED
  BY <1>1, <1>2, <1>3, <1>4, <1>5, <1>6, <1>7 DEF Next

\* Type correctness of the daemon's shared state and of its handlers.
THEOREM TypeCorrect == Spec => []TypeOK
<1>1. Init => TypeOK
  BY DEF Init, TypeOK, Kinds, States, Asks
<1> QED
  BY <1>1, TypeStep, PTL DEF Spec

-----------------------------------------------------------------------------
(* The inductive invariant behind the safety properties.                    *)

\* At most one handler stands between taking the link for a job and starting
\* its worker, and that job is registered and has no worker yet.
StartPending ==
  /\ \A r, s \in StartGuards : r = s
  /\ \A r \in StartGuards :
       job[r] \in JobIds /\ state[job[r]] = "Running" /\ worker[job[r]] = "none"

\* A job's state and its worker go together: no worker before the job exists,
\* no end before the worker has returned.
WorkerMatchesState ==
  /\ \A j \in JobIds : state[j] = "none" => worker[j] = "none"
  /\ \A j \in JobIds :
       state[j] \in {"Over", "Cancelled"} => worker[j] \in {"finished", "stopped"}

\* The job a show/* request is about to cancel is a registered show.
CancelTargetsShows ==
  \A r \in Reqs :
    pc[r] = "cancel" /\ ask[r] # "delete" =>
      job[r] \in JobIds /\ job[r] <= next /\ kind[job[r]] \in ShowKinds

\* The strengthening that every step keeps.
LinkInv ==
  /\ TypeOK
  /\ LinkHasOneOwner
  /\ NoIdBurned
  /\ StartPending
  /\ WorkerMatchesState
  /\ CancelTargetsShows

-----------------------------------------------------------------------------
(* Each conjunct is kept by every step.                                     *)

\* Taking the link for a job leaves its handler as the only guard.
LEMMA RegisterOwner ==
  ASSUME LinkInv, NEW r \in Reqs, NEW from, from \notin {"busy", "orphan", "announce"},
         NEW k, Register(r, from, k)
  PROVE  LinkHasOneOwner'
<1>1. CommandGuards = {} /\ StartGuards = {} /\ WorkerGuards = {}
  <2>1. holder \notin Reqs \cup JobIds
    BY DEF Register, LinkIsFree
  <2>2. CommandGuards = {}
    BY <2>1 DEF LinkInv, LinkHasOneOwner, CommandGuards
  <2>3. StartGuards = {}
    BY <2>1 DEF LinkInv, LinkHasOneOwner, StartPending
  <2>4. WorkerGuards = {}
    BY <2>1 DEF LinkInv, LinkHasOneOwner, WorkerGuards
  <2> QED
    BY <2>2, <2>3, <2>4
<1>2. CommandGuards' = {} /\ StartGuards' = {r} /\ WorkerGuards' = {}
  <2>1. pc'[r] = "announce" /\ \A q \in Reqs : q # r => pc'[q] = pc[q]
    BY DEF LinkInv, TypeOK, Register, Goto
  <2>2. worker' = worker
    BY DEF Register
  <2>3. WorkerGuards' = {}
    BY <1>1, <2>2 DEF WorkerGuards
  <2>4. StartGuards' = {r}
    BY <1>1, <2>1 DEF StartGuards
  <2>5. CommandGuards' = {}
    BY <1>1, <2>1 DEF CommandGuards
  <2> QED
    BY <2>3, <2>4, <2>5
<1>3. holder' = next + 1 /\ job'[r] = next + 1 /\ next + 1 \in JobIds
  BY DEF LinkInv, TypeOK, Register
<1>4. holder' \notin Reqs
  BY <1>3
<1> QED
  BY <1>2, <1>3, <1>4 DEF LinkHasOneOwner

\* Every step keeps the holder and the guards in agreement.
LEMMA OwnerStep == LinkInv /\ [Next]_vars => LinkHasOneOwner'
<1> SUFFICES ASSUME LinkInv, [Next]_vars PROVE LinkHasOneOwner'
  OBVIOUS
<1> USE DEF LinkInv, TypeOK, LinkHasOneOwner, StartPending, CommandGuards, StartGuards,
            WorkerGuards,
            app, handles, handlers, Goto, Step, Return
<1>1. CASE UNCHANGED vars
  BY <1>1 DEF vars
<1>2. ASSUME NEW r \in Reqs, Arrive(r) PROVE LinkHasOneOwner'
  <2>1. CASE StartCommand(r)
    BY <2>1 DEF StartCommand, TakeLink, LinkIsFree
  <2>2. CASE StartHardware(r)
    BY <2>2, RegisterOwner DEF StartHardware
  <2>3. CASE ArriveShow(r)
    BY <2>3 DEF ArriveShow, DropPushing
  <2>4. CASE ArriveFrame(r)
    BY <2>4 DEF ArriveFrame, DropPushing
  <2>5. CASE ArriveDelete(r)
    BY <2>5 DEF ArriveDelete
  <2> QED
    BY <1>2, <2>1, <2>2, <2>3, <2>4, <2>5 DEF Arrive
<1>3. ASSUME NEW r \in Reqs, Handle(r) PROVE LinkHasOneOwner'
  <2>1. CASE FindShow(r)
    BY <2>1 DEF FindShow, HeldByShow
  <2>2. CASE FindNoShow(r)
    BY <2>2 DEF FindNoShow
  <2>3. CASE Cancel(r)
    BY <2>3 DEF Cancel
  <2>4. CASE Subscribe(r)
    BY <2>4 DEF Subscribe
  <2>5. CASE WakeShow(r)
    BY <2>5 DEF WakeShow
  <2>6. CASE WakeDelete(r)
    BY <2>6 DEF WakeDelete
  <2>7. CASE Conflict(r)
    BY <2>7 DEF Conflict
  <2>8. CASE StartStill(r)
    BY <2>8 DEF StartStill, TakeLink, LinkIsFree
  <2>9. CASE EndCommand(r)
    BY <2>9 DEF EndCommand
  <2>10. CASE EndStill(r)
    BY <2>10 DEF EndStill
  <2>11. CASE EndOrphan(r)
    BY <2>11 DEF EndOrphan
  <2>12. CASE StartShow(r)
    BY <2>12, RegisterOwner DEF StartShow
  <2>13. CASE Feed(r)
    BY <2>13 DEF Feed
  <2>14. CASE Announce(r)
    <3>1. r \in StartGuards /\ holder = job[r] /\ job[r] \in JobIds
      BY <2>14 DEF Announce, AfterStart
    <3>2. CommandGuards' = CommandGuards /\ StartGuards' = StartGuards \ {r}
      BY <2>14 DEF Announce, AfterStart
    <3>3. WorkerGuards' = WorkerGuards \cup {job[r]}
      BY <3>1, <2>14 DEF Announce
    <3>4. holder' = holder
      BY <2>14 DEF Announce
    <3>5. StartGuards' = {} /\ CommandGuards' = {}
      BY <3>1, <3>2
    <3>6. \A j \in WorkerGuards' : holder' = j
      BY <3>1, <3>3, <3>4
    <3>7. holder' \in WorkerGuards' /\ holder' \notin Reqs
      BY <3>1, <3>3, <3>4
    <3> QED
      BY <3>5, <3>6, <3>7
  <2>15. CASE Showing(r)
    BY <2>15 DEF Showing
  <2> QED
    BY <1>3, <2>1, <2>2, <2>3, <2>4, <2>5, <2>6, <2>7, <2>8, <2>9, <2>10, <2>11, <2>12, <2>13, <2>14, <2>15 DEF Handle, Go
<1>4. ASSUME NEW r \in Reqs, Gone(r) PROVE LinkHasOneOwner'
  <2>1. CASE GoneWaiting(r)
    BY <2>1 DEF GoneWaiting
  <2>2. CASE GoneBusy(r)
    BY <2>2 DEF GoneBusy
  <2> QED
    BY <1>4, <2>1, <2>2 DEF Gone
<1>5. ASSUME NEW j \in JobIds, WorkerReturn(j) PROVE LinkHasOneOwner'
  BY <1>5 DEF WorkerReturn
<1>6. ASSUME NEW j \in JobIds, Finish(j) PROVE LinkHasOneOwner'
  <2>1. CASE WorkerFinish(j)
    BY <2>1 DEF WorkerFinish, Outcome
  <2>2. CASE WorkerNotify(j)
    BY <2>2 DEF WorkerNotify
  <2> QED
    BY <1>6, <2>1, <2>2 DEF Finish
<1>7. ASSUME NEW j \in JobIds, Watch(j) PROVE LinkHasOneOwner'
  <2>1. CASE WatcherSubscribe(j)
    BY <2>1 DEF WatcherSubscribe
  <2>2. CASE WatcherPublish(j)
    BY <2>2 DEF WatcherPublish
  <2> QED
    BY <1>7, <2>1, <2>2 DEF Watch
<1> QED
  BY <1>1, <1>2, <1>3, <1>4, <1>5, <1>6, <1>7 DEF Next

\* A start in progress stays the only one, and its job untouched.
LEMMA PendingStep == LinkInv /\ [Next]_vars => StartPending'
<1> SUFFICES ASSUME LinkInv, [Next]_vars PROVE StartPending'
  OBVIOUS
<1> USE DEF LinkInv, TypeOK, LinkHasOneOwner, StartPending, StartGuards, NoIdBurned,
            WorkerMatchesState,
            app, handles, handlers, Goto, Step, Return
<1>1. CASE UNCHANGED vars
  BY <1>1 DEF vars
<1>2. ASSUME NEW r \in Reqs, Arrive(r) PROVE StartPending'
  <2>1. CASE StartCommand(r)
    BY <2>1 DEF StartCommand, TakeLink, LinkIsFree
  <2>2. CASE StartHardware(r)
    BY <2>2 DEF StartHardware, Register, LinkIsFree
  <2>3. CASE ArriveShow(r)
    BY <2>3 DEF ArriveShow, DropPushing
  <2>4. CASE ArriveFrame(r)
    BY <2>4 DEF ArriveFrame, DropPushing
  <2>5. CASE ArriveDelete(r)
    BY <2>5 DEF ArriveDelete
  <2> QED
    BY <1>2, <2>1, <2>2, <2>3, <2>4, <2>5 DEF Arrive
<1>3. ASSUME NEW r \in Reqs, Handle(r) PROVE StartPending'
  <2>1. CASE FindShow(r)
    BY <2>1 DEF FindShow, HeldByShow
  <2>2. CASE FindNoShow(r)
    BY <2>2 DEF FindNoShow
  <2>3. CASE Cancel(r)
    BY <2>3 DEF Cancel
  <2>4. CASE Subscribe(r)
    BY <2>4 DEF Subscribe
  <2>5. CASE WakeShow(r)
    BY <2>5 DEF WakeShow
  <2>6. CASE WakeDelete(r)
    BY <2>6 DEF WakeDelete
  <2>7. CASE Conflict(r)
    BY <2>7 DEF Conflict
  <2>8. CASE StartStill(r)
    BY <2>8 DEF StartStill, TakeLink, LinkIsFree
  <2>9. CASE EndCommand(r)
    BY <2>9 DEF EndCommand
  <2>10. CASE EndStill(r)
    BY <2>10 DEF EndStill
  <2>11. CASE EndOrphan(r)
    BY <2>11 DEF EndOrphan
  <2>12. CASE StartShow(r)
    BY <2>12 DEF StartShow, Register, LinkIsFree, JobKind
  <2>13. CASE Feed(r)
    BY <2>13 DEF Feed
  <2>14. CASE Announce(r)
    <3>1. StartGuards = {r}
      BY <2>14 DEF Announce, AfterStart
    <3>2. pc'[r] # "announce" /\ \A q \in Reqs : q # r => pc'[q] = pc[q]
      BY <2>14 DEF Announce, AfterStart
    <3>3. StartGuards' = {}
      BY <3>1, <3>2
    <3> QED
      BY <3>3
  <2>15. CASE Showing(r)
    BY <2>15 DEF Showing
  <2> QED
    BY <1>3, <2>1, <2>2, <2>3, <2>4, <2>5, <2>6, <2>7, <2>8, <2>9, <2>10, <2>11, <2>12, <2>13, <2>14, <2>15 DEF Handle, Go
<1>4. ASSUME NEW r \in Reqs, Gone(r) PROVE StartPending'
  <2>1. CASE GoneWaiting(r)
    BY <2>1 DEF GoneWaiting
  <2>2. CASE GoneBusy(r)
    BY <2>2 DEF GoneBusy
  <2> QED
    BY <1>4, <2>1, <2>2 DEF Gone
<1>5. ASSUME NEW j \in JobIds, WorkerReturn(j) PROVE StartPending'
  BY <1>5 DEF WorkerReturn
<1>6. ASSUME NEW j \in JobIds, Finish(j) PROVE StartPending'
  <2>1. CASE WorkerFinish(j)
    BY <2>1 DEF WorkerFinish, Outcome
  <2>2. CASE WorkerNotify(j)
    BY <2>2 DEF WorkerNotify
  <2> QED
    BY <1>6, <2>1, <2>2 DEF Finish
<1>7. ASSUME NEW j \in JobIds, Watch(j) PROVE StartPending'
  <2>1. CASE WatcherSubscribe(j)
    BY <2>1 DEF WatcherSubscribe
  <2>2. CASE WatcherPublish(j)
    BY <2>2 DEF WatcherPublish
  <2> QED
    BY <1>7, <2>1, <2>2 DEF Watch
<1> QED
  BY <1>1, <1>2, <1>3, <1>4, <1>5, <1>6, <1>7 DEF Next

\* Ids are handed out only to jobs.
LEMMA IdStep == LinkInv /\ [Next]_vars => NoIdBurned'
<1> SUFFICES ASSUME LinkInv, [Next]_vars PROVE NoIdBurned'
  OBVIOUS
<1> USE DEF LinkInv, TypeOK, NoIdBurned, States,
            app, handles, handlers, Goto, Step, Return
<1>1. CASE UNCHANGED vars
  BY <1>1 DEF vars
<1>2. ASSUME NEW r \in Reqs, Arrive(r) PROVE NoIdBurned'
  <2>1. CASE StartCommand(r)
    BY <2>1 DEF StartCommand, TakeLink, LinkIsFree
  <2>2. CASE StartHardware(r)
    BY <2>2 DEF StartHardware, Register, LinkIsFree
  <2>3. CASE ArriveShow(r)
    BY <2>3 DEF ArriveShow, DropPushing
  <2>4. CASE ArriveFrame(r)
    BY <2>4 DEF ArriveFrame, DropPushing
  <2>5. CASE ArriveDelete(r)
    BY <2>5 DEF ArriveDelete
  <2> QED
    BY <1>2, <2>1, <2>2, <2>3, <2>4, <2>5 DEF Arrive
<1>3. ASSUME NEW r \in Reqs, Handle(r) PROVE NoIdBurned'
  <2>1. CASE FindShow(r)
    BY <2>1 DEF FindShow, HeldByShow
  <2>2. CASE FindNoShow(r)
    BY <2>2 DEF FindNoShow
  <2>3. CASE Cancel(r)
    BY <2>3 DEF Cancel
  <2>4. CASE Subscribe(r)
    BY <2>4 DEF Subscribe
  <2>5. CASE WakeShow(r)
    BY <2>5 DEF WakeShow
  <2>6. CASE WakeDelete(r)
    BY <2>6 DEF WakeDelete
  <2>7. CASE Conflict(r)
    BY <2>7 DEF Conflict
  <2>8. CASE StartStill(r)
    BY <2>8 DEF StartStill, TakeLink, LinkIsFree
  <2>9. CASE EndCommand(r)
    BY <2>9 DEF EndCommand
  <2>10. CASE EndStill(r)
    BY <2>10 DEF EndStill
  <2>11. CASE EndOrphan(r)
    BY <2>11 DEF EndOrphan
  <2>12. CASE StartShow(r)
    BY <2>12 DEF StartShow, Register, LinkIsFree, JobKind
  <2>13. CASE Feed(r)
    BY <2>13 DEF Feed
  <2>14. CASE Announce(r)
    BY <2>14 DEF Announce, AfterStart
  <2>15. CASE Showing(r)
    BY <2>15 DEF Showing
  <2> QED
    BY <1>3, <2>1, <2>2, <2>3, <2>4, <2>5, <2>6, <2>7, <2>8, <2>9, <2>10, <2>11, <2>12, <2>13, <2>14, <2>15 DEF Handle, Go
<1>4. ASSUME NEW r \in Reqs, Gone(r) PROVE NoIdBurned'
  <2>1. CASE GoneWaiting(r)
    BY <2>1 DEF GoneWaiting
  <2>2. CASE GoneBusy(r)
    BY <2>2 DEF GoneBusy
  <2> QED
    BY <1>4, <2>1, <2>2 DEF Gone
<1>5. ASSUME NEW j \in JobIds, WorkerReturn(j) PROVE NoIdBurned'
  BY <1>5 DEF WorkerReturn
<1>6. ASSUME NEW j \in JobIds, Finish(j) PROVE NoIdBurned'
  <2>1. CASE WorkerFinish(j)
    <3>1. Outcome(j) # "none" /\ state[j] # "none"
      BY <2>1 DEF WorkerFinish, Outcome, WorkerMatchesState
    <3> QED
      BY <3>1, <2>1 DEF WorkerFinish
  <2>2. CASE WorkerNotify(j)
    BY <2>2 DEF WorkerNotify
  <2> QED
    BY <1>6, <2>1, <2>2 DEF Finish
<1>7. ASSUME NEW j \in JobIds, Watch(j) PROVE NoIdBurned'
  <2>1. CASE WatcherSubscribe(j)
    BY <2>1 DEF WatcherSubscribe
  <2>2. CASE WatcherPublish(j)
    BY <2>2 DEF WatcherPublish
  <2> QED
    BY <1>7, <2>1, <2>2 DEF Watch
<1> QED
  BY <1>1, <1>2, <1>3, <1>4, <1>5, <1>6, <1>7 DEF Next

\* A worker and its job's state move together.
LEMMA WorkerStep == LinkInv /\ [Next]_vars => WorkerMatchesState'
<1> SUFFICES ASSUME LinkInv, [Next]_vars PROVE WorkerMatchesState'
  OBVIOUS
<1> USE DEF LinkInv, TypeOK, WorkerMatchesState, StartPending, StartGuards, NoIdBurned, States,
            app, handles, handlers, Goto, Step, Return
<1>1. CASE UNCHANGED vars
  BY <1>1 DEF vars
<1>2. ASSUME NEW r \in Reqs, Arrive(r) PROVE WorkerMatchesState'
  <2>1. CASE StartCommand(r)
    BY <2>1 DEF StartCommand, TakeLink, LinkIsFree
  <2>2. CASE StartHardware(r)
    BY <2>2 DEF StartHardware, Register, LinkIsFree
  <2>3. CASE ArriveShow(r)
    BY <2>3 DEF ArriveShow, DropPushing
  <2>4. CASE ArriveFrame(r)
    BY <2>4 DEF ArriveFrame, DropPushing
  <2>5. CASE ArriveDelete(r)
    BY <2>5 DEF ArriveDelete
  <2> QED
    BY <1>2, <2>1, <2>2, <2>3, <2>4, <2>5 DEF Arrive
<1>3. ASSUME NEW r \in Reqs, Handle(r) PROVE WorkerMatchesState'
  <2>1. CASE FindShow(r)
    BY <2>1 DEF FindShow, HeldByShow
  <2>2. CASE FindNoShow(r)
    BY <2>2 DEF FindNoShow
  <2>3. CASE Cancel(r)
    BY <2>3 DEF Cancel
  <2>4. CASE Subscribe(r)
    BY <2>4 DEF Subscribe
  <2>5. CASE WakeShow(r)
    BY <2>5 DEF WakeShow
  <2>6. CASE WakeDelete(r)
    BY <2>6 DEF WakeDelete
  <2>7. CASE Conflict(r)
    BY <2>7 DEF Conflict
  <2>8. CASE StartStill(r)
    BY <2>8 DEF StartStill, TakeLink, LinkIsFree
  <2>9. CASE EndCommand(r)
    BY <2>9 DEF EndCommand
  <2>10. CASE EndStill(r)
    BY <2>10 DEF EndStill
  <2>11. CASE EndOrphan(r)
    BY <2>11 DEF EndOrphan
  <2>12. CASE StartShow(r)
    BY <2>12 DEF StartShow, Register, LinkIsFree, JobKind
  <2>13. CASE Feed(r)
    BY <2>13 DEF Feed
  <2>14. CASE Announce(r)
    BY <2>14 DEF Announce, AfterStart
  <2>15. CASE Showing(r)
    BY <2>15 DEF Showing
  <2> QED
    BY <1>3, <2>1, <2>2, <2>3, <2>4, <2>5, <2>6, <2>7, <2>8, <2>9, <2>10, <2>11, <2>12, <2>13, <2>14, <2>15 DEF Handle, Go
<1>4. ASSUME NEW r \in Reqs, Gone(r) PROVE WorkerMatchesState'
  <2>1. CASE GoneWaiting(r)
    BY <2>1 DEF GoneWaiting
  <2>2. CASE GoneBusy(r)
    BY <2>2 DEF GoneBusy
  <2> QED
    BY <1>4, <2>1, <2>2 DEF Gone
<1>5. ASSUME NEW j \in JobIds, WorkerReturn(j) PROVE WorkerMatchesState'
  BY <1>5, ZenonT(30) DEF WorkerReturn
<1>6. ASSUME NEW j \in JobIds, Finish(j) PROVE WorkerMatchesState'
  <2>1. CASE WorkerFinish(j)
    <3>1. Outcome(j) \in {"Over", "Cancelled"}
      BY DEF Outcome
    <3>2. state' = [state EXCEPT ![j] = Outcome(j)] /\ worker' = [worker EXCEPT ![j] = "finished"]
      BY <2>1 DEF WorkerFinish
    <3> QED
      BY <3>1, <3>2
  <2>2. CASE WorkerNotify(j)
    BY <2>2 DEF WorkerNotify
  <2> QED
    BY <1>6, <2>1, <2>2 DEF Finish
<1>7. ASSUME NEW j \in JobIds, Watch(j) PROVE WorkerMatchesState'
  <2>1. CASE WatcherSubscribe(j)
    BY <2>1 DEF WatcherSubscribe
  <2>2. CASE WatcherPublish(j)
    BY <2>2 DEF WatcherPublish
  <2> QED
    BY <1>7, <2>1, <2>2 DEF Watch
<1> QED
  BY <1>1, <1>2, <1>3, <1>4, <1>5, <1>6, <1>7 DEF Next

\* What a show/* request looked up stays a registered show until it cancels it.
LEMMA TargetStep == LinkInv /\ [Next]_vars => CancelTargetsShows'
<1> SUFFICES ASSUME LinkInv, [Next]_vars PROVE CancelTargetsShows'
  OBVIOUS
<1> USE DEF LinkInv, TypeOK, CancelTargetsShows, NoIdBurned,
            app, handles, handlers, Goto, Step, Return
<1>1. CASE UNCHANGED vars
  BY <1>1 DEF vars
<1>2. ASSUME NEW r \in Reqs, Arrive(r) PROVE CancelTargetsShows'
  <2>1. CASE StartCommand(r)
    BY <2>1 DEF StartCommand, TakeLink, LinkIsFree
  <2>2. CASE StartHardware(r)
    BY <2>2 DEF StartHardware, Register, LinkIsFree
  <2>3. CASE ArriveShow(r)
    BY <2>3 DEF ArriveShow, DropPushing
  <2>4. CASE ArriveFrame(r)
    BY <2>4 DEF ArriveFrame, DropPushing
  <2>5. CASE ArriveDelete(r)
    BY <2>5 DEF ArriveDelete
  <2> QED
    BY <1>2, <2>1, <2>2, <2>3, <2>4, <2>5 DEF Arrive
<1>3. ASSUME NEW r \in Reqs, Handle(r) PROVE CancelTargetsShows'
  <2>1. CASE FindShow(r)
    <3>1. holder \in JobIds /\ kind[holder] \in ShowKinds
      BY <2>1 DEF FindShow, HeldByShow
    <3>2. state[holder] # "none"
      BY <3>1 DEF LinkHasOneOwner, WorkerGuards, StartGuards, StartPending, WorkerMatchesState
    <3>3. holder <= next
      BY <3>1, <3>2
    <3> QED
      BY <2>1, <3>1, <3>3 DEF FindShow
  <2>2. CASE FindNoShow(r)
    BY <2>2 DEF FindNoShow
  <2>3. CASE Cancel(r)
    BY <2>3 DEF Cancel
  <2>4. CASE Subscribe(r)
    BY <2>4 DEF Subscribe
  <2>5. CASE WakeShow(r)
    BY <2>5 DEF WakeShow
  <2>6. CASE WakeDelete(r)
    BY <2>6 DEF WakeDelete
  <2>7. CASE Conflict(r)
    BY <2>7 DEF Conflict
  <2>8. CASE StartStill(r)
    BY <2>8 DEF StartStill, TakeLink, LinkIsFree
  <2>9. CASE EndCommand(r)
    BY <2>9 DEF EndCommand
  <2>10. CASE EndStill(r)
    BY <2>10 DEF EndStill
  <2>11. CASE EndOrphan(r)
    BY <2>11 DEF EndOrphan
  <2>12. CASE StartShow(r)
    BY <2>12 DEF StartShow, Register, LinkIsFree, JobKind
  <2>13. CASE Feed(r)
    BY <2>13 DEF Feed
  <2>14. CASE Announce(r)
    BY <2>14, ZenonT(30) DEF Announce, AfterStart
  <2>15. CASE Showing(r)
    BY <2>15 DEF Showing
  <2> QED
    BY <1>3, <2>1, <2>2, <2>3, <2>4, <2>5, <2>6, <2>7, <2>8, <2>9, <2>10, <2>11, <2>12, <2>13, <2>14, <2>15 DEF Handle, Go
<1>4. ASSUME NEW r \in Reqs, Gone(r) PROVE CancelTargetsShows'
  <2>1. CASE GoneWaiting(r)
    BY <2>1 DEF GoneWaiting
  <2>2. CASE GoneBusy(r)
    BY <2>2 DEF GoneBusy
  <2> QED
    BY <1>4, <2>1, <2>2 DEF Gone
<1>5. ASSUME NEW j \in JobIds, WorkerReturn(j) PROVE CancelTargetsShows'
  BY <1>5 DEF WorkerReturn
<1>6. ASSUME NEW j \in JobIds, Finish(j) PROVE CancelTargetsShows'
  <2>1. CASE WorkerFinish(j)
    BY <2>1 DEF WorkerFinish, Outcome
  <2>2. CASE WorkerNotify(j)
    BY <2>2 DEF WorkerNotify
  <2> QED
    BY <1>6, <2>1, <2>2 DEF Finish
<1>7. ASSUME NEW j \in JobIds, Watch(j) PROVE CancelTargetsShows'
  <2>1. CASE WatcherSubscribe(j)
    BY <2>1 DEF WatcherSubscribe
  <2>2. CASE WatcherPublish(j)
    BY <2>2 DEF WatcherPublish
  <2> QED
    BY <1>7, <2>1, <2>2 DEF Watch
<1> QED
  BY <1>1, <1>2, <1>3, <1>4, <1>5, <1>6, <1>7 DEF Next

-----------------------------------------------------------------------------
(* The theorems.                                                            *)

\* LinkInv is inductive: it holds at first ...
LEMMA InitLink == Init => LinkInv
<1> SUFFICES ASSUME Init PROVE LinkInv
  OBVIOUS
<1>1. TypeOK
  BY DEF Init, TypeOK, Kinds, States, Asks
<1>2. LinkHasOneOwner /\ StartPending
  BY DEF Init, LinkHasOneOwner, StartPending, CommandGuards, StartGuards, WorkerGuards
<1>3. NoIdBurned /\ WorkerMatchesState /\ CancelTargetsShows
  BY DEF Init, NoIdBurned, WorkerMatchesState, CancelTargetsShows
<1> QED
  BY <1>1, <1>2, <1>3 DEF LinkInv

\* ... and every step keeps it.
LEMMA LinkStep == LinkInv /\ [Next]_vars => LinkInv'
BY TypeStep, OwnerStep, PendingStep, IdStep, WorkerStep, TargetStep DEF LinkInv

\* LinkInv holds in every reachable state.
THEOREM LinkInvariant == Spec => []LinkInv
BY InitLink, LinkStep, PTL DEF Spec

\* The link has one owner at a time and is never left held by nobody.
THEOREM OneOwner == Spec => []LinkHasOneOwner
BY LinkInvariant, PTL DEF LinkInv

\* A 409 consumes no job id.
THEOREM IdsAreDense == Spec => []NoIdBurned
BY LinkInvariant, PTL DEF LinkInv

\* A job that has left Running has left the link.
THEOREM OverIsOff == Spec => []OverMeansOffTheLink
<1>1. LinkInv => OverMeansOffTheLink
  BY DEF LinkInv, OverMeansOffTheLink, LinkHasOneOwner, WorkerGuards, StartGuards,
         StartPending, WorkerMatchesState
<1> QED
  BY <1>1, LinkInvariant, PTL

\* The only step that raises a job's cancel flag is a handler's Cancel.
LEMMA OnlyCancelRaises ==
  ASSUME [Next]_vars, cancel' # cancel
  PROVE  \E r \in Reqs : Cancel(r)
<1> USE DEF app, handles, handlers
<1>1. ASSUME NEW r \in Reqs, Arrive(r) PROVE FALSE
  BY <1>1 DEF Arrive, StartCommand, TakeLink, StartHardware, Register, ArriveShow,
              ArriveFrame, DropPushing, ArriveDelete
<1>2. ASSUME NEW r \in Reqs, Handle(r) PROVE Cancel(r)
  BY <1>2 DEF Handle, Go, FindShow, FindNoShow, Subscribe, WakeShow, WakeDelete, Conflict,
              StartStill, TakeLink, EndCommand, EndStill, EndOrphan, StartShow, Register,
              Feed, Announce, Showing
<1>3. ASSUME NEW r \in Reqs, Gone(r) PROVE FALSE
  BY <1>3 DEF Gone, GoneWaiting, GoneBusy
<1>4. ASSUME NEW j \in JobIds, WorkerReturn(j) \/ Finish(j) \/ Watch(j) PROVE FALSE
  BY <1>4 DEF WorkerReturn, Finish, WorkerFinish, WorkerNotify, Watch, WatcherSubscribe,
              WatcherPublish
<1> QED
  BY <1>1, <1>2, <1>3, <1>4 DEF Next, vars

\* A hardware job is never cancelled implicitly.
THEOREM HardwareSafeFromShows == Spec => HardwareCancelledOnlyByDelete
<1>1. ASSUME LinkInv, [Next]_vars, NEW j \in JobIds,
             kind[j] = "hardware", ~cancel[j], cancel'[j]
      PROVE  \E r \in Reqs : ask[r] = "delete" /\ job[r] = j
  <2>1. PICK r \in Reqs : Cancel(r)
    BY <1>1, OnlyCancelRaises
  <2>2. pc[r] = "cancel" /\ job[r] = j
    BY <1>1, <2>1 DEF Cancel, Step, Goto, LinkInv, TypeOK
  <2>3. ask[r] = "delete"
    BY <1>1, <2>2 DEF LinkInv, CancelTargetsShows, ShowKinds
  <2> QED
    BY <2>2, <2>3
<1>2. LinkInv /\ [Next]_vars =>
        [\A j \in JobIds :
           kind[j] = "hardware" /\ ~cancel[j] /\ cancel'[j] =>
             \E r \in Reqs : ask[r] = "delete" /\ job[r] = j]_vars
  BY <1>1
<1> QED
  BY <1>2, LinkInvariant, PTL DEF Spec, HardwareCancelledOnlyByDelete

-----------------------------------------------------------------------------
(* The live state.                                                          *)

\* What is told of a job once its end was recorded: its state is final, its
\* `done` channel says true only after that, and its watcher, which waits for
\* the channel, publishes later still.
EndInv ==
  \A j \in JobIds :
    /\ worker[j] \in {"finished", "stopped"} => state[j] \in {"Over", "Cancelled"}
    /\ done[j] => worker[j] = "stopped"
    /\ watcher[j] = "gone" => worker[j] = "stopped"

\* No step takes back the end of a job.
LEMMA EndStep == LinkInv /\ EndInv /\ [Next]_vars => EndInv'
<1> SUFFICES ASSUME LinkInv, EndInv, [Next]_vars PROVE EndInv'
  OBVIOUS
<1> USE DEF LinkInv, TypeOK, EndInv, WorkerMatchesState, StartPending, StartGuards, NoIdBurned,
            app, handles, handlers, Goto, Step, Return
<1>1. CASE UNCHANGED vars
  BY <1>1 DEF vars
<1>2. ASSUME NEW r \in Reqs, Arrive(r) PROVE EndInv'
  <2>1. CASE StartCommand(r)
    BY <2>1 DEF StartCommand, TakeLink, LinkIsFree
  <2>2. CASE StartHardware(r)
    BY <2>2 DEF StartHardware, Register, LinkIsFree
  <2>3. CASE ArriveShow(r)
    BY <2>3 DEF ArriveShow, DropPushing
  <2>4. CASE ArriveFrame(r)
    BY <2>4 DEF ArriveFrame, DropPushing
  <2>5. CASE ArriveDelete(r)
    BY <2>5 DEF ArriveDelete
  <2> QED
    BY <1>2, <2>1, <2>2, <2>3, <2>4, <2>5 DEF Arrive
<1>3. ASSUME NEW r \in Reqs, Handle(r) PROVE EndInv'
  <2>1. CASE FindShow(r)
    BY <2>1 DEF FindShow, HeldByShow
  <2>2. CASE FindNoShow(r)
    BY <2>2 DEF FindNoShow
  <2>3. CASE Cancel(r)
    BY <2>3 DEF Cancel
  <2>4. CASE Subscribe(r)
    BY <2>4 DEF Subscribe
  <2>5. CASE WakeShow(r)
    BY <2>5 DEF WakeShow
  <2>6. CASE WakeDelete(r)
    BY <2>6 DEF WakeDelete
  <2>7. CASE Conflict(r)
    BY <2>7 DEF Conflict
  <2>8. CASE StartStill(r)
    BY <2>8 DEF StartStill, TakeLink, LinkIsFree
  <2>9. CASE EndCommand(r)
    BY <2>9 DEF EndCommand
  <2>10. CASE EndStill(r)
    BY <2>10 DEF EndStill
  <2>11. CASE EndOrphan(r)
    BY <2>11 DEF EndOrphan
  <2>12. CASE StartShow(r)
    BY <2>12 DEF StartShow, Register, LinkIsFree, JobKind
  <2>13. CASE Feed(r)
    BY <2>13 DEF Feed
  <2>14. CASE Announce(r)
    BY <2>14 DEF Announce, AfterStart
  <2>15. CASE Showing(r)
    BY <2>15 DEF Showing
  <2> QED
    BY <1>3, <2>1, <2>2, <2>3, <2>4, <2>5, <2>6, <2>7, <2>8, <2>9, <2>10, <2>11, <2>12, <2>13, <2>14, <2>15 DEF Handle, Go
<1>4. ASSUME NEW r \in Reqs, Gone(r) PROVE EndInv'
  <2>1. CASE GoneWaiting(r)
    BY <2>1 DEF GoneWaiting
  <2>2. CASE GoneBusy(r)
    BY <2>2 DEF GoneBusy
  <2> QED
    BY <1>4, <2>1, <2>2 DEF Gone
<1>5. ASSUME NEW j \in JobIds, WorkerReturn(j) PROVE EndInv'
  BY <1>5 DEF WorkerReturn
<1>6. ASSUME NEW j \in JobIds, Finish(j) PROVE EndInv'
  <2>1. CASE WorkerFinish(j)
    <3>1. Outcome(j) \in {"Over", "Cancelled"}
      BY DEF Outcome
    <3>2. state' = [state EXCEPT ![j] = Outcome(j)] /\ worker' = [worker EXCEPT ![j] = "finished"]
      BY <2>1 DEF WorkerFinish
    <3> QED
      BY <3>1, <3>2, <2>1 DEF WorkerFinish
  <2>2. CASE WorkerNotify(j)
    BY <2>2 DEF WorkerNotify
  <2> QED
    BY <1>6, <2>1, <2>2 DEF Finish
<1>7. ASSUME NEW j \in JobIds, Watch(j) PROVE EndInv'
  <2>1. CASE WatcherSubscribe(j)
    BY <2>1 DEF WatcherSubscribe
  <2>2. CASE WatcherPublish(j)
    BY <2>2 DEF WatcherPublish
  <2> QED
    BY <1>7, <2>1, <2>2 DEF Watch
<1> QED
  BY <1>1, <1>2, <1>3, <1>4, <1>5, <1>6, <1>7 DEF Next

\* What was settled stays: a job whose watcher has published its end keeps its
\* state, and only WatcherPublish makes a watcher publish.
LEMMA EndIsFinal ==
  ASSUME LinkInv, EndInv, [Next]_vars, NEW j \in JobIds, watcher[j] = "gone"
  PROVE  state'[j] = state[j]
<1> USE DEF LinkInv, TypeOK, EndInv, app, handles, handlers
<1>1. worker[j] = "stopped" /\ state[j] \in {"Over", "Cancelled"} /\ j <= next
  BY DEF NoIdBurned
<1>2. CASE UNCHANGED vars
  BY <1>2 DEF vars
<1>3. ASSUME NEW r \in Reqs, Arrive(r) PROVE state'[j] = state[j]
  BY <1>1, <1>3 DEF Arrive, StartCommand, TakeLink, StartHardware, Register, ArriveShow,
                    ArriveFrame, DropPushing, ArriveDelete
<1>4. ASSUME NEW r \in Reqs, Handle(r) PROVE state'[j] = state[j]
  BY <1>1, <1>4 DEF Handle, Go, FindShow, FindNoShow, Cancel, Subscribe, WakeShow, WakeDelete,
                    Conflict, StartStill, TakeLink, EndCommand, EndStill, EndOrphan, StartShow,
                    Register, Feed, Announce, Showing
<1>5. ASSUME NEW r \in Reqs, Gone(r) PROVE state'[j] = state[j]
  BY <1>5 DEF Gone, GoneWaiting, GoneBusy
<1>6. ASSUME NEW i \in JobIds, WorkerReturn(i) \/ Finish(i) \/ Watch(i)
      PROVE  state'[j] = state[j]
  BY <1>1, <1>6 DEF WorkerReturn, Finish, WorkerFinish, WorkerNotify, Watch,
                    WatcherSubscribe, WatcherPublish
<1> QED
  BY <1>2, <1>3, <1>4, <1>5, <1>6 DEF Next

\* A silent step makes no watcher publish.
LEMMA SilentIsSilent ==
  ASSUME Silent, NEW j \in JobIds, watcher'[j] = "gone", TypeOK
  PROVE  watcher[j] = "gone"
<1> USE DEF TypeOK, app, handles, handlers
<1>1. ASSUME NEW r \in Reqs, Arrive(r) PROVE watcher' = watcher
  BY <1>1 DEF Arrive, StartCommand, TakeLink, StartHardware, Register, ArriveShow,
              ArriveFrame, DropPushing, ArriveDelete
<1>2. ASSUME NEW r \in Reqs, Go(r) PROVE watcher' = watcher
  BY <1>2 DEF Go, FindShow, FindNoShow, Cancel, Subscribe, WakeShow, WakeDelete,
              Conflict, StartStill, TakeLink, EndCommand, EndStill, EndOrphan, StartShow,
              Register, Feed
<1>3. ASSUME NEW r \in Reqs, Gone(r) PROVE watcher' = watcher
  BY <1>3 DEF Gone, GoneWaiting, GoneBusy
<1>4. ASSUME NEW i \in JobIds, WorkerReturn(i) \/ Finish(i) PROVE watcher' = watcher
  BY <1>4 DEF WorkerReturn, Finish, WorkerFinish, WorkerNotify
<1>5. ASSUME NEW i \in JobIds, WatcherSubscribe(i)
      PROVE  watcher' = [watcher EXCEPT ![i] = "wait"]
  BY <1>5 DEF WatcherSubscribe
<1> QED
  BY <1>1, <1>2, <1>3, <1>4, <1>5 DEF Silent

\* Every step that writes the live state is a step of Daemon.
LEMMA LiveStepIsAStep == [LiveNext]_liveVars => [Next]_vars
<1>1. LiveNext => Next
  BY DEF LiveNext, AnnounceLive, ShowingLive, WatcherPublishLive, Silent, Next, Handle, Watch
<1>2. UNCHANGED liveVars => UNCHANGED vars
  BY DEF liveVars
<1> QED
  BY <1>1, <1>2

LiveInv == LinkInv /\ EndInv /\ LiveTypeOK /\ WatcherToldTheEnd

\* The job a handler announces is running: its worker does not exist yet.
LEMMA AnnouncedJobRuns ==
  ASSUME LinkInv, NEW r \in Reqs, Announce(r)
  PROVE  job[r] \in JobIds /\ state[job[r]] = "Running"
<1>1. pc[r] = "announce"
  BY DEF Announce, AfterStart, Return, Step, Goto
<1> QED
  BY <1>1 DEF LinkInv, StartPending, StartGuards

\* The live state keeps its types and what WatcherToldTheEnd says of it.
LEMMA LiveStep == LiveInv /\ [LiveNext]_liveVars => LiveTypeOK' /\ WatcherToldTheEnd'
<1> SUFFICES ASSUME LiveInv, [LiveNext]_liveVars PROVE LiveTypeOK' /\ WatcherToldTheEnd'
  OBVIOUS
<1>1. LinkInv /\ TypeOK /\ EndInv /\ LiveTypeOK /\ WatcherToldTheEnd /\ [Next]_vars
  BY LiveStepIsAStep DEF LiveInv, LinkInv
<1>2. \A j \in JobIds : watcher[j] = "gone" => state'[j] = state[j]
  BY <1>1, EndIsFinal
<1>3. CASE UNCHANGED liveVars
  BY <1>1, <1>3 DEF liveVars, vars, app, handles, handlers, live, LiveTypeOK, WatcherToldTheEnd
<1>4. ASSUME NEW r \in Reqs, AnnounceLive(r) PROVE LiveTypeOK' /\ WatcherToldTheEnd'
  <2>1. job[r] \in JobIds /\ state[job[r]] = "Running"
    BY <1>1, <1>4, AnnouncedJobRuns DEF AnnounceLive
  <2>2. /\ liveJob' = job[r] /\ liveState' = "Running" /\ show' = show
        /\ watcher'[job[r]] = "spawned"
    BY <1>1, <1>4, <2>1 DEF AnnounceLive, PublishJob, Announce, TypeOK
  <2>3. LiveTypeOK'
    BY <1>1, <2>1, <2>2 DEF LiveTypeOK, States
  <2>4. WatcherToldTheEnd'
    BY <2>1, <2>2 DEF WatcherToldTheEnd
  <2> QED
    BY <2>3, <2>4
<1>5. ASSUME NEW r \in Reqs, ShowingLive(r) PROVE LiveTypeOK' /\ WatcherToldTheEnd'
  <2>1. watcher' = watcher /\ state' = state /\ liveJob' = liveJob /\ liveState' = liveState
    BY <1>5 DEF ShowingLive, Showing, handles
  <2>2. show' \in [up : BOOLEAN, by : JobIds \cup {NoJob}]
    BY <1>1, <1>5 DEF ShowingLive, TypeOK
  <2> QED
    BY <1>1, <2>1, <2>2 DEF LiveTypeOK, WatcherToldTheEnd
<1>6. ASSUME NEW j \in JobIds, WatcherPublishLive(j) PROVE LiveTypeOK' /\ WatcherToldTheEnd'
  <2>1. state' = state /\ state[j] \in {"Over", "Cancelled"}
    BY <1>1, <1>6 DEF WatcherPublishLive, WatcherPublish, EndInv
  <2>2. liveJob' = j /\ liveState' = state[j] /\ show' \in {NoShow, show}
    BY <1>6 DEF WatcherPublishLive, PublishJob
  <2>3. LiveTypeOK'
    <3>1. NoShow \in [up : BOOLEAN, by : JobIds \cup {NoJob}]
      BY DEF NoShow
    <3>2. show' \in [up : BOOLEAN, by : JobIds \cup {NoJob}]
      BY <1>1, <2>2, <3>1 DEF LiveTypeOK
    <3>3. liveJob' \in JobIds \cup {NoJob} /\ liveState' \in States
      BY <2>1, <2>2 DEF States
    <3> QED
      BY <3>2, <3>3 DEF LiveTypeOK
  <2>4. WatcherToldTheEnd'
    BY <2>1, <2>2 DEF WatcherToldTheEnd
  <2> QED
    BY <2>3, <2>4
<1>7. CASE Silent
  <2>1. liveJob' = liveJob /\ liveState' = liveState /\ show' = show
    BY <1>7 DEF Silent, live
  <2>2. \A j \in JobIds : watcher'[j] = "gone" => watcher[j] = "gone"
    BY <1>1, <1>7, SilentIsSilent
  <2>3. WatcherToldTheEnd'
    BY <1>1, <1>2, <2>1, <2>2 DEF WatcherToldTheEnd
  <2> QED
    BY <1>1, <2>1, <2>3 DEF LiveTypeOK
<1> QED
  BY <1>3, <1>4, <1>5, <1>6, <1>7 DEF LiveNext

\* LiveInv holds in every reachable state of the daemon with its live state.
THEOREM LiveInvariant == LiveSpec => []LiveInv
<1>1. LiveInit => LiveInv
  <2> SUFFICES ASSUME LiveInit PROVE LiveInv
    OBVIOUS
  <2>1. LinkInv
    BY InitLink DEF LiveInit
  <2>2. EndInv
    BY DEF LiveInit, Init, EndInv
  <2>3. LiveTypeOK
    BY DEF LiveInit, LiveTypeOK, States, NoShow
  <2>4. WatcherToldTheEnd
    BY DEF LiveInit, Init, WatcherToldTheEnd
  <2> QED
    BY <2>1, <2>2, <2>3, <2>4 DEF LiveInv
<1>2. LiveInv /\ [LiveNext]_liveVars => LiveInv'
  BY LinkStep, EndStep, LiveStep, LiveStepIsAStep DEF LiveInv
<1> QED
  BY <1>1, <1>2, PTL DEF LiveSpec

\* Once its end was published, a job is never shown as running again: the
\* watcher reads the state after `done`, which finish raises last.
THEOREM EndIsTold == LiveSpec => []WatcherToldTheEnd
BY LiveInvariant, PTL DEF LiveInv

\* Only the end of the job that keeps it takes a show from the panel's line.
THEOREM ShowStaysUp == LiveSpec => ShowLeavesOnlyWithItsJob
<1>1. ASSUME LiveInv, [LiveNext]_liveVars, show.up, ~show'.up
      PROVE  show.by # NoJob /\ state[show.by] # "Running"
  <2>1. CASE UNCHANGED liveVars
    BY <1>1, <2>1 DEF liveVars, live
  <2>2. ASSUME NEW r \in Reqs, AnnounceLive(r) PROVE FALSE
    <3>1. state[job[r]] = "Running"
      BY <1>1, <2>2, AnnouncedJobRuns DEF AnnounceLive, LiveInv
    <3> QED
      BY <1>1, <2>2, <3>1 DEF AnnounceLive, PublishJob
  <2>3. ASSUME NEW r \in Reqs, ShowingLive(r) PROVE FALSE
    BY <1>1, <2>3 DEF ShowingLive
  <2>4. ASSUME NEW j \in JobIds, WatcherPublishLive(j)
        PROVE  show.by # NoJob /\ state[show.by] # "Running"
    BY <1>1, <2>4 DEF WatcherPublishLive, PublishJob
  <2>5. CASE Silent
    BY <1>1, <2>5 DEF Silent, live
  <2> QED
    BY <1>1, <2>1, <2>2, <2>3, <2>4, <2>5 DEF LiveNext
<1>2. LiveInv /\ [LiveNext]_liveVars =>
        [show.up /\ ~show'.up => show.by # NoJob /\ state[show.by] # "Running"]_liveVars
  BY <1>1
<1> QED
  BY <1>2, LiveInvariant, PTL DEF LiveSpec, ShowLeavesOnlyWithItsJob

=============================================================================
