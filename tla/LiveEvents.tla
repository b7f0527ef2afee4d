----------------------------- MODULE LiveEvents -----------------------------
(***************************************************************************)
(* The delivery of the live state: Live::publish, Live::events and          *)
(* broadcast_sse (crates/daemon/src/live.rs and jobs.rs).                   *)
(*                                                                         *)
(* Whoever changes the state (a handler, a watcher) does it under the lock  *)
(* and broadcasts the whole of it after the unlock. A client is sent a      *)
(* snapshot, then what is broadcast after its subscription. The state is    *)
(* its version: the number of changes made so far.                          *)
(***************************************************************************)
EXTENDS Naturals, Sequences

CONSTANTS
  Publishers,  \* the tasks that change the state
  Clients,     \* the clients of GET /state/events
  Backlog,     \* of the broadcast channel (64 in the code)
  MaxChanges   \* bound: changes in a run

VARIABLES
  state,   \* the version of Live.state
  log,     \* every version broadcast so far
  next,    \* per publisher: the version it is about to broadcast, or Nothing
  pc,      \* per client: "new", "snapshot", "follow"
  pos,     \* its receiver: values of the log already passed
  view     \* the version it was sent last

vars == <<state, log, next, pc, pos, view>>

Nothing == 0

Init ==
  /\ state = 1
  /\ log = <<>>
  /\ next = [p \in Publishers |-> Nothing]
  /\ pc = [c \in Clients |-> "new"]
  /\ pos = [c \in Clients |-> 0]
  /\ view = [c \in Clients |-> Nothing]

-----------------------------------------------------------------------------
\* Live::publish, under the lock ...
Change(p) ==
  /\ next[p] = Nothing
  /\ state <= MaxChanges
  /\ state' = state + 1
  /\ next' = [next EXCEPT ![p] = state']
  /\ UNCHANGED <<log, pc, pos, view>>

\* ... and after it.
Broadcast(p) ==
  /\ next[p] # Nothing
  /\ log' = Append(log, next[p])
  /\ next' = [next EXCEPT ![p] = Nothing]
  /\ UNCHANGED <<state, pc, pos, view>>

\* Live::events: the snapshot is taken first, the receiver after it; the task
\* broadcast_sse spawns sends the snapshot.
Snapshot(c) ==
  /\ pc[c] = "new"
  /\ pc' = [pc EXCEPT ![c] = "snapshot"]
  /\ view' = [view EXCEPT ![c] = state]
  /\ UNCHANGED <<state, log, next, pos>>

Subscribe(c) ==
  /\ pc[c] = "snapshot"
  /\ pc' = [pc EXCEPT ![c] = "follow"]
  /\ pos' = [pos EXCEPT ![c] = Len(log)]
  /\ UNCHANGED <<state, log, next, view>>

Behind(c) == Len(log) - pos[c]

Forward(c) ==
  /\ pc[c] = "follow" /\ Behind(c) \in 1 .. Backlog
  /\ view' = [view EXCEPT ![c] = log[pos[c] + 1]]
  /\ pos' = [pos EXCEPT ![c] = @ + 1]
  /\ UNCHANGED <<state, log, next, pc>>

\* RecvError::Lagged: on to the oldest value kept.
Lag(c) ==
  /\ pc[c] = "follow" /\ Behind(c) > Backlog
  /\ pos' = [pos EXCEPT ![c] = Len(log) - Backlog]
  /\ UNCHANGED <<state, log, next, pc, view>>

Next ==
  \/ \E p \in Publishers : Change(p) \/ Broadcast(p)
  \/ \E c \in Clients : Snapshot(c) \/ Subscribe(c) \/ Forward(c) \/ Lag(c)

Spec == Init /\ [][Next]_vars

-----------------------------------------------------------------------------
(* Properties.                                                              *)

\* What a comment says and the code does not do: "pushes the whole object over
\* the broadcast machinery, on every change". A client that has been sent
\* everything there is, with no change under way, has the current state.
Settled == \A p \in Publishers : next[p] = Nothing

ClientIsCurrent ==
  \A c \in Clients :
    Settled /\ pc[c] = "follow" /\ pos[c] = Len(log) => view[c] = state

=============================================================================
