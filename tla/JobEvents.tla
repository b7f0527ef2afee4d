------------------------------ MODULE JobEvents -----------------------------
(***************************************************************************)
(* One job's output and the event streams that read it: Handle::push,       *)
(* Handle::finish and Handle::events (crates/daemon/src/jobs.rs).           *)
(*                                                                         *)
(* The worker appends a line under the job lock and broadcasts it after;    *)
(* a reader subscribes to the broadcast, copies the lines under the job     *)
(* lock, replays them and follows from there. The broadcast channel is a    *)
(* log with a position per receiver: a receiver more than Capacity behind   *)
(* is told that it lagged and goes on at the oldest value kept.             *)
(***************************************************************************)
EXTENDS Naturals, Sequences

CONSTANTS
  Readers,   \* the clients of GET /jobs/{id}/events
  Capacity,  \* of the broadcast channel (1024 in the code)
  MaxLines   \* bound: how many lines the job prints

ASSUME CapacityAssumption == Capacity \in Nat \ {0}
ASSUME MaxLinesAssumption == MaxLines \in Nat

\* Event::Line(i) is the number i, Event::End this one.
End == MaxLines

VARIABLES
  output,  \* "run", "append" (a line not yet broadcast), "finish", "stopped"
  lines,    \* Job.lines: how many
  log,      \* every event broadcast so far
  pc,       \* of the task behind each stream
  pos,      \* its receiver: events of the log already passed
  seen,     \* the lines it copied to replay
  out,      \* the line events it sent to its client
  carried   \* the lines in its end event, or NoEnd

NoEnd == MaxLines + 1

readers == <<pc, pos, seen, out, carried>>
job     == <<output, lines, log>>
jVars   == <<job, readers>>

JInit ==
  /\ output = "run"
  /\ lines = 0
  /\ log = <<>>
  /\ pc = [s \in Readers |-> "new"]
  /\ pos = [s \in Readers |-> 0]
  /\ seen = [s \in Readers |-> 0]
  /\ out = [s \in Readers |-> <<>>]
  /\ carried = [s \in Readers |-> NoEnd]

JobRuns == output \in {"run", "append"}

-----------------------------------------------------------------------------
(* The worker.                                                              *)

\* Handle::push: the line, under the job lock ...
Push ==
  /\ output = "run"
  /\ lines < MaxLines
  /\ output' = "append"
  /\ lines' = lines + 1
  /\ UNCHANGED <<log, readers>>

\* ... and its event, after it.
SendLine ==
  /\ output = "append"
  /\ output' = "run"
  /\ log' = Append(log, lines - 1)
  /\ UNCHANGED <<lines, readers>>

\* Handle::finish: the state under the job lock, then the end event.
FinishJob ==
  /\ output = "run"
  /\ output' = "finish"
  /\ UNCHANGED <<lines, log, readers>>

SendEnd ==
  /\ output = "finish"
  /\ output' = "stopped"
  /\ log' = Append(log, End)
  /\ UNCHANGED <<lines, readers>>

-----------------------------------------------------------------------------
(* The task Handle::events spawns for a reader s.                           *)

Go(s, from, to) ==
  /\ pc[s] = from
  /\ pc' = [pc EXCEPT ![s] = to]

Subscribe(s) ==
  /\ Go(s, "new", "copy")
  /\ pos' = [pos EXCEPT ![s] = Len(log)]
  /\ UNCHANGED <<job, seen, out, carried>>

\* The lines and whether the job is running, under one lock.
Copy(s) ==
  /\ Go(s, "copy", IF JobRuns THEN "replay" ELSE "replayAll")
  /\ seen' = [seen EXCEPT ![s] = lines]
  /\ UNCHANGED <<job, pos, out, carried>>

Emit(s, i) == out' = [out EXCEPT ![s] = Append(@, i)]

Replay(s) ==
  /\ pc[s] \in {"replay", "replayAll"}
  /\ Len(out[s]) < seen[s]
  /\ Emit(s, Len(out[s]))
  /\ UNCHANGED <<job, pc, pos, seen, carried>>

\* A running job's lines are followed, a finished one's are all there.
Replayed(s) ==
  /\ Len(out[s]) = seen[s]
  /\ Go(s, "replay", "follow") \/ Go(s, "replayAll", "end")
  /\ UNCHANGED <<job, pos, seen, out, carried>>

Event(s)  == log[pos[s] + 1]
Lagged(s) == Len(log) - pos[s] > Capacity
Ready(s)  == pc[s] = "follow" /\ pos[s] < Len(log) /\ ~Lagged(s)

\* follow: a line from `seen` on is forwarded, an older one was replayed.
\* (Variant: the first unseen one is taken for seen.)
IsNewStrict(s) == Event(s) > seen[s]
IsNew(s) == Event(s) >= seen[s]

Forward(s) ==
  /\ Ready(s) /\ Event(s) # End /\ IsNew(s)
  /\ Emit(s, Event(s))
  /\ pos' = [pos EXCEPT ![s] = @ + 1]
  /\ UNCHANGED <<job, pc, seen, carried>>

Skip(s) ==
  /\ Ready(s) /\ Event(s) # End /\ ~IsNew(s)
  /\ pos' = [pos EXCEPT ![s] = @ + 1]
  /\ UNCHANGED <<job, pc, seen, out, carried>>

SeeEnd(s) ==
  /\ Ready(s) /\ Event(s) = End
  /\ Go(s, "follow", "end")
  /\ pos' = [pos EXCEPT ![s] = @ + 1]
  /\ UNCHANGED <<job, seen, out, carried>>

\* RecvError::Lagged: the receiver is moved to the oldest value kept.
Lag(s) ==
  /\ pc[s] = "follow" /\ Lagged(s)
  /\ pos' = [pos EXCEPT ![s] = Len(log) - Capacity]
  /\ UNCHANGED <<job, pc, seen, out, carried>>

\* The end event carries the job as it is then.
SendEndEvent(s) ==
  /\ Go(s, "end", "closed")
  /\ carried' = [carried EXCEPT ![s] = lines]
  /\ UNCHANGED <<job, pos, seen, out>>

\* The client went away: the next send fails and the task returns.
Gone(s) ==
  /\ pc[s] \in {"replay", "replayAll", "follow", "end"}
  /\ pc' = [pc EXCEPT ![s] = "gone"]
  /\ UNCHANGED <<job, pos, seen, out, carried>>

-----------------------------------------------------------------------------
Work == SendLine \/ FinishJob \/ SendEnd

Read(s) ==
  \/ Subscribe(s) \/ Copy(s) \/ Replay(s) \/ Replayed(s)
  \/ Forward(s) \/ Skip(s) \/ SeeEnd(s) \/ Lag(s) \/ SendEndEvent(s)

JNext == Push \/ Work \/ \E s \in Readers : Read(s) \/ Gone(s)

\* The worker finishes (a command ends, or is cancelled) and the runtime polls
\* the tasks; a client reads what it is sent unless it goes away.
JFairness == WF_jVars(Work) /\ \A s \in Readers : WF_jVars(Read(s))


-----------------------------------------------------------------------------
(* Properties.                                                              *)

\* The worker, the channel and the streams hold values of their types.
JTypeOK ==
  /\ output \in {"run", "append", "finish", "stopped"}
  /\ lines \in 0 .. MaxLines
  /\ log \in Seq(0 .. MaxLines) /\ Len(log) <= MaxLines + 1
  /\ pc \in [Readers -> {"new", "copy", "replay", "replayAll", "follow", "end",
                         "closed", "gone"}]
  /\ pos \in [Readers -> 0 .. MaxLines + 1]
  /\ seen \in [Readers -> 0 .. MaxLines]
  /\ out \in [Readers -> Seq(0 .. MaxLines - 1)]
  /\ carried \in [Readers -> 0 .. NoEnd]

\* The abstract feed, one for every reader.
NextLine(s) == IF out[s] = <<>> THEN 0 ELSE out[s][Len(out[s])] + 1

Feed == INSTANCE LineFeed WITH
  Slack <- Capacity,
  over  <- ~JobRuns,
  next  <- [s \in Readers |-> NextLine(s)],
  end   <- carried

\* Every reader that stays gets its end: End is never among the events a slow
\* receiver loses, nor sent before the receiver that waits for it exists.
EveryReaderSeesTheEnd == \A s \in Readers : <>(pc[s] \in {"closed", "gone"})

=============================================================================
