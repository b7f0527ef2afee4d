------------------------------ MODULE LineFeed ------------------------------
(***************************************************************************)
(* What `GET /jobs/{id}/events` promises each of its readers: the lines of  *)
(* the job in order and at most once, a gap only for a reader that fell     *)
(* behind, then one end that carries every line.                            *)
(***************************************************************************)
EXTENDS Naturals

CONSTANTS
  Readers,
  Slack      \* a reader this many lines behind may lose some

VARIABLES
  lines,     \* how many lines the job has
  over,      \* it has left Running
  next,      \* per reader: the line it waits for
  end        \* per reader: the lines its end event carried, or NoEnd

CONSTANT NoEnd

vars == <<lines, over, next, end>>

Init ==
  /\ lines = 0
  /\ over = FALSE
  /\ next = [s \in Readers |-> 0]
  /\ end = [s \in Readers |-> NoEnd]

AddLine ==
  /\ ~over
  /\ lines' = lines + 1
  /\ UNCHANGED <<over, next, end>>

Finish ==
  /\ over' = TRUE
  /\ UNCHANGED <<lines, next, end>>

\* Nothing is skipped but by a reader that is Slack lines behind.
MaySkip(s) == lines - next[s] >= Slack

Deliver(s, i) ==
  /\ end[s] = NoEnd
  /\ i \in next[s] .. lines - 1
  /\ i = next[s] \/ MaySkip(s)
  /\ next' = [next EXCEPT ![s] = i + 1]
  /\ UNCHANGED <<lines, over, end>>

Close(s) ==
  /\ over
  /\ end[s] = NoEnd
  /\ next[s] = lines \/ MaySkip(s)
  /\ end' = [end EXCEPT ![s] = lines]
  /\ UNCHANGED <<lines, over, next>>

Next ==
  \/ AddLine \/ Finish
  \/ \E s \in Readers : Close(s) \/ \E i \in 0 .. lines : Deliver(s, i)

Spec == Init /\ [][Next]_vars

=============================================================================
