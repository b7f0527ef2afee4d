------------------------------ MODULE MCStreams ------------------------------
(***************************************************************************)
(* The three streams, for TLC: frames through a socket (Serve), frames posted *)
(* to the daemon (Push), a job's lines to those who follow it (JobEvents).    *)
(* `which` says whose behaviour it is; the other two are over, so that no     *)
(* fairness is asked of them.                                               *)
(***************************************************************************)
EXTENDS Serve, Push, JobEvents

MCHeaders == <<"a", "a", "a", "b", "b", "a">>

VARIABLE which

vars == <<which, sVars, pVars, jVars>>

NoJob ==
  /\ output = "stopped" /\ lines = 0 /\ log = <<>>
  /\ pc = [s \in Readers |-> "gone"] /\ pos = [s \in Readers |-> 0]
  /\ seen = [s \in Readers |-> 0] /\ out = [s \in Readers |-> <<>>]
  /\ carried = [s \in Readers |-> NoEnd]

Init ==
  /\ SInit /\ PInit
  /\ which \in {"serve", "push", "job"}
  /\ which # "serve" => server = "killed"
  /\ IF which = "job" THEN JInit ELSE NoJob
Next ==
  \/ which = "serve" /\ SNext /\ UNCHANGED <<which, pVars, jVars>>
  \/ which = "push"  /\ PNext /\ UNCHANGED <<which, sVars, jVars>>
  \/ which = "job"   /\ JNext /\ UNCHANGED <<which, sVars, pVars>>
Spec == Init /\ [][Next]_vars /\ SFairness /\ PFairness /\ JFairness

\* Every variable is in the set its declaration describes.
TypeOK == STypeOK /\ PTypeOK /\ JTypeOK

\* The frames that reach the wall are whole, each client's in its order, and
\* none that was taken is lost before it (RawSource, stream_channel).
FramesArrive == WholeFramesInOrder /\ DrawnInOrder /\ NothingLostOnTheWay

\* Every stream ends: a signal stops the server and takes its socket's file
\* away, a pushed stream that gets no more frames gives the link back, and a
\* reader of a job's lines that stays is sent the end, however far it was behind.
StreamsEnd == StopEnds /\ StreamEnds /\ EveryReaderSeesTheEnd

\* The stream is a LineFeed: each line at most once and in order whenever the
\* reader connects, none skipped by a reader that kept up, one end with all of
\* them ("replays every line already in `lines`, then follows. `end` is sent
\* exactly once, when the job leaves `running`").
IsALineFeed == (which = "job" => Feed!Init) /\ [][Feed!Next]_(Feed!vars)
=============================================================================
