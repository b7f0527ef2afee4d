-------------------------------- MODULE Push --------------------------------
(***************************************************************************)
(* A pushed stream: the frames a client posts to POST /show/frame          *)
(* (crates/daemon state.rs push_frame, offer) and the show/stream job that *)
(* draws them (crates/ops ingest.rs stream_channel), with the bounded      *)
(* channel between them. Daemon models who owns the link; here one client  *)
(* posts frame after frame and the question is which of them it sees.      *)
(*                                                                         *)
(* The job's thread returns, its end of the channel goes, and then the job *)
(* is finished: `worker` goes from "ending" to "returned" to "none". Frame *)
(* n has the header HeaderOf[n].                                           *)
(***************************************************************************)
EXTENDS Naturals, Sequences, SequencesExt

CONSTANTS
  HeaderOf,  \* a sequence: the header of every frame the client posts (bound)
  PushQueue, \* PUSH_QUEUE: the frames the channel holds
  IdlePolls  \* PUSH_IDLE in time-outs of one read

Posts == 1 .. Len(HeaderOf)

NoStream == "no stream"

ASSUME PushAssumption ==
  /\ PushQueue \in Nat \ {0} /\ IdlePolls \in Nat \ {0}
  /\ Len(HeaderOf) \in Nat /\ \A n \in Posts : HeaderOf[n] # NoStream

VARIABLES
  posted,   \* the frames posted so far
  handler,  \* push_frame: "idle", "cancel", "wait" or "start"
  pushing,  \* AppState.pushing: a header, or NoStream
  worker,   \* "none", "open", "check", "read", "draw", "ending" or "returned"
  header,   \* the header the running job was started with
  cancel,
  queue,    \* the channel
  drawing,  \* the frame on its way to the wall, 0 for none
  quiet,    \* time-outs since the last frame was drawn
  \* history
  drawn,    \* every frame drawn, in order
  taken,    \* the frames the running stream took, in order
  answered, \* the frames whose answer was that a stream has them
  full,     \* the frames that found the channel full
  lost      \* the frames that went with the end of their stream

stream  == <<worker, header, cancel, queue, drawing, quiet>>
history == <<drawn, taken, answered, full, lost>>
pVars   == <<posted, handler, pushing, stream, history>>

PInit ==
  /\ posted = 0 /\ handler = "idle" /\ pushing = NoStream
  /\ worker = "none" /\ header = NoStream /\ cancel = FALSE
  /\ queue = <<>> /\ drawing = 0 /\ quiet = 0
  /\ drawn = <<>> /\ taken = <<>> /\ answered = {} /\ full = {} /\ lost = {}

Running  == worker # "none"
Receives == worker \in {"open", "check", "read", "draw", "ending"}

-----------------------------------------------------------------------------
(* push_frame *)

\* offer finds a stream for this header whose job has not finished and whose
\* thread still has its end of the channel. (Variant: the job's state alone is
\* asked.)
TakesRunning(n) == pushing = HeaderOf[n] /\ Running
Takes(n) == pushing = HeaderOf[n] /\ Running /\ Receives

\* A full channel drops the frame.
Enqueue(q, n) == IF Len(q) < PushQueue THEN Append(q, n) ELSE q

Offer ==
  /\ handler = "idle" /\ posted < Len(HeaderOf)
  /\ posted' = posted + 1
  /\ LET n == posted + 1 IN
     IF Takes(n)
     THEN /\ queue' = Enqueue(queue, n)
          /\ taken' = IF Len(queue) < PushQueue THEN Append(taken, n) ELSE taken
          /\ full' = IF Len(queue) < PushQueue THEN full ELSE full \cup {n}
          /\ answered' = answered \cup {n}
          /\ UNCHANGED handler
     ELSE handler' = "cancel" /\ UNCHANGED <<queue, taken, full, answered>>
  /\ UNCHANGED <<pushing, worker, header, cancel, drawing, quiet, drawn, lost>>

\* cancel_show: the sender goes, the job is cancelled, and its end waited for.
CancelShow ==
  /\ handler = "cancel"
  /\ pushing' = NoStream
  /\ cancel' = Running
  /\ handler' = IF Running THEN "wait" ELSE "start"
  /\ UNCHANGED <<posted, worker, header, queue, drawing, quiet, history>>

Waited ==
  /\ handler = "wait" /\ ~Running
  /\ handler' = "start"
  /\ UNCHANGED <<posted, pushing, stream, history>>

\* start_job, the first frame into the fresh channel, then the sender is
\* where offer finds it.
Start ==
  /\ handler = "start" /\ ~Running
  /\ handler' = "idle"
  /\ pushing' = HeaderOf[posted] /\ header' = HeaderOf[posted]
  /\ worker' = "open" /\ cancel' = FALSE /\ drawing' = 0 /\ quiet' = 0
  /\ queue' = <<posted>> /\ taken' = <<posted>>
  /\ answered' = answered \cup {posted}
  /\ UNCHANGED <<posted, drawn, full, lost>>

\* Another job took the link in between: 409, the frame is gone.
Refused ==
  /\ handler = "start" /\ ~Running
  /\ handler' = "idle"
  /\ UNCHANGED <<posted, pushing, stream, history>>

\* DELETE of the job, at any time.
Delete ==
  /\ Running /\ ~cancel
  /\ cancel' = TRUE
  /\ UNCHANGED <<posted, handler, pushing, worker, header, queue, drawing, quiet, history>>

\* Another request has the sender dropped while the job goes on: a show/* that
\* is about to cancel it, or a push whose stream was replaced by this one and
\* that only now stores its own sender in its place.
OtherReplaces ==
  /\ pushing # NoStream
  /\ pushing' = NoStream
  /\ UNCHANGED <<posted, handler, stream, history>>

-----------------------------------------------------------------------------
(* stream_channel *)

\* The loop looks at the cancel flag, then waits for a frame. A channel that is
\* empty and whose sender is gone ends it.
Worker(from, to) == worker = from /\ worker' = to

OpenLink ==
  /\ Worker("open", "check") \/ Worker("open", "ending")
  /\ UNCHANGED <<posted, handler, pushing, header, cancel, queue, drawing, quiet, history>>

CheckCancel ==
  /\ Worker("check", IF cancel THEN "ending" ELSE "read")
  /\ UNCHANGED <<posted, handler, pushing, header, cancel, queue, drawing, quiet, history>>

Receive ==
  /\ queue # <<>>
  /\ Worker("read", "draw")
  /\ drawing' = Head(queue) /\ queue' = Tail(queue)
  /\ UNCHANGED <<posted, handler, pushing, header, cancel, quiet, history>>

\* A time-out: the stream ends when the last frame is long past.
SinceFrame(q) == q + 1
TimeOut ==
  /\ queue = <<>>
  /\ quiet' = SinceFrame(quiet)
  /\ Worker("read", IF SinceFrame(quiet) < IdlePolls THEN "check" ELSE "ending")
  /\ UNCHANGED <<posted, handler, pushing, header, cancel, queue, drawing, history>>

Disconnected ==
  /\ queue = <<>> /\ pushing = NoStream
  /\ Worker("read", "ending")
  /\ UNCHANGED <<posted, handler, pushing, header, cancel, queue, drawing, quiet, history>>

DrawFrame ==
  /\ Worker("draw", "check")
  /\ drawn' = Append(drawn, drawing)
  /\ drawing' = 0 /\ quiet' = 0
  /\ UNCHANGED <<posted, handler, pushing, header, cancel, queue, taken, answered, full, lost>>

DrawFails ==
  /\ Worker("draw", "ending")
  /\ UNCHANGED <<posted, handler, pushing, header, cancel, queue, drawing, quiet, history>>

\* The thread returns and drops the receiver with what is in it; then the job
\* is finished and everybody who waits is told.
ThreadReturns ==
  /\ Worker("ending", "returned")
  /\ queue' = <<>> /\ drawing' = 0
  /\ lost' = lost \cup ToSet(queue) \cup ({drawing} \ {0})
  /\ UNCHANGED <<posted, handler, pushing, header, cancel, quiet, drawn, taken, answered, full>>

Finish ==
  /\ Worker("returned", "none")
  /\ quiet' = 0 /\ taken' = <<>>
  /\ UNCHANGED <<posted, handler, pushing, header, cancel, queue, drawing, drawn, answered, full, lost>>

-----------------------------------------------------------------------------
WorkerStep ==
  OpenLink \/ CheckCancel \/ Receive \/ TimeOut \/ Disconnected \/ DrawFrame \/ DrawFails \/ ThreadReturns \/ Finish

PNext ==
  \/ Offer \/ CancelShow \/ Waited \/ Start \/ Refused
  \/ Delete \/ OtherReplaces \/ WorkerStep

\* The blocking pool runs the worker, the runtime a handler that can go on.
\* A frame may never come.
PFairness ==
  /\ WF_pVars(WorkerStep)
  /\ WF_pVars(CancelShow) /\ WF_pVars(Waited) /\ WF_pVars(Start \/ Refused)

-----------------------------------------------------------------------------
\* Every variable is in the set its declaration describes.
PTypeOK ==
  /\ posted \in 0 .. Len(HeaderOf) /\ handler \in {"idle", "cancel", "wait", "start"}
  /\ pushing \in ToSet(HeaderOf) \cup {NoStream}
  /\ worker \in {"none", "open", "check", "read", "draw", "ending", "returned"}
  /\ Len(queue) \in 0 .. PushQueue /\ drawing \in {0} \cup Posts
  /\ quiet \in 0 .. IdlePolls /\ cancel \in BOOLEAN

\* No frame a stream took is lost while it goes on: they are drawn in the
\* order they came, then the one being drawn, then the channel. Only the end
\* of the stream loses frames that were answered as taken, and then the last
\* ones.
NothingLostOnTheWay ==
  Receives => IsSuffix(taken, drawn \o (IF drawing = 0 THEN <<>> ELSE <<drawing>>) \o queue)

\* A stream draws frames of its own size only, each once and in the order the
\* client posted them, over all the streams of a client.
DrawnInOrder ==
  /\ \A i, j \in DOMAIN drawn : i < j => drawn[i] < drawn[j]
  /\ drawing # 0 => HeaderOf[drawing] = header

\* A frame that was answered as taken by a stream is drawn or about to be, met
\* a full channel, or was there when its stream ended: `pushing`, which goes on
\* naming a stream that is over, never has one answered that nobody reads
\* (AppState::offer).
AnsweredFramesAreKept ==
  answered \subseteq ToSet(drawn) \cup {drawing} \cup ToSet(queue) \cup full \cup lost

\* A stream nobody posts to ends and frees the link (the job ends when five
\* seconds pass with no frame).
StreamEnds == Running ~> ~Running

=============================================================================
