---------------------------- MODULE StreamProofs ----------------------------
(***************************************************************************)
(* What the three streams of MCStreams promise, for any number of readers,   *)
(* lines, clients and frames, any capacity of the channels and any way reads *)
(* cut a frame.                                                             *)
(***************************************************************************)
EXTENDS MCStreams, SequenceTheorems, TLAPS

-----------------------------------------------------------------------------
(* A job's lines and those who follow them.                                 *)

Sent == [Readers -> Seq(0 .. MaxLines - 1)]
Stages == {"new", "copy", "replay", "replayAll", "follow", "end", "closed", "gone"}

\* The log is the lines in order, then the end.
LogIsTheLines ==
  /\ output \in {"run", "finish"} => Len(log) = lines
  /\ output = "append" => lines = Len(log) + 1
  /\ output = "stopped" => Len(log) = lines + 1 /\ log[lines + 1] = End
  /\ \A i \in 1 .. Len(log) : i <= lines => log[i] = i - 1

\* The lines a reader of the feed may miss.
Behind(s) == lines - NextLine(s) >= Capacity

\* Where the receiver of a reader is, and the line its client waits for. A
\* receiver ahead of its client has lagged; a client ahead of its receiver has
\* the lines of the replay.
ReaderInStep(s) ==
  /\ pc[s] \notin {"closed", "gone"} => carried[s] = NoEnd
  /\ NextLine(s) <= lines
  /\ pc[s] \in {"new", "copy"} => out[s] = <<>>
  /\ pc[s] # "new" => pos[s] <= Len(log)
  /\ pc[s] \in {"replay", "replayAll"} => NextLine(s) = Len(out[s]) /\ NextLine(s) <= seen[s]
  /\ pc[s] \in {"replay", "follow"} => seen[s] <= lines
  /\ pc[s] = "replay" => pos[s] <= seen[s]
  /\ pc[s] = "replayAll" => ~JobRuns /\ seen[s] = lines
  /\ pc[s] = "follow" =>
       /\ seen[s] <= NextLine(s)
       /\ NextLine(s) > pos[s] => NextLine(s) = seen[s]
       /\ NextLine(s) < pos[s] => Behind(s)
  /\ pc[s] = "end" => ~JobRuns /\ (NextLine(s) = lines \/ Behind(s))

JobTyped ==
  /\ output \in {"run", "append", "finish", "stopped"} /\ lines \in 0 .. MaxLines
  /\ log \in Seq(0 .. MaxLines)
  /\ pc \in [Readers -> Stages] /\ pos \in [Readers -> Nat] /\ seen \in [Readers -> 0 .. MaxLines]
  /\ out \in Sent /\ carried \in [Readers -> 0 .. NoEnd]

JobInv == JobTyped /\ LogIsTheLines /\ \A s \in Readers : ReaderInStep(s)

\* The line a client waits for after one that it was sent.
LEMMA NextLineTyped ==
  ASSUME JobTyped, NEW s \in Readers
  PROVE  NextLine(s) \in Nat /\ NextLine(s) <= MaxLines
<1>1. out[s] \in Seq(0 .. MaxLines - 1) /\ MaxLines \in Nat
      BY MaxLinesAssumption DEF JobTyped, Sent
<1>2. CASE out[s] = <<>>
      BY <1>1, <1>2 DEF NextLine
<1>3. CASE out[s] # <<>>
  <2>1. out[s][Len(out[s])] \in 0 .. MaxLines - 1
        BY <1>1, <1>3
  <2> QED BY <1>1, <1>3, <2>1 DEF NextLine
<1> QED BY <1>2, <1>3

\* A line that is sent is the next of its reader, and of no other.
LEMMA Emitted ==
  ASSUME JobTyped, NEW s \in Readers, NEW i \in 0 .. MaxLines - 1, Emit(s, i)
  PROVE  /\ NextLine(s)' = i + 1 /\ Len(out'[s]) = Len(out[s]) + 1
         /\ out' \in Sent
         /\ \A r \in Readers : r # s => out'[r] = out[r] /\ NextLine(r)' = NextLine(r)
<1>1. out[s] \in Seq(0 .. MaxLines - 1) /\ out \in [Readers -> Seq(0 .. MaxLines - 1)]
      BY DEF JobTyped, Sent
<1>2. out' = [out EXCEPT ![s] = Append(out[s], i)]
      BY DEF Emit
<1>3. /\ Append(out[s], i) \in Seq(0 .. MaxLines - 1) /\ Len(Append(out[s], i)) = Len(out[s]) + 1
      /\ Append(out[s], i)[Len(out[s]) + 1] = i /\ Append(out[s], i) # <<>>
  <2> DEFINE w == out[s]
             S == 0 .. MaxLines - 1
  <2>1. w \in Seq(S) /\ i \in S
        BY <1>1
  <2> HIDE DEF w, S
  <2>2. /\ Append(w, i) \in Seq(S) /\ Len(Append(w, i)) = Len(w) + 1
        /\ Append(w, i)[Len(w) + 1] = i /\ Append(w, i) # <<>>
        BY <2>1
  <2> QED BY <2>2 DEF w, S
<1>4. out'[s] = Append(out[s], i) /\ \A r \in Readers : r # s => out'[r] = out[r]
      BY <1>1, <1>2
<1>5. out' \in Sent
      BY <1>1, <1>2, <1>3 DEF Sent
<1> QED BY <1>3, <1>4, <1>5 DEF NextLine

\* Every step keeps the types.
LEMMA JobTypes == JobTyped /\ LogIsTheLines /\ [JNext]_jVars => JobTyped'
<1> SUFFICES ASSUME JobTyped, LogIsTheLines, [JNext]_jVars PROVE JobTyped'
    OBVIOUS
<1> USE MaxLinesAssumption, CapacityAssumption DEF JobTyped, job, readers, Go
<1>1. CASE Push \/ FinishJob
      BY <1>1 DEF Push, FinishJob
<1>2. CASE SendLine \/ SendEnd
  <2>1. \E e \in 0 .. MaxLines : log' = Append(log, e)
    <3>1. CASE SendLine
      <4>1. lines - 1 \in 0 .. MaxLines
            BY <3>1 DEF SendLine, LogIsTheLines
      <4> QED BY <3>1, <4>1 DEF SendLine
    <3>2. CASE SendEnd
      <4>1. End \in 0 .. MaxLines
            BY DEF End
      <4> QED BY <3>2, <4>1 DEF SendEnd
    <3> QED BY <1>2, <3>1, <3>2
  <2>2. log' \in Seq(0 .. MaxLines)
        BY <2>1
  <2> QED BY <1>2, <2>2 DEF SendLine, SendEnd
<1>3. ASSUME NEW s \in Readers, Read(s) \/ Gone(s) PROVE JobTyped'
  <2>1. CASE Subscribe(s)
    <3>1. Len(log) \in Nat
          OBVIOUS
    <3> QED BY <2>1, <3>1 DEF Subscribe, Stages
  <2>2. CASE Copy(s)
        BY <2>2 DEF Copy, Stages
  <2>3. CASE Replayed(s) \/ Gone(s)
        BY <2>3 DEF Replayed, Gone, Stages
  <2>4. CASE Replay(s)
    <3>1. Len(out[s]) \in 0 .. MaxLines - 1
          BY <2>4 DEF Replay, Sent
    <3>2. out' \in Sent
          BY <2>4, <3>1, Emitted DEF Replay
    <3> QED BY <2>4, <3>2 DEF Replay
  <2>5. CASE Forward(s)
    <3>1. Event(s) \in 0 .. MaxLines /\ Event(s) # MaxLines
          BY <2>5, SMTT(30) DEF Forward, Ready, Event, End
    <3>2. out' \in Sent
          BY <2>5, <3>1, Emitted DEF Forward
    <3> QED BY <2>5, <3>2 DEF Forward
  <2>6. CASE Skip(s) \/ SeeEnd(s)
    <3>1. pos' = [pos EXCEPT ![s] = pos[s] + 1] /\ pos[s] \in Nat
          BY <2>6 DEF Skip, SeeEnd
    <3>2. pos' \in [Readers -> Nat]
          BY <3>1
    <3>3. pc' \in [Readers -> Stages]
          BY <2>6 DEF Skip, SeeEnd, Stages
    <3> QED BY <2>6, <3>2, <3>3 DEF Skip, SeeEnd
  <2>7. CASE Lag(s)
    <3>1. Len(log) - Capacity \in Nat
          BY <2>7 DEF Lag, Lagged
    <3> QED BY <2>7, <3>1 DEF Lag
  <2>8. CASE SendEndEvent(s)
        BY <2>8 DEF SendEndEvent, Stages, NoEnd
  <2> QED BY <1>3, <2>1, <2>2, <2>3, <2>4, <2>5, <2>6, <2>7, <2>8 DEF Read
<1>4. CASE UNCHANGED jVars
      BY <1>4 DEF jVars
<1> QED BY <1>1, <1>2, <1>3, <1>4 DEF JNext, Work

\* It holds when the job starts.
LEMMA JobStarts == JInit => JobInv
<1> SUFFICES ASSUME JInit PROVE JobInv
    OBVIOUS
<1> USE MaxLinesAssumption, CapacityAssumption
<1>1. JobTyped
      BY DEF JInit, JobTyped, Stages, Sent, NoEnd
<1>2. LogIsTheLines
      BY DEF JInit, LogIsTheLines
<1>3. \A s \in Readers : ReaderInStep(s)
      BY DEF JInit, ReaderInStep, NextLine
<1> QED BY <1>1, <1>2, <1>3 DEF JobInv

\* A reader whose own variables stay is as in step as before, as long as the log
\* only grows and a job that ended stays as it is.
LEMMA OthersInStep ==
  ASSUME JobInv, NEW r \in Readers, lines' \in Nat, lines <= lines', Len(log') \in Nat,
         Len(log) <= Len(log'), ~JobRuns => ~JobRuns' /\ lines' = lines,
         pc'[r] = pc[r], pos'[r] = pos[r], seen'[r] = seen[r], out'[r] = out[r],
         carried'[r] = carried[r]
  PROVE  ReaderInStep(r)'
<1>1. NextLine(r)' = NextLine(r) /\ NextLine(r) \in Nat /\ lines \in Nat
      BY NextLineTyped, MaxLinesAssumption DEF NextLine, JobInv, JobTyped
<1>2. Behind(r) => Behind(r)'
      BY <1>1, CapacityAssumption DEF Behind
<1>3. /\ pos[r] \in Nat /\ seen[r] \in Nat /\ Len(log) \in Nat
      /\ ReaderInStep(r)
      BY DEF JobInv, JobTyped
<1> QED BY <1>1, <1>2, <1>3 DEF ReaderInStep

\* Every step keeps the log what was sent.
LEMMA LogKept == JobInv /\ [JNext]_jVars => LogIsTheLines'
<1> SUFFICES ASSUME JobInv, [JNext]_jVars PROVE LogIsTheLines'
    OBVIOUS
<1>1. /\ LogIsTheLines /\ lines \in Nat /\ log \in Seq(0 .. MaxLines) /\ Len(log) \in Nat
      /\ output \in {"run", "append", "finish", "stopped"}
      BY MaxLinesAssumption DEF JobInv, JobTyped
<1>2. CASE UNCHANGED job
      BY <1>1, <1>2 DEF job, LogIsTheLines
<1>3. CASE Push \/ FinishJob
      BY <1>1, <1>3 DEF Push, FinishJob, LogIsTheLines
<1>4. ASSUME NEW e \in 0 .. MaxLines, log' = Append(log, e)
      PROVE  /\ Len(log') = Len(log) + 1 /\ log'[Len(log) + 1] = e
             /\ \A i \in 1 .. Len(log) : log'[i] = log[i]
      BY <1>1, <1>4
<1>5. CASE SendLine
  <2>1. /\ lines - 1 \in 0 .. MaxLines /\ lines = Len(log) + 1
        /\ log' = Append(log, lines - 1) /\ output' = "run" /\ lines' = lines
        BY <1>1, <1>5, MaxLinesAssumption DEF SendLine, LogIsTheLines, JobInv, JobTyped
  <2>2. /\ Len(log') = Len(log) + 1 /\ log'[Len(log) + 1] = lines - 1
        /\ \A i \in 1 .. Len(log) : log'[i] = log[i]
        BY <1>4, <2>1
  <2> QED BY <1>1, <2>1, <2>2 DEF LogIsTheLines
<1>6. CASE SendEnd
  <2>1. /\ End \in 0 .. MaxLines /\ lines = Len(log)
        /\ log' = Append(log, End) /\ output' = "stopped" /\ lines' = lines
        BY <1>1, <1>6, MaxLinesAssumption DEF SendEnd, LogIsTheLines, End
  <2>2. /\ Len(log') = Len(log) + 1 /\ log'[Len(log) + 1] = End
        /\ \A i \in 1 .. Len(log) : log'[i] = log[i]
        BY <1>4, <2>1
  <2>3. End' = End
        BY DEF End
  <2> QED BY <1>1, <2>1, <2>2, <2>3 DEF LogIsTheLines
<1> QED BY <1>2, <1>3, <1>5, <1>6 DEF JNext, Work, Read, Subscribe, Copy, Replay, Replayed,
           Forward, Skip, SeeEnd, Lag, SendEndEvent, Gone, jVars

\* What a reader's next event is.
LEMMA EventOfTheLog ==
  ASSUME JobInv, NEW s \in Readers, Ready(s)
  PROVE  /\ Event(s) # End => Event(s) = pos[s] /\ pos[s] < lines
         /\ Event(s) = End => pos[s] = lines /\ output = "stopped"
<1>1. /\ LogIsTheLines /\ lines \in 0 .. MaxLines /\ Len(log) \in Nat /\ pos[s] \in Nat
      /\ output \in {"run", "append", "finish", "stopped"} /\ pos[s] < Len(log)
      BY DEF JobInv, JobTyped, Ready
<1>2. MaxLines \in Nat /\ End = MaxLines
      BY MaxLinesAssumption DEF End
<1>3. CASE pos[s] + 1 <= lines
      BY <1>1, <1>2, <1>3 DEF LogIsTheLines, Event
<1>4. CASE pos[s] + 1 > lines
      BY <1>1, <1>2, <1>4 DEF LogIsTheLines, Event
<1> QED BY <1>1, <1>3, <1>4

\* So every step keeps it.
LEMMA JobSteps == JobInv /\ [JNext]_jVars => JobInv'
<1> SUFFICES ASSUME JobInv, [JNext]_jVars PROVE JobInv'
    OBVIOUS
<1> USE MaxLinesAssumption, CapacityAssumption DEF job, readers
<1>1. JobTyped' /\ LogIsTheLines'
      BY JobTypes, LogKept DEF JobInv
<1>2. JobTyped /\ LogIsTheLines
      BY DEF JobInv
<1>3. CASE Push \/ Work \/ UNCHANGED jVars
  <2>1. /\ lines' \in Nat /\ lines <= lines'
        /\ ~JobRuns => ~JobRuns' /\ lines' = lines
        /\ UNCHANGED <<pc, pos, seen, out, carried>>
        BY <1>1, <1>2, <1>3 DEF JobTyped, Push, Work, SendLine, FinishJob, SendEnd, JobRuns, jVars
  <2>2. Len(log') \in Nat /\ Len(log) <= Len(log')
    <3>1. Len(log) \in Nat /\ Len(log') \in Nat
          BY <1>1, <1>2 DEF JobTyped
    <3>2. CASE UNCHANGED job
          BY <3>1, <3>2
    <3>3. CASE Push \/ Work
      <4>1. lines \in Nat /\ LogIsTheLines /\ LogIsTheLines'
            BY <1>1, <1>2 DEF JobTyped
      <4>2. CASE Push
            BY <3>1, <4>2 DEF Push
      <4>3. CASE SendLine \/ FinishJob \/ SendEnd
            BY <3>1, <4>1, <4>3 DEF LogIsTheLines, SendLine, FinishJob, SendEnd
      <4> QED BY <3>3, <4>2, <4>3 DEF Work
    <3> QED BY <1>3, <3>2, <3>3 DEF jVars
  <2>3. ASSUME NEW r \in Readers PROVE ReaderInStep(r)'
        BY <2>1, <2>2, OthersInStep
  <2> QED BY <1>1, <2>3 DEF JobInv
<1>4. ASSUME NEW s \in Readers, Read(s) \/ Gone(s) PROVE JobInv'
  <2>1. UNCHANGED job /\ (JobRuns' <=> JobRuns)
        BY <1>4 DEF Read, Subscribe, Copy, Replay, Replayed, Forward, Skip, SeeEnd, Lag,
                    SendEndEvent, Gone, JobRuns
  <2>2. ASSUME NEW r \in Readers, r # s PROVE ReaderInStep(r)'
    <3>1. pc'[r] = pc[r]
          BY <1>2, <1>4, <2>2 DEF JobTyped, Read, Subscribe, Copy, Replay, Replayed, Forward, Skip,
                                  SeeEnd, Lag, SendEndEvent, Gone, Go
    <3>3. pos'[r] = pos[r]
          BY <1>2, <1>4, <2>2 DEF JobTyped, Read, Subscribe, Copy, Replay, Replayed, Forward, Skip,
                                  SeeEnd, Lag, SendEndEvent, Gone
    <3>4. seen'[r] = seen[r] /\ carried'[r] = carried[r]
          BY <1>2, <1>4, <2>2 DEF JobTyped, Read, Subscribe, Copy, Replay, Replayed, Forward, Skip,
                                  SeeEnd, Lag, SendEndEvent, Gone
    <3>5. out'[r] = out[r]
          BY <1>2, <1>4, <2>2 DEF JobTyped, Sent, Read, Subscribe, Copy, Replay, Replayed, Forward, Skip,
                                  SeeEnd, Lag, SendEndEvent, Gone, Emit
    <3>2. lines' \in Nat /\ Len(log') \in Nat
          BY <1>2, <2>1 DEF JobTyped
    <3> QED BY <2>1, <3>1, <3>2, <3>3, <3>4, <3>5, OthersInStep
  <2>3. ReaderInStep(s)'
    <3>1. /\ ReaderInStep(s) /\ NextLine(s) \in Nat /\ pos[s] \in Nat /\ seen[s] \in 0 .. MaxLines
          /\ lines \in 0 .. MaxLines /\ Len(log) \in Nat
          /\ out[s] \in Seq(0 .. MaxLines - 1) /\ Len(out[s]) \in Nat
          BY <1>2, NextLineTyped DEF JobInv, JobTyped, Sent
    <3>2. UNCHANGED <<lines, log, output>>
          BY <2>1
    <3>3. UNCHANGED out => NextLine(s)' = NextLine(s) /\ (Behind(s)' <=> Behind(s))
          BY <3>2 DEF NextLine, Behind
    <3>4. CASE Subscribe(s)
      <4>1. pc'[s] = "copy" /\ pos'[s] = Len(log) /\ UNCHANGED <<seen, out, carried>> /\ pc[s] = "new"
            BY <1>2, <3>4 DEF Subscribe, Go, JobTyped
      <4> QED BY <3>1, <3>2, <3>3, <4>1 DEF ReaderInStep
    <3>5. CASE Copy(s)
      <4>1. /\ pc'[s] = IF JobRuns THEN "replay" ELSE "replayAll"
            /\ seen'[s] = lines /\ UNCHANGED <<pos, out, carried>> /\ pc[s] = "copy"
            BY <1>2, <3>5 DEF Copy, Go, JobTyped
      <4>2. out[s] = <<>> /\ NextLine(s) = 0 /\ Len(out[s]) = 0
            BY <3>1, <4>1 DEF ReaderInStep, NextLine
      <4>3. JobRuns => Len(log) <= lines
            BY <1>2, <3>1 DEF JobRuns, LogIsTheLines
      <4> QED BY <2>1, <3>1, <3>2, <3>3, <4>1, <4>2, <4>3 DEF ReaderInStep
    <3>6. CASE Replay(s)
      <4>1. /\ pc[s] \in {"replay", "replayAll"} /\ Emit(s, Len(out[s])) /\ Len(out[s]) < seen[s]
            /\ UNCHANGED <<pc, pos, seen, carried>>
            BY <3>6 DEF Replay
      <4>2. NextLine(s)' = Len(out[s]) + 1 /\ Len(out'[s]) = Len(out[s]) + 1
            BY <1>2, <3>1, <4>1, Emitted, SMTT(30)
      <4> QED BY <2>1, <3>1, <3>2, <4>1, <4>2, SMTT(30) DEF ReaderInStep
    <3>7. CASE Replayed(s)
      <4>1. /\ Len(out[s]) = seen[s] /\ UNCHANGED <<pos, seen, out, carried>>
            /\ \/ pc[s] = "replay" /\ pc'[s] = "follow"
               \/ pc[s] = "replayAll" /\ pc'[s] = "end"
            BY <1>2, <3>7 DEF Replayed, Go, JobTyped
      <4> QED BY <2>1, <3>1, <3>2, <3>3, <4>1, SMTT(30) DEF ReaderInStep
    <3>8. CASE Forward(s)
      <4>1. /\ pc[s] = "follow" /\ Event(s) = pos[s] /\ pos[s] < lines /\ seen[s] <= pos[s]
            /\ Emit(s, pos[s]) /\ pos'[s] = pos[s] + 1 /\ UNCHANGED <<pc, seen, carried>>
            BY <1>2, <3>8, EventOfTheLog DEF Forward, Ready, IsNew, JobTyped
      <4>2. NextLine(s)' = pos[s] + 1
            BY <1>2, <3>1, <4>1, Emitted
      <4>3. pos[s] < Len(log)
            BY <3>8 DEF Forward, Ready
      <4> QED BY <3>1, <3>2, <4>1, <4>2, <4>3, SMTT(30) DEF ReaderInStep
    <3>9. CASE Skip(s)
      <4>1. /\ pc[s] = "follow" /\ pos[s] < seen[s] /\ pos[s] < Len(log)
            /\ pos'[s] = pos[s] + 1 /\ UNCHANGED <<pc, seen, out, carried>>
            BY <1>2, <3>1, <3>9, EventOfTheLog DEF Skip, Ready, IsNew, JobTyped
      <4> QED BY <3>1, <3>2, <3>3, <4>1, SMTT(30) DEF ReaderInStep
    <3>10. CASE SeeEnd(s)
      <4>1. /\ pc[s] = "follow" /\ pos[s] = lines /\ output = "stopped" /\ pos[s] < Len(log)
            /\ pos'[s] = pos[s] + 1 /\ pc'[s] = "end" /\ UNCHANGED <<seen, out, carried>>
            BY <1>2, <3>10, EventOfTheLog DEF SeeEnd, Ready, Go, JobTyped
      <4>2. NextLine(s) = lines \/ Behind(s)
            BY <3>1, <4>1 DEF ReaderInStep
      <4> QED BY <2>1, <3>1, <3>2, <3>3, <4>1, <4>2 DEF ReaderInStep, JobRuns
    <3>11. CASE Lag(s)
      <4>1. /\ pc[s] = "follow" /\ Len(log) - pos[s] > Capacity
            /\ pos'[s] = Len(log) - Capacity /\ UNCHANGED <<pc, seen, out, carried>>
            BY <1>2, <3>11 DEF Lag, Lagged, JobTyped
      <4>2. Len(log) <= lines + 1
            BY <1>2, <3>1 DEF LogIsTheLines, JobTyped
      <4>3. NextLine(s) < pos'[s] => Behind(s)
            BY <3>1, <4>1, <4>2 DEF Behind
      <4> QED BY <3>1, <3>2, <3>3, <4>1, <4>3, SMTT(30) DEF ReaderInStep
    <3>12. CASE SendEndEvent(s)
      <4>1. pc'[s] = "closed" /\ pc[s] = "end" /\ UNCHANGED <<pos, seen, out>>
            BY <1>2, <3>12 DEF SendEndEvent, Go, JobTyped
      <4> QED BY <3>1, <3>2, <3>3, <4>1 DEF ReaderInStep
    <3>13. CASE Gone(s)
      <4>1. pc'[s] = "gone" /\ pc[s] # "new" /\ UNCHANGED <<pos, seen, out, carried>>
            BY <1>2, <3>13 DEF Gone, JobTyped
      <4> QED BY <3>1, <3>2, <3>3, <4>1 DEF ReaderInStep
    <3> QED BY <1>4, <3>4, <3>5, <3>6, <3>7, <3>8, <3>9, <3>10, <3>11, <3>12, <3>13 DEF Read
  <2> QED BY <1>1, <2>2, <2>3 DEF JobInv
<1> QED BY <1>3, <1>4 DEF JNext

\* A job's stream is a line feed, step by step.
LEMMA FeedSteps == JobInv /\ JobInv' /\ [JNext]_jVars => [Feed!Next]_(Feed!vars)
<1> SUFFICES ASSUME JobInv, JobInv', [JNext]_jVars PROVE [Feed!Next]_(Feed!vars)
    OBVIOUS
<1> USE MaxLinesAssumption, CapacityAssumption DEF job, readers
<1>1. /\ JobTyped /\ LogIsTheLines /\ lines \in Nat /\ Len(log) \in Nat
      /\ \A r \in Readers : ReaderInStep(r)
      BY DEF JobInv, JobTyped
<1>2. ASSUME UNCHANGED <<lines, out, carried>>, JobRuns' <=> JobRuns PROVE UNCHANGED Feed!vars
  <2>1. UNCHANGED [s \in Readers |-> NextLine(s)]
        BY <1>2 DEF NextLine
  <2> QED BY <1>2, <2>1 DEF Feed!vars
<1>3. ASSUME UNCHANGED out PROVE UNCHANGED [s \in Readers |-> NextLine(s)]
      BY <1>3 DEF NextLine
<1>4. CASE Push
  <2>1. Feed!AddLine
        BY <1>3, <1>4 DEF Push, Feed!AddLine, JobRuns
  <2> QED BY <2>1 DEF Feed!Next
<1>5. CASE FinishJob
  <2>1. Feed!Finish
        BY <1>3, <1>5 DEF FinishJob, Feed!Finish, JobRuns
  <2> QED BY <2>1 DEF Feed!Next
<1>6. CASE SendLine \/ SendEnd \/ UNCHANGED jVars
      BY <1>2, <1>6 DEF SendLine, SendEnd, JobRuns, jVars
<1>7. ASSUME NEW s \in Readers, Read(s) \/ Gone(s) PROVE [Feed!Next]_(Feed!vars)
  <2>1. UNCHANGED job /\ (JobRuns' <=> JobRuns)
        BY <1>7 DEF Read, Subscribe, Copy, Replay, Replayed, Forward, Skip, SeeEnd, Lag,
                    SendEndEvent, Gone, JobRuns
  <2>2. CASE Subscribe(s) \/ Copy(s) \/ Replayed(s) \/ Skip(s) \/ SeeEnd(s) \/ Lag(s) \/ Gone(s)
        BY <1>2, <2>1, <2>2 DEF Subscribe, Copy, Replayed, Skip, SeeEnd, Lag, Gone
  <2>3. NextLine(s) \in Nat /\ ReaderInStep(s) /\ pos[s] \in Nat /\ seen[s] \in 0 .. MaxLines
        BY <1>1, NextLineTyped DEF JobTyped
  <2>4. ASSUME NEW i \in NextLine(s) .. lines - 1, i = NextLine(s) \/ Behind(s),
               carried[s] = NoEnd, Emit(s, i), UNCHANGED carried
        PROVE  Feed!Next
    <3>1. i \in 0 .. MaxLines - 1
          BY <1>1, <2>3 DEF JobTyped
    <3>2. /\ NextLine(s)' = i + 1
          /\ \A r \in Readers : r # s => NextLine(r)' = NextLine(r)
          BY <1>1, <2>4, <3>1, Emitted
    <3>3. [r \in Readers |-> NextLine(r)]' = [[r \in Readers |-> NextLine(r)] EXCEPT ![s] = i + 1]
          BY <3>2
    <3>4. Feed!Deliver(s, i)
          BY <2>1, <2>4, <3>3 DEF Feed!Deliver, Feed!MaySkip, Behind
    <3>5. i \in 0 .. lines
          BY <1>1, <2>3
    <3> QED BY <3>4, <3>5 DEF Feed!Next
  <2>5. CASE Replay(s)
    <3>1. /\ pc[s] \in {"replay", "replayAll"} /\ Emit(s, Len(out[s])) /\ Len(out[s]) < seen[s]
          /\ UNCHANGED carried
          BY <2>5 DEF Replay
    <3>2. Len(out[s]) = NextLine(s) /\ carried[s] = NoEnd /\ seen[s] <= lines
          BY <2>3, <3>1 DEF ReaderInStep
    <3>3. NextLine(s) \in NextLine(s) .. lines - 1
          BY <1>1, <2>3, <3>1, <3>2
    <3> QED BY <2>4, <3>1, <3>2, <3>3
  <2>6. CASE Forward(s)
    <3>1. /\ pc[s] = "follow" /\ Event(s) = pos[s] /\ pos[s] < lines /\ seen[s] <= pos[s]
          /\ Emit(s, pos[s]) /\ UNCHANGED carried
          BY <2>3, <2>6, EventOfTheLog DEF Forward, Ready, IsNew
    <3>2. carried[s] = NoEnd /\ NextLine(s) <= pos[s] /\ (NextLine(s) < pos[s] => Behind(s))
          BY <2>3, <3>1 DEF ReaderInStep
    <3>3. pos[s] \in NextLine(s) .. lines - 1
          BY <1>1, <2>3, <3>1, <3>2
    <3>4. pos[s] = NextLine(s) \/ Behind(s)
          BY <2>3, <3>2
    <3> QED BY <2>4, <3>1, <3>2, <3>3, <3>4
  <2>7. CASE SendEndEvent(s)
    <3>1. /\ pc[s] = "end" /\ carried' = [carried EXCEPT ![s] = lines] /\ UNCHANGED out
          BY <2>7 DEF SendEndEvent, Go
    <3>2. ~JobRuns /\ (NextLine(s) = lines \/ Behind(s)) /\ carried[s] = NoEnd
          BY <2>3, <3>1 DEF ReaderInStep
    <3>3. Feed!Close(s)
          BY <1>3, <2>1, <3>1, <3>2 DEF Feed!Close, Feed!MaySkip, Behind
    <3> QED BY <3>3 DEF Feed!Next
  <2> QED BY <1>7, <2>2, <2>5, <2>6, <2>7 DEF Read
<1> QED BY <1>4, <1>5, <1>6, <1>7 DEF JNext, Work

-----------------------------------------------------------------------------
(* The frames a client pushes.                                              *)

\* What a stream has of its frames: those drawn, the one being drawn, the channel.
Held(x) == IF x = 0 THEN <<>> ELSE <<x>>
Then(a, b) == a \o b
InOrder(a, b, c) == Then(Then(a, b), c) = Then(a, Then(b, c))
InHand(d, x, q) == Then(Then(d, Held(x)), q)
OneMore(d, x, q, n) == InHand(d, x, Append(q, n)) = Append(InHand(d, x, q), n)
OnTheWay == InHand(drawn, drawing, queue)

Increasing(w)  == \A i, j \in DOMAIN w : i < j => w[i] < w[j]
UpTo(w, n)     == \A i \in DOMAIN w : w[i] \in 1 .. n
EndsWith(w, t) == \E u \in Seq(Nat) : w = Then(u, t)

PushTyped ==
  /\ posted \in Nat /\ drawing \in Nat
  /\ drawn \in Seq(Nat) /\ queue \in Seq(Nat) /\ taken \in Seq(Nat)
  /\ worker \in {"none", "open", "check", "read", "draw", "ending", "returned"}
  /\ handler \in {"idle", "cancel", "wait", "start"}

\* The frames on the way are in the order they were posted, and the one a
\* handler has in hand comes after all of them.
PostedInOrder ==
  /\ posted <= Len(HeaderOf)
  /\ Increasing(OnTheWay) /\ UpTo(OnTheWay, posted)
  /\ handler # "idle" => posted > 0 /\ UpTo(OnTheWay, posted - 1)

OneHeader ==
  /\ pushing # NoStream => pushing = header
  /\ \A i \in DOMAIN queue : HeaderOf[queue[i]] = header
  /\ drawing # 0 => HeaderOf[drawing] = header

WorkerHolds ==
  /\ worker \notin {"draw", "ending"} => drawing = 0
  /\ worker = "draw" => drawing # 0
  /\ worker \in {"returned", "none"} => queue = <<>>

PushInv ==
  /\ PushTyped /\ PostedInOrder /\ OneHeader /\ WorkerHolds
  /\ Receives => EndsWith(OnTheWay, taken)

\* Sequences of frames one after another.
LEMMA ThenTyped ==
  ASSUME NEW a \in Seq(Nat), NEW b \in Seq(Nat) PROVE Then(a, b) \in Seq(Nat)
BY ConcatProperties DEF Then

\* Joining is associative.
LEMMA ThenInOrder ==
  ASSUME NEW a \in Seq(Nat), NEW b \in Seq(Nat), NEW c \in Seq(Nat)
  PROVE  InOrder(a, b, c)
BY ConcatAssociative, SMTT(30) DEF InOrder, Then

\* Joining with nothing changes nothing.
LEMMA ThenNothing ==
  ASSUME NEW a \in Seq(Nat)
  PROVE  Then(a, <<>>) = a /\ Then(<<>>, a) = a /\ <<>> \in Seq(Nat)
BY ConcatEmptySeq DEF Then

\* To append is to join with one more.
LEMMA ThenOne ==
  ASSUME NEW a \in Seq(Nat), NEW n \in Nat
  PROVE  Append(a, n) = Then(a, <<n>>) /\ Append(a, n) \in Seq(Nat) /\ <<n>> \in Seq(Nat)
<1>1. Append(a, n) = a \o <<n>>
      BY AppendIsConcat
<1> QED BY <1>1 DEF Then

\* What is delivered, held and queued are joined into one.
LEMMA HandTyped ==
  ASSUME NEW d \in Seq(Nat), NEW x \in Nat, NEW q \in Seq(Nat)
  PROVE  /\ Held(x) \in Seq(Nat) /\ Then(d, Held(x)) \in Seq(Nat) /\ Then(Held(x), q) \in Seq(Nat)
         /\ InHand(d, x, q) \in Seq(Nat) /\ InHand(d, x, q) = Then(d, Then(Held(x), q))
<1>1. Held(x) \in Seq(Nat)
      BY DEF Held
<1>2. InOrder(d, Held(x), q)
      BY <1>1, ThenInOrder
<1>3. Then(d, Held(x)) \in Seq(Nat) /\ Then(Held(x), q) \in Seq(Nat)
      BY <1>1, ThenTyped
<1>4. Then(Then(d, Held(x)), q) \in Seq(Nat)
      BY <1>3, ThenTyped
<1> QED BY <1>1, <1>2, <1>3, <1>4 DEF InHand, InOrder

\* A frame more in the channel, one out of it, one drawn, and all dropped.
LEMMA HandGrows ==
  ASSUME NEW d \in Seq(Nat), NEW x \in Nat, NEW q \in Seq(Nat), NEW n \in Nat
  PROVE  OneMore(d, x, q, n)
<1>1. <<n>> \in Seq(Nat) /\ Append(q, n) = Then(q, <<n>>)
      BY ThenOne
<1>2. Then(d, Held(x)) \in Seq(Nat) /\ InHand(d, x, q) \in Seq(Nat)
      BY HandTyped
<1>3. Append(InHand(d, x, q), n) = Then(InHand(d, x, q), <<n>>)
      BY <1>2, ThenOne
<1>4. InOrder(Then(d, Held(x)), q, <<n>>)
      BY <1>1, <1>2, ThenInOrder
<1> QED BY <1>1, <1>3, <1>4 DEF InHand, InOrder, OneMore

\* A frame that is taken from the queue stays in hand.
LEMMA HandTakes ==
  ASSUME NEW d \in Seq(Nat), NEW q \in Seq(Nat), q # <<>>, Head(q) # 0
  PROVE  InHand(d, Head(q), Tail(q)) = InHand(d, 0, q)
<1> DEFINE h == Head(q)
           t == Tail(q)
<1>1. h \in Nat /\ t \in Seq(Nat) /\ <<h>> \o t = q
      BY HeadTailProperties
<1>2. Then(<<h>>, t) = q /\ h # 0
      BY <1>1 DEF Then
<1> HIDE DEF h, t
<1>3. Held(h) = <<h>> /\ Held(0) = <<>>
      BY <1>2 DEF Held
<1>4. InHand(d, h, t) = Then(Then(d, <<h>>), t) /\ InHand(d, 0, q) = Then(Then(d, <<>>), q)
      BY <1>3 DEF InHand
<1>5. InOrder(d, <<h>>, t)
  <2>1. <<h>> \in Seq(Nat)
        BY <1>1
  <2> QED BY <1>1, <2>1, ThenInOrder
<1>6. Then(d, <<>>) = d
      BY ThenNothing
<1>7. InHand(d, h, t) = InHand(d, 0, q)
      BY <1>2, <1>4, <1>5, <1>6 DEF InOrder
<1> QED BY <1>7 DEF h, t

\* So does one that is drawn.
LEMMA HandDraws ==
  ASSUME NEW d \in Seq(Nat), NEW x \in Nat \ {0}, NEW q \in Seq(Nat)
  PROVE  InHand(Append(d, x), 0, q) = InHand(d, x, q)
<1>1. Append(d, x) \in Seq(Nat) /\ Append(d, x) = Then(d, <<x>>)
      BY ThenOne
<1>2. Held(0) = <<>> /\ Held(x) = <<x>>
      BY DEF Held
<1> QED BY <1>1, <1>2, ThenNothing DEF InHand

\* With nothing held or queued, all is drawn.
LEMMA HandEmpty ==
  ASSUME NEW d \in Seq(Nat)
  PROVE  InHand(d, 0, <<>>) = d
<1>1. Held(0) = <<>>
      BY DEF Held
<1> QED BY <1>1, ThenNothing DEF InHand

\* A later frame keeps the order.
LEMMA OrderGrows ==
  ASSUME NEW w \in Seq(Nat), NEW n \in Nat \ {0}, Increasing(w), UpTo(w, n - 1)
  PROVE  Increasing(Append(w, n)) /\ UpTo(Append(w, n), n)
<1>1. /\ Len(w) \in Nat /\ DOMAIN w = 1 .. Len(w) /\ DOMAIN Append(w, n) = 1 .. Len(w) + 1
      /\ Append(w, n)[Len(w) + 1] = n /\ \A i \in 1 .. Len(w) : Append(w, n)[i] = w[i]
      OBVIOUS
<1>2. \A i \in 1 .. Len(w) : w[i] \in Nat /\ w[i] < n /\ w[i] >= 1
      BY <1>1 DEF UpTo
<1>3. UpTo(Append(w, n), n)
      BY <1>1, <1>2 DEF UpTo
<1>4. Increasing(Append(w, n))
      BY <1>1, <1>2 DEF Increasing
<1> QED BY <1>3, <1>4

\* What was drawn is a beginning of what is on the way.
LEMMA DrawnIsABeginning ==
  ASSUME NEW d \in Seq(Nat), NEW x \in Nat, NEW q \in Seq(Nat)
  PROVE  /\ \A i \in DOMAIN d : i \in DOMAIN InHand(d, x, q) /\ InHand(d, x, q)[i] = d[i]
<1> DEFINE rest == Then(Held(x), q)
<1>1. rest \in Seq(Nat) /\ InHand(d, x, q) = Then(d, rest)
      BY HandTyped
<1> HIDE DEF rest
<1> QED BY <1>1, ConcatProperties DEF Then

\* The same frame after both keeps an end an end.
LEMMA EndGrows ==
  ASSUME NEW w \in Seq(Nat), NEW t \in Seq(Nat), NEW n \in Nat, EndsWith(w, t)
  PROVE  EndsWith(Append(w, n), Append(t, n))
<1>1. PICK u \in Seq(Nat) : w = Then(u, t)
      BY DEF EndsWith
<1>2. <<n>> \in Seq(Nat) /\ Append(w, n) = Then(w, <<n>>) /\ Append(t, n) = Then(t, <<n>>)
      BY ThenOne
<1>3. InOrder(u, t, <<n>>)
      BY <1>2, ThenInOrder
<1>4. Append(w, n) = Then(u, Append(t, n))
      BY <1>1, <1>2, <1>3 DEF InOrder
<1> QED BY <1>4 DEF EndsWith

\* Reverse, from the community modules, in its place.
LEMMA ReverseTyped ==
  ASSUME NEW s \in Seq(Nat)
  PROVE  /\ Reverse(s) \in Seq(Nat) /\ Len(Reverse(s)) = Len(s)
         /\ \A i \in 1 .. Len(s) : Reverse(s)[i] = s[(Len(s) - i) + 1]
<1> DEFINE back == [i \in 1 .. Len(s) |-> s[(Len(s) - i) + 1]]
<1>1. Len(s) \in Nat /\ \A i \in 1 .. Len(s) : s[i] \in Nat
      OBVIOUS
<1>2. \A i \in 1 .. Len(s) : (Len(s) - i) + 1 \in 1 .. Len(s)
      BY <1>1
<1>3. back \in [1 .. Len(s) -> Nat]
      BY <1>1, <1>2
<1>4. back \in Seq(Nat) /\ Len(back) = Len(s)
      BY <1>1, <1>3
<1> QED BY <1>4 DEF Reverse

\* EndsWith is the suffix of the property.
LEMMA EndIsSuffix ==
  ASSUME NEW w \in Seq(Nat), NEW t \in Seq(Nat), EndsWith(w, t)
  PROVE  IsSuffix(t, w)
<1>1. PICK u \in Seq(Nat) : w = u \o t
      BY DEF EndsWith, Then
<1>2. /\ Len(u) \in Nat /\ Len(t) \in Nat /\ Len(w) = Len(u) + Len(t)
      /\ \A i \in 1 .. Len(t) : w[Len(u) + i] = t[i]
      BY <1>1, ConcatProperties
<1>3. Reverse(t) \in Seq(Nat) /\ Len(Reverse(t)) = Len(t)
      BY ReverseTyped
<1>4. Reverse(w) \in Seq(Nat) /\ Len(Reverse(w)) = Len(w)
      BY ReverseTyped
<1>5. \A i \in 1 .. Len(t) : Reverse(t)[i] = Reverse(w)[i]
  <2> SUFFICES ASSUME NEW i \in 1 .. Len(t) PROVE Reverse(t)[i] = Reverse(w)[i]
      OBVIOUS
  <2>1. Reverse(t)[i] = t[(Len(t) - i) + 1] /\ Reverse(w)[i] = w[(Len(w) - i) + 1]
    <3>1. i \in 1 .. Len(w)
          BY <1>2
    <3> QED BY <3>1, ReverseTyped
  <2>2. (Len(t) - i) + 1 \in 1 .. Len(t) /\ (Len(w) - i) + 1 = Len(u) + ((Len(t) - i) + 1)
        BY <1>2
  <2> QED BY <1>2, <2>1, <2>2
<1>6. SubSeq(Reverse(t), 1, Len(t)) = SubSeq(Reverse(w), 1, Len(t))
      BY <1>2, <1>3, <1>4, <1>5
<1> QED BY <1>2, <1>3, <1>4, <1>6 DEF IsSuffix, IsPrefix

\* It holds before the first frame.
LEMMA PushStarts == PInit => PushInv
<1> SUFFICES ASSUME PInit PROVE PushInv
    OBVIOUS
<1>1. OnTheWay = <<>>
  <2>1. drawn = <<>> /\ drawing = 0 /\ queue = <<>> /\ <<>> \in Seq(Nat)
        BY DEF PInit
  <2> QED BY <2>1, HandEmpty DEF OnTheWay
<1>2. PushTyped /\ OneHeader /\ WorkerHolds /\ ~Receives
      BY DEF PInit, PushTyped, OneHeader, WorkerHolds, Receives
<1>3. PostedInOrder
      BY <1>1, PushAssumption DEF PInit, PostedInOrder, Increasing, UpTo
<1> QED BY <1>2, <1>3 DEF PushInv

\* Every step of a push keeps it.
LEMMA PushSteps == PushInv /\ [PNext]_pVars => PushInv'
<1> SUFFICES ASSUME PushInv, [PNext]_pVars PROVE PushInv'
    OBVIOUS
<1> USE PushAssumption DEF stream, history
<1>1. /\ PushTyped /\ PostedInOrder /\ OneHeader /\ WorkerHolds
      /\ Receives => EndsWith(OnTheWay, taken)
      BY DEF PushInv
<1>2. OnTheWay \in Seq(Nat) /\ posted \in Nat
      BY <1>1, HandTyped DEF PushTyped, OnTheWay
<1>3. UpTo(OnTheWay, posted) => UpTo(OnTheWay, posted + 1)
      BY <1>2 DEF UpTo
\* The steps that leave the frames where they are.
<1>4. ASSUME UNCHANGED <<posted, drawn, drawing, queue, taken, header>>,
             handler' \in {"idle", "cancel", "wait", "start"},
             worker' \in {"none", "open", "check", "read", "draw", "ending", "returned"},
             handler' # "idle" => handler # "idle",
             pushing' \in {pushing, NoStream}, WorkerHolds', Receives' => Receives
      PROVE  PushInv'
  <2>1. OnTheWay' = OnTheWay
        BY <1>4 DEF OnTheWay
  <2>2. PushTyped' /\ OneHeader'
        BY <1>1, <1>4 DEF PushTyped, OneHeader
  <2>3. PostedInOrder'
        BY <1>1, <1>4, <2>1 DEF PostedInOrder
  <2> QED BY <1>1, <1>4, <2>1, <2>2, <2>3 DEF PushInv
<1>5. CASE Offer
  <2> DEFINE n == posted + 1
  <2>1. /\ handler = "idle" /\ posted' = n /\ n \in Posts /\ n \in Nat \ {0}
        /\ UNCHANGED <<pushing, worker, header, cancel, drawing, quiet, drawn>>
        /\ WorkerHolds /\ (Receives' <=> Receives)
        BY <1>1, <1>2, <1>5 DEF Offer, Posts, Receives
  <2>2. n - 1 = posted /\ n <= Len(HeaderOf)
        BY <1>2, <2>1 DEF Posts
  <2> HIDE DEF n
  <2>3. CASE UNCHANGED <<queue, taken>> /\ handler' \in {"idle", "cancel"}
    <3>1. OnTheWay' = OnTheWay
          BY <2>1, <2>3 DEF OnTheWay
    <3>2. PostedInOrder'
      <4>1. UpTo(OnTheWay, n)
            BY <1>1, <1>2, <1>3 DEF n, PostedInOrder
      <4> QED BY <1>1, <2>1, <2>2, <3>1, <4>1 DEF PostedInOrder
    <3>3. PushTyped' /\ OneHeader' /\ WorkerHolds'
          BY <1>1, <2>1, <2>3 DEF PushTyped, OneHeader, WorkerHolds
    <3> QED BY <1>1, <2>1, <2>3, <3>1, <3>2, <3>3 DEF PushInv
  <2>4. CASE /\ Takes(n) /\ queue' = Append(queue, n) /\ taken' = Append(taken, n)
             /\ UNCHANGED handler
    <3>1. OnTheWay' = Append(OnTheWay, n)
      <4>1. n \in Nat /\ drawn \in Seq(Nat) /\ drawing \in Nat /\ queue \in Seq(Nat)
            BY <1>1, <2>1 DEF PushTyped
      <4>2. OneMore(drawn, drawing, queue, n)
            BY <4>1, HandGrows
      <4>3. OnTheWay' = InHand(drawn, drawing, Append(queue, n))
            BY <2>1, <2>4 DEF OnTheWay
      <4> QED BY <4>2, <4>3 DEF OnTheWay, OneMore
    <3>2. PostedInOrder'
      <4>1. Increasing(OnTheWay') /\ UpTo(OnTheWay', n)
            BY <1>1, <1>2, <2>1, <2>2, <3>1, OrderGrows DEF PostedInOrder
      <4> QED BY <2>1, <2>2, <2>4, <4>1 DEF PostedInOrder
    <3>3. PushTyped'
          BY <1>1, <2>1, <2>4, AppendProperties DEF PushTyped
    <3>4. OneHeader'
      <4>1. HeaderOf[n] = header
            BY <1>1, <2>1, <2>4 DEF Takes, OneHeader
      <4>2. /\ DOMAIN queue' = 1 .. Len(queue) + 1 /\ queue'[Len(queue) + 1] = n
            /\ DOMAIN queue = 1 .. Len(queue) /\ Len(queue) \in Nat
            /\ \A i \in 1 .. Len(queue) : queue'[i] = queue[i]
            BY <1>1, <2>1, <2>4 DEF PushTyped
      <4>3. \A i \in DOMAIN queue' : HeaderOf[queue'[i]] = header
            BY <1>1, <4>1, <4>2 DEF OneHeader
      <4> QED BY <1>1, <2>1, <4>3 DEF OneHeader
    <3>5. WorkerHolds'
          BY <2>1, <2>4 DEF Takes, Receives, WorkerHolds
    <3>6. Receives' => EndsWith(OnTheWay', taken')
          BY <1>1, <1>2, <2>1, <2>4, <3>1, EndGrows DEF PushTyped
    <3> QED BY <3>2, <3>3, <3>4, <3>5, <3>6 DEF PushInv
  <2> QED BY <1>5, <2>1, <2>3, <2>4 DEF Offer, Enqueue, n
<1>6. CASE CancelShow \/ Waited \/ Refused \/ Delete \/ OtherReplaces
      BY <1>1, <1>4, <1>6 DEF CancelShow, Waited, Refused, Delete, OtherReplaces, PushTyped,
                              WorkerHolds, Receives
<1>7. CASE Start
  <2>1. /\ worker = "none" /\ posted \in Nat \ {0} /\ handler # "idle"
        BY <1>1, <1>7 DEF Start, Running, PostedInOrder, PushTyped
  <2>2. /\ handler' = "idle" /\ worker' = "open" /\ drawing' = 0 /\ queue' = <<posted>>
        /\ taken' = <<posted>> /\ header' = HeaderOf[posted] /\ pushing' = HeaderOf[posted]
        /\ UNCHANGED <<posted, drawn>>
        BY <1>7 DEF Start
  <2>3. OnTheWay = drawn /\ drawing = 0 /\ queue = <<>> /\ drawn \in Seq(Nat)
        BY <1>1, <2>1, HandEmpty DEF OnTheWay, WorkerHolds, PushTyped
  <2>4. OnTheWay' = Append(drawn, posted) /\ OnTheWay' = Then(drawn, <<posted>>)
    <3>1. InHand(drawn, 0, <<posted>>) = Then(drawn, <<posted>>)
      <4>1. Held(0) = <<>>
            BY DEF Held
      <4> QED BY <2>3, <4>1, ThenNothing DEF InHand
    <3>2. Append(drawn, posted) = Then(drawn, <<posted>>)
          BY <2>1, <2>3, ThenOne
    <3> QED BY <2>2, <3>1, <3>2 DEF OnTheWay
  <2>5. PostedInOrder'
    <3>1. Increasing(OnTheWay') /\ UpTo(OnTheWay', posted)
          BY <1>1, <2>1, <2>3, <2>4, OrderGrows DEF PostedInOrder
    <3> QED BY <1>1, <2>2, <3>1 DEF PostedInOrder
  <2>6. PushTyped'
        BY <1>1, <2>1, <2>2 DEF PushTyped
  <2>7. OneHeader' /\ WorkerHolds'
        BY <2>2 DEF OneHeader, WorkerHolds
  <2>8. EndsWith(OnTheWay', taken')
        BY <2>2, <2>3, <2>4 DEF EndsWith
  <2> QED BY <2>5, <2>6, <2>7, <2>8 DEF PushInv
<1>8. CASE OpenLink \/ CheckCancel \/ TimeOut \/ Disconnected \/ DrawFails
      BY <1>1, <1>4, <1>8 DEF OpenLink, CheckCancel, TimeOut, Disconnected, DrawFails, Worker, PushTyped,
                              WorkerHolds, Receives
\* The steps of the worker that keep what is on the way.
<1>9. CASE Receive
  <2>1. /\ queue # <<>> /\ worker = "read" /\ worker' = "draw" /\ drawing = 0
        /\ drawing' = Head(queue) /\ queue' = Tail(queue)
        /\ UNCHANGED <<posted, handler, pushing, header, drawn, taken>>
        BY <1>1, <1>9 DEF Receive, Worker, WorkerHolds
  <2>2. /\ Head(queue) = queue[1] /\ 1 \in DOMAIN queue /\ Tail(queue) \in Seq(Nat)
        /\ \A i \in DOMAIN Tail(queue) : i + 1 \in DOMAIN queue /\ Tail(queue)[i] = queue[i + 1]
        BY <1>1, <2>1 DEF PushTyped
  <2>3. Head(queue) \in Nat \ {0}
    <3>1. OnTheWay = drawn \o queue
      <4>1. Held(0) = <<>> /\ OnTheWay = InHand(drawn, 0, queue)
            BY <2>1 DEF Held, OnTheWay
      <4>2. drawn \in Seq(Nat)
            BY <1>1 DEF PushTyped
      <4> QED BY <4>1, <4>2, ThenNothing DEF InHand, Then
    <3>2. Len(drawn) \in Nat /\ Len(drawn) + 1 \in DOMAIN (drawn \o queue)
          /\ (drawn \o queue)[Len(drawn) + 1] = queue[1]
          BY <1>1, <2>2 DEF PushTyped
    <3>3. queue[1] \in 1 .. posted
          BY <1>1, <3>1, <3>2 DEF PostedInOrder, UpTo
    <3> QED BY <1>2, <2>2, <3>3
  <2>4. OnTheWay' = OnTheWay
        BY <1>1, <2>1, <2>3, HandTakes DEF OnTheWay, PushTyped
  <2>5. PushTyped' /\ PostedInOrder' /\ WorkerHolds'
        BY <1>1, <2>1, <2>2, <2>3, <2>4 DEF PushTyped, PostedInOrder, WorkerHolds
  <2>6. OneHeader'
        BY <1>1, <2>1, <2>2 DEF OneHeader
  <2> QED BY <1>1, <2>1, <2>4, <2>5, <2>6 DEF PushInv, Receives
<1>10. CASE DrawFrame
  <2>1. /\ worker = "draw" /\ worker' = "check" /\ drawn' = Append(drawn, drawing) /\ drawing' = 0
        /\ UNCHANGED <<posted, handler, pushing, header, queue, taken>>
        BY <1>10 DEF DrawFrame, Worker
  <2>2. drawing \in Nat \ {0}
        BY <1>1, <2>1 DEF WorkerHolds, PushTyped
  <2>3. OnTheWay' = OnTheWay
        BY <1>1, <2>1, <2>2, HandDraws DEF OnTheWay, PushTyped
  <2>4. PushTyped'
        BY <1>1, <2>1, AppendProperties DEF PushTyped
  <2>5. PostedInOrder' /\ WorkerHolds' /\ OneHeader'
        BY <1>1, <2>1, <2>3 DEF PostedInOrder, WorkerHolds, OneHeader
  <2> QED BY <1>1, <2>1, <2>3, <2>4, <2>5 DEF PushInv, Receives
\* The end drops what is on the way and not drawn.
<1>11. CASE ThreadReturns
  <2>1. /\ worker' = "returned" /\ queue' = <<>> /\ drawing' = 0
        /\ UNCHANGED <<posted, handler, pushing, header, drawn, taken>>
        BY <1>11 DEF ThreadReturns, Worker
  <2>2. OnTheWay' = drawn /\ drawn \in Seq(Nat) /\ queue \in Seq(Nat) /\ drawing \in Nat
        BY <1>1, <2>1, HandEmpty DEF OnTheWay, PushTyped
  <2>3. \A i \in DOMAIN drawn : i \in DOMAIN OnTheWay /\ OnTheWay[i] = drawn[i]
        BY <2>2, DrawnIsABeginning DEF OnTheWay
  <2>4. PostedInOrder'
        BY <1>1, <2>1, <2>2, <2>3 DEF PostedInOrder, Increasing, UpTo
  <2>5. PushTyped' /\ OneHeader' /\ WorkerHolds' /\ ~Receives'
        BY <1>1, <2>1 DEF PushTyped, OneHeader, WorkerHolds, Receives
  <2> QED BY <2>4, <2>5 DEF PushInv
<1>12. CASE Finish
  <2>1. /\ worker = "returned" /\ worker' = "none" /\ taken' = <<>>
        /\ UNCHANGED <<posted, handler, pushing, header, drawn, queue, drawing>>
        BY <1>12 DEF Finish, Worker
  <2>2. PushTyped' /\ PostedInOrder' /\ OneHeader' /\ WorkerHolds' /\ ~Receives'
        BY <1>1, <2>1 DEF PushTyped, PostedInOrder, OnTheWay, OneHeader, WorkerHolds, Receives
  <2> QED BY <2>2 DEF PushInv
<1>13. CASE UNCHANGED pVars
      BY <1>1, <1>4, <1>13 DEF pVars, PushTyped, WorkerHolds, Receives
<1> QED BY <1>5, <1>6, <1>7, <1>8, <1>9, <1>10, <1>11, <1>12, <1>13 DEF PNext, WorkerStep

\* Where a frame is that a stream took: drawn, about to be, in the channel, or
\* gone with the stream.
Places == ToSet(drawn) \cup {drawing} \cup ToSet(queue) \cup full \cup lost
FramesKept == AnsweredFramesAreKept /\ 0 \notin answered

\* The members of a sequence that grows by one, or gives its first away.
LEMMA MembersGrow ==
  ASSUME NEW q \in Seq(Nat), NEW n \in Nat PROVE ToSet(Append(q, n)) = ToSet(q) \cup {n}
<1>1. /\ DOMAIN Append(q, n) = 1 .. Len(q) + 1 /\ DOMAIN q = 1 .. Len(q) /\ Len(q) \in Nat
      /\ Append(q, n)[Len(q) + 1] = n /\ \A i \in 1 .. Len(q) : Append(q, n)[i] = q[i]
      OBVIOUS
<1> QED BY <1>1 DEF ToSet

LEMMA MembersTaken ==
  ASSUME NEW q \in Seq(Nat), q # <<>> PROVE ToSet(q) = {Head(q)} \cup ToSet(Tail(q))
<1>1. /\ Len(q) \in Nat \ {0} /\ DOMAIN q = 1 .. Len(q) /\ DOMAIN Tail(q) = 1 .. Len(q) - 1
      /\ q[1] = Head(q) /\ \A i \in 1 .. Len(q) - 1 : Tail(q)[i] = q[i + 1]
      OBVIOUS
<1>2. ASSUME NEW i \in DOMAIN q PROVE q[i] \in {Head(q)} \cup ToSet(Tail(q))
  <2>1. i # 1 => i - 1 \in DOMAIN Tail(q) /\ q[i] = Tail(q)[i - 1]
        BY <1>1
  <2> QED BY <1>1, <2>1 DEF ToSet
<1>3. ASSUME NEW i \in DOMAIN Tail(q) PROVE Tail(q)[i] \in ToSet(q)
  <2>1. i + 1 \in DOMAIN q /\ Tail(q)[i] = q[i + 1]
        BY <1>1
  <2> QED BY <2>1 DEF ToSet
<1>4. Head(q) \in ToSet(q)
  <2>1. 1 \in DOMAIN q
        BY <1>1
  <2> QED BY <1>1, <2>1 DEF ToSet
<1>5. ToSet(q) \subseteq {Head(q)} \cup ToSet(Tail(q))
      BY <1>2 DEF ToSet
<1>6. ToSet(Tail(q)) \subseteq ToSet(q)
      BY <1>3 DEF ToSet
<1> QED BY <1>4, <1>5, <1>6

\* No step takes a frame out of all of them: a frame is answered as taken only
\* at a thread that still has its end of the channel, and the channel a stream
\* begins with comes after an empty one.
LEMMA KeptSteps == PushInv /\ FramesKept /\ [PNext]_pVars => FramesKept'
<1> SUFFICES ASSUME PushInv, answered \subseteq Places, 0 \notin answered, [PNext]_pVars
             PROVE answered' \subseteq Places' /\ 0 \notin answered'
    BY DEF FramesKept, AnsweredFramesAreKept, Places
<1> USE DEF stream, history
<1>1. PushTyped /\ PostedInOrder /\ WorkerHolds
      BY DEF PushInv
<1>2. CASE Offer
  <2>1. UNCHANGED <<drawn, drawing, lost>> /\ posted + 1 \in Nat \ {0}
        BY <1>1, <1>2 DEF Offer, PushTyped
  <2>2. \/ UNCHANGED <<queue, full, answered>>
        \/ /\ queue' = Append(queue, posted + 1) /\ full' = full
           /\ answered' = answered \cup {posted + 1}
        \/ /\ queue' = queue /\ full' = full \cup {posted + 1}
           /\ answered' = answered \cup {posted + 1}
        BY <1>2 DEF Offer, Enqueue
  <2>3. ToSet(Append(queue, posted + 1)) = ToSet(queue) \cup {posted + 1}
        BY <1>1, <2>1, MembersGrow DEF PushTyped
  <2> QED BY <2>1, <2>2, <2>3 DEF Places
<1>3. CASE Start
  <2>1. queue = <<>> /\ drawing = 0 /\ posted # 0
        BY <1>1, <1>3 DEF Start, Running, WorkerHolds, PostedInOrder
  <2>2. ToSet(<<>>) = {} /\ ToSet(<<posted>>) = {posted}
        BY DEF ToSet
  <2> QED BY <1>3, <2>1, <2>2 DEF Start, Places
<1>4. CASE Receive
  <2>1. drawing = 0 /\ ToSet(queue) = {Head(queue)} \cup ToSet(Tail(queue))
        BY <1>1, <1>4, MembersTaken DEF Receive, Worker, WorkerHolds, PushTyped
  <2> QED BY <1>4, <2>1 DEF Receive, Places
<1>5. CASE DrawFrame
  <2>1. ToSet(drawn') = ToSet(drawn) \cup {drawing}
        BY <1>1, <1>5, MembersGrow DEF DrawFrame, PushTyped
  <2> QED BY <1>5, <2>1 DEF DrawFrame, Places
<1>6. CASE ThreadReturns
  <2>1. ToSet(queue) \cup ({drawing} \ {0}) \subseteq lost'
        BY <1>6 DEF ThreadReturns
  <2>2. 0 \in Places'
        BY <1>6 DEF ThreadReturns, Places
  <2> QED BY <1>6, <2>1, <2>2 DEF ThreadReturns, Places
<1>7. CASE CancelShow \/ Waited \/ Refused \/ Delete \/ OtherReplaces \/ OpenLink
           \/ CheckCancel \/ TimeOut \/ Disconnected \/ DrawFails \/ Finish \/ UNCHANGED pVars
      BY <1>7 DEF CancelShow, Waited, Refused, Delete, OtherReplaces, OpenLink, CheckCancel,
                  TimeOut, Disconnected, DrawFails, Finish, pVars, Places
<1> QED BY <1>2, <1>3, <1>4, <1>5, <1>6, <1>7 DEF PNext, WorkerStep

-----------------------------------------------------------------------------
(* The frames a client writes to the socket.                                *)

\* The piece a client writes after k others.
Piece(c, k) == <<c, (k \div Parts) + 1, (k % Parts) + 1>>
Pieces == {Piece(c, k) : c \in Clients, k \in Nat}
Units  == Headers \cup Pieces

Reading == server \in {"loop", "read", "show"}
Served(c) == Reading /\ c = conn
Got == shown[conn] * Parts + Len(buf)

\* What a client wrote and nobody read: all of it before it is served, then what
\* comes after the pieces the server has.
FromTheStart(c) ==
  /\ shown[c] = 0 /\ Len(wire[c]) = wrote[c] + 1
  /\ \A i \in 1 .. wrote[c] : wire[c][i + 1] = Piece(c, i - 1)
FromWhatItGot ==
  /\ Len(wire[conn]) + Got = wrote[conn]
  /\ \A i \in 1 .. Len(wire[conn]) : wire[conn][i] = Piece(conn, (Got + i) - 1)

Wires == [Clients -> Seq(Units)]
ServeTyped ==
  /\ server \in {"start", "open", "check", "accept", "header", "loop", "read", "show",
                 "leave", "over", "killed"}
  /\ wire \in Wires /\ wrote \in [Clients -> Nat] /\ shown \in [Clients -> Nat]
  /\ client \in [Clients -> {"out", "in", "closed"}]
  /\ buf \in Seq(Units)

ClientsInLine ==
  \A c \in Clients :
    /\ client[c] = "out" => wire[c] = <<>> /\ wrote[c] = 0 /\ shown[c] = 0
    /\ client[c] = "in" /\ wire[c] = <<>> => Served(c)
    /\ ~Served(c) /\ wire[c] # <<>> => FromTheStart(c)

ServedInLine ==
  /\ server \in {"header", "loop", "read", "show"} => conn \in Clients /\ client[conn] # "out"
  /\ server = "header" => wire[conn] # <<>>
  /\ Reading => FromWhatItGot
  /\ Reading => \A p \in 1 .. Len(buf) : buf[p] = <<conn, shown[conn] + 1, p>>
  /\ server \in {"loop", "read"} => Len(buf) < Parts
  /\ server = "show" => Len(buf) = Parts
  /\ ~Reading => buf = <<>>

ServeInv == ServeTyped /\ ClientsInLine /\ ServedInLine

\* One moved from one side to the other.
LEMMA OneAcross ==
  ASSUME NEW a \in Nat, NEW b \in Nat, NEW w, a + b = w
  PROVE  (a - 1) + (b + 1) = w
OBVIOUS

\* A piece by the number of its frame and its place in it.
LEMMA PieceOfFrame ==
  ASSUME NEW c \in Clients, NEW n \in Nat, NEW b \in 0 .. Parts - 1
  PROVE  Piece(c, n * Parts + b) = <<c, n + 1, b + 1>> /\ n * Parts + b \in Nat
<1>1. (n * Parts + b) \div Parts = n /\ (n * Parts + b) % Parts = b /\ n * Parts + b \in Nat
  <2>1. Parts \in Nat \ {0} /\ n * Parts \in Nat
        BY ServeAssumption
  <2>2. n * Parts + b \in Nat
        BY <2>1
  <2>3. (n * Parts + b) % Parts = b
        BY <2>1
  <2>4. (n * Parts + b) \div Parts = n
        BY <2>1
  <2> QED BY <2>2, <2>3, <2>4
<1> QED BY <1>1 DEF Piece

\* It holds before the first client.
LEMMA ServeStarts == SInit => ServeInv
<1> SUFFICES ASSUME SInit PROVE ServeInv
    OBVIOUS
<1>1. ServeTyped
      BY DEF SInit, ServeTyped, Wires
<1>2. ~Reading /\ server # "header"
      BY DEF SInit, Reading
<1>3. ClientsInLine
      BY DEF SInit, ClientsInLine
<1>4. ServedInLine
      BY <1>2 DEF SInit, ServedInLine
<1> QED BY <1>1, <1>3, <1>4 DEF ServeInv

\* A step that only moves the server, and neither takes a client nor lets go of
\* one.
LEMMA ServerMoves ==
  ASSUME ServeInv, UNCHANGED <<conn, buf, shown, client, wire, wrote>>,
         \/ /\ server \in {"start", "open", "check", "accept", "over", "killed"}
            /\ server' \in {"start", "open", "check", "accept", "leave", "over", "killed"}
         \/ server \in {"loop", "read"} /\ server' \in {"loop", "read"}
         \/ server' = server
  PROVE  ServeInv'
<1>1. (Reading' <=> Reading) /\ (server' = "header" <=> server = "header")
      BY DEF Reading
<1>2. server' \in {"start", "open", "check", "accept", "header", "loop", "read", "show", "leave",
                   "over", "killed"}
      BY DEF ServeInv, ServeTyped
<1>3. ServeTyped'
      BY <1>2 DEF ServeInv, ServeTyped
<1>4. ClientsInLine'
      BY <1>1 DEF ServeInv, ClientsInLine, Served, FromTheStart, Piece
<1>5. ServedInLine'
      BY <1>1 DEF ServeInv, ServedInLine, FromWhatItGot, Got, Piece, Reading
<1> QED BY <1>3, <1>4, <1>5 DEF ServeInv

\* The server lets go of its client, or of everybody.
LEMMA HangupKeeps ==
  ASSUME ServeInv, server \in {"header", "loop", "read", "show"}, NEW from, Hangup(from)
  PROVE  ServeInv'
<1>1. /\ server' = "check" /\ client' = [client EXCEPT ![conn] = "closed"]
      /\ wire' = [wire EXCEPT ![conn] = <<>>] /\ buf' = <<>>
      /\ UNCHANGED <<shown, wrote>> /\ conn \in Clients /\ client[conn] # "out"
      BY DEF Hangup, Server, SourceAfter, ServeInv, ServedInLine
<1>2. ServeTyped
      BY DEF ServeInv
<1>3. /\ client'[conn] = "closed" /\ wire'[conn] = <<>>
      /\ \A c \in Clients : c # conn => client'[c] = client[c] /\ wire'[c] = wire[c]
      /\ wire' \in Wires /\ client' \in [Clients -> {"out", "in", "closed"}]
      BY <1>1, <1>2 DEF ServeTyped, Wires
<1>4. ServeTyped'
      BY <1>1, <1>2, <1>3 DEF ServeTyped
<1>5. ~Reading'
      BY <1>1 DEF Reading
<1>6. ClientsInLine'
  <2> SUFFICES ASSUME NEW c \in Clients
               PROVE  /\ client'[c] = "out" => wire'[c] = <<>> /\ wrote'[c] = 0 /\ shown'[c] = 0
                      /\ client'[c] = "in" /\ wire'[c] = <<>> => Served(c)'
                      /\ ~Served(c)' /\ wire'[c] # <<>> => FromTheStart(c)'
      BY DEF ClientsInLine
  <2>1. CASE c = conn
        BY <1>3, <2>1
  <2>2. CASE c # conn
    <3>1. client'[c] = client[c] /\ wire'[c] = wire[c] /\ ~Served(c)
          BY <1>3, <2>2 DEF Served
    <3>2. /\ client[c] = "out" => wire[c] = <<>> /\ wrote[c] = 0 /\ shown[c] = 0
          /\ client[c] = "in" /\ wire[c] = <<>> => Served(c)
          /\ ~Served(c) /\ wire[c] # <<>> => FromTheStart(c)
          BY DEF ServeInv, ClientsInLine
    <3>3. FromTheStart(c) => FromTheStart(c)'
          BY <1>1, <3>1 DEF FromTheStart, Piece
    <3> QED BY <1>1, <3>1, <3>2, <3>3
  <2> QED BY <2>1, <2>2
<1>7. ServedInLine'
      BY <1>1, <1>5 DEF ServedInLine
<1> QED BY <1>4, <1>6, <1>7 DEF ServeInv

\* The end of every connection, with the process, keeps it.
LEMMA CutKeeps ==
  ASSUME ServeInv, Cut, buf' = <<>>, server' \in {"over", "killed"}, UNCHANGED <<shown, wrote>>
  PROVE  ServeInv'
<1>1. \A c \in Clients : wire'[c] = <<>> /\ client'[c] # "in" /\ (client'[c] = "out" => client[c] = "out")
      BY DEF Cut, ServeInv, ServeTyped
<1>2. ServeTyped'
      BY DEF Cut, ServeInv, ServeTyped, Wires
<1>3. ~Reading'
      BY DEF Reading
<1>4. ClientsInLine'
      BY <1>1 DEF ServeInv, ClientsInLine
<1>5. ServedInLine'
      BY <1>3 DEF ServedInLine
<1> QED BY <1>2, <1>4, <1>5 DEF ServeInv

\* Every step of the server keeps it.
LEMMA ServeSteps == ServeInv /\ [SNext]_sVars => ServeInv'
<1> SUFFICES ASSUME ServeInv, [SNext]_sVars PROVE ServeInv'
    OBVIOUS
<1> USE ServeAssumption DEF serving, peers, Server
<1>0. ServeTyped /\ ClientsInLine /\ ServedInLine
      BY DEF ServeInv
<1>1. CASE Bind \/ OpenWall \/ CheckStop \/ AcceptFails \/ Signal \/ RunAgain \/ ReadTimesOut
           \/ UNCHANGED sVars
  <2>1. UNCHANGED <<conn, buf, shown, client, wire, wrote>>
        BY <1>1 DEF Bind, OpenWall, CheckStop, AcceptFails, Signal, RunAgain, ReadTimesOut, KeepPieces,
                    sVars
  <2>2. \/ /\ server \in {"start", "open", "check", "accept", "over", "killed"}
           /\ server' \in {"start", "open", "check", "accept", "leave", "over", "killed"}
        \/ server \in {"loop", "read"} /\ server' \in {"loop", "read"}
        \/ server' = server
        BY <1>1 DEF Bind, OpenWall, CheckStop, AcceptFails, Signal, RunAgain, ReadTimesOut, sVars
  <2> QED BY <2>1, <2>2, ServerMoves
<1>2. CASE Accept
  <2>1. CASE server' = "check"
    <3>1. server = "accept" /\ UNCHANGED <<conn, buf, shown, client, wire, wrote>>
          BY <1>2, <2>1 DEF Accept
    <3> QED BY <2>1, <3>1, ServerMoves
  <2>2. CASE server' = "header"
    <3>1. PICK c \in Waiting : /\ server = "accept" /\ conn' = c
                               /\ UNCHANGED <<buf, shown, client, wire, wrote>>
          BY <1>2, <2>2 DEF Accept
    <3>2. c \in Clients /\ wire[c] # <<>> /\ client[c] # "out"
          BY <1>0, <3>1 DEF Waiting, ClientsInLine
    <3>3. ~Reading /\ ~Reading'
          BY <2>2, <3>1 DEF Reading
    <3>4. ServeTyped'
          BY <1>0, <2>2, <3>1 DEF ServeTyped
    <3>5. ClientsInLine'
          BY <1>0, <3>1, <3>3 DEF ClientsInLine, Served, FromTheStart, Piece
    <3>6. ServedInLine'
          BY <1>0, <2>2, <3>1, <3>2, <3>3 DEF ServedInLine
    <3> QED BY <3>4, <3>5, <3>6 DEF ServeInv
  <2> QED BY <1>2, <2>1, <2>2 DEF Accept
<1>3. CASE ReadHeader
  <2>1. CASE server # "loop" /\ Hangup("header")
        BY <1>3, <2>1, HangupKeeps DEF ReadHeader, Hangup
  <2>2. CASE /\ server = "header" /\ server' = "loop" /\ wire' = [wire EXCEPT ![conn] = Tail(wire[conn])]
             /\ UNCHANGED <<conn, buf, shown, client, wrote>>
    <3>1. /\ conn \in Clients /\ client[conn] # "out" /\ wire[conn] # <<>> /\ buf = <<>>
          /\ ~Reading /\ Reading'
          BY <1>0, <2>2 DEF ServedInLine, Reading
    <3>2. FromTheStart(conn) /\ wire[conn] \in Seq(Units) /\ wrote[conn] \in Nat
          BY <1>0, <3>1 DEF ClientsInLine, Served, ServeTyped, Wires
    <3>3. /\ Tail(wire[conn]) \in Seq(Units) /\ Len(Tail(wire[conn])) = wrote[conn]
          /\ \A i \in 1 .. wrote[conn] : Tail(wire[conn])[i] = Piece(conn, i - 1)
          BY <3>1, <3>2 DEF FromTheStart
    <3>4. /\ wire' \in Wires /\ wire'[conn] = Tail(wire[conn])
          /\ \A c \in Clients : c # conn => wire'[c] = wire[c]
          BY <1>0, <2>2, <3>1, <3>3 DEF ServeTyped, Wires
    <3>5. ServeTyped'
          BY <1>0, <2>2, <3>4 DEF ServeTyped
    <3>6. ClientsInLine'
      <4> SUFFICES ASSUME NEW c \in Clients
                   PROVE  /\ client[c] = "out" => wire'[c] = <<>> /\ wrote[c] = 0 /\ shown[c] = 0
                          /\ client[c] = "in" /\ wire'[c] = <<>> => Served(c)'
                          /\ ~Served(c)' /\ wire'[c] # <<>> => FromTheStart(c)'
          BY <2>2 DEF ClientsInLine
      <4>1. CASE c = conn
            BY <2>2, <3>1, <4>1 DEF Served
      <4>2. CASE c # conn
        <5>1. wire'[c] = wire[c] /\ ~Served(c) /\ ~Served(c)'
              BY <2>2, <3>1, <3>4, <4>2 DEF Served
        <5>2. /\ client[c] = "out" => wire[c] = <<>> /\ wrote[c] = 0 /\ shown[c] = 0
              /\ client[c] = "in" /\ wire[c] = <<>> => Served(c)
              /\ ~Served(c) /\ wire[c] # <<>> => FromTheStart(c)
              BY <1>0 DEF ClientsInLine
        <5>3. FromTheStart(c) => FromTheStart(c)'
              BY <2>2, <5>1 DEF FromTheStart, Piece
        <5> QED BY <5>1, <5>2, <5>3
      <4> QED BY <4>1, <4>2
    <3>7. FromWhatItGot'
      <4>1. Got' = 0
            BY <2>2, <3>1, <3>2 DEF Got, FromTheStart
      <4>2. \A i \in 1 .. wrote[conn] : wire'[conn][i] = Piece(conn, (Got' + i) - 1)
        <5>1. \A i \in 1 .. wrote[conn] : (Got' + i) - 1 = i - 1
              BY <3>2, <4>1
        <5> QED BY <3>3, <3>4, <5>1
      <4>3. Len(wire'[conn]) = wrote[conn] /\ Len(wire'[conn]) + Got' = wrote[conn]
            BY <3>2, <3>3, <3>4, <4>1
      <4> QED BY <2>2, <4>2, <4>3 DEF FromWhatItGot, Piece
    <3>8. ServedInLine'
          BY <2>2, <3>1, <3>7 DEF ServedInLine
    <3> QED BY <3>5, <3>6, <3>8 DEF ServeInv
  <2> QED BY <1>3, <2>1, <2>2 DEF ReadHeader
<1>4. CASE LoopOrStop
  <2>1. CASE Hangup("loop")
        BY <1>4, <2>1, HangupKeeps DEF LoopOrStop, Hangup
  <2>2. CASE ~stop /\ Server("loop", "read") /\ UNCHANGED <<stop, socket, serving, peers, runs>>
        BY <2>2, ServerMoves
  <2> QED BY <1>4, <2>1, <2>2 DEF LoopOrStop
<1>5. CASE ReadPiece
  <2>1. /\ server = "read" /\ wire[conn] # <<>> /\ buf' = Append(buf, Head(wire[conn]))
        /\ wire' = [wire EXCEPT ![conn] = Tail(wire[conn])]
        /\ server' = IF Len(buf) + 1 = Parts THEN "show" ELSE "read"
        /\ UNCHANGED <<conn, shown, client, wrote>>
        BY <1>5 DEF ReadPiece, Quiet, Received
  <2>2. /\ conn \in Clients /\ client[conn] # "out" /\ Reading /\ Reading' /\ FromWhatItGot
        /\ \A p \in 1 .. Len(buf) : buf[p] = <<conn, shown[conn] + 1, p>>
        /\ Len(buf) \in 0 .. Parts - 1 /\ buf \in Seq(Units) /\ shown[conn] \in Nat
        /\ wire[conn] \in Seq(Units)
        BY <1>0, <2>1 DEF ServedInLine, ServeTyped, Wires, Reading
  <2>3. /\ Len(wire[conn]) \in Nat \ {0} /\ Head(wire[conn]) = wire[conn][1] /\ Head(wire[conn]) \in Units
        /\ Tail(wire[conn]) \in Seq(Units) /\ Len(Tail(wire[conn])) = Len(wire[conn]) - 1
        /\ \A i \in 1 .. Len(wire[conn]) - 1 : Tail(wire[conn])[i] = wire[conn][i + 1]
        BY <2>1, <2>2
  <2>4. Got \in Nat /\ Head(wire[conn]) = <<conn, shown[conn] + 1, Len(buf) + 1>>
    <3>1. Piece(conn, Got) = <<conn, shown[conn] + 1, Len(buf) + 1>> /\ Got \in Nat
          BY <2>2, PieceOfFrame DEF Got
    <3>2. wire[conn][1] = Piece(conn, (Got + 1) - 1)
          BY <2>2, <2>3 DEF FromWhatItGot
    <3>3. (Got + 1) - 1 = Got
          BY <3>1
    <3> QED BY <2>3, <3>1, <3>2, <3>3
  <2>5. /\ wire' \in Wires /\ wire'[conn] = Tail(wire[conn])
        /\ \A c \in Clients : c # conn => wire'[c] = wire[c]
        BY <1>0, <2>1, <2>2, <2>3 DEF ServeTyped, Wires
  <2>6. /\ buf' \in Seq(Units) /\ Len(buf') = Len(buf) + 1
        /\ buf'[Len(buf) + 1] = Head(wire[conn]) /\ \A p \in 1 .. Len(buf) : buf'[p] = buf[p]
        BY <2>1, <2>2, <2>3
  <2>7. ServeTyped'
        BY <1>0, <2>1, <2>5, <2>6 DEF ServeTyped
  <2>8. ClientsInLine'
    <3> SUFFICES ASSUME NEW c \in Clients
                 PROVE  /\ client[c] = "out" => wire'[c] = <<>> /\ wrote[c] = 0 /\ shown[c] = 0
                        /\ client[c] = "in" /\ wire'[c] = <<>> => Served(c)'
                        /\ ~Served(c)' /\ wire'[c] # <<>> => FromTheStart(c)'
        BY <2>1 DEF ClientsInLine
    <3>1. CASE c = conn
          BY <2>1, <2>2, <3>1 DEF Served, Reading
    <3>2. CASE c # conn
      <4>1. wire'[c] = wire[c] /\ ~Served(c) /\ ~Served(c)'
            BY <2>1, <2>5, <3>2 DEF Served
      <4>2. /\ client[c] = "out" => wire[c] = <<>> /\ wrote[c] = 0 /\ shown[c] = 0
            /\ client[c] = "in" /\ wire[c] = <<>> => Served(c)
            /\ ~Served(c) /\ wire[c] # <<>> => FromTheStart(c)
            BY <1>0 DEF ClientsInLine
      <4>3. FromTheStart(c) => FromTheStart(c)'
            BY <2>1, <4>1 DEF FromTheStart, Piece
      <4> QED BY <4>1, <4>2, <4>3
    <3> QED BY <3>1, <3>2
  <2>9. FromWhatItGot'
    <3>1. Got' = Got + 1
      <4> DEFINE before == shown[conn] * Parts
      <4>1. before \in Nat /\ Got = before + Len(buf)
            BY <2>2, ServeAssumption DEF Got
      <4>2. Got' = before + Len(buf')
            BY <2>1 DEF Got
      <4> HIDE DEF before
      <4> QED BY <2>2, <2>6, <4>1, <4>2
    <3>2. wrote[conn] \in Nat /\ Len(wire'[conn]) + Got' = wrote[conn]
      <4>1. Len(wire[conn]) + Got = wrote[conn] /\ wrote[conn] \in Nat
            BY <1>0, <2>2 DEF ServeTyped, FromWhatItGot
      <4>2. Len(wire'[conn]) = Len(wire[conn]) - 1
            BY <2>3, <2>5
      <4>3. Len(wire[conn]) \in Nat /\ Got \in Nat
            BY <2>3, <2>4
      <4>4. (Len(wire[conn]) - 1) + (Got + 1) = wrote[conn]
        <5> DEFINE a == Len(wire[conn])
                   w == wrote[conn]
        <5>1. a \in Nat /\ Got \in Nat /\ w \in Nat /\ a + Got = w
              BY <4>1, <4>3
        <5> HIDE DEF a, w
        <5>2. (a - 1) + (Got + 1) = w
              BY <5>1
        <5> QED BY <5>2 DEF a, w
      <4>5. Len(wire'[conn]) + Got' = (Len(wire[conn]) - 1) + (Got + 1)
            BY <3>1, <4>2
      <4> QED BY <4>1, <4>4, <4>5
    <3>3. ASSUME NEW i \in 1 .. Len(wire[conn]) - 1
          PROVE  wire'[conn][i] = Piece(conn, (Got' + i) - 1)
      <4>1. wire'[conn][i] = wire[conn][i + 1] /\ i + 1 \in 1 .. Len(wire[conn])
            BY <2>3, <2>5
      <4>2. wire[conn][i + 1] = Piece(conn, (Got + (i + 1)) - 1)
            BY <2>2, <4>1 DEF FromWhatItGot
      <4>3. (Got + (i + 1)) - 1 = (Got' + i) - 1
            BY <2>3, <2>4, <3>1
      <4> QED BY <4>1, <4>2, <4>3
    <3> QED BY <2>1, <2>3, <2>5, <3>2, <3>3 DEF FromWhatItGot, Piece
  <2>10. ServedInLine'
    <3>1. \A p \in 1 .. Len(buf') : buf'[p] = <<conn', shown'[conn'] + 1, p>>
      <4>1. ASSUME NEW p \in 1 .. Len(buf') PROVE p \in 1 .. Len(buf) \/ p = Len(buf) + 1
            BY <2>2, <2>6
      <4> QED BY <2>1, <2>2, <2>4, <2>6, <4>1
    <3> QED BY <2>1, <2>2, <2>6, <2>9, <3>1, SMTT(30) DEF ServedInLine
  <2> QED BY <2>7, <2>8, <2>10 DEF ServeInv
<1>6. CASE ReadEnds
      BY <1>6, HangupKeeps DEF ReadEnds
<1>7. CASE Draw
  <2>1. CASE Hangup("show")
        BY <2>1, HangupKeeps DEF Hangup, Server
  <2>2. CASE /\ server = "show" /\ server' = "loop" /\ buf' = <<>>
             /\ shown' = [shown EXCEPT ![conn] = shown[conn] + 1]
             /\ UNCHANGED <<conn, client, wire, wrote>>
    <3>1. /\ conn \in Clients /\ client[conn] # "out" /\ Reading /\ Reading' /\ FromWhatItGot
          /\ Len(buf) = Parts /\ shown[conn] \in Nat /\ Parts \in Nat \ {0}
          BY <1>0, <2>2 DEF ServedInLine, ServeTyped, Reading
    <3>2. /\ shown' \in [Clients -> Nat] /\ shown'[conn] = shown[conn] + 1
          /\ \A c \in Clients : c # conn => shown'[c] = shown[c]
          BY <1>0, <2>2, <3>1 DEF ServeTyped
    <3>3. Got' = Got
      <4>1. Got = shown[conn] * Parts + Parts /\ Got' = (shown[conn] + 1) * Parts + 0
            BY <2>2, <3>1, <3>2 DEF Got
      <4>2. (shown[conn] + 1) * Parts = shown[conn] * Parts + Parts /\ shown[conn] * Parts \in Nat
            BY <3>1
      <4> QED BY <3>1, <4>1, <4>2
    <3>4. ServeTyped'
          BY <1>0, <2>2, <3>2 DEF ServeTyped
    <3>5. ClientsInLine'
          BY <1>0, <2>2, <3>1, <3>2 DEF ClientsInLine, Served, FromTheStart, Piece
    <3>6. FromWhatItGot'
          BY <2>2, <3>1, <3>3 DEF FromWhatItGot, Piece
    <3>7. ServedInLine'
          BY <2>2, <3>1, <3>6 DEF ServedInLine
    <3> QED BY <3>4, <3>5, <3>7 DEF ServeInv
  <2> QED BY <1>7, <2>1, <2>2 DEF Draw
<1>8. CASE Leave
  <2>1. buf = <<>>
        BY <1>0, <1>8 DEF Leave, ServedInLine, Reading
  <2> QED BY <1>8, <2>1, CutKeeps DEF Leave
<1>9. CASE Kill
      BY <1>9, CutKeeps DEF Kill
<1>10. ASSUME NEW c \in Clients, Connect(c) PROVE ServeInv'
  <2>1. PICK h \in Headers : wire' = [wire EXCEPT ![c] = <<h>>]
        BY <1>10 DEF Connect
  <2>2. /\ client[c] = "out" /\ client' = [client EXCEPT ![c] = "in"]
        /\ UNCHANGED <<server, conn, buf, shown, wrote>> /\ (Reading' <=> Reading)
        BY <1>10 DEF Connect, Reading
  <2>3. wire[c] = <<>> /\ wrote[c] = 0 /\ shown[c] = 0
        BY <1>0, <2>2 DEF ClientsInLine
  <2>4. server \in {"header", "loop", "read", "show"} => c # conn
        BY <1>0, <2>2 DEF ServedInLine
  <2>5. <<h>> \in Seq(Units) /\ Len(<<h>>) = 1 /\ <<h>> # <<>>
        BY DEF Units
  <2>6. /\ wire' \in Wires /\ wire'[c] = <<h>> /\ client'[c] = "in"
        /\ \A d \in Clients : d # c => wire'[d] = wire[d] /\ client'[d] = client[d]
        /\ client' \in [Clients -> {"out", "in", "closed"}]
        BY <1>0, <2>1, <2>2, <2>5 DEF ServeTyped, Wires
  <2>7. ServeTyped'
        BY <1>0, <2>2, <2>6 DEF ServeTyped
  <2>8. ClientsInLine'
    <3>1. FromTheStart(c)'
          BY <2>2, <2>3, <2>5, <2>6 DEF FromTheStart
    <3>2. ASSUME NEW d \in Clients, d # c
          PROVE  /\ client'[d] = client[d] /\ wire'[d] = wire[d] /\ UNCHANGED <<wrote[d], shown[d]>>
                 /\ (Served(d)' <=> Served(d)) /\ (FromTheStart(d)' <=> FromTheStart(d))
          BY <2>2, <2>6, <3>2 DEF Served, FromTheStart, Piece
    <3> QED BY <1>0, <2>5, <2>6, <3>1, <3>2 DEF ClientsInLine
  <2>9. ServedInLine'
    <3>1. server \in {"header", "loop", "read", "show"} =>
            conn \in Clients /\ wire'[conn] = wire[conn] /\ client'[conn] = client[conn]
          BY <1>0, <2>4, <2>6 DEF ServedInLine
    <3>2. Reading => FromWhatItGot'
          BY <1>0, <2>2, <3>1 DEF ServedInLine, Reading, FromWhatItGot, Got, Piece
    <3> QED BY <1>0, <2>2, <3>1, <3>2 DEF ServedInLine, Reading
  <2> QED BY <2>7, <2>8, <2>9 DEF ServeInv
<1>11. ASSUME NEW c \in Clients, Write(c) PROVE ServeInv'
  <2>1. /\ client[c] = "in" /\ wire' = [wire EXCEPT ![c] = Append(wire[c], Piece(c, wrote[c]))]
        /\ wrote' = [wrote EXCEPT ![c] = wrote[c] + 1]
        /\ UNCHANGED <<server, conn, buf, shown, client>> /\ (Reading' <=> Reading)
        BY <1>11 DEF Write, Reading, Piece
  <2>2. wire[c] \in Seq(Units) /\ wrote[c] \in Nat /\ Piece(c, wrote[c]) \in Units
        BY <1>0, SMTT(30) DEF ServeTyped, Wires, Units, Pieces
  <2>3. /\ Append(wire[c], Piece(c, wrote[c])) \in Seq(Units) /\ Len(wire[c]) \in Nat
        /\ Len(Append(wire[c], Piece(c, wrote[c]))) = Len(wire[c]) + 1
        /\ Append(wire[c], Piece(c, wrote[c]))[Len(wire[c]) + 1] = Piece(c, wrote[c])
        /\ \A i \in 1 .. Len(wire[c]) : Append(wire[c], Piece(c, wrote[c]))[i] = wire[c][i]
        /\ Append(wire[c], Piece(c, wrote[c])) # <<>>
        BY <2>2
  <2>4. /\ wire' \in Wires /\ wire'[c] = Append(wire[c], Piece(c, wrote[c]))
        /\ \A d \in Clients : d # c => wire'[d] = wire[d]
        BY <1>0, <2>1, <2>3 DEF ServeTyped, Wires
  <2>5. /\ wrote' \in [Clients -> Nat] /\ wrote'[c] = wrote[c] + 1
        /\ \A d \in Clients : d # c => wrote'[d] = wrote[d]
        BY <1>0, <2>1, <2>2 DEF ServeTyped
  <2>6. ServeTyped'
        BY <1>0, <2>1, <2>4, <2>5 DEF ServeTyped
  <2>7. ClientsInLine'
    <3>1. ~Served(c) => FromTheStart(c)'
      <4>1. SUFFICES ASSUME ~Served(c) PROVE FromTheStart(c)'
            OBVIOUS
      <4>2. FromTheStart(c)
            BY <1>0, <2>1, <4>1 DEF ClientsInLine
      <4>3. Len(wire'[c]) = wrote'[c] + 1 /\ shown'[c] = 0
            BY <2>1, <2>2, <2>3, <2>4, <2>5, <4>2 DEF FromTheStart
      <4>4. ASSUME NEW i \in 1 .. wrote[c] + 1 PROVE wire'[c][i + 1] = Piece(c, i - 1)
        <5>1. CASE i <= wrote[c]
          <6>1. i \in 1 .. wrote[c] /\ i + 1 \in 1 .. Len(wire[c])
                BY <2>2, <4>2, <5>1 DEF FromTheStart
          <6> QED BY <2>3, <2>4, <4>2, <6>1 DEF FromTheStart
        <5>2. CASE i = wrote[c] + 1
          <6>1. i + 1 = Len(wire[c]) + 1 /\ i - 1 = wrote[c]
                BY <2>2, <4>2, <5>2 DEF FromTheStart
          <6> QED BY <2>3, <2>4, <6>1
        <5> QED BY <2>2, <5>1, <5>2
      <4> QED BY <2>5, <4>3, <4>4 DEF FromTheStart, Piece
    <3>2. ASSUME NEW d \in Clients, d # c
          PROVE  /\ client'[d] = client[d] /\ wire'[d] = wire[d] /\ UNCHANGED <<wrote[d], shown[d]>>
                 /\ (Served(d)' <=> Served(d)) /\ (FromTheStart(d)' <=> FromTheStart(d))
          BY <2>1, <2>4, <2>5, <3>2 DEF Served, FromTheStart, Piece
    <3>3. (Served(c)' <=> Served(c)) /\ wire'[c] # <<>> /\ client'[c] = "in"
          BY <2>1, <2>3, <2>4 DEF Served
    <3> QED BY <1>0, <3>1, <3>2, <3>3 DEF ClientsInLine
  <2>8. ServedInLine'
    <3>1. CASE server \in {"header", "loop", "read", "show"} /\ c = conn
      <4>1. Reading => FromWhatItGot'
        <5> SUFFICES ASSUME Reading PROVE FromWhatItGot'
            OBVIOUS
        <5>1. FromWhatItGot /\ Got \in Nat /\ Got' = Got
          <6>1. shown[conn] \in Nat /\ Len(buf) \in Nat /\ Parts \in Nat
                BY <1>0, <3>1 DEF ServeTyped
          <6>2. shown[conn] * Parts \in Nat
                BY <6>1
          <6> QED BY <1>0, <2>1, <6>1, <6>2 DEF ServedInLine, Got
        <5>2. Len(wire'[conn]) + Got = wrote'[conn]
          <6>1. Len(wire[c]) + Got = wrote[c]
                BY <3>1, <5>1 DEF FromWhatItGot
          <6>2. Len(wire'[c]) = Len(wire[c]) + 1 /\ wrote'[c] = wrote[c] + 1
                BY <2>3, <2>4, <2>5
          <6> QED BY <2>2, <2>3, <3>1, <5>1, <6>1, <6>2
        <5>3. ASSUME NEW i \in 1 .. Len(wire[c]) + 1 PROVE wire'[c][i] = Piece(c, (Got + i) - 1)
          <6>1. CASE i <= Len(wire[c])
                BY <2>3, <2>4, <3>1, <5>1, <6>1 DEF FromWhatItGot
          <6>2. CASE i = Len(wire[c]) + 1
            <7>1. (Got + i) - 1 = wrote[c]
                  BY <2>2, <2>3, <3>1, <5>1, <6>2 DEF FromWhatItGot
            <7> QED BY <2>3, <2>4, <6>2, <7>1
          <6> QED BY <2>3, <6>1, <6>2
        <5>4. Len(wire'[c]) = Len(wire[c]) + 1
              BY <2>3, <2>4
        <5> QED BY <2>1, <3>1, <5>1, <5>2, <5>3, <5>4 DEF FromWhatItGot, Piece
      <4> QED BY <1>0, <2>1, <2>3, <2>4, <3>1, <4>1 DEF ServedInLine, Reading
    <3>2. CASE ~(server \in {"header", "loop", "read", "show"} /\ c = conn)
      <4>1. server \in {"header", "loop", "read", "show"} =>
              conn \in Clients /\ wire'[conn] = wire[conn] /\ wrote'[conn] = wrote[conn]
            BY <1>0, <2>4, <2>5, <3>2 DEF ServedInLine
      <4>2. Reading => FromWhatItGot'
        <5> SUFFICES ASSUME Reading PROVE FromWhatItGot'
            OBVIOUS
        <5>1. FromWhatItGot /\ wire'[conn] = wire[conn] /\ wrote'[conn] = wrote[conn]
              BY <1>0, <4>1 DEF ServedInLine, Reading
        <5>2. Got' = Got /\ conn' = conn
              BY <2>1 DEF Got
        <5> QED BY <5>1, <5>2 DEF FromWhatItGot, Piece
      <4> QED BY <1>0, <2>1, <4>1, <4>2 DEF ServedInLine, Reading
    <3> QED BY <3>1, <3>2
  <2> QED BY <2>6, <2>7, <2>8 DEF ServeInv
<1>12. ASSUME NEW c \in Clients, Disconnect(c) PROVE ServeInv'
  <2>1. /\ client[c] = "in" /\ client' = [client EXCEPT ![c] = "closed"]
        /\ UNCHANGED <<server, conn, buf, shown, wire, wrote>> /\ (Reading' <=> Reading)
        BY <1>12 DEF Disconnect, Reading
  <2>2. /\ client' \in [Clients -> {"out", "in", "closed"}] /\ client'[c] = "closed"
        /\ \A d \in Clients : d # c => client'[d] = client[d]
        BY <1>0, <2>1 DEF ServeTyped
  <2>3. ServeTyped'
        BY <1>0, <2>1, <2>2 DEF ServeTyped
  <2>4. ClientsInLine'
        BY <1>0, <2>1, <2>2 DEF ClientsInLine, Served, FromTheStart, Piece
  <2>5. ServedInLine'
        BY <1>0, <2>1, <2>2 DEF ServedInLine, Reading, FromWhatItGot, Got, Piece
  <2> QED BY <2>3, <2>4, <2>5 DEF ServeInv
<1> QED BY <1>1, <1>2, <1>3, <1>4, <1>5, <1>6, <1>7, <1>8, <1>9, <1>10, <1>11, <1>12
        DEF SNext, ServerStep

-----------------------------------------------------------------------------
(* The three together.                                                      *)

StreamInv == ServeInv /\ PushInv /\ FramesKept /\ (which = "job" => JobInv)

\* A step of the composition is one stream's, and no other's.
LEMMA OneStreamMoves ==
  [Next]_vars => [SNext]_sVars /\ [PNext]_pVars /\ [JNext]_jVars /\ which' = which
                 /\ (which # "job" => UNCHANGED jVars)
BY DEF Next, vars

\* All of them hold at the start.
LEMMA StreamsStart == Init => StreamInv
BY ServeStarts, PushStarts, JobStarts DEF Init, StreamInv, PInit, FramesKept, AnsweredFramesAreKept

\* So every step keeps all of them.
LEMMA StreamsStep == StreamInv /\ [Next]_vars => StreamInv'
BY OneStreamMoves, ServeSteps, PushSteps, KeptSteps, JobSteps DEF StreamInv

\* Through the socket and through the daemon, however reads cut a frame, whoever
\* comes and goes and whatever the channel drops: what is drawn are whole frames,
\* each client's in its order, and a stream loses none it took before its end
\* (sources raw.rs RawSource, ops ingest.rs stream_channel, daemon push_frame).
THEOREM FramesArriveWhole == Spec => []FramesArrive
<1>1. ServeInv => WholeFramesInOrder
  <2> SUFFICES ASSUME ServeInv, server = "show"
               PROVE  buf = [p \in 1 .. Parts |-> <<conn, shown[conn] + 1, p>>]
      BY DEF WholeFramesInOrder
  <2>1. /\ buf \in Seq(Units) /\ Len(buf) = Parts
        /\ \A p \in 1 .. Len(buf) : buf[p] = <<conn, shown[conn] + 1, p>>
        BY DEF ServeInv, ServeTyped, ServedInLine, Reading
  <2>2. buf = [p \in 1 .. Len(buf) |-> buf[p]]
        BY <2>1
  <2> QED BY <2>1, <2>2
<1>2. PushInv => DrawnInOrder /\ NothingLostOnTheWay
  <2> SUFFICES ASSUME PushInv PROVE DrawnInOrder /\ NothingLostOnTheWay
      OBVIOUS
  <2>1. PushTyped /\ PostedInOrder /\ OneHeader
        BY DEF PushInv
  <2>2. OnTheWay \in Seq(Nat)
        BY <2>1, HandTyped DEF PushTyped, OnTheWay
  <2>3. \A i \in DOMAIN drawn : i \in DOMAIN OnTheWay /\ OnTheWay[i] = drawn[i]
        BY <2>1, DrawnIsABeginning DEF PushTyped, OnTheWay
  <2>4. DrawnInOrder
        BY <2>1, <2>3 DEF DrawnInOrder, PostedInOrder, Increasing, OneHeader
  <2>5. Receives => IsSuffix(taken, OnTheWay)
        BY <2>1, <2>2, EndIsSuffix DEF PushInv, PushTyped
  <2> QED BY <2>4, <2>5 DEF NothingLostOnTheWay, OnTheWay, InHand, Then, Held
<1>3. StreamInv => FramesArrive
      BY <1>1, <1>2 DEF StreamInv, FramesArrive
<1> QED BY <1>3, StreamsStart, StreamsStep, PTL DEF Spec

\* A frame answered as taken is drawn, met a full channel or went with the end
\* of its stream: the sender `pushing` still keeps of a stream that is over gets
\* none, whoever replaces it and whenever the job ends (daemon state.rs offer).
THEOREM AnswersAreKept == Spec => []AnsweredFramesAreKept
<1>1. StreamInv => AnsweredFramesAreKept
      BY DEF StreamInv, FramesKept
<1> QED BY <1>1, StreamsStart, StreamsStep, PTL DEF Spec

\* `GET /jobs/{id}/events` keeps the promise of LineFeed: each line at most once
\* and in order whenever the reader connects, a gap only for one a whole channel
\* behind, one end with all of them (daemon jobs.rs Handle::push, finish, events).
THEOREM JobIsALineFeed == Spec => IsALineFeed
<1>1. Init => (which = "job" => Feed!Init)
      BY DEF Init, JInit, Feed!Init, NextLine, JobRuns
<1>2. StreamInv /\ StreamInv' /\ [Next]_vars => [Feed!Next]_(Feed!vars)
  <2> SUFFICES ASSUME StreamInv, StreamInv', [Next]_vars PROVE [Feed!Next]_(Feed!vars)
      OBVIOUS
  <2>1. CASE which = "job"
        BY <2>1, OneStreamMoves, FeedSteps DEF StreamInv
  <2>2. CASE which # "job"
    <3>1. UNCHANGED jVars
          BY <2>2, OneStreamMoves
    <3>2. UNCHANGED <<lines, out, carried>> /\ (JobRuns' <=> JobRuns)
          BY <3>1 DEF jVars, job, readers, JobRuns
    <3>3. UNCHANGED [s \in Readers |-> NextLine(s)]
          BY <3>2 DEF NextLine
    <3> QED BY <3>2, <3>3 DEF Feed!vars
  <2> QED BY <2>1, <2>2
<1> QED BY <1>1, <1>2, StreamsStart, StreamsStep, PTL DEF Spec, IsALineFeed

=============================================================================
