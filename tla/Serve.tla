-------------------------------- MODULE Serve --------------------------------
(***************************************************************************)
(* `rxp show serve` (crates/ops ingest.rs) and its client's Writer         *)
(* (crates/sources raw.rs): one client at a time on a unix socket, a       *)
(* header, then frames of one size as a stream of bytes that reads cut     *)
(* anywhere. A read waits a quarter of a second; the server then looks at  *)
(* the flag a signal sets and goes on with the frame where it stopped.     *)
(* `rxp show stream` is the same reader on stdin, without time-outs.       *)
(*                                                                         *)
(* A frame is Parts pieces; the piece p of frame n of client c is          *)
(* <<c, n, p>>. A header is one piece, "good" or "bad".                    *)
(***************************************************************************)
EXTENDS Naturals, Sequences

CONSTANTS
  Clients,
  Frames,   \* bound: the frames a client writes
  Parts,    \* the pieces reads may cut a frame into
  MaxRuns   \* bound: how often the server is run

ASSUME ServeAssumption == Frames \in Nat /\ Parts \in Nat \ {0} /\ MaxRuns \in Nat

VARIABLES
  stop,    \* STOP, set by SIGINT and SIGTERM
  socket,  \* the socket file: "none", "stale" (nobody listens) or "bound"
  server,  \* where the server is
  conn,    \* the client served, or NoClient
  buf,     \* RawSource: the pieces of the current frame read so far
  shown,   \* per client: the frames put on the wall
  client,  \* per client: "out", "in" or "closed"
  wire,    \* per client: what it wrote and nobody read
  wrote,   \* per client: the pieces written
  runs

serving == <<conn, buf, shown>>
peers   == <<client, wire, wrote>>
sVars   == <<stop, socket, server, serving, peers, runs>>

NoClient == "nobody"

SInit ==
  /\ stop = FALSE
  /\ \/ server = "start" /\ socket \in {"none", "stale"}
     \/ server = "killed" /\ socket = "stale"
  /\ conn = NoClient /\ buf = <<>>
  /\ shown = [c \in Clients |-> 0]
  /\ client = [c \in Clients |-> "out"]
  /\ wire = [c \in Clients |-> <<>>]
  /\ wrote = [c \in Clients |-> 0]
  /\ runs = 1

Server(from, to) == server = from /\ server' = to

-----------------------------------------------------------------------------
(* serve: SocketFile::bind removes a file left by a killed run.             *)
Bind ==
  /\ Server("start", "open")
  /\ socket' = "bound"
  /\ UNCHANGED <<stop, serving, peers, runs>>

\* The link may not open; the socket file goes with the error.
OpenWall ==
  /\ Server("open", "check") \/ Server("open", "leave")
  /\ UNCHANGED <<stop, socket, serving, peers, runs>>

CheckStop ==
  /\ server = "check"
  /\ server' = IF stop THEN "leave" ELSE "accept"
  /\ UNCHANGED <<stop, socket, serving, peers, runs>>

\* The clients that connected and were not accepted yet: their header is
\* unread.
Headers == {"good", "bad", "nothing"}
Waiting == {c \in Clients : wire[c] # <<>> /\ Head(wire[c]) \in Headers}

\* The next client, or nobody yet and fifty milliseconds of sleep.
Accept ==
  \/ \E c \in Waiting :
       /\ Server("accept", "header")
       /\ conn' = c
       /\ UNCHANGED <<stop, socket, buf, shown, peers, runs>>
  \/ /\ Waiting = {}
     /\ Server("accept", "check")
     /\ UNCHANGED <<stop, socket, serving, peers, runs>>

AcceptFails == Server("accept", "leave") /\ UNCHANGED <<stop, socket, serving, peers, runs>>

\* serve_client returns: its stream is closed, what was not read is lost. The
\* source and the frame it was filling go with it.
SourceAfter(b) == <<>>
Hangup(from) ==
  /\ Server(from, "check")
  /\ client' = [client EXCEPT ![conn] = "closed"]
  /\ wire' = [wire EXCEPT ![conn] = <<>>]
  /\ buf' = SourceAfter(buf)
  /\ conn' = NoClient
  /\ UNCHANGED <<stop, socket, shown, wrote, runs>>

Received == wire[conn]
Quiet    == Received = <<>>

\* Header::read: a whole good header within the time-out, or the end of the
\* client.
ReadHeader ==
  \/ /\ Server("header", "loop")
     /\ Head(Received) = "good"
     /\ wire' = [wire EXCEPT ![conn] = Tail(@)]
     /\ UNCHANGED <<stop, socket, serving, client, wrote, runs>>
  \/ server = "header" /\ Head(Received) # "good" /\ Hangup("header")

LoopOrStop ==
  \/ stop /\ Hangup("loop")
  \/ ~stop /\ Server("loop", "read") /\ UNCHANGED <<stop, socket, serving, peers, runs>>

\* RawSource::read_frame, one read. A time-out returns to the loop with the
\* pieces kept. (Variant: it forgets them.)
KeepPiecesNot(b) == <<>>
KeepPieces(b) == b
ReadPiece ==
  /\ server = "read" /\ ~Quiet
  /\ buf' = Append(buf, Head(Received))
  /\ wire' = [wire EXCEPT ![conn] = Tail(@)]
  /\ server' = IF Len(buf) + 1 = Parts THEN "show" ELSE "read"
  /\ UNCHANGED <<stop, socket, conn, shown, client, wrote, runs>>

ReadTimesOut ==
  /\ Server("read", "loop")
  /\ Quiet /\ client[conn] = "in"
  /\ buf' = KeepPieces(buf)
  /\ UNCHANGED <<stop, socket, conn, shown, peers, runs>>

\* The end of the stream, or an error of the read: a short frame is dropped.
ReadEnds == server = "read" /\ Quiet /\ client[conn] = "closed" /\ Hangup("read")

Draw ==
  \/ /\ Server("show", "loop")
     /\ shown' = [shown EXCEPT ![conn] = @ + 1]
     /\ buf' = <<>>
     /\ UNCHANGED <<stop, socket, conn, peers, runs>>
  \/ Hangup("show")

\* Every connection ends with the process.
Cut ==
  /\ client' = [c \in Clients |-> IF client[c] = "in" THEN "closed" ELSE client[c]]
  /\ wire' = [c \in Clients |-> <<>>]

\* SocketFile::drop. (Variant: the file is left behind.)
LeaveFile == socket
RemoveFile == "none"
Leave ==
  /\ Server("leave", "over")
  /\ socket' = RemoveFile
  /\ Cut
  /\ UNCHANGED <<stop, serving, wrote, runs>>

-----------------------------------------------------------------------------
(* The world: a signal, a kill, a new run, the clients.                     *)
Signal ==
  /\ server \notin {"start", "over", "killed"}
  /\ stop' = TRUE
  /\ UNCHANGED <<socket, server, serving, peers, runs>>

Kill ==
  /\ server \notin {"start", "over", "killed"}
  /\ server' = "killed"
  /\ socket' = "stale"
  /\ Cut
  /\ conn' = NoClient /\ buf' = <<>>
  /\ UNCHANGED <<stop, shown, wrote, runs>>

RunAgain ==
  /\ server \in {"over", "killed"} /\ runs < MaxRuns
  /\ runs' = runs + 1
  /\ server' = "start" /\ stop' = FALSE
  /\ UNCHANGED <<socket, serving, peers>>

\* Writer::new connects and writes the header; another program may write
\* something else, or nothing.
Connect(c) ==
  /\ client[c] = "out" /\ socket = "bound"
  /\ client' = [client EXCEPT ![c] = "in"]
  /\ \E h \in Headers : wire' = [wire EXCEPT ![c] = <<h>>]
  /\ UNCHANGED <<stop, socket, server, serving, wrote, runs>>

\* Writer::frame: the next piece of a frame of the announced length; a frame
\* of another length is an error before a byte is written.
Write(c) ==
  /\ client[c] = "in" /\ wrote[c] < Frames * Parts
  /\ wire' = [wire EXCEPT ![c] =
       Append(@, <<c, (wrote[c] \div Parts) + 1, (wrote[c] % Parts) + 1>>)]
  /\ wrote' = [wrote EXCEPT ![c] = @ + 1]
  /\ UNCHANGED <<stop, socket, server, serving, client, runs>>

Disconnect(c) ==
  /\ client[c] = "in"
  /\ client' = [client EXCEPT ![c] = "closed"]
  /\ UNCHANGED <<stop, socket, server, serving, wire, wrote, runs>>

ServerStep ==
  \/ Bind \/ OpenWall \/ CheckStop \/ Accept \/ AcceptFails \/ ReadHeader \/ LoopOrStop
  \/ ReadPiece \/ ReadTimesOut \/ ReadEnds \/ Draw \/ Leave

SNext ==
  \/ ServerStep \/ Signal \/ Kill \/ RunAgain
  \/ \E c \in Clients : Connect(c) \/ Write(c) \/ Disconnect(c)

\* The server's thread runs, and a client's write or a signal needs nothing
\* of it.
SFairness == WF_sVars(ServerStep)

-----------------------------------------------------------------------------
\* Every variable is in the set its declaration describes.
STypeOK ==
  /\ stop \in BOOLEAN /\ socket \in {"none", "stale", "bound"}
  /\ server \in {"start", "open", "check", "accept", "header", "loop", "read", "show",
                 "leave", "over", "killed"}
  /\ conn \in Clients \cup {NoClient} /\ Len(buf) \in 0 .. Parts
  /\ shown \in [Clients -> 0 .. Frames]
  /\ client \in [Clients -> {"out", "in", "closed"}]
  /\ wrote \in [Clients -> 0 .. Frames * Parts] /\ runs \in 1 .. MaxRuns

\* What goes on the wall is the next frame of the client served, whole and in
\* order, however the reads cut it, whatever client came before and wherever
\* that one stopped (read_frame resumes a frame after a time-out and drops a
\* short one at the end of the stream).
WholeFramesInOrder ==
  server = "show" =>
    buf = [p \in 1 .. Parts |-> <<conn, shown[conn] + 1, p>>]

\* A signal ends the server, whatever its client does, and no socket file is
\* left behind (serve: Ctrl-C removes the socket and exits).
StopEnds ==
  stop /\ server # "start" ~> (server = "over" /\ socket = "none") \/ server = "killed"
=============================================================================
