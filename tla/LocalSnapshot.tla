--------------------------- MODULE LocalSnapshot ---------------------------
(***************************************************************************)
(* How the policy worker gets an observation: LocalVlaSnapshotClient asks   *)
(* over a Unix socket, the camera process (MultiD405Source) selects a       *)
(* causal group of frames and arm states from its buffers, commits it to    *)
(* the arena and answers with its descriptor.  SnapshotArena models the     *)
(* arena itself; here a commit and a read are one step, which ReadsAreWhole *)
(* of that module justifies, and the slots keep the generation a late       *)
(* reader would find.                                                       *)
(***************************************************************************)
EXTENDS Integers, Sequences, FiniteSets, FiniteSetsExt, SequencesExt

CONSTANTS
    Sides,            \* the wrist cameras; the overview camera is the anchor
    Arms,
    History,          \* camera_history_size
    ArmHistory,       \* arm_history_size
    MaxSpan,          \* max_camera_span_ns
    MaxArmAge,        \* max_arm_age_ns
    MaxAge,           \* max_snapshot_age_ns
    Timeout,          \* timeout_s of the client
    MaxDelay,         \* bound: how late after its stamp a message arrives
    MaxTime,          \* bound: the clock, shared by all processes of a host
    MaxConnections,   \* bound: sockets the client opens
    MaxCommits        \* bound: snapshots committed before the last capture

Cameras == Sides \cup {"overview"}
Streams == Cameras \cup Arms

ASSUME SnapshotAssumption ==
    /\ "overview" \notin Sides
    /\ Arms \cap Cameras = {}
    /\ History \in Nat \ {0, 1}
    /\ ArmHistory \in Nat \ {0}
    /\ {MaxSpan, MaxArmAge, MaxAge, Timeout} \subseteq Nat \ {0}
    /\ MaxDelay \in Nat

VARIABLES
    now,              \* the clock
    buffers,          \* SnapshotBuffer: the stamps of the messages it keeps
    workers,          \* CameraWorker: the thread of each camera
    down,             \* rclcpp::shutdown was called
    main,             \* where the main thread of the camera process is
    running,          \* running_ of SnapshotSocketServer
    listening,        \* its socket accepts connections
    connection,       \* connection_: descriptor stop() shuts down; 0: none
    server,           \* where the server thread is
    serving,          \* descriptor it serves
    reply,            \* reply it is about to send
    arena,            \* per slot the generation and the cutoff committed
    sequence_,        \* sequence_ of the arena writer
    peers,            \* connections, in the order they were made
    client,           \* where capture() is
    socket,           \* _socket of the client; 0: None
    deadline,         \* of the capture
    answer,           \* reply it received
    observation       \* what the capture has to return

world == <<now, buffers>>
camera == <<workers, down, main>>
stopping == <<running, listening, connection>>
thread == <<server, serving, reply, arena, sequence_>>
policy == <<client, socket, deadline, answer, observation>>
vars == <<world, camera, stopping, thread, peers, policy>>

Nothing == [ok |-> FALSE, generation |-> 0]
Unavailable == [cutoff |-> -1]

Init ==
    /\ now = 0
    /\ buffers = [stream \in Streams |-> <<>>]
    /\ workers = [camera_ \in Cameras |-> "off"]
    /\ down = FALSE
    /\ main = "starting"
    /\ running = FALSE
    /\ listening = FALSE
    /\ connection = 0
    /\ server = "off"
    /\ serving = 0
    /\ reply = Nothing
    /\ arena = [slot \in 0 .. 1 |-> [generation |-> 0, cutoff |-> -1]]
    /\ sequence_ = 0
    /\ peers = <<>>
    /\ client = "idle"
    /\ socket = 0
    /\ deadline = 0
    /\ answer = Nothing
    /\ observation = Unavailable

-----------------------------------------------------------------------------
(* SnapshotBuffer *)

(* push: a bounded history in the order of arrival. *)
Pushed(stamps, stamp, limit) ==
    LET grown == Append(stamps, stamp)
    IN  SubSeq(grown, Max({1, Len(grown) - limit + 1}), Len(grown))

(* nearest_not_after: of two equally near the later one. *)
NearestNotAfter(stamps, anchor) ==
    LET Delta(stamp) == IF stamp < anchor THEN anchor - stamp ELSE stamp - anchor
        candidates == {stamp \in ToSet(stamps) : stamp <= now}
        best == {stamp \in candidates :
                    \A other \in candidates : Delta(stamp) <= Delta(other)}
    IN  IF best = {} THEN {} ELSE {Max(best)}

(* latest_not_after: the last that arrived, of those not after the cutoff. *)
LatestNotAfter(stamps, cutoff) ==
    LET places == {i \in DOMAIN stamps : stamps[i] <= cutoff}
    IN  IF places = {} THEN {} ELSE {stamps[Max(places)]}

(* One frame of every camera, chosen around the overview frame at place i.  *)
Group(i) ==
    LET anchor == buffers["overview"][i]
    IN  {anchor} \cup UNION {NearestNotAfter(buffers[side], anchor) : side \in Sides}

Usable(i) ==
    LET group == Group(i)
        cutoff == Max(group)
    IN  /\ \A side \in Sides : NearestNotAfter(buffers[side], buffers["overview"][i]) # {}
        /\ now - cutoff \in 0 .. MaxAge
        /\ cutoff - Min(group) <= MaxSpan
        /\ \A arm \in Arms : \E stamp \in LatestNotAfter(buffers[arm], cutoff) :
              cutoff - stamp <= MaxArmAge

(* select: the newest overview frame that makes a usable group; which of the *)
(* failure codes it reports otherwise is left out.                           *)
Selected == {i \in DOMAIN buffers["overview"] : Usable(i)}

-----------------------------------------------------------------------------
(* MultiD405Source: its cameras, its arm subscriptions, its main thread *)

(* Workers add frames while they run (one in the hands of a worker that was  *)
(* told to stop comes after the server was joined, and nobody reads it any   *)
(* more); the executor runs the subscriptions of the arms while it spins.    *)
Delivering ==
    {camera_ \in Cameras : workers[camera_] = "running"}
        \cup (IF main = "spin" /\ ~down THEN Arms ELSE {})

Limit(stream) == IF stream \in Cameras THEN History ELSE ArmHistory

(* on_frames, and the callback of an arm: the message goes to its buffer.    *)
OnMessages(arrived, stamps) ==
    buffers' = [stream \in Streams |->
        IF stream \in arrived
        THEN Pushed(buffers[stream], stamps[stream], Limit(stream))
        ELSE buffers[stream]]

(* A unit of time, in which any of the streams delivers a message, by its    *)
(* stamp or a little late; each stream in the order of its stamps.           *)
Tick ==
    /\ now < MaxTime
    /\ now' = now + 1
    /\ \E arrived \in SUBSET Delivering : \E stamps \in [arrived -> now' - MaxDelay .. now'] :
          /\ \A stream \in arrived :
                buffers[stream] # <<>> => Last(buffers[stream]) < stamps[stream]
          /\ OnMessages(arrived, stamps)
    /\ UNCHANGED <<camera, stopping, thread, peers, policy>>

(* SnapshotSocketServer::start *)
StartServer ==
    /\ running' = TRUE
    /\ listening' = TRUE
    /\ server' = "loop"

(* on_camera_failure, and the handler of a capture that throws. *)
Shutdown == down' = TRUE

(* start: the cameras in turn, then the server; a worker that fails before   *)
(* the executor spins makes its spin return at once.                         *)
Start ==
    /\ main = "starting"
    /\ workers' = [camera_ \in Cameras |-> "running"]
    /\ StartServer
    /\ main' = "spin"
    /\ UNCHANGED <<world, down, connection, serving, reply, arena, sequence_, peers, policy>>

(* A camera is missing or not on USB 3, or the socket cannot be bound.       *)
StartFails ==
    /\ main = "starting"
    /\ \E started \in SUBSET Cameras :
          workers' = [camera_ \in Cameras |->
                         IF camera_ \in started THEN "running" ELSE "off"]
    /\ main' = "stop_server"
    /\ UNCHANGED <<world, down, stopping, thread, peers, policy>>

(* run() of a worker throws: whoever clears running_ first, the worker or    *)
(* stop(), decides whether this is a failure.                                *)
WorkerFails(camera_) ==
    /\ workers[camera_] = "running"
    /\ workers' = [workers EXCEPT ![camera_] = "ended"]
    /\ Shutdown
    /\ UNCHANGED <<world, main, stopping, thread, peers, policy>>

WorkerEnds(camera_) ==
    /\ workers[camera_] = "told"
    /\ workers' = [workers EXCEPT ![camera_] = "ended"]
    /\ UNCHANGED <<world, down, main, stopping, thread, peers, policy>>

(* SIGINT or SIGTERM from the Session. *)
Signal ==
    /\ ~down
    /\ down' = TRUE
    /\ UNCHANGED <<world, workers, main, stopping, thread, peers, policy>>

SpinReturns ==
    /\ main = "spin"
    /\ down
    /\ main' = "stop_server"
    /\ UNCHANGED <<world, workers, down, stopping, thread, peers, policy>>

(* SnapshotSocketServer::stop, in the order its statements take effect. *)
StopServer ==
    /\ main = "stop_server"
    /\ running' = FALSE
    /\ main' = IF running THEN "stop_connection" ELSE "stop_workers"
    /\ UNCHANGED <<world, workers, down, listening, connection, thread, peers, policy>>

StopConnection ==
    /\ main = "stop_connection"
    /\ peers' = IF connection = 0
                THEN peers
                ELSE [peers EXCEPT ![connection].shut = TRUE]
    /\ main' = "stop_listener"
    /\ UNCHANGED <<world, workers, down, stopping, thread, policy>>

StopListener ==
    /\ main = "stop_listener"
    /\ listening' = FALSE
    /\ main' = "join"
    /\ UNCHANGED <<world, workers, down, running, connection, thread, peers, policy>>

JoinServer ==
    /\ main = "join"
    /\ server = "ended"
    /\ main' = "stop_workers"
    /\ UNCHANGED <<world, workers, down, stopping, thread, peers, policy>>

StopWorkers ==
    /\ main = "stop_workers"
    /\ workers' = [camera_ \in Cameras |->
                      IF workers[camera_] = "running" THEN "told" ELSE workers[camera_]]
    /\ main' = "join_workers"
    /\ UNCHANGED <<world, down, stopping, thread, peers, policy>>

JoinWorkers ==
    /\ main = "join_workers"
    /\ \A camera_ \in Cameras : workers[camera_] # "told"
    /\ main' = "done"
    /\ UNCHANGED <<world, workers, down, stopping, thread, peers, policy>>

-----------------------------------------------------------------------------
(* SnapshotSocketServer::run and serve *)

Waiting == {i \in DOMAIN peers : peers[i].queue = "waiting"}

Loop ==
    /\ server = "loop"
    /\ server' = IF running THEN "accept" ELSE "ended"
    /\ UNCHANGED <<world, camera, stopping, serving, reply, arena, sequence_, peers, policy>>

Accept ==
    /\ server = "accept"
    /\ Waiting # {}
    /\ serving' = Min(Waiting)
    /\ peers' = [peers EXCEPT ![serving'].queue = "accepted"]
    /\ server' = "assign"
    /\ UNCHANGED <<world, camera, stopping, reply, arena, sequence_, policy>>

(* accept4 fails once the listener was shut down. *)
AcceptFails ==
    /\ server = "accept"
    /\ ~listening
    /\ server' = "ended"
    /\ UNCHANGED <<world, camera, stopping, serving, reply, arena, sequence_, peers, policy>>

Assign ==
    /\ server = "assign"
    /\ connection' = serving
    /\ server' = "serve"
    /\ UNCHANGED <<world, camera, running, listening, serving, reply, arena, sequence_,
                   peers, policy>>

(* Mutant: serve() does not look at running_ before it receives. *)
ServeForever ==
    /\ server = "serve"
    /\ server' = "receive"
    /\ UNCHANGED <<world, camera, stopping, serving, reply, arena, sequence_, peers, policy>>

Serve ==
    /\ server = "serve"
    /\ server' = IF running THEN "receive" ELSE "close"
    /\ UNCHANGED <<world, camera, stopping, serving, reply, arena, sequence_, peers, policy>>

ReceiveRequest ==
    /\ server = "receive"
    /\ peers[serving].asked
    /\ peers' = [peers EXCEPT ![serving].asked = FALSE]
    /\ server' = "capture"
    /\ UNCHANGED <<world, camera, stopping, serving, reply, arena, sequence_, policy>>

(* recv returns 0: the client closed, or stop() shut the connection down.   *)
ReceiveEnds ==
    /\ server = "receive"
    /\ \/ peers[serving].hungup /\ ~peers[serving].asked
       \/ peers[serving].shut
    /\ server' = "close"
    /\ UNCHANGED <<world, camera, stopping, serving, reply, arena, sequence_, peers, policy>>

(* capture_snapshot with a group selected: committed before it is answered.  *)
CaptureSnapshot ==
    /\ server = "capture"
    /\ Selected # {}
    /\ sequence_' = sequence_ + 1
    /\ arena' = [arena EXCEPT ![sequence_' % 2] =
                    [generation |-> 2 * sequence_', cutoff |-> Max(Group(Max(Selected)))]]
    /\ reply' = [ok |-> TRUE, generation |-> 2 * sequence_']
    /\ server' = "send"
    /\ UNCHANGED <<world, camera, stopping, serving, peers, policy>>

CaptureRefused ==
    /\ server = "capture"
    /\ Selected = {}
    /\ reply' = Nothing
    /\ server' = "send"
    /\ UNCHANGED <<world, camera, stopping, serving, arena, sequence_, peers, policy>>

(* The handler throws (a frame of another size): the source shuts down. *)
CaptureThrows ==
    /\ server = "capture"
    /\ Selected # {}
    /\ Shutdown
    /\ server' = "close"
    /\ UNCHANGED <<world, workers, main, stopping, serving, reply, arena, sequence_,
                   peers, policy>>

SendReply ==
    /\ server = "send"
    /\ ~peers[serving].hungup /\ ~peers[serving].shut
    /\ peers' = [peers EXCEPT ![serving].reply = Append(@, reply)]
    /\ reply' = Nothing
    /\ server' = "serve"
    /\ UNCHANGED <<world, camera, stopping, serving, arena, sequence_, policy>>

SendFails ==
    /\ server = "send"
    /\ peers[serving].hungup \/ peers[serving].shut
    /\ reply' = Nothing
    /\ server' = "close"
    /\ UNCHANGED <<world, camera, stopping, serving, arena, sequence_, peers, policy>>

CloseConnection ==
    /\ server = "close"
    /\ connection' = 0
    /\ peers' = [peers EXCEPT ![serving].queue = "closed", ![serving].asked = FALSE]
    /\ serving' = 0
    /\ server' = "loop"
    /\ UNCHANGED <<world, camera, running, listening, reply, arena, sequence_, policy>>

ServerThread ==
    \/ Loop \/ Accept \/ AcceptFails \/ Assign \/ Serve
    \/ ReceiveRequest \/ ReceiveEnds
    \/ CaptureSnapshot \/ CaptureRefused \/ CaptureThrows
    \/ SendReply \/ SendFails \/ CloseConnection

-----------------------------------------------------------------------------
(* LocalVlaSnapshotClient *)

outside == <<world, camera, stopping, thread>>

BeginCapture ==
    /\ client = "idle"
    /\ sequence_ < MaxCommits
    /\ deadline' = now + Timeout
    /\ client' = IF socket = 0 THEN "connect" ELSE "send"
    /\ UNCHANGED <<outside, peers, socket, answer, observation>>

(* _set_remaining_timeout, before each call of the socket. *)
InTime == now < deadline

(* listen(descriptor, 1): two connections wait to be accepted, a third blocks. *)
Connect ==
    /\ client = "connect"
    /\ InTime
    /\ listening
    /\ Cardinality(Waiting) < 2
    /\ Len(peers) < MaxConnections
    /\ peers' = Append(peers, [queue |-> "waiting", asked |-> FALSE, reply |-> <<>>,
                               hungup |-> FALSE, shut |-> FALSE])
    /\ socket' = Len(peers')
    /\ client' = "send"
    /\ UNCHANGED <<outside, deadline, answer, observation>>

Lost(peer) == peer.queue = "closed" \/ peer.shut

SendRequest ==
    /\ client = "send"
    /\ InTime
    /\ ~Lost(peers[socket])
    /\ peers' = [peers EXCEPT ![socket].asked = TRUE]
    /\ client' = "receive"
    /\ UNCHANGED <<outside, socket, deadline, answer, observation>>

ReceiveReply ==
    /\ client = "receive"
    /\ InTime
    /\ peers[socket].reply # <<>>
    /\ answer' = Head(peers[socket].reply)
    /\ peers' = [peers EXCEPT ![socket].reply = Tail(@)]
    /\ client' = IF answer'.ok THEN "read" ELSE "return"
    /\ UNCHANGED <<outside, socket, deadline, observation>>

(* Mutant: the socket is kept after a timeout. *)
KeepSocket == UNCHANGED <<peers, socket>>

(* OSError or TimeoutError: the socket is closed, so that an answer that is  *)
(* still to come cannot be taken for the answer to a later request.          *)
HangUp ==
    /\ peers' = IF socket = 0
                THEN peers
                ELSE [peers EXCEPT ![socket].hungup = TRUE, ![socket].reply = <<>>]
    /\ socket' = 0

CaptureFails ==
    /\ client \in {"connect", "send", "receive"}
    /\ \/ ~InTime
       \/ client = "connect" /\ ~listening
       \/ client = "send" /\ Lost(peers[socket])
       \/ client = "receive" /\ Lost(peers[socket]) /\ peers[socket].reply = <<>>
    /\ client' = "return"
    /\ HangUp
    /\ UNCHANGED <<outside, deadline, answer, observation>>

(* A slot that was replaced meanwhile is refused by the reader. *)
ReadArena ==
    /\ client = "read"
    /\ LET slot == arena[(answer.generation \div 2) % 2]
       IN  observation' = IF slot.generation = answer.generation
                          THEN [cutoff |-> slot.cutoff]
                          ELSE Unavailable
    /\ client' = "return"
    /\ UNCHANGED <<outside, peers, socket, deadline, answer>>

(* capture returns its observation, or raises that there is none. *)
ReturnFromCapture ==
    /\ client = "return"
    /\ client' = "idle"
    /\ answer' = Nothing
    /\ observation' = Unavailable
    /\ deadline' = 0
    /\ UNCHANGED <<outside, peers, socket>>

(* close() of the client, at the end of its Session. *)
CloseClient ==
    /\ client = "idle"
    /\ client' = "closed"
    /\ HangUp
    /\ UNCHANGED <<outside, deadline, answer, observation>>

Client ==
    \/ BeginCapture \/ Connect \/ SendRequest \/ ReceiveReply
    \/ CaptureFails \/ ReadArena \/ ReturnFromCapture \/ CloseClient

-----------------------------------------------------------------------------
MainThread ==
    \/ Start \/ StartFails \/ SpinReturns
    \/ StopServer \/ StopConnection \/ StopListener \/ JoinServer
    \/ StopWorkers \/ JoinWorkers

Worker(camera_) == WorkerFails(camera_) \/ WorkerEnds(camera_)

Next ==
    \/ Tick \/ Signal
    \/ \E camera_ \in Cameras : Worker(camera_)
    \/ MainThread \/ ServerThread \/ Client

Spec == Init /\ [][Next]_vars

-----------------------------------------------------------------------------
(* An observation is never older, before the capture that returned it began, *)
(* than a snapshot may be: whatever earlier captures timed out, and however   *)
(* late the source was with them, their answers are not taken for this one    *)
(* (local_snapshot.py:68, with the age check of snapshot_buffer.cpp:195).     *)
ObservationIsFresh ==
    observation # Unavailable => observation.cutoff >= deadline - Timeout - MaxAge

(* stop() joins the server thread: by then no call of that thread may block   *)
(* for good, with a request in the handler, a silent client on the line, or   *)
(* one that connects at that moment (snapshot_socket_server.cpp:75).          *)
Blocked ==
    \/ server = "accept" /\ listening /\ Waiting = {}
    \/ /\ server = "receive"
       /\ ~peers[serving].asked /\ ~peers[serving].hungup /\ ~peers[serving].shut

StopIsNotStuck == main = "join" => ~Blocked
=============================================================================
