--------------------------- MODULE LocalSnapshotInv ---------------------------
(***************************************************************************)
(* The inductive invariant of LocalSnapshot: whose request the server has  *)
(* in its hands, where a request and its answer can be, and what the       *)
(* server thread can still block on while it is being stopped.             *)
(***************************************************************************)
EXTENDS LocalSnapshot

Replies == [ok : BOOLEAN, generation : Nat]

Peers == [queue : {"waiting", "accepted", "closed"}, asked : BOOLEAN,
          reply : Seq(Replies), hungup : BOOLEAN, shut : BOOLEAN]

TypeOK ==
    /\ now \in Nat
    /\ buffers \in [Streams -> Seq({stamp \in Int : stamp <= now})]
    /\ workers \in [Cameras -> {"off", "running", "told", "ended"}]
    /\ down \in BOOLEAN
    /\ main \in {"starting", "spin", "stop_server", "stop_connection", "stop_listener",
                 "join", "stop_workers", "join_workers", "done"}
    /\ running \in BOOLEAN
    /\ listening \in BOOLEAN
    /\ connection \in 0 .. Len(peers)
    /\ server \in {"off", "loop", "accept", "assign", "serve", "receive", "capture",
                   "send", "close", "ended"}
    /\ serving \in 0 .. Len(peers)
    /\ reply \in Replies
    /\ arena \in [0 .. 1 -> [generation : Nat, cutoff : Int]]
    /\ sequence_ \in Nat
    /\ peers \in Seq(Peers)
    /\ client \in {"idle", "connect", "send", "receive", "read", "return", "closed"}
    /\ socket \in 0 .. Len(peers)
    /\ deadline \in Nat
    /\ answer \in Replies
    /\ observation \in [cutoff : Int]

(* connection_ is the descriptor that is being served, from Assign on.      *)
ConnectionInv ==
    /\ server \in {"off", "loop", "accept", "ended"} => serving = 0
    /\ server \in {"assign", "serve", "receive", "capture", "send", "close"} => serving # 0
    /\ server \in {"serve", "receive", "capture", "send", "close"} => connection = serving

(* Whatever the server serves once its connection was shut down, recv and   *)
(* send of it return; the next one it would serve it closes, as running_ is *)
(* false.                                                                   *)
StopInv ==
    /\ main = "starting" => server = "off"
    /\ main \in {"stop_connection", "stop_listener", "join"} => ~running
    /\ main = "join" => ~listening
    /\ main \in {"stop_listener", "join"} /\ server \in {"receive", "capture", "send"}
           => peers[serving].shut

(* A snapshot that was answered is still in its slot, no older than the     *)
(* capture allows, or it was replaced.                                      *)
Fresh(given) ==
    given.ok =>
        /\ given.generation <= 2 * sequence_
        /\ arena[(given.generation \div 2) % 2].generation = given.generation
               => arena[(given.generation \div 2) % 2].cutoff >= deadline - Timeout - MaxAge

Handling == server \in {"capture", "send"} /\ serving = socket

(* Only a capture that waits for an answer has a request on the line, and   *)
(* it has one: not received yet, in the hands of the server, or answered.   *)
RequestInv ==
    socket # 0 =>
        /\ client # "receive" =>
               ~peers[socket].asked /\ ~Handling /\ peers[socket].reply = <<>>
        /\ peers[socket].asked => ~Handling /\ peers[socket].reply = <<>>
        /\ Handling => peers[socket].reply = <<>>
        /\ \A i \in DOMAIN peers[socket].reply : i = 1 /\ Fresh(peers[socket].reply[i])
        /\ Handling /\ server = "send" => Fresh(reply)

(* What the capture has in its hands is fresh.                              *)
CaptureInv ==
    /\ client \in {"connect", "send", "receive", "read", "return"} => deadline <= now + Timeout
    /\ client \in {"send", "receive"} => socket # 0
    /\ client = "read" => answer.ok /\ Fresh(answer)
    /\ client # "return" => observation = Unavailable
    /\ ObservationIsFresh

IInv ==
    /\ TypeOK
    /\ ConnectionInv
    /\ StopInv
    /\ RequestInv
    /\ CaptureInv
=============================================================================
