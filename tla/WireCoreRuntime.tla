-------------------------- MODULE WireCoreRuntime ---------------------------
(***************************************************************************)
(* The WireCore sidecar (wirecore-runtime/src/main.rs): an accept loop on  *)
(* the main thread, one thread per connection running handle_client, and   *)
(* the AtomicBool `running` they share.  A thread checks `running`, then   *)
(* blocks in read_line, then handles the frame it read, then writes the    *)
(* response, which blocks while the peer does not read: these are separate *)
(* steps, and other threads run in between.                                *)
(***************************************************************************)
EXTENDS Integers, Sequences, BoundedQueue

CONSTANTS
  Clients,        \* peers of the socket
  QueueCapacity,  \* QUEUE_CAPACITY
  SocketCapacity, \* responses the socket holds for a peer
  Kinds,          \* frame kinds the peers send
  MaxFrames,      \* bound: frames each peer sends
  MaxErrors       \* bound: errors of accept and of read_line

(* "malformed" is what Frame::from_wire refuses (bad JSON, magic, version  *)
(* or size), "event" any valid kind handle_client has no case for.         *)
FrameKinds == {"hello", "ping", "snapshot", "request", "cancel", "shutdown",
               "event", "malformed", "blank"}

ASSUME RuntimeAssumption ==
  /\ QueueCapacity \in Nat \ {0}
  /\ SocketCapacity \in Nat \ {0}
  /\ Kinds \subseteq FrameKinds
  /\ MaxFrames \in [Clients -> Nat]
  /\ MaxErrors \in Nat

VARIABLES
  main,      \* the main thread: "accepting" or "exited"
  running,   \* the shared AtomicBool
  conn,      \* per client: "none", "backlog", then its thread's position
             \* "check" (load running), "read" (read_line) or in a write
             \* "reply", "ack" or "farewell", then "closed"
  inbox,     \* frames written by the client and not read yet
  outbox,    \* number of responses written and not read by the client
  hungup,    \* clients that closed their end
  queue,     \* the thread's BoundedQueue: inner, as frame numbers
  dropped,   \* its dropped counter
  sent,      \* frames the client has written
  accepted,  \* history: requests pushed
  discarded, \* history: requests popped by cancel
  late,      \* history: frames handled after shutdown was handled
  errors

vars == <<main, running, conn, inbox, outbox, hungup, queue, dropped, sent,
          accepted, discarded, late, errors>>

Writes == {"reply", "ack", "farewell"}
Serving == {"check", "read"} \cup Writes
Positions == {"none", "backlog", "closed"} \cup Serving

Frames == [kind : FrameKinds, n : Nat]

TypeOK ==
  /\ main \in {"accepting", "exited"}
  /\ running \in BOOLEAN
  /\ conn \in [Clients -> Positions]
  /\ inbox \in [Clients -> Seq(Frames)]
  /\ outbox \in [Clients -> 0..SocketCapacity]
  /\ hungup \subseteq Clients
  /\ queue \in [Clients -> Seq(Nat)]
  /\ dropped \in [Clients -> Nat]
  /\ sent \in [Clients -> Nat]
  /\ accepted \in [Clients -> Nat]
  /\ discarded \in [Clients -> Nat]
  /\ late \in [Clients -> Nat]
  /\ errors \in 0..MaxErrors

Init ==
  /\ main = "accepting"
  /\ running = TRUE
  /\ conn = [c \in Clients |-> "none"]
  /\ inbox = [c \in Clients |-> <<>>]
  /\ outbox = [c \in Clients |-> 0]
  /\ hungup = {}
  /\ queue = [c \in Clients |-> <<>>]
  /\ dropped = [c \in Clients |-> 0]
  /\ sent = [c \in Clients |-> 0]
  /\ accepted = [c \in Clients |-> 0]
  /\ discarded = [c \in Clients |-> 0]
  /\ late = [c \in Clients |-> 0]
  /\ errors = 0

-----------------------------------------------------------------------------
(* The peers. *)

Connect(c) ==
  /\ main = "accepting"
  /\ conn[c] = "none"
  /\ conn' = [conn EXCEPT ![c] = "backlog"]
  /\ UNCHANGED <<main, running, inbox, outbox, hungup, queue, dropped, sent,
                 accepted, discarded, late, errors>>

Send(c, kind) ==
  /\ conn[c] \in {"backlog"} \cup Serving
  /\ c \notin hungup
  /\ sent[c] < MaxFrames[c]
  /\ sent' = [sent EXCEPT ![c] = @ + 1]
  /\ LET frame == [kind |-> kind, n |-> sent[c] + 1]
     IN  inbox' = [inbox EXCEPT ![c] = Append(@, frame)]
  /\ UNCHANGED <<main, running, conn, outbox, hungup, queue, dropped,
                 accepted, discarded, late, errors>>

(* A peer reads a response, or never does. *)
ReadResponse(c) ==
  /\ c \notin hungup
  /\ outbox[c] > 0
  /\ outbox' = [outbox EXCEPT ![c] = @ - 1]
  /\ UNCHANGED <<main, running, conn, inbox, hungup, queue, dropped, sent,
                 accepted, discarded, late, errors>>

HangUp(c) ==
  /\ conn[c] \in {"backlog"} \cup Serving
  /\ c \notin hungup
  /\ hungup' = hungup \cup {c}
  /\ UNCHANGED <<main, running, conn, inbox, outbox, queue, dropped, sent,
                 accepted, discarded, late, errors>>

-----------------------------------------------------------------------------
(* The main thread. *)

(* Mutant: the connection is served on the main thread. *)
AcceptSerially(c) ==
  /\ main = "accepting"
  /\ conn[c] = "backlog"
  /\ \A other \in Clients : conn[other] \notin Serving
  /\ conn' = [conn EXCEPT ![c] = "check"]
  /\ UNCHANGED <<main, running, inbox, outbox, hungup, queue, dropped, sent,
                 accepted, discarded, late, errors>>

(* incoming() yields a connection: spawn its thread, whatever running is. *)
Accept(c) ==
  /\ main = "accepting"
  /\ conn[c] = "backlog"
  /\ conn' = [conn EXCEPT ![c] = "check"]
  /\ UNCHANGED <<main, running, inbox, outbox, hungup, queue, dropped, sent,
                 accepted, discarded, late, errors>>

(* incoming() yields an error: the one place the loop looks at running and *)
(* leaves, which ends the process and every thread.                        *)
AcceptError ==
  /\ main = "accepting"
  /\ errors < MaxErrors
  /\ errors' = errors + 1
  /\ IF running
       THEN UNCHANGED <<main, conn>>
       ELSE /\ main' = "exited"
            /\ conn' = [c \in Clients |-> "closed"]
  /\ UNCHANGED <<running, inbox, outbox, hungup, queue, dropped, sent,
                 accepted, discarded, late>>

-----------------------------------------------------------------------------
(* The thread of a connection. *)

(* Mutant: running is not looked at. *)
CheckNothing(c) ==
  /\ conn[c] = "check"
  /\ conn' = [conn EXCEPT ![c] = "read"]
  /\ UNCHANGED <<main, running, inbox, outbox, hungup, queue, dropped, sent,
                 accepted, discarded, late, errors>>

CheckRunning(c) ==
  /\ conn[c] = "check"
  /\ conn' = [conn EXCEPT ![c] = IF running THEN "read" ELSE "closed"]
  /\ UNCHANGED <<main, running, inbox, outbox, hungup, queue, dropped, sent,
                 accepted, discarded, late, errors>>

(* read_line returns Ok(0). *)
ReadEof(c) ==
  /\ conn[c] = "read"
  /\ inbox[c] = <<>>
  /\ c \in hungup
  /\ conn' = [conn EXCEPT ![c] = "closed"]
  /\ UNCHANGED <<main, running, inbox, outbox, hungup, queue, dropped, sent,
                 accepted, discarded, late, errors>>

(* read_line returns an error. *)
ReadError(c) ==
  /\ conn[c] = "read"
  /\ errors < MaxErrors
  /\ errors' = errors + 1
  /\ conn' = [conn EXCEPT ![c] = "closed"]
  /\ UNCHANGED <<main, running, inbox, outbox, hungup, queue, dropped, sent,
                 accepted, discarded, late>>

(* write_all fails when the peer is gone, and blocks while the socket is   *)
(* full.                                                                   *)
WriteFails(c) == c \in hungup /\ UNCHANGED outbox

WriteSucceeds(c) ==
  /\ c \notin hungup
  /\ outbox[c] < SocketCapacity
  /\ outbox' = [outbox EXCEPT ![c] = @ + 1]

(* write_frame, whose failure ends the loop. *)
Reply(c) ==
  /\ conn[c] = "reply"
  /\ \/ WriteFails(c) /\ conn' = [conn EXCEPT ![c] = "closed"]
     \/ WriteSucceeds(c) /\ conn' = [conn EXCEPT ![c] = "check"]
  /\ UNCHANGED <<main, running, inbox, hungup, queue, dropped, sent,
                 accepted, discarded, late, errors>>

(* write_ack, whose failure is ignored. *)
ReplyIgnoringErrors(c) ==
  /\ conn[c] = "ack"
  /\ WriteFails(c) \/ WriteSucceeds(c)
  /\ conn' = [conn EXCEPT ![c] = "check"]
  /\ UNCHANGED <<main, running, inbox, hungup, queue, dropped, sent,
                 accepted, discarded, late, errors>>

(* The response to shutdown, and only then its effect. *)
ReplyThenStop(c) ==
  /\ conn[c] = "farewell"
  /\ WriteFails(c) \/ WriteSucceeds(c)
  /\ running' = FALSE
  /\ conn' = [conn EXCEPT ![c] = "closed"]
  /\ UNCHANGED <<main, inbox, hungup, queue, dropped, sent,
                 accepted, discarded, late, errors>>

(* Mutant: a push that discards an old request does not count it. *)
EnqueueUncounted(c, n) ==
  /\ queue' = [queue EXCEPT ![c] = PushDropOldest(@, n, QueueCapacity)]
  /\ accepted' = [accepted EXCEPT ![c] = @ + 1]
  /\ UNCHANGED dropped

(* Mutant: the counter runs the wrong way. *)
EnqueueCountedDown(c, n) ==
  /\ queue' = [queue EXCEPT ![c] = PushDropOldest(@, n, QueueCapacity)]
  /\ dropped' = [dropped EXCEPT ![c] = @ - Overflow(queue[c], QueueCapacity)]
  /\ accepted' = [accepted EXCEPT ![c] = @ + 1]

(* BoundedQueue::push of the request's payload. *)
Enqueue(c, n) ==
  /\ queue' = [queue EXCEPT ![c] = PushDropOldest(@, n, QueueCapacity)]
  /\ dropped' = [dropped EXCEPT ![c] = @ + Overflow(queue[c], QueueCapacity)]
  /\ accepted' = [accepted EXCEPT ![c] = @ + 1]

(* One frame: the match of handle_client, up to the write of the response. *)
HandleFrame(c) ==
  /\ conn[c] = "read"
  /\ inbox[c] # <<>>
  /\ inbox' = [inbox EXCEPT ![c] = Tail(@)]
  /\ late' = [late EXCEPT ![c] = IF running THEN @ ELSE @ + 1]
  /\ LET frame == Head(inbox[c])
         next(position) == conn' = [conn EXCEPT ![c] = position]
     IN
       \/ /\ frame.kind \in {"hello", "ping", "snapshot"}
          /\ next("reply")
          /\ UNCHANGED <<queue, dropped, accepted, discarded>>
       \/ /\ frame.kind = "request"
          /\ Enqueue(c, frame.n)
          /\ next("reply")
          /\ UNCHANGED discarded
       \/ /\ frame.kind = "cancel"
          /\ queue' = [queue EXCEPT ![c] = <<>>]
          /\ discarded' = [discarded EXCEPT ![c] = @ + Len(queue[c])]
          /\ next("reply")
          /\ UNCHANGED <<dropped, accepted>>
       \/ /\ frame.kind = "shutdown"
          /\ next("farewell")
          /\ UNCHANGED <<queue, dropped, accepted, discarded>>
       \/ /\ frame.kind \in {"event", "malformed"}
          /\ next("ack")
          /\ UNCHANGED <<queue, dropped, accepted, discarded>>
       \/ /\ frame.kind = "blank"
          /\ next("check")
          /\ UNCHANGED <<queue, dropped, accepted, discarded>>
  /\ UNCHANGED <<main, running, outbox, hungup, sent, errors>>

Thread(c) ==
  \/ CheckRunning(c) \/ ReadEof(c) \/ ReadError(c) \/ HandleFrame(c)
  \/ Reply(c) \/ ReplyIgnoringErrors(c) \/ ReplyThenStop(c)

Next ==
  \/ AcceptError
  \/ \E c \in Clients :
       \/ Connect(c)
       \/ \E kind \in Kinds : Send(c, kind)
       \/ ReadResponse(c)
       \/ HangUp(c)
       \/ Accept(c)
       \/ Thread(c)

Spec == Init /\ [][Next]_vars

(* The main thread and every connection's thread are scheduled; peers and  *)
(* errors are under no obligation.                                         *)
FairSpec ==
  /\ Spec
  /\ \A c \in Clients : WF_vars(Accept(c)) /\ WF_vars(Thread(c))

-----------------------------------------------------------------------------
(* Properties. *)

(* Every request a connection accepted is still queued, was dropped by the *)
(* overflow and counted, or was discarded by a cancel: the `dropped` the   *)
(* pong, snapshot and response frames report accounts for every loss.      *)
QueueAccounts ==
  \A c \in Clients :
    /\ Len(queue[c]) <= QueueCapacity
    /\ accepted[c] = Len(queue[c]) + dropped[c] + discarded[c]

(* Once some connection has handled shutdown, every other one handles at   *)
(* most the frame it was already blocked reading for: `running` is checked *)
(* before each read.                                                       *)
ShutdownStopsThreads == \A c \in Clients : late[c] <= 1

(* "each connection handled on its own thread so a hung client cannot      *)
(* block others": whatever the other peers do, also when one of them never *)
(* reads its responses, a frame of a client that itself keeps reading them *)
(* (or hangs up) is read unless its connection closes.                     *)
KeepsReading(c) == []<>(outbox[c] < SocketCapacity \/ c \in hungup)

FramesAreRead ==
  \A c \in Clients :
    KeepsReading(c) =>
      ((inbox[c] # <<>>) ~> (inbox[c] = <<>> \/ conn[c] = "closed"))

=============================================================================
