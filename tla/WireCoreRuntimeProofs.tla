----------------------- MODULE WireCoreRuntimeProofs ------------------------
(***************************************************************************)
(* The sidecar's accounting and shutdown for any number of connections,    *)
(* any queue capacity and any number of frames.                            *)
(***************************************************************************)
EXTENDS WireCoreRuntime, TLAPS

(* No frame is late before the shutdown, and a thread that has handled a   *)
(* late frame does not read again: its next look at running ends it.       *)
LateIsLast ==
  \A c \in Clients : /\ running => late[c] = 0
                     /\ late[c] # 0 => conn[c] # "read"

IInv == TypeOK /\ QueueAccounts /\ ShutdownStopsThreads /\ LateIsLast

(* BoundedQueue::push stays within the capacity, and what it discards is   *)
(* what the counter is incremented by.                                     *)
LEMMA PushIsBounded ==
  ASSUME NEW q \in Seq(Nat), NEW x \in Nat, NEW cap \in Nat \ {0},
         Len(q) <= cap
  PROVE  /\ PushDropOldest(q, x, cap) \in Seq(Nat)
         /\ Len(PushDropOldest(q, x, cap)) <= cap
         /\ Overflow(q, cap) \in Nat
         /\ Len(PushDropOldest(q, x, cap)) + Overflow(q, cap) = Len(q) + 1
<1>1. CASE Len(q) >= cap
  <2>1. q # <<>>
    BY <1>1
  <2>2. Tail(q) \in Seq(Nat) /\ Len(Tail(q)) = Len(q) - 1
    BY <2>1
  <2>3. PushDropOldest(q, x, cap) = Append(Tail(q), x) /\ Overflow(q, cap) = 1
    BY <1>1 DEF PushDropOldest, Overflow
  <2> QED
    BY <1>1, <2>2, <2>3
<1>2. CASE ~(Len(q) >= cap)
  BY <1>2 DEF PushDropOldest, Overflow
<1> QED
  BY <1>1, <1>2

(* A started sidecar satisfies the invariant. *)
LEMMA InitIInv == Init => IInv
<1> SUFFICES ASSUME Init PROVE IInv
  OBVIOUS
<1>1. TypeOK
  <2>1. /\ inbox \in [Clients -> Seq(Frames)]
        /\ queue \in [Clients -> Seq(Nat)]
    BY DEF Init
  <2>2. /\ dropped \in [Clients -> Nat] /\ sent \in [Clients -> Nat]
        /\ accepted \in [Clients -> Nat] /\ discarded \in [Clients -> Nat]
        /\ late \in [Clients -> Nat] /\ errors \in 0..MaxErrors
    BY RuntimeAssumption DEF Init
  <2>a. outbox \in [Clients -> 0..SocketCapacity]
    BY RuntimeAssumption DEF Init
  <2>3. running \in BOOLEAN
    BY Zenon DEF Init
  <2>4. /\ main \in {"accepting", "exited"} /\ hungup \subseteq Clients
        /\ conn \in [Clients -> Positions]
    BY DEF Init, Positions
  <2> QED
    BY <2>1, <2>2, <2>a, <2>3, <2>4, Zenon DEF TypeOK
<1>2. QueueAccounts
  BY RuntimeAssumption DEF Init, QueueAccounts
<1>3. ShutdownStopsThreads /\ LateIsLast
  BY DEF Init, ShutdownStopsThreads, LateIsLast
<1> QED
  BY <1>1, <1>2, <1>3 DEF IInv

-----------------------------------------------------------------------------
(* Steps that neither queue nor handle anything. *)

(* A step that counts nothing and lets no thread read after shutdown keeps *)
(* the invariant.                                                          *)
LEMMA IdleKeepsAccounts ==
  ASSUME IInv, TypeOK',
         UNCHANGED <<running, queue, dropped, accepted, discarded, late>>,
         \A c \in Clients : conn'[c] = "read" => conn[c] = "read" \/ running
  PROVE  IInv'
<1>1. QueueAccounts' /\ ShutdownStopsThreads'
  BY DEF IInv, QueueAccounts, ShutdownStopsThreads
<1>2. LateIsLast'
  BY DEF IInv, LateIsLast
<1> QED
  BY <1>1, <1>2 DEF IInv

(* What the peers do keeps it. *)
LEMMA PeerStepsKeepInvariant ==
  ASSUME IInv, NEW c \in Clients,
         \/ Connect(c)
         \/ \E kind \in Kinds : Send(c, kind)
         \/ ReadResponse(c)
         \/ HangUp(c)
  PROVE  IInv'
<1>1. CASE Connect(c)
  <2>1. TypeOK'
    BY <1>1 DEF IInv, TypeOK, Connect, Positions
  <2> QED
    BY <1>1, <2>1, IdleKeepsAccounts DEF Connect, IInv, TypeOK
<1>2. ASSUME NEW kind \in Kinds, Send(c, kind)
      PROVE  IInv'
  <2>1. [kind |-> kind, n |-> sent[c] + 1] \in Frames
    BY RuntimeAssumption DEF IInv, TypeOK, Frames
  <2>2. inbox' \in [Clients -> Seq(Frames)] /\ sent' \in [Clients -> Nat]
    BY <1>2, <2>1 DEF IInv, TypeOK, Send
  <2>3. TypeOK'
    BY <1>2, <2>2 DEF IInv, TypeOK, Send
  <2> QED
    BY <1>2, <2>3, IdleKeepsAccounts DEF Send
<1>3. CASE HangUp(c)
  <2>1. TypeOK'
    BY <1>3 DEF IInv, TypeOK, HangUp
  <2> QED
    BY <1>3, <2>1, IdleKeepsAccounts DEF HangUp
<1>4. CASE ReadResponse(c)
  <2>1. outbox' \in [Clients -> 0..SocketCapacity]
    BY <1>4, RuntimeAssumption DEF IInv, TypeOK, ReadResponse
  <2>2. TypeOK'
    BY <1>4, <2>1 DEF IInv, TypeOK, ReadResponse
  <2> QED
    BY <1>4, <2>2, IdleKeepsAccounts DEF ReadResponse
<1> QED
  BY <1>1, <1>2, <1>3, <1>4

(* So do accepting, the check of running and the end or an error of a      *)
(* stream.                                                                 *)
LEMMA LoopStepsKeepInvariant ==
  ASSUME IInv, NEW c \in Clients,
         Accept(c) \/ CheckRunning(c) \/ ReadEof(c) \/ ReadError(c)
  PROVE  IInv'
<1>1. CASE Accept(c)
  <2>1. TypeOK'
    BY <1>1 DEF IInv, TypeOK, Accept, Positions, Serving
  <2> QED
    BY <1>1, <2>1, IdleKeepsAccounts DEF Accept, IInv, TypeOK
<1>2. CASE CheckRunning(c)
  <2>1. TypeOK'
    BY <1>2 DEF IInv, TypeOK, CheckRunning, Positions, Serving
  <2> QED
    BY <1>2, <2>1, IdleKeepsAccounts DEF CheckRunning, IInv, TypeOK
<1>3. CASE ReadEof(c)
  <2>1. TypeOK'
    BY <1>3 DEF IInv, TypeOK, ReadEof, Positions, Serving
  <2> QED
    BY <1>3, <2>1, IdleKeepsAccounts DEF ReadEof, IInv, TypeOK
<1>4. CASE ReadError(c)
  <2>1. errors' \in 0..MaxErrors
    BY <1>4, RuntimeAssumption DEF IInv, TypeOK, ReadError
  <2>2. TypeOK'
    BY <1>4, <2>1 DEF IInv, TypeOK, ReadError, Positions
  <2> QED
    BY <1>4, <2>2, IdleKeepsAccounts DEF ReadError, IInv, TypeOK
<1> QED
  BY <1>1, <1>2, <1>3, <1>4

(* So does an accept error, also when it ends the process. *)
LEMMA AcceptErrorKeepsInvariant ==
  ASSUME IInv, AcceptError
  PROVE  IInv'
<1>1. errors' \in 0..MaxErrors
  BY RuntimeAssumption DEF IInv, TypeOK, AcceptError
<1>2. /\ main' \in {"accepting", "exited"}
      /\ conn' \in [Clients -> Positions]
      /\ \A c \in Clients : conn'[c] = "read" => conn[c] = "read"
  BY DEF IInv, TypeOK, AcceptError, Positions
<1>3. TypeOK'
  BY <1>1, <1>2 DEF IInv, TypeOK, AcceptError
<1> QED
  BY <1>2, <1>3, IdleKeepsAccounts DEF AcceptError

-----------------------------------------------------------------------------
(* A response is written. *)

(* A write leaves the socket within its capacity. *)
LEMMA WritesAreBounded ==
  ASSUME IInv, NEW c \in Clients, WriteFails(c) \/ WriteSucceeds(c)
  PROVE  outbox' \in [Clients -> 0..SocketCapacity]
<1>1. outbox \in [Clients -> 0..SocketCapacity] /\ SocketCapacity \in Nat
  BY RuntimeAssumption DEF IInv, TypeOK
<1>2. CASE WriteFails(c)
  BY <1>1, <1>2 DEF WriteFails
<1>3. CASE WriteSucceeds(c)
  <2>1. outbox[c] + 1 \in 0..SocketCapacity
    BY <1>1, <1>3 DEF WriteSucceeds
  <2>2. outbox' = [outbox EXCEPT ![c] = outbox[c] + 1]
    BY <1>3 DEF WriteSucceeds
  <2> QED
    BY <1>1, <2>1, <2>2
<1> QED
  BY <1>2, <1>3

(* Writing a response keeps the invariant, also when its effect is to      *)
(* clear running.                                                          *)
LEMMA WritingKeepsInvariant ==
  ASSUME IInv, NEW c \in Clients,
         Reply(c) \/ ReplyIgnoringErrors(c) \/ ReplyThenStop(c)
  PROVE  IInv'
<1>1. outbox' \in [Clients -> 0..SocketCapacity]
  BY WritesAreBounded DEF Reply, ReplyIgnoringErrors, ReplyThenStop
<1>2. /\ conn' = [conn EXCEPT ![c] = "check"] \/ conn' = [conn EXCEPT ![c] = "closed"]
      /\ running' = FALSE \/ running' = running
      /\ UNCHANGED <<main, inbox, hungup, queue, dropped, sent,
                     accepted, discarded, late, errors>>
  BY DEF Reply, ReplyIgnoringErrors, ReplyThenStop
<1>3. conn' \in [Clients -> Positions]
  BY <1>2 DEF IInv, TypeOK, Positions, Serving
<1>4. running' \in BOOLEAN
  BY <1>2, Zenon DEF IInv, TypeOK
<1>5. TypeOK'
  BY <1>1, <1>2, <1>3, <1>4, Zenon DEF IInv, TypeOK
<1>6. QueueAccounts' /\ ShutdownStopsThreads'
  BY <1>2 DEF IInv, QueueAccounts, ShutdownStopsThreads
<1>7. LateIsLast'
  BY <1>2 DEF IInv, LateIsLast, TypeOK
<1> QED
  BY <1>5, <1>6, <1>7 DEF IInv

-----------------------------------------------------------------------------
(* A frame is handled. *)

(* Whatever the frame, the thread does not read before it has checked      *)
(* running again, and counts a late frame.                                 *)
LEMMA HandlingIsCounted ==
  ASSUME IInv, NEW c \in Clients, HandleFrame(c)
  PROVE  /\ late' \in [Clients -> Nat]
         /\ conn' \in [Clients -> Positions]
         /\ inbox' \in [Clients -> Seq(Frames)]
         /\ ShutdownStopsThreads' /\ LateIsLast'
<1>1. /\ late' = [late EXCEPT ![c] = IF running THEN late[c] ELSE late[c] + 1]
      /\ running' = running
  BY DEF HandleFrame
<1>2. \E position \in {"check", "reply", "ack", "farewell"} :
        conn' = [conn EXCEPT ![c] = position]
  BY DEF HandleFrame
<1>3. inbox' = [inbox EXCEPT ![c] = Tail(inbox[c])] /\ inbox[c] # <<>>
  BY DEF HandleFrame
<1>4. conn[c] = "read"
  BY DEF HandleFrame
<1>5. /\ late \in [Clients -> Nat] /\ inbox \in [Clients -> Seq(Frames)]
      /\ conn \in [Clients -> Positions]
  BY DEF IInv, TypeOK
<1>6. inbox' \in [Clients -> Seq(Frames)]
  <2>1. Tail(inbox[c]) \in Seq(Frames)
    BY <1>3, <1>5
  <2> QED
    BY <1>3, <1>5, <2>1
<1>7. late[c] = 0
  BY <1>4 DEF IInv, LateIsLast
<1>8. ShutdownStopsThreads'
  BY <1>1, <1>5, <1>7 DEF IInv, ShutdownStopsThreads
<1>9. LateIsLast'
  BY <1>1, <1>2, <1>5 DEF IInv, LateIsLast
<1>10. late' \in [Clients -> Nat]
  BY <1>1, <1>5
<1>11. conn' \in [Clients -> Positions]
  BY <1>2, <1>5 DEF Positions, Serving, Writes
<1> QED
  BY <1>6, <1>8, <1>9, <1>10, <1>11, Zenon

(* Handling a frame keeps it: only a request and a cancel touch the queue. *)
LEMMA HandleFrameKeepsInvariant ==
  ASSUME IInv, NEW c \in Clients, HandleFrame(c)
  PROVE  IInv'
<1> DEFINE frame == Head(inbox[c])
<1>1. /\ queue \in [Clients -> Seq(Nat)] /\ dropped \in [Clients -> Nat]
      /\ accepted \in [Clients -> Nat] /\ discarded \in [Clients -> Nat]
      /\ inbox \in [Clients -> Seq(Frames)]
  BY DEF IInv, TypeOK
<1>2. frame.n \in Nat
  <2>1. frame \in Frames
    BY <1>1 DEF HandleFrame
  <2> HIDE DEF frame
  <2> QED
    BY <2>1 DEF Frames
<1>3. UNCHANGED <<main, running, outbox, hungup, sent, errors>>
  BY DEF HandleFrame
<1>4. \/ UNCHANGED <<queue, dropped, accepted, discarded>>
      \/ Enqueue(c, frame.n) /\ discarded' = discarded
      \/ /\ queue' = [queue EXCEPT ![c] = <<>>]
         /\ discarded' = [discarded EXCEPT ![c] = discarded[c] + Len(queue[c])]
         /\ UNCHANGED <<dropped, accepted>>
  BY DEF HandleFrame
<1> HIDE DEF frame
<1> DEFINE Accounted == /\ queue' \in [Clients -> Seq(Nat)]
                        /\ dropped' \in [Clients -> Nat]
                        /\ accepted' \in [Clients -> Nat]
                        /\ discarded' \in [Clients -> Nat]
                        /\ QueueAccounts'
<1>5. CASE UNCHANGED <<queue, dropped, accepted, discarded>>
  <2>1. Accounted
    BY <1>1, <1>5 DEF IInv, QueueAccounts
  <2> QED
    BY <1>3, <2>1, HandlingIsCounted, Zenon DEF IInv, TypeOK
<1>6. CASE Enqueue(c, frame.n) /\ discarded' = discarded
  <2> DEFINE pushed == PushDropOldest(queue[c], frame.n, QueueCapacity)
             lost == Overflow(queue[c], QueueCapacity)
  <2>1. /\ pushed \in Seq(Nat) /\ Len(pushed) <= QueueCapacity
        /\ lost \in Nat /\ Len(pushed) + lost = Len(queue[c]) + 1
    BY <1>1, <1>2, PushIsBounded, RuntimeAssumption DEF IInv, QueueAccounts
  <2>2. /\ queue' = [queue EXCEPT ![c] = pushed]
        /\ dropped' = [dropped EXCEPT ![c] = dropped[c] + lost]
        /\ accepted' = [accepted EXCEPT ![c] = accepted[c] + 1]
    BY <1>6 DEF Enqueue
  <2> HIDE DEF pushed, lost
  <2>3. /\ queue' \in [Clients -> Seq(Nat)] /\ dropped' \in [Clients -> Nat]
        /\ accepted' \in [Clients -> Nat] /\ discarded' \in [Clients -> Nat]
    BY <1>1, <1>6, <2>1, <2>2
  <2>4. QueueAccounts'
    <3> SUFFICES ASSUME NEW d \in Clients
                 PROVE  /\ Len(queue'[d]) <= QueueCapacity
                        /\ accepted'[d]
                             = Len(queue'[d]) + dropped'[d] + discarded'[d]
      BY DEF QueueAccounts
    <3>1. /\ Len(queue[d]) <= QueueCapacity
          /\ accepted[d] = Len(queue[d]) + dropped[d] + discarded[d]
      BY DEF IInv, QueueAccounts
    <3>2. CASE d # c
      BY <1>1, <1>6, <2>2, <3>1, <3>2
    <3>3. CASE d = c
      BY <1>1, <1>6, <2>1, <2>2, <3>1, <3>3
    <3> QED
      BY <3>2, <3>3
  <2> QED
    BY <1>3, <2>3, <2>4, HandlingIsCounted, Zenon DEF IInv, TypeOK
<1>7. CASE /\ queue' = [queue EXCEPT ![c] = <<>>]
           /\ discarded' = [discarded EXCEPT ![c] = discarded[c] + Len(queue[c])]
           /\ UNCHANGED <<dropped, accepted>>
  <2>1. /\ queue' \in [Clients -> Seq(Nat)] /\ dropped' \in [Clients -> Nat]
        /\ accepted' \in [Clients -> Nat] /\ discarded' \in [Clients -> Nat]
    BY <1>1, <1>7
  <2>2. QueueAccounts'
    BY <1>1, <1>7, RuntimeAssumption DEF IInv, QueueAccounts
  <2> QED
    BY <1>3, <2>1, <2>2, HandlingIsCounted, Zenon DEF IInv, TypeOK
<1> QED
  BY <1>4, <1>5, <1>6, <1>7

-----------------------------------------------------------------------------

(* Every step keeps the invariant. *)
LEMMA NextIInv == IInv /\ [Next]_vars => IInv'
<1> SUFFICES ASSUME IInv, [Next]_vars PROVE IInv'
  OBVIOUS
<1>1. CASE AcceptError
  BY <1>1, AcceptErrorKeepsInvariant
<1>2. ASSUME NEW c \in Clients,
             \/ Connect(c)
             \/ \E kind \in Kinds : Send(c, kind)
             \/ ReadResponse(c)
             \/ HangUp(c)
      PROVE  IInv'
  BY <1>2, PeerStepsKeepInvariant
<1>3. ASSUME NEW c \in Clients,
             Accept(c) \/ CheckRunning(c) \/ ReadEof(c) \/ ReadError(c)
      PROVE  IInv'
  BY <1>3, LoopStepsKeepInvariant
<1>4. ASSUME NEW c \in Clients, HandleFrame(c)
      PROVE  IInv'
  BY <1>4, HandleFrameKeepsInvariant
<1>5. ASSUME NEW c \in Clients,
             Reply(c) \/ ReplyIgnoringErrors(c) \/ ReplyThenStop(c)
      PROVE  IInv'
  BY <1>5, WritingKeepsInvariant
<1>6. CASE UNCHANGED vars
  <2>1. TypeOK'
    BY <1>6 DEF vars, IInv, TypeOK
  <2> QED
    BY <1>6, <2>1, IdleKeepsAccounts DEF vars
<1> QED
  BY <1>1, <1>2, <1>3, <1>4, <1>5, <1>6 DEF Next, Thread

(* The inductive invariant holds in every reachable state. *)
THEOREM InvariantHolds == Spec => []IInv
BY InitIInv, NextIInv, PTL DEF Spec

(* Every variable keeps its type. *)
THEOREM TypeCorrect == Spec => []TypeOK
<1>1. IInv => TypeOK
  BY DEF IInv
<1> QED
  BY <1>1, InvariantHolds, PTL

(* The dropped counter accounts for every request that was lost to the     *)
(* queue's bound.                                                          *)
THEOREM LossIsAccounted == Spec => []QueueAccounts
<1>1. IInv => QueueAccounts
  BY DEF IInv
<1> QED
  BY <1>1, InvariantHolds, PTL

(* After a shutdown each connection handles at most the frame it was       *)
(* already reading.                                                        *)
THEOREM ShutdownIsPrompt == Spec => []ShutdownStopsThreads
<1>1. IInv => ShutdownStopsThreads
  BY DEF IInv
<1> QED
  BY <1>1, InvariantHolds, PTL

=============================================================================
