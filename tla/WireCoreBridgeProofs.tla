------------------------ MODULE WireCoreBridgeProofs ------------------------
(***************************************************************************)
(* Proofs about the bridge supervisor and its sidecars, for every number   *)
(* of launches, requests, faults and calls, every queue capacity and every *)
(* retry limit: its safety invariants, and that it implements LossyFifo.   *)
(***************************************************************************)
EXTENDS WireCoreBridge, SequenceTheorems, TLAPS

-----------------------------------------------------------------------------
(* The inductive invariant. *)

(* QProcess is NotRunning only for the current launch, and only after the  *)
(* process has exited.                                                     *)
ReapedHasExited == \A i \in reaped : i = process /\ core[i] = "exited"

(* A sidecar that runs belongs to m_process, and m_socket was made for it, *)
(* or it was abandoned, and then no connection leads to it.                *)
AliveIsCurrent ==
  /\ \A i \in Slots :
       Alive(i) => (i = process /\ i = socket) \/ i \in abandoned
  /\ \A i \in abandoned : i # process /\ i # socket /\ ~link[i]

(* Frames are in transit only on connections that are up, and on their way *)
(* to a sidecar only while it runs.                                        *)
QuietUnlessUp ==
  \A i \in Slots :
    /\ ~Alive(i) => toCore[i] = <<>>
    /\ ~link[i] => toCore[i] = <<>> /\ toClient[i] = <<>>

StoppedHasNoSocket == stopping => socket = NoSlot

(* A hello is alone on its connection until it is answered, and so is the  *)
(* answer until the client reads it.                                       *)
GreetingIsAlone ==
  \A i \in Slots :
    /\ \A n \in DOMAIN toCore[i] :
         toCore[i][n] = Hello => Len(toCore[i]) = 1 /\ toClient[i] = <<>>
    /\ \A n \in DOMAIN toClient[i] : \A ok \in BOOLEAN :
         toClient[i][n] = HelloAck(ok)
           => Len(toClient[i]) = 1 /\ toCore[i] = <<>>

(* While m_connected is set no hello or hello_ack is in transit on         *)
(* m_socket: a connection is greeted once.                                 *)
GreetedOnce ==
  connected =>
    /\ \A n \in DOMAIN toCore[socket] : toCore[socket][n] # Hello
    /\ \A n \in DOMAIN toClient[socket] :
         \A ok \in BOOLEAN : toClient[socket][n] # HelloAck(ok)

(* Request a comes before request b when those in u are the urgent ones.   *)
Precedes(u, a, b) == a < b \/ (a \in u /\ b \notin u)

(* The queue s of frames holds its requests in the order they were posted, *)
(* but for the urgent.                                                     *)
RequestsAscend(u, s) ==
  \A m, n \in DOMAIN s : \A a, b \in 1..MaxPosts :
    m < n /\ s[m] = Request(a) /\ s[n] = Request(b) => Precedes(u, a, b)

(* Requests are ordered by their posting but for the urgent: those on      *)
(* their way to a sidecar before those held back, and none beyond the last *)
(* one posted.                                                             *)
Ordered ==
  /\ \A u \in urgent : u <= posted
  /\ \A n \in DOMAIN pending :
       pending[n] <= posted /\ pending[n] \notin urgent
  /\ \A m, n \in DOMAIN pending : m < n => pending[m] < pending[n]
  /\ \A i \in Slots :
       /\ RequestsAscend(urgent, toCore[i])
       /\ \A n \in DOMAIN toCore[i] : \A a \in 1..MaxPosts :
            toCore[i][n] = Request(a)
              => /\ a <= posted
                 /\ \A m \in DOMAIN pending :
                      Precedes(urgent, a, pending[m])

IInv ==
  /\ TypeOK
  /\ ConnectedConsistent
  /\ PendingDisciplined
  /\ RestartPendingIsArmed
  /\ HandshakeFirst
  /\ ReapedHasExited
  /\ AliveIsCurrent
  /\ QuietUnlessUp
  /\ StoppedHasNoSocket
  /\ GreetingIsAlone
  /\ GreetedOnce
  /\ Ordered

-----------------------------------------------------------------------------
(* Frames and queues. *)

(* Frames of different kinds, and requests with different numbers, differ. *)
LEMMA FramesDiffer ==
  /\ Hello # Ping
  /\ \A id \in 1..MaxPosts : Request(id) # Hello /\ Request(id) # Ping
  /\ \A a, b \in 1..MaxPosts : Request(a) = Request(b) => a = b
  /\ \A ok \in BOOLEAN : HelloAck(ok) # Pong /\ HelloAck(ok) # Response
BY DEF Hello, Ping, Request, HelloAck, Pong, Response

(* What is on its way is a frame; kinds tell the frames apart. *)
LEMMA FrameKinds ==
  /\ Hello \in ClientFrames /\ Ping \in ClientFrames
  /\ \A id \in 1..MaxPosts : Request(id) \in ClientFrames
  /\ Pong \in CoreFrames /\ Response \in CoreFrames
  /\ \A ok \in BOOLEAN : HelloAck(ok) \in CoreFrames
  /\ \A f \in ClientFrames :
       /\ f.kind = "hello" <=> f = Hello
       /\ f.kind = "ping" <=> f = Ping
       /\ f.kind = "request" => f.id \in 1..MaxPosts /\ f = Request(f.id)
  /\ \A f \in CoreFrames :
       /\ f.kind = "hello_ack" => f.ok \in BOOLEAN /\ f = HelloAck(f.ok)
       /\ f.kind = "pong" <=> f = Pong
       /\ f.kind = "response" <=> f = Response
<1>1. \A f \in ClientFrames :
        \/ f = Hello \/ f = Ping
        \/ \E id \in 1..MaxPosts : f = Request(id)
  BY DEF ClientFrames
<1>2. \A f \in CoreFrames :
        f = Pong \/ f = Response \/ \E ok \in BOOLEAN : f = HelloAck(ok)
  BY DEF CoreFrames
<1>3. /\ Hello.kind = "hello" /\ Ping.kind = "ping"
      /\ \A id : Request(id).kind = "request" /\ Request(id).id = id
      /\ \A ok : HelloAck(ok).kind = "hello_ack" /\ HelloAck(ok).ok = ok
      /\ Pong.kind = "pong" /\ Response.kind = "response"
  BY DEF Hello, Ping, Request, HelloAck, Pong, Response
<1>4. /\ Hello \in ClientFrames /\ Ping \in ClientFrames
      /\ \A id \in 1..MaxPosts : Request(id) \in ClientFrames
      /\ Pong \in CoreFrames /\ Response \in CoreFrames
      /\ \A ok \in BOOLEAN : HelloAck(ok) \in CoreFrames
  BY DEF ClientFrames, CoreFrames
<1>5. "hello" # "ping" /\ "hello" # "request" /\ "ping" # "request"
  OBVIOUS
<1>6. "hello_ack" # "pong" /\ "hello_ack" # "response" /\ "pong" # "response"
  OBVIOUS
<1>7. \A f \in ClientFrames :
        /\ f.kind = "hello" <=> f = Hello
        /\ f.kind = "ping" <=> f = Ping
        /\ f.kind = "request" => f.id \in 1..MaxPosts /\ f = Request(f.id)
  BY <1>1, <1>3, <1>5
<1>8. \A f \in CoreFrames :
        /\ f.kind = "hello_ack" => f.ok \in BOOLEAN /\ f = HelloAck(f.ok)
        /\ f.kind = "pong" <=> f = Pong
        /\ f.kind = "response" <=> f = Response
  BY <1>2, <1>3, <1>6
<1> QED
  BY <1>4, <1>7, <1>8

(* What appending an element does to a sequence. *)
LEMMA Appended ==
  ASSUME NEW S, NEW s \in Seq(S), NEW x \in S, NEW t, t = Append(s, x)
  PROVE  /\ t \in Seq(S) /\ Len(t) = Len(s) + 1
         /\ Len(s) \in Nat /\ DOMAIN t = 1..Len(t)
         /\ t[Len(s) + 1] = x
         /\ \A n \in 1..Len(s) : t[n] = s[n]
<1>1. /\ t \in Seq(S) /\ Len(t) = Len(s) + 1
      /\ t[Len(s) + 1] = x
      /\ \A n \in 1..Len(s) : t[n] = s[n]
  BY AppendProperties, ZenonT(60)
<1>2. Len(s) \in Nat /\ DOMAIN t = 1..Len(t)
  BY <1>1, LenProperties, Zenon
<1> QED
  BY <1>1, <1>2, Zenon

(* A request that is held back joins the end of m_pending; d of the oldest *)
(* ones make room for it.                                                  *)
LEMMA HoldingKeepsNewest ==
  ASSUME NEW S, NEW queue \in Seq(S), NEW x \in S, NEW cap \in Nat \ {0},
         Len(queue) <= cap
  PROVE  \A held : held = PushDropOldest(queue, x, cap) =>
           /\ held \in Seq(S) /\ Len(held) <= cap
           /\ DOMAIN held = 1..Len(held) /\ Len(held) \in Nat
           /\ \E d \in {0, 1} :
                \A n \in DOMAIN held :
                  \/ n = Len(held) /\ held[n] = x
                  \/ /\ n < Len(held) /\ n + d \in DOMAIN queue
                     /\ held[n] = queue[n + d]
<1>1. Len(queue) \in Nat /\ DOMAIN queue = 1..Len(queue)
  BY LenProperties
<1>2. CASE Len(queue) >= cap
  <2>1. Len(queue) = cap
    <3>1. \A m, n \in Nat : m <= n /\ m >= n => m = n
      OBVIOUS
    <3> QED
      BY <1>1, <1>2, <3>1, Zenon
  <2>2. queue # <<>>
    BY <2>1, EmptySeq
  <2>3. /\ Tail(queue) \in Seq(S)
        /\ Len(Tail(queue)) = cap - 1
        /\ \A n \in 1..(cap - 1) : Tail(queue)[n] = queue[n + 1]
    BY <2>1, <2>2, HeadTailProperties
  <2>4. ASSUME NEW held, held = PushDropOldest(queue, x, cap)
        PROVE  held = Append(Tail(queue), x)
    BY <1>2, <2>4 DEF PushDropOldest
  <2>5. ASSUME NEW held, held = Append(Tail(queue), x)
        PROVE  /\ held \in Seq(S) /\ Len(held) <= cap
               /\ DOMAIN held = 1..Len(held) /\ Len(held) \in Nat
               /\ \A n \in DOMAIN held :
                    \/ n = Len(held) /\ held[n] = x
                    \/ /\ n < Len(held) /\ n + 1 \in DOMAIN queue
                       /\ held[n] = queue[n + 1]
    <3>1. /\ held \in Seq(S) /\ Len(held) = Len(Tail(queue)) + 1
          /\ DOMAIN held = 1..Len(held)
          /\ held[Len(Tail(queue)) + 1] = x
          /\ \A n \in 1..Len(Tail(queue)) : held[n] = Tail(queue)[n]
      BY <2>3, <2>5, Appended
    <3> QED
      BY <1>1, <2>1, <2>3, <3>1
  <2> QED
    BY <2>4, <2>5, Zenon
<1>3. CASE Len(queue) < cap
  <2>1. ASSUME NEW held, held = PushDropOldest(queue, x, cap)
        PROVE  held = Append(queue, x)
    BY <1>1, <1>3, <2>1 DEF PushDropOldest
  <2>2. ASSUME NEW held, held = Append(queue, x)
        PROVE  /\ held \in Seq(S) /\ Len(held) <= cap
               /\ DOMAIN held = 1..Len(held) /\ Len(held) \in Nat
               /\ \A n \in DOMAIN held :
                    \/ n = Len(held) /\ held[n] = x
                    \/ /\ n < Len(held) /\ n + 0 \in DOMAIN queue
                       /\ held[n] = queue[n + 0]
    <3>1. /\ held \in Seq(S) /\ Len(held) = Len(queue) + 1
          /\ DOMAIN held = 1..Len(held)
          /\ held[Len(queue) + 1] = x
          /\ \A n \in 1..Len(queue) : held[n] = queue[n]
      BY <2>2, Appended
    <3> QED
      BY <1>1, <1>3, <3>1
  <2> QED
    BY <2>1, <2>2, Zenon
<1> QED
  BY <1>1, <1>2, <1>3

-----------------------------------------------------------------------------
(* Launches. *)

CoreStates == {"none", "booting", "listening", "exited"}

(* An attempt to connect that is refused keeps the counters in their       *)
(* bounds.                                                                 *)
LEMMA RetryStaysTyped ==
  ASSUME TypeOK, NEW running, RetryOrReport(running)
  PROVE  /\ connectAttempts' \in 0..MaxConnectAttempts
         /\ retryTimers' \in 0..MaxRetryTimers
BY BridgeAssumption DEF TypeOK, RetryOrReport

(* A launch onto tables in which only abandoned sidecars run and nothing   *)
(* is on its way to one: it types, the new sidecar is the only other that  *)
(* may run, and the only frame on its way is the hello of the new          *)
(* connection.                                                             *)
LEMMA LaunchEffects ==
  ASSUME TypeOK, ReapedHasExited,
         NEW coreNow \in [Slots -> CoreStates],
         NEW linkNow \in [Slots -> BOOLEAN],
         NEW socketNow \in Slots \cup {NoSlot},
         \A i \in Slots : coreNow[i] \in RunningStates => i \in abandoned',
         abandoned' \subseteq Slots,
         \A i \in abandoned' : /\ i \in abandoned \/ i = process
                               /\ i # socketNow /\ ~linkNow[i],
         \A i \in Slots : linkNow[i] => link[i] /\ toCore[i] = <<>>,
         LaunchAndConnect(coreNow, linkNow, socketNow)
  PROVE  /\ process' \in Slots
         /\ socket' \in Slots \cup {NoSlot}
         /\ pid' \in Slots \cup {NoSlot}
         /\ connectAttempts' \in 0..MaxConnectAttempts
         /\ retryTimers' \in 0..MaxRetryTimers
         /\ healthTimer' \in BOOLEAN
         /\ core' \in [Slots -> CoreStates]
         /\ hung' \subseteq Slots
         /\ reaped' \subseteq Slots
         /\ link' \in [Slots -> BOOLEAN]
         /\ toCore' \in [Slots -> Seq(ClientFrames)]
         /\ toClient' \in [Slots -> Seq(CoreFrames)]
         /\ faults' \in 0..MaxFaults
         /\ ReapedHasExited'
         /\ AliveIsCurrent'
         /\ \A i \in Slots :
              \/ toCore'[i] = <<>>
              \/ /\ toCore'[i] = <<Hello>>
                 /\ i = socket' /\ Alive(i)' /\ link'[i]
                 /\ toClient'[i] = <<>>
         /\ \A i \in Slots : ~link'[i] => toClient'[i] = <<>>
         /\ \A i \in Slots : toClient'[i] \in {toClient[i], <<>>}
<1>1. \A i \in Slots :
        /\ Carried(toCore, linkNow)[i] = <<>>
        /\ linkNow[i] => Carried(toClient, linkNow)[i] = toClient[i]
        /\ ~linkNow[i] => Carried(toClient, linkNow)[i] = <<>>
  BY DEF Carried
<1>2. /\ Carried(toCore, linkNow) \in [Slots -> Seq(ClientFrames)]
      /\ Carried(toClient, linkNow) \in [Slots -> Seq(CoreFrames)]
  BY DEF Carried, TypeOK
<1>3. reaped \ {process} = {}
  BY DEF ReapedHasExited
<1>4. CASE LaunchFails(coreNow, linkNow, socketNow)
  <2>1. PICK i \in FreeSlots :
          /\ process' = i
          /\ core' = [coreNow EXCEPT ![i] = "exited"]
          /\ reaped' = (reaped \ {process}) \cup {i}
    BY <1>4 DEF LaunchFails
  <2>2. /\ socket' = socketNow /\ link' = linkNow
        /\ hung' = {j \in hung : coreNow[j] \in RunningStates}
        /\ toCore' = Carried(toCore, linkNow)
        /\ toClient' = Carried(toClient, linkNow)
        /\ faults < MaxFaults /\ faults' = faults + 1
        /\ UNCHANGED <<pid, connectAttempts, retryTimers, healthTimer>>
    BY <1>4 DEF LaunchFails
  <2>3. i \in Slots /\ i \notin abandoned'
    BY DEF FreeSlots
  <2>4. core' \in [Slots -> CoreStates] /\ reaped' = {i}
    BY <1>3, <2>1, <2>3 DEF CoreStates
  <2>5. \A j \in Slots : Alive(j)' => j \in abandoned'
    BY <2>1, <2>3 DEF Alive, RunningStates
  <2>6. ReapedHasExited' /\ AliveIsCurrent'
    BY <2>1, <2>2, <2>3, <2>4, <2>5 DEF ReapedHasExited, AliveIsCurrent
  <2>7. faults' \in 0..MaxFaults
    BY <2>2, BridgeAssumption DEF TypeOK
  <2>8. hung' \subseteq Slots /\ reaped' \subseteq Slots
    BY <2>2, <2>3, <2>4 DEF TypeOK
  <2>9. /\ pid' \in Slots \cup {NoSlot}
        /\ connectAttempts' \in 0..MaxConnectAttempts
        /\ retryTimers' \in 0..MaxRetryTimers
        /\ healthTimer' \in BOOLEAN
    BY <2>2 DEF TypeOK
  <2> QED
    BY <1>1, <1>2, <2>1, <2>2, <2>3, <2>4, <2>6, <2>7, <2>8, <2>9, Zenon
<1>5. CASE LaunchStarts(coreNow, linkNow)
  <2>1. PICK i \in FreeSlots :
          /\ process' = i /\ socket' = i /\ pid' = i
          /\ \/ /\ core' = [coreNow EXCEPT ![i] = "listening"]
                /\ link' = [linkNow EXCEPT ![i] = TRUE]
                /\ connectAttempts' = 0
                /\ toCore' = [Carried(toCore, linkNow) EXCEPT ![i] = <<Hello>>]
                /\ UNCHANGED retryTimers
             \/ /\ core' = [coreNow EXCEPT ![i] = "booting"]
                /\ link' = linkNow
                /\ RetryOrReport(TRUE)
                /\ toCore' = Carried(toCore, linkNow)
    BY <1>5 DEF LaunchStarts
  <2>2. /\ reaped' = reaped \ {process}
        /\ hung' = {j \in hung : coreNow[j] \in RunningStates}
        /\ toClient' = Carried(toClient, linkNow)
        /\ healthTimer' = TRUE /\ faults' = faults
    BY <1>5 DEF LaunchStarts
  <2>3. i \in Slots /\ ~link[i] /\ ~linkNow[i] /\ i \notin abandoned'
    BY DEF FreeSlots
  <2>4. /\ core' \in [Slots -> CoreStates]
        /\ link' \in [Slots -> BOOLEAN]
        /\ \A j \in Slots : Alive(j)' => j = i \/ j \in abandoned'
        /\ Alive(i)'
        /\ \A j \in Slots : j # i => link'[j] = linkNow[j]
    BY <2>1, <2>3 DEF CoreStates, Alive, RunningStates
  <2>5. /\ connectAttempts' \in 0..MaxConnectAttempts
        /\ retryTimers' \in 0..MaxRetryTimers
    <3>1. CASE connectAttempts' = 0 /\ UNCHANGED retryTimers
      BY <3>1, BridgeAssumption DEF TypeOK
    <3>2. CASE RetryOrReport(TRUE)
      BY <3>2, RetryStaysTyped
    <3> QED
      BY <2>1, <3>1, <3>2
  <2>6. /\ toCore' \in [Slots -> Seq(ClientFrames)]
        /\ \A j \in Slots :
             \/ toCore'[j] = <<>>
             \/ toCore'[j] = <<Hello>> /\ j = i /\ link'[i]
    <3>1. <<Hello>> \in Seq(ClientFrames)
      BY FrameKinds
    <3>2. CASE /\ link' = [linkNow EXCEPT ![i] = TRUE]
               /\ toCore' = [Carried(toCore, linkNow) EXCEPT ![i] = <<Hello>>]
      BY <1>1, <1>2, <2>3, <3>1, <3>2
    <3>3. CASE toCore' = Carried(toCore, linkNow)
      BY <1>1, <1>2, <3>3
    <3> QED
      BY <2>1, <3>2, <3>3
  <2>7. reaped' = {} /\ hung' \subseteq Slots /\ faults' \in 0..MaxFaults
    BY <1>3, <2>2 DEF TypeOK
  <2>8. ReapedHasExited' /\ AliveIsCurrent'
    BY <2>1, <2>3, <2>4, <2>7 DEF ReapedHasExited, AliveIsCurrent
  <2>9. \A j \in Slots :
          /\ ~link'[j] => toClient'[j] = <<>>
          /\ toClient'[j] \in {toClient[j], <<>>}
          /\ j = i => toClient'[j] = <<>>
    BY <1>1, <2>2, <2>3, <2>4
  <2>10. /\ process' \in Slots /\ socket' \in Slots \cup {NoSlot}
         /\ pid' \in Slots \cup {NoSlot} /\ healthTimer' \in BOOLEAN
         /\ toClient' \in [Slots -> Seq(CoreFrames)] /\ reaped' \subseteq Slots
    BY <1>2, <2>1, <2>2, <2>3, <2>7
  <2>11. \A j \in Slots :
           \/ toCore'[j] = <<>>
           \/ /\ toCore'[j] = <<Hello>>
              /\ j = socket' /\ Alive(j)' /\ link'[j]
              /\ toClient'[j] = <<>>
    <3> SUFFICES ASSUME NEW j \in Slots, toCore'[j] # <<>>
                 PROVE  /\ toCore'[j] = <<Hello>>
                        /\ j = socket' /\ Alive(j)' /\ link'[j]
                        /\ toClient'[j] = <<>>
      OBVIOUS
    <3>1. toCore'[j] = <<Hello>> /\ j = i /\ link'[i]
      BY <2>6
    <3> QED
      BY <2>1, <2>4, <2>9, <3>1, Zenon
  <2> QED
    BY <2>4, <2>5, <2>6, <2>7, <2>8, <2>9, <2>10, <2>11, Zenon
<1> QED
  BY <1>4, <1>5 DEF LaunchAndConnect

(* When frames only disappear, or a connection is replaced by one that was *)
(* just opened with hello, the order of requests and the greeting are kept. *)
LEMMA ChannelsShrink ==
  ASSUME IInv, TypeOK', UNCHANGED <<posted, urgent>>,
         pending' \in {pending, <<>>},
         \A i \in Slots :
           \/ toCore'[i] \in {toCore[i], <<>>}
           \/ toCore'[i] = <<Hello>> /\ toClient'[i] = <<>>,
         \A i \in Slots : toClient'[i] \in {toClient[i], <<>>}
  PROVE  Ordered' /\ GreetingIsAlone'
<1>1. \A i \in Slots : \A n \in DOMAIN toCore'[i] :
        \/ toCore'[i] = toCore[i]
        \/ /\ DOMAIN toCore'[i] = {1} /\ Len(toCore'[i]) = 1
           /\ toCore'[i][n] = Hello /\ toClient'[i] = <<>>
  <2>1. /\ DOMAIN <<Hello>> = {1} /\ Len(<<Hello>>) = 1 /\ <<Hello>>[1] = Hello
        /\ \A n : n \notin DOMAIN <<>>
    OBVIOUS
  <2> QED
    BY <2>1
<1>2. \A n \in DOMAIN pending' :
        pending' = pending /\ n \in DOMAIN pending
  OBVIOUS
<1>3. Ordered'
  <2>1. /\ \A u \in urgent' : u <= posted'
        /\ \A n \in DOMAIN pending' :
             pending'[n] <= posted' /\ pending'[n] \notin urgent'
    BY <1>2 DEF IInv, Ordered
  <2>2. \A m, n \in DOMAIN pending' : m < n => pending'[m] < pending'[n]
    BY <1>2 DEF IInv, Ordered
  <2>3. ASSUME NEW i \in Slots
        PROVE  RequestsAscend(urgent, toCore'[i])
    <3> SUFFICES ASSUME NEW m \in DOMAIN toCore'[i],
                        NEW n \in DOMAIN toCore'[i],
                        NEW a \in 1..MaxPosts, NEW b \in 1..MaxPosts,
                        m < n, toCore'[i][m] = Request(a),
                        toCore'[i][n] = Request(b)
                 PROVE  Precedes(urgent, a, b)
      BY DEF RequestsAscend
    <3>1. toCore'[i] = toCore[i]
      BY <1>1, FramesDiffer
    <3>2. RequestsAscend(urgent, toCore[i])
      BY DEF IInv, Ordered
    <3> QED
      BY <3>1, <3>2 DEF RequestsAscend
  <2>4. ASSUME NEW i \in Slots, NEW n \in DOMAIN toCore'[i],
               NEW a \in 1..MaxPosts, toCore'[i][n] = Request(a)
        PROVE  /\ a <= posted'
               /\ \A m \in DOMAIN pending' : Precedes(urgent, a, pending'[m])
    <3>1. toCore'[i] = toCore[i]
      BY <1>1, <2>4, FramesDiffer
    <3> QED
      BY <1>2, <2>4, <3>1 DEF IInv, Ordered
  <2> QED
    BY <2>1, <2>2, <2>3, <2>4 DEF Ordered
<1>4. GreetingIsAlone'
  <2>1. ASSUME NEW i \in Slots, NEW n \in DOMAIN toCore'[i],
               toCore'[i][n] = Hello
        PROVE  Len(toCore'[i]) = 1 /\ toClient'[i] = <<>>
    <3>1. CASE toCore'[i] = toCore[i]
      BY <2>1, <3>1 DEF IInv, GreetingIsAlone
    <3> QED
      BY <1>1, <3>1
  <2>2. ASSUME NEW i \in Slots, NEW n \in DOMAIN toClient'[i],
               NEW ok \in BOOLEAN, toClient'[i][n] = HelloAck(ok)
        PROVE  Len(toClient'[i]) = 1 /\ toCore'[i] = <<>>
    <3>1. toClient'[i] = toClient[i]
      OBVIOUS
    <3>2. Len(toClient[i]) = 1 /\ toCore[i] = <<>>
      BY <2>2, <3>1 DEF IInv, GreetingIsAlone
    <3> QED
      BY <2>2, <3>1, <3>2
  <2> QED
    BY <2>1, <2>2 DEF GreetingIsAlone
<1> QED
  BY <1>3, <1>4

(* start and restartNow: once the old sidecar and its connection are gone, *)
(* a launch keeps the invariant.                                           *)
LEMMA LaunchKeepsInvariant ==
  ASSUME IInv,
         NEW coreNow \in [Slots -> CoreStates],
         NEW linkNow \in [Slots -> BOOLEAN],
         NEW socketNow \in Slots \cup {NoSlot},
         \A i \in Slots : coreNow[i] \in RunningStates => i \in abandoned',
         abandoned' \subseteq Slots,
         \A i \in abandoned' : /\ i \in abandoned \/ i = process
                               /\ i # socketNow /\ ~linkNow[i],
         \A i \in Slots : linkNow[i] => link[i] /\ toCore[i] = <<>>,
         LaunchAndConnect(coreNow, linkNow, socketNow),
         ClearConnection, stopping' = FALSE,
         restartPending' \in BOOLEAN, restartTimers' \in Nat,
         restartPending' => restartTimers' > 0,
         inside' \in {"none", "ready", "restart"},
         lastPong' \in {lastPong, -1}, calls' \in 0..MaxCalls,
         UNCHANGED <<pending, handled, urgent, fault, posted>>
  PROVE  IInv'
<1> USE DEF IInv
<1>1. TypeOK'
  <2>1. /\ process' \in Slots \cup {NoSlot}
        /\ socket' \in Slots \cup {NoSlot} /\ pid' \in Slots \cup {NoSlot}
        /\ connectAttempts' \in 0..MaxConnectAttempts
        /\ retryTimers' \in 0..MaxRetryTimers /\ healthTimer' \in BOOLEAN
        /\ core' \in [Slots -> {"none", "booting", "listening", "exited"}]
        /\ hung' \subseteq Slots /\ reaped' \subseteq Slots
        /\ link' \in [Slots -> BOOLEAN]
        /\ toCore' \in [Slots -> Seq(ClientFrames)]
        /\ toClient' \in [Slots -> Seq(CoreFrames)]
        /\ faults' \in 0..MaxFaults
    BY LaunchEffects DEF CoreStates
  <2>2. lastPong' \in -1..(StaleTicks + 1)
    BY BridgeAssumption DEF TypeOK
  <2> QED
    BY <2>1, <2>2 DEF TypeOK, ClearConnection
<1>2. /\ ReapedHasExited' /\ AliveIsCurrent'
      /\ \A i \in Slots :
           \/ toCore'[i] = <<>>
           \/ /\ toCore'[i] = <<Hello>>
              /\ i = socket' /\ Alive(i)' /\ link'[i]
              /\ toClient'[i] = <<>>
      /\ \A i \in Slots : ~link'[i] => toClient'[i] = <<>>
      /\ \A i \in Slots : toClient'[i] \in {toClient[i], <<>>}
  BY LaunchEffects
<1>3. Ordered' /\ GreetingIsAlone'
  BY <1>1, <1>2, ChannelsShrink
<1>4. HandshakeFirst'
  BY <1>2 DEF HandshakeFirst
<1>5. QuietUnlessUp'
  BY <1>2 DEF QuietUnlessUp
<1>6. /\ ConnectedConsistent' /\ PendingDisciplined' /\ GreetedOnce'
      /\ RestartPendingIsArmed' /\ StoppedHasNoSocket'
  BY DEF ClearConnection, ConnectedConsistent, PendingDisciplined, GreetedOnce,
         RestartPendingIsArmed, StoppedHasNoSocket
<1> QED
  BY <1>1, <1>2, <1>3, <1>4, <1>5, <1>6

(* What no step touches but handled, fault, the timers' numbers and the    *)
(* budgets leaves the invariant alone.                                     *)
LEMMA Untouched ==
  ASSUME IInv, TypeOK', restartTimers' = restartTimers,
         UNCHANGED <<process, socket, connected, handshakeDone, stopping,
                     restartPending, pending, inside, core, reaped, link,
                     toCore, toClient, urgent, abandoned, posted>>
  PROVE  IInv'
BY DEF IInv, ConnectedConsistent, PendingDisciplined, RestartPendingIsArmed,
       HandshakeFirst, ReapedHasExited, AliveIsCurrent, QuietUnlessUp,
       StoppedHasNoSocket, GreetingIsAlone, GreetedOnce, Ordered, Alive,
       RunningStates

(* A null dereference changes nothing else. *)
LEMMA FaultKeepsInvariant ==
  ASSUME IInv, NullDereference
  PROVE  IInv'
<1>1. TypeOK'
  BY SMTT(40)
  DEF IInv, TypeOK, NullDereference, supervisorVars, timerVars, coreVars,
      historyVars, budgetVars
<1> QED
  BY <1>1, Untouched
     DEF NullDereference, supervisorVars, timerVars, coreVars, historyVars,
         budgetVars

(* Frames are on their way only to the sidecar of m_process, over m_socket. *)
LEMMA FramesAreCurrent ==
  ASSUME IInv, NEW i \in Slots, toCore[i] # <<>>
  PROVE  Alive(i) /\ link[i] /\ i = process /\ i = socket
<1>1. Alive(i) /\ link[i]
  BY DEF IInv, QuietUnlessUp
<1>2. i \notin abandoned
  BY <1>1 DEF IInv, AliveIsCurrent
<1> QED
  BY <1>1, <1>2 DEF IInv, AliveIsCurrent

(* start() launches when no sidecar runs but abandoned ones. *)
LEMMA StartKeepsInvariant ==
  ASSUME IInv, Start
  PROVE  IInv'
<1> USE DEF IInv
<1>1. \A i \in Slots : Alive(i) => i \in abandoned
  BY BridgeAssumption
     DEF Start, ProcessRunning, AliveIsCurrent, ReapedHasExited, Alive,
         RunningStates
<1>2. /\ abandoned' = abandoned /\ abandoned' \subseteq Slots
      /\ \A i \in Slots : core[i] \in RunningStates => i \in abandoned'
      /\ \A i \in abandoned' : i # socket /\ ~link[i]
  BY <1>1 DEF Start, historyVars, Alive, AliveIsCurrent, TypeOK
<1>3. \A i \in Slots : link[i] => link[i] /\ toCore[i] = <<>>
  BY <1>1 DEF QuietUnlessUp, AliveIsCurrent
<1>4. /\ core \in [Slots -> CoreStates] /\ link \in [Slots -> BOOLEAN]
      /\ socket \in Slots \cup {NoSlot}
  BY DEF TypeOK, CoreStates
<1>5. /\ calls' \in 0..MaxCalls /\ restartTimers' \in Nat
      /\ inside' \in {"none", "ready", "restart"}
  BY BridgeAssumption DEF Start, TypeOK
<1>6. /\ LaunchAndConnect(core, link, socket) /\ ClearConnection
      /\ stopping' = FALSE /\ restartPending' = FALSE /\ lastPong' = -1
      /\ UNCHANGED <<pending, handled, urgent, fault, posted>>
  BY DEF Start, historyVars
<1> QED
  BY <1>2, <1>3, <1>4, <1>5, <1>6, LaunchKeepsInvariant

(* restartNow launches after it tore down the connection and terminated    *)
(* the process, and with them everything that was supervised or on its     *)
(* way.                                                                    *)
LEMMA RestartKeepsInvariant ==
  ASSUME IInv, RestartNow
  PROVE  IInv'
<1> USE DEF IInv
<1>1. /\ Terminated \in [Slots -> CoreStates]
      /\ \A i \in Slots :
           Terminated[i] = IF i = process THEN "none" ELSE core[i]
  BY DEF Terminated, Reset, TypeOK, CoreStates
<1>2. /\ Reset(link, socket, FALSE) \in [Slots -> BOOLEAN]
      /\ \A i \in Slots :
           Reset(link, socket, FALSE)[i] = (link[i] /\ i # socket)
  BY DEF Reset, TypeOK
<1>3. abandoned' = abandoned /\ abandoned' \subseteq Slots
  BY DEF RestartNow, historyVars, TypeOK
<1>4. \A i \in Slots : Terminated[i] \in RunningStates => i \in abandoned'
  BY <1>1, <1>3 DEF AliveIsCurrent, Alive, RunningStates
<1>5. \A i \in abandoned' : i # NoSlot /\ ~Reset(link, socket, FALSE)[i]
  BY <1>2, <1>3, BridgeAssumption DEF AliveIsCurrent
<1>6. \A i \in Slots :
        Reset(link, socket, FALSE)[i] => link[i] /\ toCore[i] = <<>>
  BY <1>2, FramesAreCurrent
<1>7. /\ restartTimers' \in Nat /\ calls' \in 0..MaxCalls
      /\ stopping' = FALSE /\ inside' \in {"none", "ready", "restart"}
  BY DEF RestartNow, TypeOK
<1>8. /\ LaunchAndConnect(Terminated, Reset(link, socket, FALSE), NoSlot)
      /\ ClearConnection /\ restartPending' = FALSE
      /\ UNCHANGED <<lastPong, pending, handled, urgent, fault, posted>>
  BY DEF RestartNow, historyVars
<1> QED
  BY <1>1, <1>2, <1>3, <1>4, <1>5, <1>6, <1>7, <1>8, LaunchKeepsInvariant

(* What restartNow does after its crashCallback: a sidecar that the        *)
(* callback started is abandoned, and its connection torn down.            *)
LEMMA CallbackReturnKeepsInvariant ==
  ASSUME IInv, CrashCallbackReturns
  PROVE  IInv'
<1> USE DEF IInv
<1>1. CASE NullDereference
  BY <1>1, FaultKeepsInvariant
<1>2. CASE ~NullDereference
  <2>1. /\ socket # NoSlot
        /\ \E late \in {FALSE, link[socket]} :
             /\ restartTimers' = restartTimers + (IF late THEN 2 ELSE 1)
             /\ restartPending' = late
        /\ inside' = "none" /\ ClearConnection
        /\ abandoned' = abandoned \cup
                          ({process} \cap {i \in Slots : Alive(i)})
        /\ LaunchAndConnect(core, Reset(link, socket, FALSE), NoSlot)
        /\ UNCHANGED <<stopping, lastPong, pending, handled, urgent, fault,
                       posted, calls>>
    BY <1>2 DEF CrashCallbackReturns
  <2>2. /\ Reset(link, socket, FALSE) \in [Slots -> BOOLEAN]
        /\ \A i \in Slots :
             Reset(link, socket, FALSE)[i] = (link[i] /\ i # socket)
    BY DEF Reset, TypeOK
  <2>3. /\ restartPending' \in BOOLEAN /\ restartTimers' \in Nat
        /\ restartTimers' > 0
    <3>1. link[socket] \in BOOLEAN /\ restartTimers \in Nat
      BY <2>1 DEF TypeOK
    <3>2. PICK late \in {FALSE, link[socket]} :
            /\ restartTimers' = restartTimers + (IF late THEN 2 ELSE 1)
            /\ restartPending' = late
      BY <2>1
    <3>3. late \in BOOLEAN
      BY <3>1
    <3>4. CASE late
      BY <3>1, <3>2, <3>3, <3>4
    <3>5. CASE ~late
      BY <3>1, <3>2, <3>3, <3>5
    <3> QED
      BY <3>4, <3>5
  <2>4. \A i \in abandoned' : \/ i \in abandoned
                              \/ i = process /\ i \in Slots /\ Alive(i)
    BY <2>1
  <2>5. abandoned' \subseteq Slots
    BY <2>4 DEF TypeOK
  <2>6. \A i \in Slots : core[i] \in RunningStates => i \in abandoned'
    BY <2>1 DEF AliveIsCurrent, Alive
  <2>7. \A i \in abandoned' : /\ i \in abandoned \/ i = process
                              /\ i # NoSlot
                              /\ ~Reset(link, socket, FALSE)[i]
    <3> SUFFICES ASSUME NEW i \in abandoned'
                 PROVE  /\ i \in abandoned \/ i = process
                        /\ i # NoSlot
                        /\ ~Reset(link, socket, FALSE)[i]
      OBVIOUS
    <3>1. i \in Slots /\ i # NoSlot
      BY <2>5, BridgeAssumption
    <3>2. CASE i \in abandoned
      BY <2>2, <3>1, <3>2 DEF AliveIsCurrent
    <3>3. CASE i = process /\ Alive(i) /\ i \notin abandoned
      BY <2>2, <3>1, <3>3 DEF AliveIsCurrent
    <3> QED
      BY <2>4, <3>1, <3>2, <3>3
  <2>8. \A i \in Slots :
          Reset(link, socket, FALSE)[i] => link[i] /\ toCore[i] = <<>>
    BY <2>2, FramesAreCurrent
  <2>9. stopping' = FALSE /\ calls' \in 0..MaxCalls
    BY <2>1 DEF StoppedHasNoSocket, TypeOK
  <2>10. core \in [Slots -> CoreStates]
    BY DEF TypeOK, CoreStates
  <2>11. /\ LaunchAndConnect(core, Reset(link, socket, FALSE), NoSlot)
         /\ inside' \in {"none", "ready", "restart"} /\ ClearConnection
         /\ lastPong' \in {lastPong, -1}
         /\ UNCHANGED <<pending, handled, urgent, fault, posted>>
    BY <2>1
  <2>12. restartPending' => restartTimers' > 0
    BY <2>3
  <2> DEFINE linkNow == Reset(link, socket, FALSE)
  <2>13. /\ linkNow \in [Slots -> BOOLEAN]
         /\ \A i \in abandoned' : /\ i \in abandoned \/ i = process
                                 /\ i # NoSlot /\ ~linkNow[i]
         /\ \A i \in Slots : linkNow[i] => link[i] /\ toCore[i] = <<>>
         /\ LaunchAndConnect(core, linkNow, NoSlot)
    BY <2>2, <2>7, <2>8, <2>11
  <2> HIDE DEF linkNow
  <2> QED
    BY <2>3, <2>5, <2>6, <2>9, <2>10, <2>11, <2>12, <2>13,
       LaunchKeepsInvariant
<1> QED
  BY <1>1, <1>2

(* The sidecar of m_process and the connection of m_socket are torn down:  *)
(* by stop(), wherever it is called from, or by restartNow.                *)
LEMMA TearDownKeepsInvariant ==
  ASSUME IInv,
         connected' = FALSE, handshakeDone' \in BOOLEAN,
         stopping' \in BOOLEAN, stopping' => socket' = NoSlot,
         restartPending' \in BOOLEAN, restartTimers' \in Nat,
         RestartPendingIsArmed', inside' \in {"none", "ready", "restart"},
         healthTimer' \in BOOLEAN, process' = NoSlot,
         socket' \in {socket, NoSlot}, pid' \in {pid, NoSlot},
         core' = Terminated, hung' = hung \ {process},
         reaped' = reaped \ {process}, link' = Reset(link, socket, FALSE),
         toCore' = Reset(toCore, socket, <<>>),
         toClient' = Reset(toClient, socket, <<>>),
         calls' \in 0..MaxCalls,
         UNCHANGED <<connectAttempts, retryTimers, lastPong, pending,
                     historyVars, fault, posted, faults>>
  PROVE  IInv'
<1> USE DEF IInv
<1>0. UNCHANGED <<handled, urgent, abandoned>>
  BY DEF historyVars
<1>1. TypeOK'
  <2>1. /\ DOMAIN core = Slots /\ DOMAIN link = Slots
        /\ DOMAIN toCore = Slots /\ DOMAIN toClient = Slots
    BY DEF TypeOK
  <2>2. core' \in [Slots -> {"none", "booting", "listening", "exited"}]
    BY <2>1 DEF Terminated, Reset, TypeOK
  <2>3. link' \in [Slots -> BOOLEAN]
    BY <2>1 DEF Reset, TypeOK
  <2>4. toCore' \in [Slots -> Seq(ClientFrames)]
    BY <2>1 DEF Reset, TypeOK
  <2>5. toClient' \in [Slots -> Seq(CoreFrames)]
    BY <2>1 DEF Reset, TypeOK
  <2> QED
    BY <1>0, <2>2, <2>3, <2>4, <2>5 DEF TypeOK
<1>2. /\ \A i \in Slots : core'[i] = IF i = process THEN "none" ELSE core[i]
      /\ \A i \in Slots : link'[i] = IF i = socket THEN FALSE ELSE link[i]
      /\ \A i \in Slots : toCore'[i] = IF i = socket THEN <<>> ELSE toCore[i]
      /\ \A i \in Slots :
           toClient'[i] = IF i = socket THEN <<>> ELSE toClient[i]
  BY DEF Terminated, Reset, TypeOK
<1>3. \A i \in Slots : /\ Alive(i)' => i \in abandoned
                       /\ toCore'[i] = <<>>
  <2>1. \A i \in Slots : i # socket => toCore[i] = <<>>
    BY FramesAreCurrent
  <2> QED
    BY <1>2, <2>1 DEF AliveIsCurrent, Alive, RunningStates
<1>4. Ordered' /\ GreetingIsAlone'
  BY <1>0, <1>1, <1>2, ChannelsShrink
<1>5. AliveIsCurrent'
  <2>1. \A i \in abandoned : i \in Slots /\ i # NoSlot
    BY BridgeAssumption DEF TypeOK
  <2> QED
    BY <1>0, <1>2, <1>3, <2>1 DEF AliveIsCurrent
<1>6. ReapedHasExited'
  BY DEF ReapedHasExited
<1>7. QuietUnlessUp' /\ HandshakeFirst'
  <2>1. \A i \in Slots : ~link'[i] => toClient'[i] = <<>>
    BY <1>2 DEF QuietUnlessUp
  <2>2. \A i \in Slots : DOMAIN toCore'[i] = {}
    BY <1>3
  <2> QED
    BY <1>3, <2>1, <2>2 DEF QuietUnlessUp, HandshakeFirst
<1>8. /\ ConnectedConsistent' /\ PendingDisciplined' /\ GreetedOnce'
      /\ StoppedHasNoSocket'
  BY DEF ConnectedConsistent, PendingDisciplined, GreetedOnce,
         StoppedHasNoSocket
<1> QED
  BY <1>1, <1>4, <1>5, <1>6, <1>7, <1>8

(* stop(), called by the application or by a callback. *)
LEMMA StopKeepsInvariant ==
  ASSUME IInv, StopEffects, restartPending' \in BOOLEAN,
         restartTimers' \in Nat, calls' \in 0..MaxCalls,
         UNCHANGED <<retryTimers, historyVars, fault, posted, faults>>
  PROVE  IInv'
<1>1. /\ connected' = FALSE /\ handshakeDone' \in BOOLEAN
      /\ stopping' = TRUE /\ process' = NoSlot /\ socket' = NoSlot
      /\ pid' = NoSlot /\ healthTimer' = FALSE
      /\ inside' \in {"none", "ready", "restart"}
      /\ UNCHANGED <<connectAttempts, lastPong, pending>>
  BY DEF StopEffects, IInv, TypeOK
<1>2. /\ core' = Terminated /\ hung' = hung \ {process}
      /\ reaped' = reaped \ {process} /\ link' = Reset(link, socket, FALSE)
      /\ toCore' = Reset(toCore, socket, <<>>)
      /\ toClient' = Reset(toClient, socket, <<>>)
  BY DEF StopEffects
<1>3. RestartPendingIsArmed'
  BY <1>1 DEF RestartPendingIsArmed
<1> QED
  BY <1>1, <1>2, <1>3, TearDownKeepsInvariant

(* restartNow up to the crashCallback that the disconnect calls. *)
LEMMA RestartDisconnectKeepsInvariant ==
  ASSUME IInv, RestartNowDisconnects
  PROVE  IInv'
<1>1. /\ connected' = FALSE /\ handshakeDone' = FALSE /\ stopping' = FALSE
      /\ restartPending' = TRUE /\ restartTimers' \in Nat
      /\ inside' = "restart" /\ calls' \in 0..MaxCalls
      /\ socket' = socket /\ pid' = pid
      /\ process' = NoSlot /\ healthTimer' \in BOOLEAN
      /\ UNCHANGED <<connectAttempts, retryTimers, lastPong, pending,
                     historyVars, fault, posted, faults>>
  BY DEF RestartNowDisconnects, ClearConnection, IInv, TypeOK, budgetVars
<1>2. /\ core' = Terminated /\ hung' = hung \ {process}
      /\ reaped' = reaped \ {process} /\ link' = Reset(link, socket, FALSE)
      /\ toCore' = Reset(toCore, socket, <<>>)
      /\ toClient' = Reset(toClient, socket, <<>>)
  BY DEF RestartNowDisconnects
<1>3. RestartPendingIsArmed'
  BY <1>1 DEF RestartPendingIsArmed
<1> QED
  BY <1>1, <1>2, <1>3, TearDownKeepsInvariant

-----------------------------------------------------------------------------
(* Events of the socket and the process. *)

(* Reading a frame off the connection keeps the greeting: a hello_ack is   *)
(* alone, so that none is left behind the frame that was read.             *)
LEMMA ReadKeepsGreeting ==
  ASSUME IInv, NEW i \in Slots, toClient[i] # <<>>,
         toClient' = [toClient EXCEPT ![i] = Tail(@)],
         UNCHANGED <<toCore, pending, posted, urgent>>
  PROVE  /\ toClient' \in [Slots -> Seq(CoreFrames)]
         /\ Ordered' /\ GreetingIsAlone'
         /\ \A n \in DOMAIN toClient'[i] : \A ok \in BOOLEAN :
              toClient'[i][n] # HelloAck(ok)
         /\ \A j \in Slots : ~link[j] => toClient'[j] = <<>>
         /\ \A j \in Slots \ {i} : toClient'[j] = toClient[j]
<1> USE DEF IInv
<1>1. toClient \in [Slots -> Seq(CoreFrames)]
  BY DEF TypeOK
<1>2. /\ Tail(toClient[i]) \in Seq(CoreFrames)
      /\ \A n \in DOMAIN Tail(toClient[i]) :
           /\ n + 1 \in DOMAIN toClient[i]
           /\ Tail(toClient[i])[n] = toClient[i][n + 1]
           /\ Len(toClient[i]) # 1
  BY <1>1, HeadTailProperties
<1>3. /\ toClient' \in [Slots -> Seq(CoreFrames)]
      /\ toClient'[i] = Tail(toClient[i])
      /\ \A j \in Slots \ {i} : toClient'[j] = toClient[j]
  BY <1>1, <1>2
<1>4. \A n \in DOMAIN toClient'[i] : \A ok \in BOOLEAN :
        toClient'[i][n] # HelloAck(ok)
  BY <1>2, <1>3 DEF GreetingIsAlone
<1>5. \A j \in Slots : ~link[j] => toClient'[j] = <<>>
  BY <1>3 DEF QuietUnlessUp
<1>6. Ordered'
  BY DEF Ordered
<1>7. GreetingIsAlone'
  <2>1. ASSUME NEW j \in Slots, NEW n \in DOMAIN toCore'[j],
               toCore'[j][n] = Hello
        PROVE  Len(toCore'[j]) = 1 /\ toClient'[j] = <<>>
    BY <1>3, <2>1 DEF GreetingIsAlone
  <2>2. ASSUME NEW j \in Slots, NEW n \in DOMAIN toClient'[j],
               NEW ok \in BOOLEAN, toClient'[j][n] = HelloAck(ok)
        PROVE  Len(toClient'[j]) = 1 /\ toCore'[j] = <<>>
    BY <1>3, <1>4, <2>2 DEF GreetingIsAlone
  <2> QED
    BY <2>1, <2>2 DEF GreetingIsAlone
<1> QED
  BY <1>3, <1>4, <1>5, <1>6, <1>7

(* A pong or any other frame is read: only the client's queue gets shorter. *)
LEMMA ReadKeepsInvariant ==
  ASSUME IInv, NEW i \in Slots, toClient[i] # <<>>,
         toClient' = [toClient EXCEPT ![i] = Tail(@)],
         lastPong' \in {lastPong, 0},
         UNCHANGED <<process, socket, pid, connected, handshakeDone, stopping,
                     restartPending, connectAttempts, pending, inside,
                     timerVars, core, hung, reaped, link, toCore, historyVars,
                     fault, budgetVars>>
  PROVE  IInv'
<1> USE DEF IInv
<1>1. TypeOK'
  BY ReadKeepsGreeting, BridgeAssumption DEF TypeOK, timerVars, historyVars,
                                             budgetVars
<1>2. Ordered' /\ GreetingIsAlone'
  BY ReadKeepsGreeting DEF historyVars, budgetVars
<1>3. GreetedOnce'
  <2>1. /\ \A n \in DOMAIN toClient'[i] : \A ok \in BOOLEAN :
             toClient'[i][n] # HelloAck(ok)
        /\ \A j \in Slots \ {i} : toClient'[j] = toClient[j]
    BY ReadKeepsGreeting DEF historyVars, budgetVars
  <2>2. connected => socket \in Slots
    BY DEF ConnectedConsistent, TypeOK
  <2> HIDE DEF IInv
  <2>3. GreetedOnce
    BY DEF IInv
  <2>4. CASE socket = i
    BY <2>1, <2>3, <2>4 DEF GreetedOnce
  <2>5. CASE socket # i
    BY <2>1, <2>2, <2>3, <2>5 DEF GreetedOnce
  <2> QED
    BY <2>4, <2>5
<1>4. QuietUnlessUp' /\ AliveIsCurrent'
  BY ReadKeepsGreeting DEF QuietUnlessUp, AliveIsCurrent, Alive, RunningStates,
                           historyVars, budgetVars
<1>5. /\ ConnectedConsistent' /\ PendingDisciplined' /\ HandshakeFirst'
      /\ RestartPendingIsArmed' /\ StoppedHasNoSocket' /\ ReapedHasExited'
  BY DEF ConnectedConsistent, PendingDisciplined, HandshakeFirst, timerVars,
         RestartPendingIsArmed, StoppedHasNoSocket, ReapedHasExited
<1> QED
  BY <1>1, <1>2, <1>3, <1>4, <1>5

(* Frames of a socket that was replaced are read and thrown away. *)
LEMMA StrayReadKeepsInvariant ==
  ASSUME IInv, NEW i \in Slots, OnStrayReadyRead(i)
  PROVE  IInv'
<1> USE DEF IInv
<1>1. CASE NullDereference
  BY <1>1, FaultKeepsInvariant
<1>2. CASE /\ toClient' = [toClient EXCEPT ![i] = <<>>]
           /\ UNCHANGED <<supervisorVars, timerVars, core, hung, reaped, link,
                          toCore, historyVars, fault, budgetVars>>
  <2>1. toClient' \in [Slots -> Seq(CoreFrames)]
    BY <1>2 DEF TypeOK
  <2>2. TypeOK'
    BY <1>2, <2>1, SMTT(40) DEF TypeOK, supervisorVars, timerVars, historyVars,
                      budgetVars
  <2>3. \A j \in Slots :
          toClient'[j] = IF j = i THEN <<>> ELSE toClient[j]
    BY <1>2 DEF TypeOK
  <2>4. Ordered' /\ GreetingIsAlone'
    BY <1>2, <2>2, <2>3, ChannelsShrink DEF supervisorVars, historyVars,
                                            budgetVars
  <2>5. GreetedOnce'
    <3>1. connected => socket \in Slots /\ i # socket
      BY DEF ConnectedConsistent, OnStrayReadyRead, TypeOK
    <3>2. UNCHANGED <<connected, socket, toCore>>
      BY <1>2 DEF supervisorVars
    <3>3. connected => toClient'[socket] = toClient[socket]
      BY <2>3, <3>1
    <3> QED
      BY <3>2, <3>3 DEF GreetedOnce
  <2>6. QuietUnlessUp' /\ AliveIsCurrent'
    BY <1>2, <2>3 DEF QuietUnlessUp, AliveIsCurrent, Alive, RunningStates,
                      supervisorVars, historyVars
  <2>7. /\ ConnectedConsistent' /\ PendingDisciplined' /\ HandshakeFirst'
        /\ RestartPendingIsArmed' /\ StoppedHasNoSocket' /\ ReapedHasExited'
    BY <1>2
       DEF ConnectedConsistent, PendingDisciplined, HandshakeFirst, timerVars,
           RestartPendingIsArmed, StoppedHasNoSocket, ReapedHasExited,
           supervisorVars
  <2> QED
    BY <2>2, <2>4, <2>5, <2>6, <2>7
<1> QED
  BY <1>1, <1>2 DEF OnStrayReadyRead

(* The requests held back were posted, and are ordinary ones. *)
LEMMA HeldBackWasPosted ==
  ASSUME IInv
  PROVE  \A n \in DOMAIN pending :
           /\ pending[n] \in 1..MaxPosts /\ pending[n] <= posted
           /\ pending[n] \notin urgent
<1>1. pending \in Seq(1..MaxPosts)
  BY DEF IInv, TypeOK
<1>2. \A n \in DOMAIN pending : pending[n] \in 1..MaxPosts
  BY <1>1, LenProperties, ElementOfSeq
<1>3. \A n \in DOMAIN pending :
        pending[n] <= posted /\ pending[n] \notin urgent
  BY DEF IInv, Ordered
<1> QED
  BY <1>2, <1>3

(* The requests of the pending queue as frames, in the order they are held. *)
HeldBack == [n \in DOMAIN pending |-> Request(pending[n])]

LEMMA HeldBackIsOrdered ==
  ASSUME IInv
  PROVE  /\ HeldBack \in Seq(ClientFrames)
         /\ DOMAIN HeldBack = DOMAIN pending
         /\ \A n \in DOMAIN HeldBack :
              /\ pending[n] \in 1..MaxPosts /\ pending[n] <= posted
              /\ HeldBack[n] = Request(pending[n])
              /\ HeldBack[n] # Hello
         /\ RequestsAscend(urgent, HeldBack)
<1> USE DEF IInv
<1>1. /\ pending \in Seq(1..MaxPosts) /\ Len(pending) \in Nat
      /\ DOMAIN pending = 1..Len(pending)
      /\ \A n \in DOMAIN pending : pending[n] \in 1..MaxPosts
  BY LenProperties, ElementOfSeq DEF TypeOK
<1>2. /\ DOMAIN HeldBack = DOMAIN pending
      /\ \A n \in DOMAIN pending : HeldBack[n] = Request(pending[n])
  BY DEF HeldBack
<1>3. HeldBack \in Seq(ClientFrames)
  <2>1. \A n \in 1..Len(pending) : Request(pending[n]) \in ClientFrames
    BY <1>1, FrameKinds
  <2> QED
    BY <1>1, <2>1 DEF HeldBack
<1>4. RequestsAscend(urgent, HeldBack)
  <2> SUFFICES ASSUME NEW m \in DOMAIN HeldBack, NEW n \in DOMAIN HeldBack,
                      NEW a \in 1..MaxPosts, NEW b \in 1..MaxPosts,
                      m < n, HeldBack[m] = Request(a), HeldBack[n] = Request(b)
               PROVE  a < b
    BY DEF RequestsAscend, Precedes
  <2>1. a = pending[m] /\ b = pending[n]
    BY <1>1, <1>2, FramesDiffer
  <2> QED
    BY <1>2, <2>1 DEF Ordered
<1> QED
  BY <1>1, <1>2, <1>3, <1>4, FramesDiffer DEF Ordered

(* The hello_ack is read: it was alone on its connection, so that nothing  *)
(* is on its way there when readyCallback runs.                            *)
LEMMA AckKeepsInvariant ==
  ASSUME IInv, inside = "none", OnReadyRead,
         NEW ok \in BOOLEAN, OnHelloAck(ok),
         Head(toClient[socket]) = HelloAck(ok)
  PROVE  IInv'
<1> USE DEF IInv
<1>1. /\ connected' = ok /\ handshakeDone' = TRUE /\ lastPong' = 0
      /\ toClient' = [toClient EXCEPT ![socket] = Tail(@)]
      /\ inside' = "ready"
      /\ UNCHANGED <<process, socket, pid, stopping, restartPending,
                     connectAttempts, pending, timerVars, core, hung, reaped,
                     link, toCore, historyVars, fault, budgetVars>>
  BY DEF OnHelloAck
<1>2. socket \in Slots /\ link[socket] /\ toClient[socket] # <<>>
  BY DEF OnReadyRead, TypeOK
<1>3. toCore[socket] = <<>>
  <2>1. 1 \in DOMAIN toClient[socket] /\ toClient[socket][1] = HelloAck(ok)
    BY <1>2 DEF TypeOK
  <2> QED
    BY <1>2, <2>1 DEF GreetingIsAlone
<1>4. \A i \in Slots : toCore[i] = <<>>
  BY <1>3, FramesAreCurrent
<1>5. /\ toClient' \in [Slots -> Seq(CoreFrames)]
      /\ Ordered' /\ GreetingIsAlone'
      /\ \A n \in DOMAIN toClient'[socket] : \A o \in BOOLEAN :
           toClient'[socket][n] # HelloAck(o)
      /\ \A j \in Slots : ~link[j] => toClient'[j] = <<>>
  BY <1>1, <1>2, ReadKeepsGreeting DEF historyVars, budgetVars
<1>6. TypeOK'
  <2>1. lastPong' \in -1..(StaleTicks + 1)
    BY <1>1, BridgeAssumption
  <2> QED
    BY <1>1, <1>5, <2>1 DEF TypeOK, timerVars, historyVars, budgetVars
<1>7. \A i \in Slots : DOMAIN toCore'[i] = {}
  BY <1>1, <1>4
<1>8. GreetedOnce' /\ HandshakeFirst'
  BY <1>1, <1>2, <1>5, <1>7 DEF GreetedOnce, HandshakeFirst
<1>9. QuietUnlessUp' /\ AliveIsCurrent'
  BY <1>1, <1>5 DEF QuietUnlessUp, AliveIsCurrent, Alive, RunningStates,
                    historyVars
<1>10. ConnectedConsistent' /\ PendingDisciplined'
  BY <1>1, <1>2, BridgeAssumption DEF ConnectedConsistent, PendingDisciplined
<1>11. RestartPendingIsArmed' /\ StoppedHasNoSocket' /\ ReapedHasExited'
  BY <1>1 DEF timerVars, RestartPendingIsArmed, StoppedHasNoSocket,
              ReapedHasExited
<1> QED
  BY <1>5, <1>6, <1>8, <1>9, <1>10, <1>11

(* What flushPending writes: the requests held back, behind the frames     *)
(* that readyCallback wrote.                                               *)
LEMMA FlushedFrames ==
  ASSUME TypeOK, connected, ConnectedConsistent,
         HeldBack \in Seq(ClientFrames),
         FlushPending
  PROVE  /\ pending' = <<>>
         /\ toCore' \in [Slots -> Seq(ClientFrames)]
         /\ \A j \in Slots : j # socket => toCore'[j] = toCore[j]
         /\ ~Alive(socket) => toCore'[socket] = toCore[socket]
         /\ Len(toCore[socket]) \in Nat
         /\ \A n \in DOMAIN toCore'[socket] :
              \/ n \in DOMAIN toCore[socket]
                 /\ toCore'[socket][n] = toCore[socket][n]
              \/ /\ n \in Nat /\ n > Len(toCore[socket])
                 /\ n - Len(toCore[socket]) \in DOMAIN HeldBack
                 /\ toCore'[socket][n] = HeldBack[n - Len(toCore[socket])]
<1>1. /\ socket \in Slots /\ toCore \in [Slots -> Seq(ClientFrames)]
      /\ toCore[socket] \in Seq(ClientFrames)
  BY DEF ConnectedConsistent, TypeOK
<1>2. /\ pending' = <<>>
      /\ toCore' = [toCore EXCEPT ![socket] =
           IF Alive(socket) THEN toCore[socket] \o HeldBack
                            ELSE toCore[socket]]
  BY DEF FlushPending, HeldBack
<1> DEFINE s == toCore[socket]
           t == HeldBack
<1>3. /\ s \o t \in Seq(ClientFrames)
      /\ Len(s \o t) = Len(s) + Len(t)
      /\ \A n \in 1..(Len(s) + Len(t)) :
           (s \o t)[n] = IF n <= Len(s) THEN s[n] ELSE t[n - Len(s)]
  BY <1>1, ConcatProperties
<1>4. /\ Len(s) \in Nat /\ Len(t) \in Nat
      /\ DOMAIN s = 1..Len(s) /\ DOMAIN t = 1..Len(t)
      /\ DOMAIN (s \o t) = 1..(Len(s) + Len(t))
  BY <1>1, <1>3, LenProperties
<1>5. /\ toCore' \in [Slots -> Seq(ClientFrames)]
      /\ \A j \in Slots : j # socket => toCore'[j] = toCore[j]
      /\ ~Alive(socket) => toCore'[socket] = s
      /\ Alive(socket) => toCore'[socket] = s \o t
  BY <1>1, <1>2, <1>3
<1> HIDE DEF s, t
<1>6. \A n \in DOMAIN (s \o t) :
        \/ n \in DOMAIN s /\ (s \o t)[n] = s[n]
        \/ /\ n \in Nat /\ n > Len(s)
           /\ n - Len(s) \in DOMAIN t
           /\ (s \o t)[n] = t[n - Len(s)]
  BY <1>3, <1>4
<1>7. \A n \in DOMAIN toCore'[socket] :
        \/ n \in DOMAIN s /\ toCore'[socket][n] = s[n]
        \/ /\ n \in Nat /\ n > Len(s)
           /\ n - Len(s) \in DOMAIN t
           /\ toCore'[socket][n] = t[n - Len(s)]
  <2>1. CASE Alive(socket)
    BY <1>5, <1>6, <2>1, Zenon
  <2>2. CASE ~Alive(socket)
    BY <1>5, <2>2, Zenon
  <2> QED
    BY <2>1, <2>2
<1> QED
  BY <1>2, <1>4, <1>5, <1>7, Zenon DEF s, t

(* readyCallback returns: the requests held back follow what it wrote.     *)
LEMMA FlushKeepsInvariant ==
  ASSUME IInv, ReadyCallbackReturns
  PROVE  IInv'
<1> USE DEF IInv
<1>1. CASE NullDereference
  BY <1>1, FaultKeepsInvariant
<1>2. CASE ~NullDereference
  <2>1. /\ socket # NoSlot /\ inside' = "none" /\ FlushPending
        /\ UNCHANGED <<process, socket, pid, connected, handshakeDone,
                       stopping, restartPending, connectAttempts, lastPong,
                       healthTimer, restartTimers, retryTimers, core, hung,
                       reaped, link, toClient, handled, urgent, abandoned,
                       fault, posted, faults, calls>>
        /\ inside = "ready"
    BY <1>2 DEF ReadyCallbackReturns, timerVars, historyVars, budgetVars
  <2>2. CASE ~connected
    <3>1. UNCHANGED <<toCore, pending>>
      BY <2>1, <2>2 DEF FlushPending
    <3>2. TypeOK'
      BY <2>1, <3>1 DEF TypeOK
    <3>3. PendingDisciplined' /\ RestartPendingIsArmed'
      BY <2>1, <2>2, <3>1 DEF PendingDisciplined, RestartPendingIsArmed
    <3> QED
      BY <2>1, <3>1, <3>2, <3>3
         DEF ConnectedConsistent, HandshakeFirst, ReapedHasExited,
             AliveIsCurrent, QuietUnlessUp, StoppedHasNoSocket,
             GreetingIsAlone, GreetedOnce, Ordered, Alive, RunningStates
  <2>3. CASE connected
    <3>1. /\ HeldBack \in Seq(ClientFrames)
          /\ DOMAIN HeldBack = DOMAIN pending
          /\ \A n \in DOMAIN HeldBack :
               /\ pending[n] \in 1..MaxPosts /\ pending[n] <= posted
               /\ HeldBack[n] = Request(pending[n])
               /\ HeldBack[n] # Hello
          /\ RequestsAscend(urgent, HeldBack)
      BY HeldBackIsOrdered
    <3> DEFINE s == toCore[socket]
               t == toCore'[socket]
               d == Len(s)
    <3>2. /\ pending' = <<>>
          /\ toCore' \in [Slots -> Seq(ClientFrames)]
          /\ \A j \in Slots : j # socket => toCore'[j] = toCore[j]
          /\ ~Alive(socket) => t = s
          /\ d \in Nat
          /\ \A n \in DOMAIN t :
               \/ n \in DOMAIN s /\ t[n] = s[n]
               \/ /\ n \in Nat /\ n > d /\ n - d \in DOMAIN HeldBack
                  /\ t[n] = HeldBack[n - d]
      BY <2>1, <2>3, <3>1, FlushedFrames
    <3>3. /\ socket \in Slots /\ link[socket] /\ handshakeDone
          /\ s \in Seq(ClientFrames)
      BY <2>3 DEF ConnectedConsistent, TypeOK
    <3>4. DOMAIN s = 1..d
      BY <3>3, LenProperties
    <3>5. TypeOK'
      <4>1. pending' \in Seq(1..MaxPosts)
        BY <3>2
      <4> QED
        BY <2>1, <3>2, <4>1 DEF TypeOK
    <3> HIDE DEF s, t, d
    <3>6. /\ RequestsAscend(urgent, s)
          /\ \A n \in DOMAIN s : \A a \in 1..MaxPosts :
               s[n] = Request(a)
                 => /\ a <= posted
                    /\ \A m \in DOMAIN pending :
                         Precedes(urgent, a, pending[m])
      BY <3>3 DEF Ordered, s
    <3>7. RequestsAscend(urgent, t)
      <4> SUFFICES ASSUME NEW m \in DOMAIN t, NEW n \in DOMAIN t,
                          NEW a \in 1..MaxPosts, NEW b \in 1..MaxPosts, m < n,
                          t[m] = Request(a), t[n] = Request(b)
                   PROVE  Precedes(urgent, a, b)
        BY DEF RequestsAscend
      <4>1. CASE n \in DOMAIN s /\ t[n] = s[n]
        <5>1. m \in DOMAIN s /\ t[m] = s[m]
          BY <3>2, <3>4, <4>1
        <5> QED
          BY <3>6, <4>1, <5>1 DEF RequestsAscend
      <4>2. CASE /\ n \in Nat /\ n > d /\ n - d \in DOMAIN HeldBack
                 /\ t[n] = HeldBack[n - d]
        <5>1. CASE m \in DOMAIN s /\ t[m] = s[m]
          <6>1. pending[n - d] \in 1..MaxPosts /\ n - d \in DOMAIN pending
                /\ t[n] = Request(pending[n - d])
            BY <3>1, <4>2
          <6>2. b = pending[n - d]
            BY <6>1, FramesDiffer
          <6> QED
            BY <3>6, <5>1, <6>1, <6>2
        <5>2. CASE /\ m \in Nat /\ m > d /\ m - d \in DOMAIN HeldBack
                   /\ t[m] = HeldBack[m - d]
          <6>1. m - d < n - d
            BY <3>2, <4>2, <5>2
          <6> QED
            BY <3>1, <4>2, <5>2, <6>1 DEF RequestsAscend
        <5> QED
          BY <3>2, <5>1, <5>2
      <4> QED
        BY <3>2, <4>1, <4>2
    <3>8. \A n \in DOMAIN t : \A a \in 1..MaxPosts :
            t[n] = Request(a) => a <= posted
      <4> SUFFICES ASSUME NEW n \in DOMAIN t, NEW a \in 1..MaxPosts,
                          t[n] = Request(a)
                   PROVE  a <= posted
        OBVIOUS
      <4>1. CASE n \in DOMAIN s /\ t[n] = s[n]
        BY <3>6, <4>1
      <4>2. CASE n - d \in DOMAIN HeldBack /\ t[n] = HeldBack[n - d]
        BY <3>1, <4>2, FramesDiffer
      <4> QED
        BY <3>2, <4>1, <4>2
    <3>9. Ordered'
      <4>1. /\ RequestsAscend(urgent, toCore'[socket])
            /\ \A n \in DOMAIN toCore'[socket] : \A a \in 1..MaxPosts :
                 toCore'[socket][n] = Request(a) => a <= posted
        BY <3>7, <3>8 DEF t
      <4>2. DOMAIN pending' = {}
        BY <3>2
      <4> QED
        BY <2>1, <3>2, <4>1, <4>2 DEF Ordered
    <3>10. \A n \in DOMAIN t : t[n] # Hello
      <4>1. \A n \in DOMAIN s : s[n] # Hello
        BY <2>3 DEF GreetedOnce, s
      <4> QED
        BY <3>1, <3>2, <4>1
    <3>11. GreetingIsAlone' /\ GreetedOnce'
      <4>1. \A n \in DOMAIN toClient[socket] : \A ok \in BOOLEAN :
              toClient[socket][n] # HelloAck(ok)
        BY <2>3 DEF GreetedOnce
      <4>2. \A n \in DOMAIN toCore'[socket] : toCore'[socket][n] # Hello
        BY <3>10 DEF t
      <4>3. GreetedOnce'
        BY <2>1, <4>1, <4>2 DEF GreetedOnce
      <4>4. ASSUME NEW j \in Slots, NEW n \in DOMAIN toCore'[j],
                   toCore'[j][n] = Hello
            PROVE  Len(toCore'[j]) = 1 /\ toClient'[j] = <<>>
        <5>1. j # socket
          BY <4>2, <4>4
        <5> QED
          BY <2>1, <3>2, <4>4, <5>1 DEF GreetingIsAlone
      <4>5. ASSUME NEW j \in Slots, NEW n \in DOMAIN toClient'[j],
                   NEW ok \in BOOLEAN, toClient'[j][n] = HelloAck(ok)
            PROVE  Len(toClient'[j]) = 1 /\ toCore'[j] = <<>>
        <5>1. j # socket
          BY <2>1, <4>1, <4>5
        <5> QED
          BY <2>1, <3>2, <4>5, <5>1 DEF GreetingIsAlone
      <4> QED
        BY <4>3, <4>4, <4>5 DEF GreetingIsAlone
    <3>12. QuietUnlessUp' /\ HandshakeFirst' /\ AliveIsCurrent'
      <4>1. \A j \in Slots : j # socket => toCore'[j] = toCore[j]
        BY <3>2
      <4>2. ~Alive(socket) => toCore'[socket] = toCore[socket]
        BY <3>2 DEF s, t
      <4>3. \A j \in Slots : Alive(j)' <=> Alive(j)
        BY <2>1 DEF Alive
      <4> QED
        BY <2>1, <2>3, <3>3, <4>1, <4>2, <4>3
           DEF QuietUnlessUp, HandshakeFirst, AliveIsCurrent
    <3>13. /\ ConnectedConsistent' /\ PendingDisciplined'
           /\ RestartPendingIsArmed' /\ StoppedHasNoSocket'
           /\ ReapedHasExited'
      <4>1. Len(<<>>) <= QueueCapacity
        BY BridgeAssumption
      <4> QED
        BY <2>1, <3>2, <4>1
           DEF ConnectedConsistent, PendingDisciplined, ReapedHasExited,
               RestartPendingIsArmed, StoppedHasNoSocket
    <3> QED
      BY <3>5, <3>9, <3>11, <3>12, <3>13
  <2> QED
    BY <2>2, <2>3
<1> QED
  BY <1>1, <1>2

(* onReadyRead, whatever the frame. *)
LEMMA ReadyReadKeepsInvariant ==
  ASSUME IInv, inside = "none", OnReadyRead
  PROVE  IInv'
<1>1. socket \in Slots /\ toClient[socket] # <<>>
  BY DEF OnReadyRead, IInv, TypeOK
<1>2. Head(toClient[socket]) \in CoreFrames
  BY <1>1 DEF IInv, TypeOK
<1> DEFINE frame == Head(toClient[socket])
<1>3. CASE frame.kind = "hello_ack" /\ OnHelloAck(frame.ok)
  BY <1>2, <1>3, FrameKinds, AckKeepsInvariant
<1>4. CASE OnPong
  BY <1>1, <1>4, ReadKeepsInvariant DEF OnPong
<1>5. CASE OnOtherFrame
  <2>1. CASE NullDereference
    BY <2>1, FaultKeepsInvariant
  <2>2. CASE /\ toClient' = [toClient EXCEPT ![socket] = Tail(@)]
             /\ UNCHANGED <<supervisorVars, timerVars, core, hung, reaped,
                            link, toCore, historyVars, fault, budgetVars>>
    BY <1>1, <2>2, ReadKeepsInvariant DEF supervisorVars
  <2> QED
    BY <1>5, <2>1, <2>2 DEF OnOtherFrame
<1> QED
  BY <1>3, <1>4, <1>5 DEF OnReadyRead

(* A disconnect, of whichever socket: when it clears m_connected under a   *)
(* connection that is up, a restart is pending from then on.               *)
LEMMA DisconnectKeepsInvariant ==
  ASSUME IInv, NEW i \in Slots, OnDisconnected(i)
  PROVE  IInv'
<1> USE DEF IInv
<1>1. /\ link[i] /\ core[i] = "exited" /\ toClient[i] = <<>>
      /\ connected' = FALSE /\ handshakeDone' = FALSE
      /\ link' = [link EXCEPT ![i] = FALSE]
      /\ UNCHANGED <<process, socket, pid, stopping, lastPong, pending,
                     inside, healthTimer, core, hung, reaped, toCore, toClient,
                     historyVars, fault, budgetVars>>
  BY DEF OnDisconnected, ClearConnection
<1>2. /\ connectAttempts' \in 0..MaxConnectAttempts
      /\ retryTimers' \in 0..MaxRetryTimers
  <2>1. CASE UNCHANGED <<connectAttempts, retryTimers>>
    BY <2>1 DEF TypeOK
  <2>2. CASE RetryOrReport(ProcessRunning)
    BY <2>2, RetryStaysTyped
  <2> QED
    BY <2>1, <2>2 DEF OnDisconnected
<1>3. /\ restartPending' \in BOOLEAN /\ restartTimers' \in Nat
      /\ ~stopping => restartPending'
      /\ restartPending' /\ ~stopping /\ inside # "restart"
           => restartTimers' > 0
  <2>1. CASE UNCHANGED <<restartPending, restartTimers>> /\ (stopping \/ restartPending)
    BY <2>1 DEF TypeOK, RestartPendingIsArmed
  <2>2. CASE ScheduleRestart
    BY <2>2 DEF TypeOK, ScheduleRestart
  <2> QED
    BY <2>1, <2>2 DEF OnDisconnected
<1>4. /\ link' \in [Slots -> BOOLEAN]
      /\ \A j \in Slots : link'[j] = IF j = i THEN FALSE ELSE link[j]
  BY <1>1 DEF TypeOK
<1>5. TypeOK'
  BY <1>1, <1>2, <1>3, <1>4 DEF TypeOK, historyVars, budgetVars
<1>6. \A j \in Slots : Alive(j)' <=> Alive(j)
  BY <1>1 DEF Alive, RunningStates
<1>7. QuietUnlessUp'
  BY <1>1, <1>4, <1>6 DEF QuietUnlessUp, Alive, RunningStates
<1>8. HandshakeFirst'
  <2> SUFFICES ASSUME NEW j \in Slots, NEW n \in DOMAIN toCore'[j],
                      toCore'[j][n] # Hello
               PROVE  j = socket' /\ (connected' \/ restartPending')
    BY DEF HandshakeFirst
  <2>1. j = socket
    BY <1>1 DEF HandshakeFirst
  <2>2. socket # NoSlot
    BY <2>1, BridgeAssumption
  <2> QED
    BY <1>1, <1>3, <2>1, <2>2 DEF StoppedHasNoSocket
<1>9. Ordered' /\ GreetingIsAlone'
  BY <1>1, <1>5, ChannelsShrink DEF historyVars, budgetVars
<1>10. AliveIsCurrent' /\ ReapedHasExited'
  <2>1. abandoned \subseteq Slots /\ abandoned' = abandoned
    BY <1>1 DEF TypeOK, historyVars
  <2> QED
    BY <1>1, <1>4, <1>6, <2>1 DEF AliveIsCurrent, ReapedHasExited
<1>11. /\ ConnectedConsistent' /\ PendingDisciplined' /\ GreetedOnce'
       /\ RestartPendingIsArmed' /\ StoppedHasNoSocket'
  BY <1>1, <1>3 DEF ConnectedConsistent, PendingDisciplined, GreetedOnce,
                    RestartPendingIsArmed, StoppedHasNoSocket
<1> QED
  BY <1>5, <1>7, <1>8, <1>9, <1>10, <1>11

(* A disconnect or a stale pong whose crashCallback stops the bridge. *)
LEMMA CallbackStopKeepsInvariant ==
  ASSUME IInv, StopEffects, ScheduleRestart, calls < MaxCalls,
         calls' = calls + 1,
         UNCHANGED <<retryTimers, historyVars, fault, posted, faults>>
  PROVE  IInv'
<1>1. /\ restartPending' \in BOOLEAN /\ restartTimers' \in Nat
      /\ calls' \in 0..MaxCalls
  BY BridgeAssumption DEF IInv, TypeOK, ScheduleRestart
<1> QED
  BY <1>1, StopKeepsInvariant

(* QProcess takes note of an exit that has happened. *)
LEMMA FinishedKeepsInvariant ==
  ASSUME IInv, OnProcessFinished
  PROVE  IInv'
<1> USE DEF IInv
<1>1. /\ process \in Slots /\ core[process] = "exited"
      /\ reaped' = reaped \cup {process}
      /\ UNCHANGED <<supervisorVars, timerVars, core, hung, link, toCore,
                     toClient, historyVars, fault, budgetVars>>
  BY DEF OnProcessFinished, TypeOK
<1>2. TypeOK'
  BY <1>1, SMTT(40) DEF TypeOK, supervisorVars, timerVars, historyVars, budgetVars
<1>3. ReapedHasExited'
  BY <1>1 DEF ReapedHasExited, supervisorVars
<1> QED
  BY <1>1, <1>2, <1>3
     DEF ConnectedConsistent, PendingDisciplined, RestartPendingIsArmed,
         HandshakeFirst, AliveIsCurrent, QuietUnlessUp, StoppedHasNoSocket,
         GreetingIsAlone, GreetedOnce, Ordered, Alive, RunningStates,
         supervisorVars, timerVars, historyVars, budgetVars

-----------------------------------------------------------------------------
(* Timers. *)

(* The retry timer: a new connection is opened only on a socket that is    *)
(* not connected, hence not marked so either, and starts with hello.       *)
LEMMA RetryKeepsInvariant ==
  ASSUME IInv, RetryConnect
  PROVE  IInv'
<1> USE DEF IInv
<1>1. UNCHANGED <<process, socket, pid, connected, stopping, restartPending,
                  lastPong, pending, inside, healthTimer, restartTimers, core,
                  hung, reaped, toClient, handled, urgent, abandoned, fault,
                  budgetVars>>
  BY DEF RetryConnect, historyVars
<1>2. CASE /\ UNCHANGED <<handshakeDone, link, toCore>>
           /\ connectAttempts' \in 0..MaxConnectAttempts
           /\ retryTimers' \in 0..MaxRetryTimers
  <2>1. TypeOK'
    BY <1>1, <1>2, SMTT(40) DEF TypeOK, historyVars, budgetVars
  <2> QED
    BY <1>1, <1>2, <2>1, Untouched DEF historyVars, budgetVars
<1>3. CASE /\ ~stopping /\ socket # NoSlot /\ ~link[socket]
           /\ core[socket] = "listening"
           /\ retryTimers' = retryTimers - 1
           /\ handshakeDone' = FALSE
           /\ link' = [link EXCEPT ![socket] = TRUE]
           /\ SendHello(socket)
  <2>1. socket \in Slots /\ Alive(socket) /\ ~connected
    BY <1>3 DEF TypeOK, Alive, RunningStates, ConnectedConsistent
  <2>2. /\ <<Hello>> \in Seq(ClientFrames)
        /\ <<Hello>>[1] = Hello /\ DOMAIN <<Hello>> = {1}
    BY FrameKinds
  <2>3. /\ toCore' \in [Slots -> Seq(ClientFrames)]
        /\ toCore'[socket] = <<Hello>>
        /\ \A j \in Slots : j # socket => toCore'[j] = toCore[j]
    BY <1>3, <2>1, <2>2 DEF SendHello, TypeOK
  <2>4. /\ link' \in [Slots -> BOOLEAN] /\ link'[socket] = TRUE
        /\ \A j \in Slots : j # socket => link'[j] = link[j]
    BY <1>3, <2>1 DEF TypeOK
  <2>5. retryTimers' \in 0..MaxRetryTimers /\ connectAttempts' \in 0..MaxConnectAttempts
    BY <1>3, BridgeAssumption DEF RetryConnect, SendHello, TypeOK
  <2>6. TypeOK'
    BY <1>1, <1>3, <2>3, <2>4, <2>5 DEF TypeOK, historyVars, budgetVars
  <2>7. \A j \in Slots : j # socket => toCore[j] = <<>>
    BY FramesAreCurrent
  <2>8. toClient[socket] = <<>>
    BY <1>3, <2>1 DEF QuietUnlessUp
  <2>9. Ordered' /\ GreetingIsAlone'
    BY <1>1, <2>3, <2>6, <2>8, ChannelsShrink DEF historyVars, budgetVars
  <2>10. QuietUnlessUp'
    BY <1>1, <2>1, <2>3, <2>4, <2>7 DEF QuietUnlessUp, Alive, RunningStates
  <2>11. HandshakeFirst'
    <3>1. \A n : n \notin DOMAIN <<>>
      OBVIOUS
    <3> QED
      BY <2>2, <2>3, <2>7, <3>1 DEF HandshakeFirst
  <2>12. AliveIsCurrent' /\ ReapedHasExited'
    <3>1. \A j \in abandoned : j \in Slots /\ j # socket
      BY DEF AliveIsCurrent, TypeOK
    <3> QED
      BY <1>1, <2>4, <3>1
         DEF AliveIsCurrent, ReapedHasExited, Alive, RunningStates
  <2>13. /\ ConnectedConsistent' /\ PendingDisciplined' /\ GreetedOnce'
         /\ RestartPendingIsArmed' /\ StoppedHasNoSocket'
    BY <1>1, <2>1 DEF ConnectedConsistent, PendingDisciplined, GreetedOnce,
                      RestartPendingIsArmed, StoppedHasNoSocket
  <2> QED
    BY <2>6, <2>9, <2>10, <2>11, <2>12, <2>13
<1>4. connectAttempts' = connectAttempts + 1 /\ connectAttempts < MaxConnectAttempts
        => connectAttempts' \in 0..MaxConnectAttempts
  BY BridgeAssumption DEF TypeOK
<1>5. retryTimers > 0 /\ retryTimers' = retryTimers - 1
        => retryTimers' \in 0..MaxRetryTimers
  BY BridgeAssumption DEF TypeOK
<1>6. /\ connectAttempts \in 0..MaxConnectAttempts
      /\ retryTimers \in 0..MaxRetryTimers
  BY DEF TypeOK
<1> QED
  BY <1>2, <1>3, <1>4, <1>5, <1>6 DEF RetryConnect

(* A frame other than hello is written to the connected sidecar: it joins  *)
(* the end of the queue, after the greeting is over; a request is urgent   *)
(* if others are held back.                                                *)
LEMMA WriteKeepsChannels ==
  ASSUME IInv, connected, Alive(socket), NEW f \in ClientFrames,
         f # Hello,
         posted' \in Nat, posted' >= posted,
         \A a \in 1..MaxPosts : f = Request(a) =>
           /\ posted < a /\ a <= posted'
           /\ a \in urgent' \/ pending = <<>>,
         urgent \subseteq urgent', urgent' \subseteq 1..MaxPosts,
         \A u \in urgent' : u \in urgent \/ (posted < u /\ u <= posted'),
         toCore' = [toCore EXCEPT ![socket] = Append(@, f)],
         UNCHANGED <<process, socket, connected, pending, core, link,
                     toClient>>
  PROVE  /\ toCore' \in [Slots -> Seq(ClientFrames)]
         /\ Ordered' /\ GreetingIsAlone' /\ GreetedOnce'
         /\ QuietUnlessUp' /\ HandshakeFirst'
<1> USE DEF IInv
<1>1. /\ socket \in Slots /\ link[socket] /\ posted \in Nat
      /\ toCore \in [Slots -> Seq(ClientFrames)]
      /\ urgent \subseteq 1..MaxPosts
  BY BridgeAssumption
     DEF ConnectedConsistent, TypeOK
<1> DEFINE s == toCore[socket]
<1>2. /\ s \in Seq(ClientFrames) /\ Len(s) \in Nat /\ DOMAIN s = 1..Len(s)
  BY <1>1
<1>3. /\ Append(s, f) \in Seq(ClientFrames)
      /\ DOMAIN Append(s, f) = 1..(Len(s) + 1)
      /\ \A n \in 1..Len(s) : Append(s, f)[n] = s[n]
      /\ Append(s, f)[Len(s) + 1] = f
  BY <1>2, AppendProperties
<1>4. /\ toCore' \in [Slots -> Seq(ClientFrames)]
      /\ toCore'[socket] = Append(s, f)
      /\ \A j \in Slots : j # socket => toCore'[j] = toCore[j]
  BY <1>1, <1>3
<1>5. \A n \in DOMAIN toCore'[socket] :
        \/ n \in DOMAIN s /\ toCore'[socket][n] = s[n]
        \/ n = Len(s) + 1 /\ toCore'[socket][n] = f
  BY <1>2, <1>3, <1>4
<1> HIDE DEF s
<1>6. \A n \in DOMAIN s : \A a \in 1..MaxPosts :
        s[n] = Request(a) => a <= posted
  BY <1>1 DEF Ordered, s
<1>20. \A a, b \in 1..MaxPosts :
         a <= posted /\ b <= posted
           => (Precedes(urgent', a, b) <=> Precedes(urgent, a, b))
  BY <1>1 DEF Precedes
<1>21. /\ \A n \in DOMAIN pending :
            /\ pending[n] \in 1..MaxPosts /\ pending[n] <= posted
            /\ pending[n] \notin urgent'
       /\ \A u \in urgent' : u <= posted'
  <2>1. /\ \A n \in DOMAIN pending :
             /\ pending[n] \in 1..MaxPosts /\ pending[n] <= posted
             /\ pending[n] \notin urgent
        /\ \A u \in urgent : u <= posted
    BY HeldBackWasPosted DEF Ordered
  <2> QED
    BY <1>1, <2>1
<1>22. \A a, b \in 1..MaxPosts :
         a <= posted /\ posted < b => Precedes(urgent', a, b)
  BY <1>1 DEF Precedes
<1>7. RequestsAscend(urgent', toCore'[socket])
  <2> SUFFICES ASSUME NEW m \in DOMAIN toCore'[socket],
                      NEW n \in DOMAIN toCore'[socket],
                      NEW a \in 1..MaxPosts, NEW b \in 1..MaxPosts, m < n,
                      toCore'[socket][m] = Request(a),
                      toCore'[socket][n] = Request(b)
               PROVE  Precedes(urgent', a, b)
    BY DEF RequestsAscend
  <2>1. m \in DOMAIN s /\ s[m] = Request(a)
    BY <1>2, <1>4, <1>3, <1>5
  <2>2. CASE n \in DOMAIN s /\ toCore'[socket][n] = s[n]
    <3>1. RequestsAscend(urgent, s)
      BY <1>1 DEF Ordered, s
    <3>2. Precedes(urgent, a, b)
      BY <2>1, <2>2, <3>1 DEF RequestsAscend
    <3> QED
      BY <1>6, <1>20, <2>1, <2>2, <3>2
  <2>3. CASE toCore'[socket][n] = f
    <3>1. a <= posted /\ posted < b
      BY <1>6, <2>1, <2>3
    <3> QED
      BY <1>22, <3>1
  <2> QED
    BY <1>5, <2>2, <2>3
<1>8. Ordered'
  <2>1. \A j \in Slots : RequestsAscend(urgent', toCore'[j])
    <3>1. ASSUME NEW j \in Slots, j # socket
          PROVE  RequestsAscend(urgent', toCore'[j])
      <4>1. toCore'[j] = <<>>
        BY <1>4, <3>1, FramesAreCurrent
      <4>2. \A n : n \notin DOMAIN <<>>
        OBVIOUS
      <4> QED
        BY <4>1, <4>2 DEF RequestsAscend
    <3> QED
      BY <1>7, <3>1
  <2>2. ASSUME NEW j \in Slots, NEW n \in DOMAIN toCore'[j],
               NEW a \in 1..MaxPosts, toCore'[j][n] = Request(a)
        PROVE  /\ a <= posted'
               /\ \A m \in DOMAIN pending' : Precedes(urgent', a, pending'[m])
    <3>1. j = socket
      <4>1. \A k : k \notin DOMAIN <<>>
        OBVIOUS
      <4> QED
        BY <1>4, <4>1, FramesAreCurrent
    <3>2. CASE n \in DOMAIN s /\ toCore'[j][n] = s[n]
      <4>1. a <= posted /\ \A m \in DOMAIN pending :
                              Precedes(urgent, a, pending[m])
        BY <1>1, <2>2, <3>2 DEF Ordered, s
      <4> QED
        BY <1>1, <1>20, <1>21, <4>1
    <3>3. CASE toCore'[j][n] = f
      <4>1. a <= posted' /\ (a \in urgent' \/ pending = <<>>)
        BY <2>2, <3>3
      <4>2. \A k : k \notin DOMAIN <<>>
        OBVIOUS
      <4> QED
        BY <1>21, <4>1, <4>2 DEF Precedes
    <3> QED
      BY <1>5, <3>1, <3>2, <3>3
  <2>3. \A n \in DOMAIN pending' :
          pending'[n] <= posted' /\ pending'[n] \notin urgent'
    BY <1>1, <1>21
  <2>4. \A m, n \in DOMAIN pending' : m < n => pending'[m] < pending'[n]
    BY DEF Ordered
  <2> QED
    BY <1>21, <2>1, <2>2, <2>3, <2>4 DEF Ordered
<1>9. \A n \in DOMAIN toCore'[socket] : toCore'[socket][n] # Hello
  BY <1>5 DEF GreetedOnce, s
<1>10. GreetingIsAlone'
  <2>1. ASSUME NEW j \in Slots, NEW n \in DOMAIN toCore'[j],
               toCore'[j][n] = Hello
        PROVE  Len(toCore'[j]) = 1 /\ toClient'[j] = <<>>
    <3>1. j # socket
      BY <1>9, <2>1
    <3> QED
      BY <1>4, <2>1, <3>1 DEF GreetingIsAlone
  <2>2. ASSUME NEW j \in Slots, NEW n \in DOMAIN toClient'[j],
               NEW ok \in BOOLEAN, toClient'[j][n] = HelloAck(ok)
        PROVE  Len(toClient'[j]) = 1 /\ toCore'[j] = <<>>
    <3>1. j # socket
      BY <2>2 DEF GreetedOnce
    <3> QED
      BY <1>4, <2>2, <3>1 DEF GreetingIsAlone
  <2> QED
    BY <2>1, <2>2 DEF GreetingIsAlone
<1>11. GreetedOnce'
  BY <1>9 DEF GreetedOnce
<1>12. QuietUnlessUp' /\ HandshakeFirst'
  BY <1>1, <1>4 DEF QuietUnlessUp, HandshakeFirst, Alive, RunningStates
<1> QED
  BY <1>4, <1>8, <1>10, <1>11, <1>12

(* The health tick: its ping is written like any other frame. *)
LEMMA HealthTickKeepsInvariant ==
  ASSUME IInv, MaybeRestartUnhealthy
  PROVE  IInv'
<1> USE DEF IInv
<1>1. UNCHANGED <<process, socket, pid, connected, handshakeDone, stopping,
                  connectAttempts, pending, inside, healthTimer, retryTimers,
                  core, hung, reaped, link, toClient, handled, urgent,
                  abandoned, fault, posted, faults, calls>>
  BY DEF MaybeRestartUnhealthy, historyVars, budgetVars
<1>2. /\ restartPending' \in BOOLEAN /\ restartTimers' \in Nat
      /\ restartPending => restartPending'
      /\ restartPending' /\ ~stopping /\ inside # "restart"
           => restartTimers' > 0
  <2>1. CASE UNCHANGED <<restartPending, restartTimers>>
    BY <2>1 DEF TypeOK, RestartPendingIsArmed
  <2>2. CASE ScheduleRestart
    BY <2>2 DEF TypeOK, ScheduleRestart
  <2> QED
    BY <2>1, <2>2 DEF MaybeRestartUnhealthy
<1>3. lastPong' \in -1..(StaleTicks + 1)
  BY BridgeAssumption DEF MaybeRestartUnhealthy, Aged, Least, TypeOK
<1>4. /\ toCore' \in [Slots -> Seq(ClientFrames)]
      /\ Ordered' /\ GreetingIsAlone' /\ GreetedOnce' /\ QuietUnlessUp'
      /\ HandshakeFirst'
  <2>1. CASE toCore' = toCore
    BY <1>1, <1>2, <2>1
       DEF Ordered, GreetingIsAlone, GreetedOnce, QuietUnlessUp,
           HandshakeFirst, Alive, RunningStates, TypeOK
  <2>2. CASE /\ connected /\ Alive(socket)
             /\ toCore' = [toCore EXCEPT ![socket] = Append(@, Ping)]
    <3>1. /\ Ping \in ClientFrames /\ Ping # Hello
          /\ \A a \in 1..MaxPosts : Ping # Request(a)
          /\ posted' \in Nat /\ posted' >= posted
          /\ urgent' = urgent /\ urgent' \subseteq 1..MaxPosts
      BY <1>1, FrameKinds, FramesDiffer DEF TypeOK
    <3> QED
      BY <1>1, <2>2, <3>1, WriteKeepsChannels
  <2> QED
    BY <2>1, <2>2 DEF MaybeRestartUnhealthy, SendPing
<1>5. TypeOK'
  BY <1>1, <1>2, <1>3, <1>4, ZenonT(60) DEF TypeOK
<1>6. /\ ConnectedConsistent' /\ PendingDisciplined' /\ RestartPendingIsArmed'
      /\ StoppedHasNoSocket' /\ ReapedHasExited' /\ AliveIsCurrent'
  BY <1>1, <1>2
     DEF ConnectedConsistent, PendingDisciplined, RestartPendingIsArmed,
         StoppedHasNoSocket, ReapedHasExited, AliveIsCurrent, Alive,
         RunningStates
<1> QED
  BY <1>4, <1>5, <1>6

-----------------------------------------------------------------------------
(* Requests and the sidecar. *)

(* A request joins the frames on their way, or those held back. *)
LEMMA PostKeepsInvariant ==
  ASSUME IInv, PostRequest
  PROVE  IInv'
<1> USE DEF IInv
<1>1. /\ posted < MaxPosts /\ posted' = posted + 1
      /\ UNCHANGED <<process, socket, pid, connected, handshakeDone, stopping,
                     restartPending, connectAttempts, lastPong, inside,
                     timerVars, core, hung, reaped, link, toClient, handled,
                     abandoned, fault, faults, calls>>
  BY DEF PostRequest
<1>2. /\ posted \in Nat /\ posted' \in 0..MaxPosts /\ posted' \in 1..MaxPosts
      /\ posted' > posted
  BY <1>1, BridgeAssumption DEF TypeOK
<1>6. /\ urgent' \in {urgent, urgent \cup {posted'}}
      /\ urgent \subseteq 1..MaxPosts /\ \A u \in urgent : u <= posted
  BY <1>1 DEF PostRequest, TypeOK, Ordered
<1>7. /\ urgent' \subseteq 1..MaxPosts /\ urgent \subseteq urgent'
      /\ \A u \in urgent' : u \in urgent \/ (posted < u /\ u <= posted')
      /\ \A u \in urgent' : u <= posted'
  BY <1>2, <1>6
<1>3. /\ toCore' \in [Slots -> Seq(ClientFrames)]
      /\ pending' \in Seq(1..MaxPosts)
      /\ Ordered' /\ GreetingIsAlone' /\ GreetedOnce' /\ QuietUnlessUp'
      /\ HandshakeFirst' /\ PendingDisciplined'
  <2>1. CASE connected /\ Alive(socket)
    <3>1. /\ toCore' = [toCore EXCEPT ![socket] = Append(@, Request(posted + 1))]
          /\ pending' = pending
      BY <2>1 DEF PostRequest
    <3>2. /\ Request(posted + 1) \in ClientFrames /\ Request(posted + 1) # Hello
          /\ \A a \in 1..MaxPosts : Request(posted + 1) = Request(a)
               => posted < a /\ a <= posted' /\ a = posted'
      BY <1>1, <1>2, FrameKinds, FramesDiffer
    <3>3. posted' \in Nat /\ posted' >= posted
      BY <1>2
    <3>4. posted' \in urgent' \/ pending = <<>>
      BY <1>1, <2>1 DEF PostRequest, PendingDisciplined
    <3>5. PendingDisciplined'
      BY <1>1, <3>1 DEF PendingDisciplined
    <3>6. \A a \in 1..MaxPosts : Request(posted + 1) = Request(a) =>
            posted < a /\ a <= posted' /\ (a \in urgent' \/ pending = <<>>)
      BY <3>2, <3>4
    <3>7. pending' \in Seq(1..MaxPosts)
      BY <3>1 DEF TypeOK
    <3> QED
      BY <1>1, <1>7, <2>1, <3>1, <3>2, <3>3, <3>5, <3>6, <3>7,
         WriteKeepsChannels
  <2>2. CASE connected /\ ~Alive(socket)
    <3>1. UNCHANGED <<toCore, pending>>
      BY <2>2 DEF PostRequest
    <3>2. Ordered'
      <4>1. \A i \in Slots : toCore[i] = <<>>
        BY <2>2, FramesAreCurrent
      <4>2. \A k : k \notin DOMAIN <<>>
        OBVIOUS
      <4>3. \A i \in Slots : DOMAIN toCore'[i] = {}
        BY <3>1, <4>1, <4>2
      <4>4. \A n \in DOMAIN pending :
              /\ pending[n] \in 1..MaxPosts /\ pending[n] <= posted
              /\ pending[n] \notin urgent
        BY HeldBackWasPosted
      <4>5. \A n \in DOMAIN pending' :
              pending'[n] <= posted' /\ pending'[n] \notin urgent'
        BY <1>2, <1>6, <3>1, <4>4
      <4>6. \A m, n \in DOMAIN pending' : m < n => pending'[m] < pending'[n]
        BY <3>1 DEF Ordered
      <4> QED
        BY <1>7, <4>3, <4>5, <4>6 DEF Ordered, RequestsAscend
    <3> QED
      BY <1>1, <3>1, <3>2
         DEF GreetingIsAlone, GreetedOnce, QuietUnlessUp, HandshakeFirst,
             PendingDisciplined, TypeOK, Alive, RunningStates
  <2>3. CASE ~connected
    <3>1. /\ pending' = PushDropOldest(pending, posted + 1, QueueCapacity)
          /\ toCore' = toCore /\ urgent' = urgent
      BY <2>3 DEF PostRequest
    <3>2. /\ pending \in Seq(1..MaxPosts) /\ Len(pending) <= QueueCapacity
          /\ QueueCapacity \in Nat \ {0}
      BY BridgeAssumption DEF TypeOK, PendingDisciplined
    <3>3. posted \in Nat /\ posted + 1 \in 1..MaxPosts
      BY <1>1, <1>2
    <3>4. /\ pending' \in Seq(1..MaxPosts) /\ Len(pending') <= QueueCapacity
          /\ DOMAIN pending' = 1..Len(pending') /\ Len(pending') \in Nat
          /\ \E d \in {0, 1} :
               \A n \in DOMAIN pending' :
                 \/ n = Len(pending') /\ pending'[n] = posted + 1
                 \/ /\ n < Len(pending') /\ n + d \in DOMAIN pending
                    /\ pending'[n] = pending[n + d]
      <4>1. \A held : held = PushDropOldest(pending, posted + 1, QueueCapacity) =>
           /\ held \in Seq(1..MaxPosts) /\ Len(held) <= QueueCapacity
           /\ DOMAIN held = 1..Len(held) /\ Len(held) \in Nat
           /\ \E d \in {0, 1} :
                \A n \in DOMAIN held :
                  \/ n = Len(held) /\ held[n] = posted + 1
                  \/ /\ n < Len(held) /\ n + d \in DOMAIN pending
                     /\ held[n] = pending[n + d]
        <5> DEFINE S == 1..MaxPosts
                   x == posted + 1
        <5>1. pending \in Seq(S) /\ x \in S
          BY <3>2, <3>3
        <5> HIDE DEF S, x
        <5>2. \A held : held = PushDropOldest(pending, x, QueueCapacity) =>
           /\ held \in Seq(S) /\ Len(held) <= QueueCapacity
           /\ DOMAIN held = 1..Len(held) /\ Len(held) \in Nat
           /\ \E d \in {0, 1} :
                \A n \in DOMAIN held :
                  \/ n = Len(held) /\ held[n] = x
                  \/ /\ n < Len(held) /\ n + d \in DOMAIN pending
                     /\ held[n] = pending[n + d]
          BY <3>2, <5>1, HoldingKeepsNewest
        <5> QED
          BY <5>2, Zenon DEF S, x
      <4> QED
        BY <3>1, <4>1, Zenon
    <3>5. PICK d \in {0, 1} :
            \A n \in DOMAIN pending' :
              \/ n = Len(pending') /\ pending'[n] = posted + 1
              \/ /\ n < Len(pending') /\ n + d \in DOMAIN pending
                 /\ pending'[n] = pending[n + d]
      BY <3>4, Zenon
    <3>6. /\ DOMAIN pending = 1..Len(pending) /\ Len(pending) \in Nat
          /\ \A n \in DOMAIN pending :
               /\ pending[n] \in 1..MaxPosts /\ pending[n] <= posted
               /\ pending[n] \notin urgent
      BY <3>2, LenProperties, ElementOfSeq, ZenonT(60) DEF Ordered
    <3>7. \A n \in DOMAIN pending' :
            pending'[n] <= posted' /\ pending'[n] \notin urgent'
      BY <1>1, <1>2, <1>6, <3>1, <3>5, <3>6
    <3>8. \A m, n \in DOMAIN pending' : m < n => pending'[m] < pending'[n]
      <4> SUFFICES ASSUME NEW m \in DOMAIN pending', NEW n \in DOMAIN pending',
                          m < n
                   PROVE  pending'[m] < pending'[n]
        OBVIOUS
      <4>1. m + d \in DOMAIN pending /\ pending'[m] = pending[m + d]
        BY <3>4, <3>5
      <4>2. CASE pending'[n] = posted'
        BY <1>2, <3>6, <4>1, <4>2
      <4>3. CASE n + d \in DOMAIN pending /\ pending'[n] = pending[n + d]
        <5>1. m + d < n + d
          BY <3>4
        <5> QED
          BY <4>1, <4>3, <5>1 DEF Ordered
      <4> QED
        BY <1>1, <3>5, <4>2, <4>3
    <3>9. \A i \in Slots : \A n \in DOMAIN toCore[i] : \A a \in 1..MaxPosts :
            toCore[i][n] = Request(a)
              => /\ a <= posted'
                 /\ \A m \in DOMAIN pending' : Precedes(urgent, a, pending'[m])
      <4> SUFFICES ASSUME NEW i \in Slots, NEW n \in DOMAIN toCore[i],
                          NEW a \in 1..MaxPosts, toCore[i][n] = Request(a),
                          NEW m \in DOMAIN pending'
                   PROVE  Precedes(urgent, a, pending'[m])
        BY <1>2 DEF Ordered
      <4>1. a <= posted /\ \A k \in DOMAIN pending :
                              Precedes(urgent, a, pending[k])
        BY DEF Ordered
      <4>2. CASE pending'[m] = posted'
        BY <1>2, <4>1, <4>2 DEF Precedes
      <4>3. CASE m + d \in DOMAIN pending /\ pending'[m] = pending[m + d]
        BY <4>1, <4>3
      <4> QED
        BY <1>1, <3>5, <4>2, <4>3
    <3>10. Ordered'
      BY <1>7, <3>1, <3>7, <3>8, <3>9 DEF Ordered
    <3>11. PendingDisciplined'
      BY <1>1, <2>3, <3>4 DEF PendingDisciplined
    <3>12. toCore' \in [Slots -> Seq(ClientFrames)]
      BY <3>1 DEF TypeOK
    <3>13. HandshakeFirst'
      BY <1>1, <3>1 DEF HandshakeFirst
    <3>14. QuietUnlessUp'
      BY <1>1, <3>1 DEF QuietUnlessUp, Alive, RunningStates
    <3>15. GreetingIsAlone' /\ GreetedOnce'
      BY <1>1, <3>1 DEF GreetingIsAlone, GreetedOnce
    <3> QED
      BY <3>4, <3>10, <3>11, <3>12, <3>13, <3>14, <3>15
  <2> QED
    BY <2>1, <2>2, <2>3
<1>4. TypeOK'
  BY <1>1, <1>2, <1>3, <1>7, ZenonT(60) DEF TypeOK, timerVars
<1>5. /\ ConnectedConsistent' /\ RestartPendingIsArmed'
      /\ StoppedHasNoSocket' /\ ReapedHasExited' /\ AliveIsCurrent'
  BY <1>1
     DEF ConnectedConsistent, RestartPendingIsArmed, timerVars,
         StoppedHasNoSocket, ReapedHasExited, AliveIsCurrent, Alive,
         RunningStates
<1> QED
  BY <1>3, <1>4, <1>5

(* The sidecar begins to listen. *)
LEMMA ListenKeepsInvariant ==
  ASSUME IInv, NEW i \in Slots, CoreListen(i)
  PROVE  IInv'
<1> USE DEF IInv
<1>1. /\ core[i] = "booting" /\ core' = [core EXCEPT ![i] = "listening"]
      /\ UNCHANGED <<supervisorVars, timerVars, hung, reaped, link, toCore,
                     toClient, historyVars, fault, budgetVars>>
  BY DEF CoreListen
<1>2. core' \in [Slots -> CoreStates]
  BY <1>1 DEF TypeOK, CoreStates
<1>3. TypeOK'
  BY <1>1, <1>2, SMTT(40)
  DEF TypeOK, CoreStates, supervisorVars, timerVars, historyVars,
                    budgetVars
<1>4. \A j \in Slots : (Alive(j)' <=> Alive(j)) /\ (j # i => core'[j] = core[j])
  BY <1>1 DEF Alive, RunningStates, TypeOK
<1>5. ReapedHasExited'
  BY <1>1, <1>4 DEF ReapedHasExited, TypeOK, supervisorVars
<1> QED
  BY <1>1, <1>3, <1>4, <1>5
     DEF ConnectedConsistent, PendingDisciplined, RestartPendingIsArmed,
         HandshakeFirst, AliveIsCurrent, QuietUnlessUp, StoppedHasNoSocket,
         GreetingIsAlone, GreetedOnce, Ordered, supervisorVars, timerVars,
         historyVars, budgetVars

(* The sidecar dies, and what was on its way to it is lost. *)
LEMMA CrashKeepsInvariant ==
  ASSUME IInv, NEW i \in Slots, CoreCrash(i)
  PROVE  IInv'
<1> USE DEF IInv
<1>1. /\ Alive(i) /\ core' = [core EXCEPT ![i] = "exited"]
      /\ hung' = hung \ {i} /\ toCore' = [toCore EXCEPT ![i] = <<>>]
      /\ faults < MaxFaults /\ faults' = faults + 1
      /\ UNCHANGED <<supervisorVars, timerVars, reaped, link, toClient,
                     handled, urgent, fault, posted, calls>>
      /\ abandoned' = abandoned \ {i}
  BY DEF CoreCrash
<1>2. /\ core' \in [Slots -> CoreStates]
      /\ toCore' \in [Slots -> Seq(ClientFrames)]
      /\ faults' \in 0..MaxFaults
  BY <1>1, BridgeAssumption DEF TypeOK, CoreStates
<1>3. TypeOK'
  BY <1>1, <1>2, ZenonT(60) DEF TypeOK, CoreStates, supervisorVars, timerVars
<1>4. \A j \in Slots :
        /\ Alive(j)' <=> Alive(j) /\ j # i
        /\ toCore'[j] = IF j = i THEN <<>> ELSE toCore[j]
        /\ core'[j] = IF j = i THEN "exited" ELSE core[j]
  BY <1>1 DEF Alive, RunningStates, TypeOK
<1>5. Ordered' /\ GreetingIsAlone'
  BY <1>1, <1>3, <1>4, ChannelsShrink DEF supervisorVars
<1>6. ReapedHasExited' /\ AliveIsCurrent'
  BY <1>1, <1>4 DEF ReapedHasExited, AliveIsCurrent, TypeOK, supervisorVars
<1>7. QuietUnlessUp'
  BY <1>1, <1>4 DEF QuietUnlessUp
<1>8. \A j \in Slots : \A n \in DOMAIN toCore'[j] :
        n \in DOMAIN toCore[j] /\ toCore'[j] = toCore[j]
  <2>1. \A n : n \notin DOMAIN <<>>
    OBVIOUS
  <2> QED
    BY <1>4, <2>1
<1>9. HandshakeFirst' /\ GreetedOnce'
  BY <1>1, <1>8
     DEF HandshakeFirst, GreetedOnce, ConnectedConsistent, TypeOK, supervisorVars
<1>10. /\ ConnectedConsistent' /\ PendingDisciplined'
       /\ RestartPendingIsArmed' /\ StoppedHasNoSocket'
  BY <1>1
     DEF ConnectedConsistent, PendingDisciplined, RestartPendingIsArmed,
         StoppedHasNoSocket, supervisorVars, timerVars
<1> QED
  BY <1>3, <1>5, <1>6, <1>7, <1>9, <1>10

(* What one turn of handle_client does to the two channels of slot i. *)
LEMMA HandleEffects ==
  ASSUME IInv, NEW i \in Slots, CoreHandle(i)
  PROVE  /\ i = process /\ i = socket /\ link[i] /\ Alive(i)
         /\ toCore[i] \in Seq(ClientFrames)
         /\ Tail(toCore[i]) \in Seq(ClientFrames)
         /\ Len(toCore[i]) \in Nat /\ Len(toCore[i]) > 0
         /\ DOMAIN toCore[i] = 1..Len(toCore[i])
         /\ DOMAIN Tail(toCore[i]) = 1..(Len(toCore[i]) - 1)
         /\ Head(toCore[i]) = toCore[i][1] /\ toCore[i][1] \in ClientFrames
         /\ \A n \in 1..(Len(toCore[i]) - 1) :
              Tail(toCore[i])[n] = toCore[i][n + 1]
         /\ toCore' = [toCore EXCEPT ![i] = Tail(toCore[i])]
         /\ \E r \in CoreFrames :
              /\ toClient' = [toClient EXCEPT ![i] = Append(toClient[i], r)]
              /\ \A ok \in BOOLEAN : r = HelloAck(ok) => toCore[i][1] = Hello
         /\ \/ toCore[i][1] \in {Hello, Ping} /\ handled' = handled
            \/ \E id \in 1..MaxPosts :
                 toCore[i][1] = Request(id) /\ handled' = Append(handled, id)
         /\ UNCHANGED <<supervisorVars, timerVars, core, hung, reaped, link,
                        urgent, abandoned, fault, budgetVars>>
<1> USE DEF IInv
<1>1. /\ core[i] = "listening" /\ toCore[i] # <<>>
      /\ toCore' = [toCore EXCEPT ![i] = Tail(toCore[i])]
      /\ UNCHANGED <<supervisorVars, timerVars, core, hung, reaped, link,
                     urgent, abandoned, fault, budgetVars>>
  BY DEF CoreHandle
<1>2. i = process /\ i = socket /\ Alive(i) /\ link[i]
  BY <1>1, FramesAreCurrent
<1>3. toCore[i] \in Seq(ClientFrames)
  BY DEF TypeOK
<1>4. /\ Head(toCore[i]) = toCore[i][1] /\ toCore[i][1] \in ClientFrames
      /\ Tail(toCore[i]) \in Seq(ClientFrames)
      /\ Len(Tail(toCore[i])) = Len(toCore[i]) - 1
      /\ \A n \in 1..(Len(toCore[i]) - 1) :
           Tail(toCore[i])[n] = toCore[i][n + 1]
  BY <1>1, <1>3, HeadTailProperties
<1>5. /\ Len(toCore[i]) \in Nat /\ DOMAIN toCore[i] = 1..Len(toCore[i])
      /\ DOMAIN Tail(toCore[i]) = 1..(Len(toCore[i]) - 1)
  BY <1>3, <1>4, LenProperties
<1>6. Len(toCore[i]) > 0
  BY <1>1, <1>3, EmptySeq
<1>7. /\ \E r \in CoreFrames :
           /\ toClient' = [toClient EXCEPT ![i] = Append(toClient[i], r)]
           /\ \A ok \in BOOLEAN : r = HelloAck(ok) => toCore[i][1] = Hello
      /\ \/ toCore[i][1] \in {Hello, Ping} /\ handled' = handled
         \/ \E id \in 1..MaxPosts :
              toCore[i][1] = Request(id) /\ handled' = Append(handled, id)
  <2> DEFINE f == Head(toCore[i])
  <2>1. f = toCore[i][1] /\ f \in ClientFrames
    BY <1>4
  <2>2. \/ /\ f.kind = "hello"
           /\ \E ok \in AckStatuses :
                toClient' = [toClient EXCEPT ![i] = Append(toClient[i], HelloAck(ok))]
           /\ handled' = handled
        \/ /\ f.kind = "ping"
           /\ toClient' = [toClient EXCEPT ![i] = Append(toClient[i], Pong)]
           /\ handled' = handled
        \/ /\ f.kind = "request"
           /\ toClient' = [toClient EXCEPT ![i] = Append(toClient[i], Response)]
           /\ handled' = Append(handled, f.id)
    BY DEF CoreHandle
  <2> HIDE DEF f
  <2>3. CASE /\ f.kind = "hello"
             /\ \E ok \in AckStatuses :
                  toClient' = [toClient EXCEPT ![i] = Append(toClient[i], HelloAck(ok))]
             /\ handled' = handled
    BY <2>1, <2>3, FrameKinds, BridgeAssumption
  <2>4. CASE /\ f.kind = "ping"
             /\ toClient' = [toClient EXCEPT ![i] = Append(toClient[i], Pong)]
             /\ handled' = handled
    BY <2>1, <2>4, FrameKinds, FramesDiffer
  <2>5. CASE /\ f.kind = "request"
             /\ toClient' = [toClient EXCEPT ![i] = Append(toClient[i], Response)]
             /\ handled' = Append(handled, f.id)
    BY <2>1, <2>5, FrameKinds, FramesDiffer
  <2> QED
    BY <2>2, <2>3, <2>4, <2>5
<1> QED
  BY <1>1, <1>2, <1>3, <1>4, <1>5, <1>6, <1>7

(* The sidecar answers the frame at the head of its queue. *)
LEMMA HandleKeepsInvariant ==
  ASSUME IInv, NEW i \in Slots, CoreHandle(i)
  PROVE  IInv'
<1> USE DEF IInv
<1> DEFINE s == toCore[i]
           c == toClient[i]
           t == Tail(s)
<1>1. /\ i = process /\ i = socket /\ link[i] /\ Alive(i)
      /\ s \in Seq(ClientFrames) /\ t \in Seq(ClientFrames)
      /\ Len(s) \in Nat /\ Len(s) > 0
      /\ DOMAIN s = 1..Len(s) /\ DOMAIN t = 1..(Len(s) - 1)
      /\ \A n \in 1..(Len(s) - 1) : t[n] = s[n + 1]
  BY HandleEffects
<1>2. /\ toCore' = [toCore EXCEPT ![i] = t]
      /\ UNCHANGED <<supervisorVars, timerVars, core, hung, reaped, link,
                     urgent, abandoned, fault, budgetVars>>
      /\ \/ handled' = handled
         \/ \E id \in 1..MaxPosts : handled' = Append(handled, id)
  BY HandleEffects
<1>3. PICK r \in CoreFrames :
        /\ toClient' = [toClient EXCEPT ![i] = Append(c, r)]
        /\ \A ok \in BOOLEAN : r = HelloAck(ok) => s[1] = Hello
  BY HandleEffects
<1>4. c \in Seq(CoreFrames) /\ toCore \in [Slots -> Seq(ClientFrames)]
      /\ toClient \in [Slots -> Seq(CoreFrames)]
  BY DEF TypeOK
<1>5. /\ Append(c, r) \in Seq(CoreFrames)
      /\ Len(Append(c, r)) = Len(c) + 1 /\ Len(c) \in Nat
      /\ DOMAIN Append(c, r) = 1..Len(Append(c, r))
      /\ DOMAIN c = 1..Len(c)
      /\ Append(c, r)[Len(c) + 1] = r
      /\ \A n \in 1..Len(c) : Append(c, r)[n] = c[n]
  BY <1>4, Appended, LenProperties
<1>6. /\ toCore' \in [Slots -> Seq(ClientFrames)]
      /\ toClient' \in [Slots -> Seq(CoreFrames)]
      /\ toCore'[i] = t /\ toClient'[i] = Append(c, r)
      /\ \A j \in Slots : j # i =>
           toCore'[j] = toCore[j] /\ toClient'[j] = toClient[j]
  BY <1>1, <1>2, <1>3, <1>4, <1>5
<1>7. handled' \in Seq(1..MaxPosts)
  <2>1. handled \in Seq(1..MaxPosts)
    BY DEF TypeOK
  <2>2. CASE handled' = handled
    BY <2>1, <2>2, Zenon
  <2>3. ASSUME NEW id \in 1..MaxPosts, handled' = Append(handled, id)
        PROVE  handled' \in Seq(1..MaxPosts)
    BY <2>1, <2>3, AppendProperties, Zenon
  <2> QED
    BY <1>2, <2>2, <2>3, Zenon
<1>8. TypeOK'
  <2>1. TypeOK
    OBVIOUS
  <2> HIDE DEF IInv
  <2>2. UNCHANGED <<process, socket, pid, connected, handshakeDone, stopping,
                    restartPending, connectAttempts, lastPong, pending,
                    inside, healthTimer, restartTimers, retryTimers>>
    BY <1>2 DEF supervisorVars, timerVars
  <2>3. UNCHANGED <<core, hung, reaped, link, urgent, abandoned, fault,
                    posted, faults, calls>>
    BY <1>2 DEF budgetVars
  <2> QED
    BY <1>6, <1>7, <2>1, <2>2, <2>3, ZenonT(60) DEF TypeOK
<1>9. \A n \in DOMAIN t : n + 1 \in DOMAIN s /\ t[n] = s[n + 1]
  BY <1>1
<1>10. \A n \in DOMAIN Append(c, r) :
         \/ n \in DOMAIN c /\ Append(c, r)[n] = c[n]
         \/ n = Len(c) + 1 /\ Append(c, r)[n] = r
  BY <1>5
<1> HIDE DEF s, c, t
<1>11. Ordered'
  <2>1. RequestsAscend(urgent, s)
    BY DEF Ordered, s
  <2>2. RequestsAscend(urgent, t)
    <3> SUFFICES ASSUME NEW m \in DOMAIN t, NEW n \in DOMAIN t,
                        NEW a \in 1..MaxPosts, NEW b \in 1..MaxPosts, m < n,
                        t[m] = Request(a), t[n] = Request(b)
                 PROVE  Precedes(urgent, a, b)
      BY DEF RequestsAscend
    <3>1. m + 1 < n + 1
      BY <1>1
    <3> QED
      BY <1>9, <2>1, <3>1 DEF RequestsAscend
  <2>3. \A j \in Slots : RequestsAscend(urgent, toCore'[j])
    BY <1>6, <2>2 DEF Ordered
  <2>4. ASSUME NEW j \in Slots, NEW n \in DOMAIN toCore'[j],
               NEW a \in 1..MaxPosts, toCore'[j][n] = Request(a)
        PROVE  /\ a <= posted
               /\ \A m \in DOMAIN pending : Precedes(urgent, a, pending[m])
    <3>1. CASE j = i
      BY <1>6, <1>9, <2>4, <3>1, ZenonT(60) DEF Ordered, s
    <3>2. CASE j # i
      BY <1>6, <2>4, <3>2 DEF Ordered
    <3> QED
      BY <3>1, <3>2
  <2> QED
    BY <1>2, <2>3, <2>4 DEF Ordered, supervisorVars, budgetVars
<1>12. s[1] = Hello => t = <<>> /\ c = <<>>
  <2>1. s[1] = Hello => Len(s) = 1 /\ c = <<>>
    BY <1>1 DEF GreetingIsAlone, s, c
  <2>2. Len(s) = 1 => DOMAIN t = 1..0
    BY <1>1
  <2>3. DOMAIN t = 1..0 => t = <<>>
    BY <1>1, EmptySeq, LenProperties
  <2> QED
    BY <2>1, <2>2, <2>3
<1>13. s # <<>>
  BY <1>1, EmptySeq
<1>14. GreetingIsAlone'
  <2>1. ASSUME NEW n \in DOMAIN t, t[n] = Hello
        PROVE  FALSE
    <3>1. Len(s) = 1
      BY <1>9, <2>1 DEF GreetingIsAlone, s
    <3> QED
      BY <1>1, <3>1
  <2>2. ASSUME NEW n \in DOMAIN Append(c, r), NEW ok \in BOOLEAN,
               Append(c, r)[n] = HelloAck(ok)
        PROVE  Len(Append(c, r)) = 1 /\ t = <<>>
    <3>1. ~ (n \in DOMAIN c /\ c[n] = HelloAck(ok))
      BY <1>13 DEF GreetingIsAlone, s, c
    <3>2. r = HelloAck(ok)
      BY <1>10, <2>2, <3>1
    <3>3. t = <<>> /\ c = <<>>
      BY <1>3, <1>12, <3>2
    <3> QED
      BY <1>5, <3>3
  <2> QED
    BY <1>6, <2>1, <2>2, ZenonT(60) DEF GreetingIsAlone
<1>15. GreetedOnce'
  <2> SUFFICES ASSUME connected
               PROVE  /\ \A n \in DOMAIN t : t[n] # Hello
                      /\ \A n \in DOMAIN Append(c, r) : \A ok \in BOOLEAN :
                           Append(c, r)[n] # HelloAck(ok)
    BY <1>1, <1>2, <1>6 DEF GreetedOnce, supervisorVars
  <2>1. /\ \A n \in DOMAIN s : s[n] # Hello
        /\ \A n \in DOMAIN c : \A ok \in BOOLEAN : c[n] # HelloAck(ok)
    BY <1>1 DEF GreetedOnce, s, c
  <2>2. 1 \in DOMAIN s
    BY <1>1
  <2> QED
    BY <1>3, <1>9, <1>10, <2>1, <2>2
<1>16. QuietUnlessUp' /\ AliveIsCurrent'
  BY <1>1, <1>2, <1>6 DEF QuietUnlessUp, AliveIsCurrent, Alive, RunningStates,
                          supervisorVars
<1>17. HandshakeFirst'
  <2>1. \A n \in DOMAIN t : t[n] # Hello => connected \/ restartPending
    BY <1>9 DEF HandshakeFirst, s
  <2> QED
    BY <1>1, <1>2, <1>6, <2>1 DEF HandshakeFirst, supervisorVars
<1>18. /\ ConnectedConsistent' /\ PendingDisciplined' /\ RestartPendingIsArmed'
       /\ StoppedHasNoSocket' /\ ReapedHasExited'
  BY <1>2
     DEF ConnectedConsistent, PendingDisciplined, RestartPendingIsArmed,
         StoppedHasNoSocket, ReapedHasExited, supervisorVars, timerVars
<1> QED
  BY <1>8, <1>11, <1>14, <1>15, <1>16, <1>17, <1>18

(* A sidecar that is no longer scheduled. *)
LEMMA HangKeepsInvariant ==
  ASSUME IInv, NEW i \in Slots, CoreHang(i)
  PROVE  IInv'
<1>1. TypeOK'
  BY BridgeAssumption
     DEF IInv, TypeOK, CoreHang, supervisorVars, timerVars, historyVars
<1> QED
  BY <1>1, Untouched DEF CoreHang, supervisorVars, timerVars, historyVars

(* A restart timer that fires after stop(). *)
LEMMA StoppingTimerKeepsInvariant ==
  ASSUME IInv, RestartNowStopping
  PROVE  IInv'
<1> USE DEF IInv
<1>1. /\ restartTimers' \in Nat /\ stopping
      /\ UNCHANGED <<supervisorVars, healthTimer, retryTimers, coreVars,
                     historyVars, fault, budgetVars>>
  BY DEF RestartNowStopping, TypeOK
<1>2. TypeOK'
  BY <1>1, SMTT(40) DEF TypeOK, supervisorVars, coreVars, historyVars, budgetVars
<1> QED
  BY <1>1, <1>2
     DEF ConnectedConsistent, PendingDisciplined, RestartPendingIsArmed,
         HandshakeFirst, ReapedHasExited, AliveIsCurrent, QuietUnlessUp,
         StoppedHasNoSocket, GreetingIsAlone, GreetedOnce, Ordered, Alive,
         RunningStates, supervisorVars, coreVars, historyVars, budgetVars

-----------------------------------------------------------------------------
(* The invariant holds. *)

LEMMA InitIInv == Init => IInv
<1> SUFFICES ASSUME Init PROVE IInv
  OBVIOUS
<1> USE DEF Init
<1>1. \A i \in Slots :
        /\ toCore[i] = <<>> /\ toClient[i] = <<>> /\ core[i] = "none"
  OBVIOUS
<1>2. \A n : n \notin DOMAIN <<>>
  OBVIOUS
<1>3. TypeOK
  <2>1. /\ core \in [Slots -> {"none", "booting", "listening", "exited"}]
        /\ link \in [Slots -> BOOLEAN]
        /\ toCore \in [Slots -> Seq(ClientFrames)]
        /\ toClient \in [Slots -> Seq(CoreFrames)]
    OBVIOUS
  <2>2. pending \in Seq(1..MaxPosts) /\ handled \in Seq(1..MaxPosts)
    OBVIOUS
  <2>3. /\ connectAttempts \in 0..MaxConnectAttempts
        /\ lastPong \in -1..(StaleTicks + 1)
        /\ restartTimers \in Nat /\ retryTimers \in 0..MaxRetryTimers
        /\ posted \in 0..MaxPosts /\ faults \in 0..MaxFaults
        /\ calls \in 0..MaxCalls
    BY BridgeAssumption
  <2> QED
    BY <2>1, <2>2, <2>3 DEF TypeOK
<1>4. PendingDisciplined
  BY BridgeAssumption DEF PendingDisciplined
<1>5. Ordered
  BY <1>1, <1>2 DEF Ordered, RequestsAscend
<1>6. GreetingIsAlone /\ HandshakeFirst
  BY <1>1, <1>2 DEF GreetingIsAlone, HandshakeFirst
<1>7. QuietUnlessUp /\ AliveIsCurrent
  BY <1>1 DEF QuietUnlessUp, AliveIsCurrent, Alive, RunningStates
<1>8. /\ ConnectedConsistent /\ RestartPendingIsArmed /\ ReapedHasExited
      /\ StoppedHasNoSocket /\ GreetedOnce
  BY DEF ConnectedConsistent, RestartPendingIsArmed, ReapedHasExited,
         StoppedHasNoSocket, GreetedOnce
<1> QED
  BY <1>3, <1>4, <1>5, <1>6, <1>7, <1>8 DEF IInv

(* Every action keeps it, and so does a stuttering step. *)
LEMMA NextIInv == IInv /\ [Next]_vars => IInv'
<1> SUFFICES ASSUME IInv, [Next]_vars PROVE IInv'
  OBVIOUS
<1>1. CASE Start
  BY <1>1, StartKeepsInvariant
<1>2. CASE Stop
  <2>1. /\ restartPending' \in BOOLEAN /\ restartTimers' \in Nat
        /\ calls' \in 0..MaxCalls
    BY <1>2, BridgeAssumption DEF Stop, IInv, TypeOK
  <2> QED
    BY <1>2, <2>1, StopKeepsInvariant DEF Stop
<1>3. CASE PostRequest
  BY <1>3, PostKeepsInvariant
<1>4. ASSUME OnReadyRead, inside = "none" PROVE IInv'
  BY <1>4, ReadyReadKeepsInvariant
<1>5. ASSUME NEW i \in Slots, OnStrayReadyRead(i) PROVE IInv'
  BY <1>5, StrayReadKeepsInvariant
<1>6. ASSUME NEW i \in Slots, OnDisconnected(i) PROVE IInv'
  BY <1>6, DisconnectKeepsInvariant
<1>7. ASSUME NEW i \in Slots, OnDisconnectedThenStop(i) PROVE IInv'
  BY <1>7, CallbackStopKeepsInvariant DEF OnDisconnectedThenStop
<1>8. CASE OnProcessFinished
  BY <1>8, FinishedKeepsInvariant
<1>9. CASE RetryConnect
  BY <1>9, RetryKeepsInvariant
<1>10. CASE MaybeRestartUnhealthy
  BY <1>10, HealthTickKeepsInvariant
<1>11. CASE MaybeRestartUnhealthyThenStop
  BY <1>11, CallbackStopKeepsInvariant DEF MaybeRestartUnhealthyThenStop
<1>12. CASE RestartNow
  BY <1>12, RestartKeepsInvariant
<1>13. CASE RestartNowStopping
  BY <1>13, StoppingTimerKeepsInvariant
<1>14. ASSUME NEW i \in Slots, CoreListen(i) PROVE IInv'
  BY <1>14, ListenKeepsInvariant
<1>15. ASSUME NEW i \in Slots, CoreHandle(i) PROVE IInv'
  BY <1>15, HandleKeepsInvariant
<1>16. ASSUME NEW i \in Slots, CoreCrash(i) PROVE IInv'
  BY <1>16, CrashKeepsInvariant
<1>17. ASSUME NEW i \in Slots, CoreHang(i) PROVE IInv'
  BY <1>17, HangKeepsInvariant
<1>18. CASE UNCHANGED vars
  <2>1. TypeOK'
    BY <1>18 DEF IInv, TypeOK, vars, supervisorVars, timerVars, coreVars,
                 historyVars, budgetVars
  <2> QED
    BY <1>18, <2>1, Untouched
       DEF vars, supervisorVars, timerVars, coreVars, historyVars, budgetVars
<1>19. CASE RestartNowDisconnects
  BY <1>19, RestartDisconnectKeepsInvariant
<1>20. CASE ReadyCallbackReturns
  BY <1>20, FlushKeepsInvariant
<1>21. CASE CrashCallbackReturns
  BY <1>21, CallbackReturnKeepsInvariant
<1>22. CASE EventLoop
  BY <1>4, <1>5, <1>6, <1>7, <1>8, <1>9, <1>10, <1>11, <1>12, <1>13, <1>19,
     <1>22, Zenon DEF EventLoop
<1> QED
  BY <1>1, <1>2, <1>3, <1>14, <1>15, <1>16, <1>17, <1>18, <1>20, <1>21,
     <1>22, Zenon DEF Next

(* The inductive invariant holds in every reachable state. *)
THEOREM InvariantHolds == Spec => []IInv
  BY InitIInv, NextIInv, PTL DEF Spec

(* The supervisor's fields, its timers and the sidecars it starts keep     *)
(* their types: connectAttempts stays within its limit, and a frame on its *)
(* way to a sidecar is one the client writes.                              *)
THEOREM TypeCorrect == Spec => []TypeOK
<1>1. IInv => TypeOK
  BY DEF IInv
<1> QED
  BY <1>1, InvariantHolds, PTL

(* Whenever m_connected is set, the unguarded m_socket->write of sendPing, *)
(* postRequest and flushPending has a connected socket to write to.        *)
THEOREM ConnectedIsConsistent == Spec => []ConnectedConsistent
<1>1. IInv => ConnectedConsistent
  BY DEF IInv
<1> QED
  BY <1>1, InvariantHolds, PTL

(* m_pending never outgrows kQueueCapacity, and while connected is empty,  *)
(* but for the time readyCallback runs in: processFrame flushes only when  *)
(* that has returned.                                                      *)
THEOREM PendingIsDisciplined == Spec => []PendingDisciplined
<1>1. IInv => PendingDisciplined
  BY DEF IInv
<1> QED
  BY <1>1, InvariantHolds, PTL

(* Neither a restart, nor a late timer, nor stop() leaves a sidecar behind *)
(* that m_process does not supervise; only a crashCallback that calls      *)
(* start() under restartNow does, and that sidecar is abandoned for good.  *)
THEOREM NoSidecarIsOrphaned == Spec => []NoOrphanSidecar
<1>1. IInv => NoOrphanSidecar
  BY DEF IInv, AliveIsCurrent, NoOrphanSidecar
<1> QED
  BY <1>1, InvariantHolds, PTL

(* m_restartPending is never left set without a timer to clear it, unless  *)
(* the bridge is stopping or onDisconnected is about to arm it.            *)
THEOREM PendingRestartIsArmed == Spec => []RestartPendingIsArmed
<1>1. IInv => RestartPendingIsArmed
  BY DEF IInv
<1> QED
  BY <1>1, InvariantHolds, PTL

(* Nothing but hello is on its way to a sidecar before hello_ack accepted  *)
(* the connection, or on a connection that was given up.                   *)
THEOREM HandshakeIsFirst == Spec => []HandshakeFirst
<1>1. IInv => HandshakeFirst
  BY DEF IInv
<1> QED
  BY <1>1, InvariantHolds, PTL

-----------------------------------------------------------------------------
(* A connection is watched, and its loss is answered: what the repair of a *)
(* lost sidecar rests on.                                                  *)

(* While m_connected is set the bridge can tell that its sidecar hangs:    *)
(* the health timer runs, and m_lastPongMs is a time and not the "never"   *)
(* that maybeRestartUnhealthy does not count from.                         *)
ConnectionWatched == connected => ~stopping /\ healthTimer /\ lastPong # -1

(* The connection is given up only to a stop, to another launch, with a    *)
(* restart armed, or by a restart that is under way: restartNow launches   *)
(* when the crashCallback it is in has returned.                           *)
AnswersLoss ==
  connected /\ ~connected'
    => \/ stopping' \/ process' # process
       \/ restartTimers' > 0 \/ inside' = "restart"

LossIsAnswered == [][AnswersLoss]_vars

(* A socket is only ever there with the health timer that was started when *)
(* it was made, also the one a failed start() leaves in place.             *)
WatchInv ==
  /\ socket # NoSlot => healthTimer
  /\ connected => lastPong # -1

(* launchAndConnect starts the health timer with the socket it makes, and  *)
(* replaces the process in any case.                                       *)
LEMMA LaunchIsWatched ==
  ASSUME IInv, WatchInv, NEW c, NEW l, NEW s \in {socket, NoSlot},
         LaunchAndConnect(c, l, s)
  PROVE  /\ socket' # NoSlot => healthTimer'
         /\ process' # process
<1>1. CASE LaunchFails(c, l, s)
  BY <1>1 DEF LaunchFails, FreeSlots, WatchInv
<1>2. CASE LaunchStarts(c, l)
  BY <1>2 DEF LaunchStarts, FreeSlots
<1> QED
  BY <1>1, <1>2 DEF LaunchAndConnect

(* A health tick ages m_lastPongMs and never turns it into "never".        *)
LEMMA AgedIsATime ==
  ASSUME TypeOK, lastPong # -1
  PROVE  Aged # -1
BY BridgeAssumption DEF TypeOK, Aged, Least

(* A hello_ack line is not read while connected: there is one for each     *)
(* connection.                                                             *)
LEMMA NoAckWhileConnected ==
  ASSUME IInv, connected, toClient[socket] # <<>>
  PROVE  Head(toClient[socket]).kind # "hello_ack"
<1>1. socket \in Slots /\ toClient[socket] \in Seq(CoreFrames)
  BY DEF IInv, ConnectedConsistent, TypeOK
<1>2. /\ 1 \in DOMAIN toClient[socket]
      /\ Head(toClient[socket]) = toClient[socket][1]
      /\ Head(toClient[socket]) \in CoreFrames
  BY <1>1
<1>3. \A ok \in BOOLEAN : toClient[socket][1] # HelloAck(ok)
  BY <1>2 DEF IInv, GreetedOnce
<1>4. Head(toClient[socket]).kind = "hello_ack"
        => /\ Head(toClient[socket]).ok \in BOOLEAN
           /\ Head(toClient[socket]) = HelloAck(Head(toClient[socket]).ok)
  BY <1>2, FrameKinds, Zenon
<1> QED
  BY <1>2, <1>3, <1>4, Zenon

(* The two stops keep both.                                                *)
LEMMA StopIsAnAnswer ==
  ASSUME StopEffects
  PROVE  WatchInv' /\ AnswersLoss
BY DEF StopEffects, WatchInv, AnswersLoss

(* Every step keeps the watch and answers a loss.                          *)
LEMMA StepWatches ==
  ASSUME IInv, WatchInv, [Next]_vars
  PROVE  WatchInv' /\ AnswersLoss
<1>0. TypeOK
  BY DEF IInv
<1>1. ASSUME UNCHANGED <<socket, connected, healthTimer, lastPong>>
      PROVE  WatchInv' /\ AnswersLoss
  BY <1>1 DEF WatchInv, AnswersLoss
<1>2. CASE NullDereference
  BY <1>1, <1>2 DEF NullDereference, supervisorVars, timerVars
<1>3. CASE Start
  <2>1. connected' = FALSE /\ LaunchAndConnect(core, link, socket)
    BY <1>3 DEF Start, ClearConnection
  <2>2. (socket' # NoSlot => healthTimer') /\ process' # process
    BY <2>1, LaunchIsWatched
  <2> QED
    BY <2>1, <2>2, Zenon DEF WatchInv, AnswersLoss
<1>4. CASE RestartNow
  <2>1. /\ connected' = FALSE
        /\ LaunchAndConnect(Terminated, Reset(link, socket, FALSE), NoSlot)
    BY <1>4, Zenon DEF RestartNow, ClearConnection
  <2>2. (socket' # NoSlot => healthTimer') /\ process' # process
    BY <2>1, LaunchIsWatched
  <2> QED
    BY <2>1, <2>2, Zenon DEF WatchInv, AnswersLoss
<1>16. CASE RestartNowDisconnects
  BY <1>16 DEF RestartNowDisconnects, ClearConnection, WatchInv, AnswersLoss
<1>17. CASE CrashCallbackReturns
  <2>1. CASE ~NullDereference
    <3>1. /\ connected' = FALSE
          /\ LaunchAndConnect(core, Reset(link, socket, FALSE), NoSlot)
      BY <1>17, <2>1, Zenon DEF CrashCallbackReturns, ClearConnection
    <3>2. (socket' # NoSlot => healthTimer') /\ process' # process
      BY <3>1, LaunchIsWatched
    <3> QED
      BY <3>1, <3>2, Zenon DEF WatchInv, AnswersLoss
  <2> QED
    BY <1>2, <2>1
<1>18. CASE ReadyCallbackReturns
  BY <1>1, <1>2, <1>18 DEF ReadyCallbackReturns, timerVars
<1>5. CASE Stop
  BY <1>5, StopIsAnAnswer DEF Stop
<1>6. ASSUME NEW i \in Slots, OnDisconnectedThenStop(i)
      PROVE  WatchInv' /\ AnswersLoss
  BY <1>6, StopIsAnAnswer DEF OnDisconnectedThenStop
<1>7. CASE MaybeRestartUnhealthyThenStop
  BY <1>7, StopIsAnAnswer DEF MaybeRestartUnhealthyThenStop
<1>8. CASE OnReadyRead
  <2>1. toClient[socket] # <<>>
    BY <1>8 DEF OnReadyRead
  <2>2. CASE /\ Head(toClient[socket]).kind = "hello_ack"
             /\ OnHelloAck(Head(toClient[socket]).ok)
    <3>1. ~connected
      BY <2>1, <2>2, NoAckWhileConnected
    <3>2. lastPong' = 0 /\ UNCHANGED <<socket, healthTimer>>
      BY <2>2 DEF OnHelloAck, timerVars
    <3> QED
      BY <3>1, <3>2 DEF WatchInv, AnswersLoss
  <2>3. CASE OnPong
    BY <2>3 DEF OnPong, timerVars, WatchInv, AnswersLoss
  <2>4. CASE OnOtherFrame /\ ~NullDereference
    BY <1>1, <2>4 DEF OnOtherFrame, supervisorVars, timerVars
  <2> QED
    BY <1>2, <1>8, <2>2, <2>3, <2>4, Zenon DEF OnReadyRead
<1>9. ASSUME NEW i \in Slots, OnDisconnected(i), inside = "none"
      PROVE  WatchInv' /\ AnswersLoss
  <2>1. /\ connected' = FALSE
        /\ UNCHANGED <<socket, stopping, healthTimer>>
        /\ IF stopping \/ restartPending
             THEN UNCHANGED <<restartPending, restartTimers>>
             ELSE ScheduleRestart
    BY <1>9 DEF OnDisconnected, ClearConnection
  <2>2. stopping \/ restartTimers' > 0
    BY <1>0, <1>9, <2>1
       DEF ScheduleRestart, TypeOK, IInv, RestartPendingIsArmed
  <2> QED
    BY <2>1, <2>2, Zenon DEF WatchInv, AnswersLoss
<1>10. CASE MaybeRestartUnhealthy
  <2>1. lastPong' = Aged /\ UNCHANGED <<socket, connected, healthTimer>>
    BY <1>10 DEF MaybeRestartUnhealthy
  <2> QED
    BY <1>0, <2>1, AgedIsATime DEF WatchInv, AnswersLoss
<1>11. CASE PostRequest
  BY <1>1, <1>11 DEF PostRequest, timerVars
<1>12. ASSUME NEW i \in Slots, OnStrayReadyRead(i)
       PROVE  WatchInv' /\ AnswersLoss
  BY <1>1, <1>2, <1>12 DEF OnStrayReadyRead, supervisorVars, timerVars
<1>13. CASE OnProcessFinished \/ RetryConnect \/ RestartNowStopping
  BY <1>1, <1>13 DEF OnProcessFinished, RetryConnect, RestartNowStopping,
                     supervisorVars, timerVars
<1>14. ASSUME NEW i \in Slots,
              \/ CoreListen(i) \/ CoreHandle(i) \/ CoreCrash(i) \/ CoreHang(i)
       PROVE  WatchInv' /\ AnswersLoss
  BY <1>1, <1>14 DEF CoreListen, CoreHandle, CoreCrash, CoreHang,
                     supervisorVars, timerVars
<1>15. CASE UNCHANGED vars
  BY <1>1, <1>15 DEF vars, supervisorVars, timerVars
<1>19. CASE EventLoop
  BY <1>4, <1>6, <1>7, <1>8, <1>9, <1>10, <1>12, <1>13, <1>16, <1>19, Zenon
     DEF EventLoop
<1> QED
  BY <1>3, <1>5, <1>11, <1>14, <1>15, <1>17, <1>18, <1>19, Zenon DEF Next

(* A sidecar that hangs is noticed: no handler, timer or late signal       *)
(* leaves the bridge connected with its health check off, or with no pong  *)
(* to count from.                                                          *)
THEOREM ConnectionIsWatched == Spec => []ConnectionWatched
<1>1. Init => WatchInv
  BY DEF Init, WatchInv
<1>2. IInv /\ WatchInv /\ [Next]_vars => WatchInv'
  BY StepWatches
<1>3. IInv /\ WatchInv => ConnectionWatched
  BY DEF IInv, WatchInv, ConnectedConsistent, StoppedHasNoSocket, ConnectionWatched
<1> QED
  BY <1>1, <1>2, <1>3, InvariantHolds, PTL DEF Spec

(* A connection that is given up is always answered by a restart that is   *)
(* armed, by another launch, or by the application's stop: a disconnect    *)
(* that finds m_restartPending set relies on the timer of an earlier one.  *)
THEOREM LossIsAlwaysAnswered == Spec => LossIsAnswered
<1>1. Init => WatchInv
  BY DEF Init, WatchInv
<1>2. IInv /\ WatchInv /\ [Next]_vars => WatchInv'
  BY StepWatches
<1>3. IInv /\ WatchInv /\ [Next]_vars => [AnswersLoss]_vars
  BY StepWatches
<1> QED
  BY <1>1, <1>2, <1>3, InvariantHolds, PTL DEF Spec, LossIsAnswered

-----------------------------------------------------------------------------
(* The bridge implements LossyFifo.  Every step is its Post, its Handle or *)
(* its Lose, on the requests that are in flight before and after.          *)

(* The requests in flight after a step, from the frames it leaves: what    *)
(* was in flight already and what is in extra.                             *)
LEMMA InFlightFrom ==
  ASSUME TypeOK, TypeOK', NEW extra,
         \A n \in DOMAIN pending' : pending'[n] \in InFlight \cup extra,
         \A i \in Slots : \A n \in DOMAIN toCore'[i] : \A id \in 1..MaxPosts :
           toCore'[i][n] = Request(id) => id \in InFlight \cup extra
  PROVE  InFlight' \subseteq InFlight \cup extra
<1> SUFFICES ASSUME NEW id \in InFlight'
             PROVE  id \in InFlight \cup extra
  OBVIOUS
<1>1. \/ \E n \in DOMAIN pending' : id = pending'[n]
      \/ /\ id \in 1..MaxPosts
         /\ \E i \in Slots : \E n \in DOMAIN toCore'[i] :
              toCore'[i][n] = Request(id)
  BY Zenon DEF InFlight
<1> QED
  BY <1>1, Zenon

(* A frame that is on its way, or was, is in flight if it is a request. *)
LEMMA OnTheWay ==
  /\ \A n \in DOMAIN pending : pending[n] \in InFlight
  /\ \A i \in Slots : \A n \in DOMAIN toCore[i] : \A id \in 1..MaxPosts :
       toCore[i][n] = Request(id) => id \in InFlight
BY Zenon DEF InFlight

(* A step after which only old frames, greetings and pings are on their    *)
(* way, and the held-back requests are as before or gone, loses requests.  *)
LEMMA Loses ==
  ASSUME TypeOK, TypeOK', UNCHANGED <<posted, urgent, handled>>,
         pending' \in {pending, <<>>},
         \A i \in Slots : \A n \in DOMAIN toCore'[i] :
           \/ \E m \in DOMAIN toCore[i] : toCore'[i][n] = toCore[i][m]
           \/ toCore'[i][n] \in {Hello, Ping}
           \/ \E m \in DOMAIN pending : toCore'[i][n] = Request(pending[m])
  PROVE  Fifo!Lose
<1>1. \A n \in DOMAIN pending' : pending'[n] \in InFlight \cup {}
  <2>1. \A n : n \notin DOMAIN <<>>
    OBVIOUS
  <2> QED
    BY <2>1, OnTheWay
<1>2. ASSUME NEW i \in Slots, NEW n \in DOMAIN toCore'[i],
             NEW id \in 1..MaxPosts, toCore'[i][n] = Request(id)
      PROVE  id \in InFlight \cup {}
  <2>1. Request(id) \notin {Hello, Ping}
    BY FramesDiffer
  <2>2. CASE \E m \in DOMAIN toCore[i] : toCore'[i][n] = toCore[i][m]
    BY <1>2, <2>2, OnTheWay
  <2>3. CASE \E m \in DOMAIN pending : toCore'[i][n] = Request(pending[m])
    <3>1. PICK m \in DOMAIN pending : toCore'[i][n] = Request(pending[m])
      BY <2>3
    <3>2. pending[m] \in 1..MaxPosts
      BY ElementOfSeq, LenProperties, ZenonT(60) DEF TypeOK
    <3>3. id = pending[m]
      BY <1>2, <3>1, <3>2, FramesDiffer
    <3> QED
      BY <3>3, OnTheWay
  <2> QED
    BY <1>2, <2>1, <2>2, <2>3
<1>3. InFlight' \subseteq InFlight \cup {}
  BY <1>1, <1>2, InFlightFrom
<1> QED
  BY <1>3 DEF Fifo!Lose

(* A step that takes whole connections down, or greets new ones. *)
LEMMA ConnectionLoses ==
  ASSUME TypeOK, TypeOK', UNCHANGED <<posted, urgent, handled, pending>>,
         \A i \in Slots : toCore'[i] \in {toCore[i], <<>>, <<Hello>>}
  PROVE  Fifo!Lose
<1>1. \A n : n \notin DOMAIN <<>>
  OBVIOUS
<1>2. \A n \in DOMAIN <<Hello>> : <<Hello>>[n] = Hello
  OBVIOUS
<1>3. \A i \in Slots : \A n \in DOMAIN toCore'[i] :
        \/ \E m \in DOMAIN toCore[i] : toCore'[i][n] = toCore[i][m]
        \/ toCore'[i][n] \in {Hello, Ping}
  <2> SUFFICES ASSUME NEW i \in Slots, NEW n \in DOMAIN toCore'[i]
               PROVE  \/ \E m \in DOMAIN toCore[i] : toCore'[i][n] = toCore[i][m]
                      \/ toCore'[i][n] \in {Hello, Ping}
    OBVIOUS
  <2>1. CASE toCore'[i] = toCore[i]
    BY <2>1, Zenon
  <2>2. CASE toCore'[i] = <<>>
    BY <1>1, <2>2, Zenon
  <2>3. CASE toCore'[i] = <<Hello>>
    BY <1>2, <2>3, Zenon
  <2> QED
    BY <2>1, <2>2, <2>3
<1> QED
  BY <1>3, Loses

(* A launch gives up connections and may greet one. *)
LEMMA LaunchLoses ==
  ASSUME TypeOK, TypeOK', NEW coreNow, NEW linkNow, NEW socketNow,
         LaunchAndConnect(coreNow, linkNow, socketNow),
         UNCHANGED <<posted, urgent, handled, pending>>
  PROVE  Fifo!Lose
<1>1. \A i \in Slots : Carried(toCore, linkNow)[i] \in {toCore[i], <<>>}
  BY DEF Carried
<1>2. \/ toCore' = Carried(toCore, linkNow)
      \/ \E i \in Slots :
           toCore' = [Carried(toCore, linkNow) EXCEPT ![i] = <<Hello>>]
  BY DEF LaunchAndConnect, LaunchFails, LaunchStarts, FreeSlots
<1>3. \A i \in Slots : toCore'[i] \in {toCore[i], <<>>, <<Hello>>}
  <2>1. DOMAIN Carried(toCore, linkNow) = Slots
    BY DEF Carried
  <2>2. CASE toCore' = Carried(toCore, linkNow)
    BY <1>1, <2>2, Zenon
  <2>3. ASSUME NEW i \in Slots,
               toCore' = [Carried(toCore, linkNow) EXCEPT ![i] = <<Hello>>]
        PROVE  \A j \in Slots : toCore'[j] \in {toCore[j], <<>>, <<Hello>>}
    BY <1>1, <2>1, <2>3
  <2> QED
    BY <1>2, <2>2, <2>3
<1> QED
  BY <1>3, ConnectionLoses

(* stop(), called by the application or by a callback, drops a connection. *)
LEMMA StopLoses ==
  ASSUME TypeOK, TypeOK', StopEffects, UNCHANGED <<posted, historyVars>>
  PROVE  Fifo!Lose
<1>1. /\ toCore' = Reset(toCore, socket, <<>>) /\ pending' = pending
      /\ toCore \in [Slots -> Seq(ClientFrames)]
  BY DEF StopEffects, TypeOK
<1>2. \A i \in Slots : toCore'[i] \in {toCore[i], <<>>, <<Hello>>}
  BY <1>1 DEF Reset
<1> QED
  BY <1>1, <1>2, ConnectionLoses DEF historyVars

(* readyCallback returns: the requests held back get on their way, unless  *)
(* the sidecar has died.                                                   *)
LEMMA FlushLoses ==
  ASSUME IInv, TypeOK', ReadyCallbackReturns
  PROVE  Fifo!Lose
<1> USE DEF IInv
<1>1. UNCHANGED <<posted, urgent, handled>>
  BY DEF ReadyCallbackReturns, NullDereference, historyVars, budgetVars
<1>2. CASE UNCHANGED <<toCore, pending>>
  BY <1>1, <1>2, ConnectionLoses
<1>3. CASE FlushPending /\ connected
  <2>1. /\ HeldBack \in Seq(ClientFrames)
        /\ DOMAIN HeldBack = DOMAIN pending
        /\ \A n \in DOMAIN HeldBack : HeldBack[n] = Request(pending[n])
    BY HeldBackIsOrdered
  <2>2. /\ pending' = <<>>
        /\ \A j \in Slots : j # socket => toCore'[j] = toCore[j]
        /\ \A n \in DOMAIN toCore'[socket] :
             \/ \E m \in DOMAIN toCore[socket] :
                  toCore'[socket][n] = toCore[socket][m]
             \/ \E m \in DOMAIN HeldBack : toCore'[socket][n] = HeldBack[m]
    BY <1>3, <2>1, FlushedFrames, Zenon
  <2>3. \A i \in Slots : \A n \in DOMAIN toCore'[i] :
          \/ \E m \in DOMAIN toCore[i] : toCore'[i][n] = toCore[i][m]
          \/ toCore'[i][n] \in {Hello, Ping}
          \/ \E m \in DOMAIN pending : toCore'[i][n] = Request(pending[m])
    BY <2>1, <2>2, ZenonT(60)
  <2> QED
    BY <1>1, <2>2, <2>3, Loses
<1>4. CASE NullDereference
  BY <1>2, <1>4 DEF NullDereference, supervisorVars, coreVars
<1>5. CASE FlushPending /\ ~connected
  BY <1>2, <1>5 DEF FlushPending
<1> QED
  BY <1>3, <1>4, <1>5 DEF ReadyCallbackReturns

(* The health tick sends a ping. *)
LEMMA HealthTickLoses ==
  ASSUME TypeOK, TypeOK', IInv, MaybeRestartUnhealthy
  PROVE  Fifo!Lose
<1>1. UNCHANGED <<posted, urgent, handled, pending>>
  BY DEF MaybeRestartUnhealthy, historyVars, budgetVars
<1>2. CASE toCore' = toCore
  BY <1>1, <1>2, ConnectionLoses
<1>3. CASE /\ connected
           /\ toCore' = [toCore EXCEPT ![socket] = Append(toCore[socket], Ping)]
  <2>1. /\ socket \in Slots /\ toCore \in [Slots -> Seq(ClientFrames)]
        /\ toCore[socket] \in Seq(ClientFrames)
    BY <1>3 DEF IInv, ConnectedConsistent, TypeOK
  <2>2. \A n \in DOMAIN Append(toCore[socket], Ping) :
          \/ \E m \in DOMAIN toCore[socket] :
               Append(toCore[socket], Ping)[n] = toCore[socket][m]
          \/ Append(toCore[socket], Ping)[n] = Ping
    <3> DEFINE s == toCore[socket]
               t == Append(s, Ping)
    <3>1. /\ t \in Seq(ClientFrames) /\ Len(t) = Len(s) + 1
          /\ Len(s) \in Nat /\ DOMAIN t = 1..Len(t)
          /\ t[Len(s) + 1] = Ping
          /\ \A n \in 1..Len(s) : t[n] = s[n]
          /\ DOMAIN s = 1..Len(s)
      BY <2>1, FrameKinds, Appended, LenProperties
    <3> HIDE DEF s, t
    <3> QED
      BY <3>1 DEF s, t
  <2>3. \A i \in Slots :
          \/ toCore'[i] = toCore[i]
          \/ i = socket /\ toCore'[i] = Append(toCore[socket], Ping)
    BY <1>3, <2>1
  <2>4. \A i \in Slots : \A n \in DOMAIN toCore'[i] :
          \/ \E m \in DOMAIN toCore[i] : toCore'[i][n] = toCore[i][m]
          \/ toCore'[i][n] \in {Hello, Ping}
    BY <2>2, <2>3, Zenon
  <2> QED
    BY <1>1, <2>4, Loses
<1> QED
  BY <1>2, <1>3 DEF MaybeRestartUnhealthy, SendPing

(* postRequest is Post: what it drops to make room is lost. *)
LEMMA PostRefines ==
  ASSUME IInv, TypeOK', PostRequest
  PROVE  Fifo!Post
<1> USE DEF IInv
<1> DEFINE new == posted + 1
<1>1. /\ posted < MaxPosts /\ posted' = new /\ handled' = handled
      /\ new \in 1..MaxPosts /\ urgent' \in {urgent, urgent \cup {new}}
  BY BridgeAssumption DEF PostRequest, TypeOK
<1>2. \A n \in DOMAIN pending' : pending'[n] \in InFlight \cup {new}
  <2>1. CASE pending' = pending
    BY <2>1, OnTheWay
  <2>2. CASE pending' = PushDropOldest(pending, new, QueueCapacity)
    <3>1. /\ pending \in Seq(1..MaxPosts) /\ Len(pending) <= QueueCapacity
          /\ QueueCapacity \in Nat \ {0}
      BY BridgeAssumption DEF TypeOK, PendingDisciplined
    <3> DEFINE S == 1..MaxPosts
    <3>2. pending \in Seq(S) /\ new \in S
      BY <1>1, <3>1
    <3> HIDE DEF S, new
    <3>3. \A held : held = PushDropOldest(pending, new, QueueCapacity) =>
            \E d \in {0, 1} : \A n \in DOMAIN held :
              \/ n = Len(held) /\ held[n] = new
              \/ /\ n < Len(held) /\ n + d \in DOMAIN pending
                 /\ held[n] = pending[n + d]
      BY <3>1, <3>2, HoldingKeepsNewest
    <3>4. \A n \in DOMAIN pending' :
            \/ pending'[n] = new
            \/ \E m \in DOMAIN pending : pending'[n] = pending[m]
      BY <2>2, <3>3, Zenon
    <3> QED
      BY <3>4, OnTheWay
  <2> QED
    BY <2>1, <2>2 DEF PostRequest
<1>3. ASSUME NEW i \in Slots, NEW n \in DOMAIN toCore'[i],
             NEW id \in 1..MaxPosts, toCore'[i][n] = Request(id)
      PROVE  id \in InFlight \cup {new}
  <2>1. CASE toCore' = toCore
    BY <1>3, <2>1, OnTheWay
  <2>2. CASE /\ connected
             /\ toCore' = [toCore EXCEPT ![socket] =
                             Append(toCore[socket], Request(new))]
    <3> DEFINE s == toCore[socket]
               t == Append(s, Request(new))
    <3>1. /\ socket \in Slots /\ toCore \in [Slots -> Seq(ClientFrames)]
          /\ s \in Seq(ClientFrames) /\ Request(new) \in ClientFrames
      BY <1>1, <2>2, FrameKinds DEF ConnectedConsistent, TypeOK
    <3>2. /\ Len(t) = Len(s) + 1 /\ Len(s) \in Nat /\ DOMAIN t = 1..Len(t)
          /\ DOMAIN s = 1..Len(s)
          /\ t[Len(s) + 1] = Request(new)
          /\ \A m \in 1..Len(s) : t[m] = s[m]
      BY <3>1, Appended, LenProperties
    <3>3. CASE i = socket
      <4>1. toCore'[i] = t
        BY <2>2, <3>1, <3>3
      <4> HIDE DEF s, t
      <4>2. \/ n \in DOMAIN s /\ t[n] = s[n]
            \/ t[n] = Request(new)
        BY <3>2, <4>1
      <4>3. CASE n \in DOMAIN s /\ t[n] = s[n]
        BY <1>3, <3>1, <4>1, <4>3, OnTheWay DEF s
      <4>4. CASE t[n] = Request(new)
        <5>1. id = new
          BY <1>1, <1>3, <4>1, <4>4, FramesDiffer
        <5> QED
          BY <5>1
      <4> QED
        BY <4>2, <4>3, <4>4
    <3>4. CASE i # socket
      BY <1>3, <2>2, <3>1, <3>4, OnTheWay
    <3> QED
      BY <3>3, <3>4
  <2> QED
    BY <2>1, <2>2 DEF PostRequest
<1>4. InFlight' \subseteq InFlight \cup {new}
  BY <1>2, <1>3, InFlightFrom
<1>5. InFlight' \ {new} \in SUBSET InFlight
  BY <1>4
<1>6. \/ InFlight' = InFlight' \ {new}
      \/ InFlight' = (InFlight' \ {new}) \cup {new}
  OBVIOUS
<1> QED
  BY <1>1, <1>5, <1>6 DEF Fifo!Post

(* handle_client answers a request, which comes before all others in       *)
(* flight: frames lead to one sidecar only, and the requests held back are *)
(* later ones or ordinary.                                                 *)
LEMMA HandleRefines ==
  ASSUME IInv, TypeOK', NEW i \in Slots, CoreHandle(i)
  PROVE  Fifo!Handle \/ Fifo!Lose
<1> USE DEF IInv
<1> DEFINE s == toCore[i]
           t == Tail(s)
<1>1. /\ i = process /\ Alive(i)
      /\ s \in Seq(ClientFrames)
      /\ Len(s) \in Nat /\ Len(s) > 0
      /\ DOMAIN s = 1..Len(s) /\ DOMAIN t = 1..(Len(s) - 1)
      /\ \A n \in 1..(Len(s) - 1) : t[n] = s[n + 1]
  BY HandleEffects
<1>2. /\ toCore' = [toCore EXCEPT ![i] = t]
      /\ posted' = posted /\ pending' = pending /\ urgent' = urgent
      /\ \/ s[1] \in {Hello, Ping} /\ handled' = handled
         \/ \E id \in 1..MaxPosts :
              s[1] = Request(id) /\ handled' = Append(handled, id)
  BY HandleEffects DEF supervisorVars, historyVars, budgetVars
<1>3. toCore' \in [Slots -> Seq(ClientFrames)] /\ toCore'[i] = t
  BY <1>2 DEF TypeOK
<1>4. \A j \in Slots : j # i => toCore'[j] = <<>> /\ toCore[j] = <<>>
  BY <1>1, <1>2, FramesAreCurrent DEF TypeOK
<1>5. \A n : n \notin DOMAIN <<>>
  OBVIOUS
<1> HIDE DEF s, t
<1>6. \A n \in DOMAIN t : n + 1 \in DOMAIN s /\ t[n] = s[n + 1]
  BY <1>1
<1>7. CASE handled' = handled
  <2>1. \A j \in Slots : \A n \in DOMAIN toCore'[j] :
          \E m \in DOMAIN toCore[j] : toCore'[j][n] = toCore[j][m]
    BY <1>3, <1>4, <1>5, <1>6 DEF s
  <2> QED
    BY <1>2, <1>7, <2>1, Loses
<1>8. ASSUME NEW id \in 1..MaxPosts, s[1] = Request(id),
             handled' = Append(handled, id)
      PROVE  Fifo!Handle
  <2>1. 1 \in DOMAIN s
    BY <1>1
  <2>2. id \in InFlight
    BY <1>8, <2>1, OnTheWay DEF s
  <2>3. \A m \in DOMAIN pending : Precedes(urgent, id, pending[m])
    BY <1>8, <2>1 DEF Ordered, s
  <2>11. ~Precedes(urgent, id, id)
    BY DEF Precedes
  <2>4. \A n \in DOMAIN s : \A b \in 1..MaxPosts :
          s[n] = Request(b)
            => (n = 1 /\ b = id) \/ (1 < n /\ Precedes(urgent, id, b))
    <3> SUFFICES ASSUME NEW n \in DOMAIN s, NEW b \in 1..MaxPosts,
                        s[n] = Request(b)
                 PROVE  \/ n = 1 /\ b = id
                        \/ 1 < n /\ Precedes(urgent, id, b)
      OBVIOUS
    <3>1. n = 1 \/ 1 < n
      BY <1>1
    <3>2. CASE n = 1
      BY <1>8, <3>2, FramesDiffer
    <3>3. CASE 1 < n
      <4>1. RequestsAscend(urgent, s)
        BY DEF Ordered, s
      <4> QED
        BY <1>8, <2>1, <3>3, <4>1 DEF RequestsAscend
    <3> QED
      BY <3>1, <3>2, <3>3
  <2>5. \A x : x \in InFlight <=>
          \/ \E m \in DOMAIN pending : x = pending[m]
          \/ x \in 1..MaxPosts /\ \E n \in DOMAIN s : s[n] = Request(x)
    <3>1. \A x : x \in InFlight <=>
            \/ \E m \in DOMAIN pending : x = pending[m]
            \/ /\ x \in 1..MaxPosts
               /\ \E j \in Slots : \E n \in DOMAIN toCore[j] :
                    toCore[j][n] = Request(x)
      BY Zenon DEF InFlight
    <3> QED
      BY <1>4, <1>5, <3>1, Zenon DEF s
  <2>6. \A x : x \in InFlight' <=>
          \/ \E m \in DOMAIN pending : x = pending[m]
          \/ x \in 1..MaxPosts /\ \E n \in DOMAIN t : t[n] = Request(x)
    <3>1. \A x : x \in InFlight' <=>
            \/ \E m \in DOMAIN pending' : x = pending'[m]
            \/ /\ x \in 1..MaxPosts
               /\ \E j \in Slots : \E n \in DOMAIN toCore'[j] :
                    toCore'[j][n] = Request(x)
      BY Zenon DEF InFlight
    <3>2. \A x : x \in InFlight' <=>
            \/ \E m \in DOMAIN pending : x = pending[m]
            \/ /\ x \in 1..MaxPosts
               /\ \E j \in Slots : \E n \in DOMAIN toCore'[j] :
                    toCore'[j][n] = Request(x)
      BY <1>2, <3>1, Zenon
    <3> QED
      BY <1>3, <1>4, <1>5, <3>2, Zenon
  <2>7. \A other \in InFlight \ {id} : Fifo!Before(id, other)
    <3>1. ASSUME NEW other \in InFlight, other # id
          PROVE  Precedes(urgent, id, other)
      <4>1. CASE \E m \in DOMAIN pending : other = pending[m]
        BY <2>3, <4>1
      <4>2. CASE /\ other \in 1..MaxPosts
                 /\ \E n \in DOMAIN s : s[n] = Request(other)
        BY <2>4, <3>1, <4>2
      <4> QED
        BY <2>5, <4>1, <4>2, Zenon
    <3> QED
      BY <3>1, Zenon DEF Precedes, Fifo!Before
  <2>8. \A b \in 1..MaxPosts :
          (\E n \in DOMAIN t : t[n] = Request(b))
            <=> b # id /\ \E n \in DOMAIN s : s[n] = Request(b)
    <3> SUFFICES ASSUME NEW b \in 1..MaxPosts
                 PROVE  (\E n \in DOMAIN t : t[n] = Request(b))
                          <=> b # id /\ \E n \in DOMAIN s : s[n] = Request(b)
      OBVIOUS
    <3>1. ASSUME NEW n \in DOMAIN t, t[n] = Request(b)
          PROVE  b # id /\ \E m \in DOMAIN s : s[m] = Request(b)
      <4>1. n + 1 \in DOMAIN s /\ s[n + 1] = Request(b) /\ n + 1 # 1
        BY <1>1, <1>6, <3>1
      <4> QED
        BY <2>4, <2>11, <4>1
    <3>2. ASSUME NEW n \in DOMAIN s, s[n] = Request(b), b # id
          PROVE  \E m \in DOMAIN t : t[m] = Request(b)
      <4>1. 1 < n
        BY <2>4, <3>2
      <4>2. n - 1 \in DOMAIN t /\ t[n - 1] = s[n]
        BY <1>1, <4>1
      <4> QED
        BY <3>2, <4>2
    <3> QED
      BY <3>1, <3>2, Zenon
  <2>9. \A m \in DOMAIN pending : pending[m] # id
    BY <2>3, <2>11
  <2>10. InFlight' = InFlight \ {id}
    <3>1. \A x : x \in InFlight' <=> x \in InFlight /\ x # id
      BY <2>5, <2>6, <2>8, <2>9, Zenon
    <3> QED
      BY <3>1
  <2> QED
    BY <1>2, <1>8, <2>2, <2>7, <2>10 DEF Fifo!Handle
<1> QED
  BY <1>2, <1>7, <1>8

LEMMA InitRefines == Init => Fifo!Init
<1>1. ASSUME Init, NEW x \in InFlight
      PROVE  FALSE
  <2>1. \A n : n \notin DOMAIN <<>>
    OBVIOUS
  <2>2. pending = <<>> /\ \A i \in Slots : toCore[i] = <<>>
    BY <1>1 DEF Init
  <2> QED
    BY <1>1, <2>1, <2>2 DEF InFlight
<1>2. Init => posted = 0 /\ urgent = {} /\ handled = <<>>
  BY DEF Init
<1> QED
  BY <1>1, <1>2 DEF Fifo!Init

(* Each step of the bridge is a step of LossyFifo. *)
LEMMA StepRefines == IInv /\ IInv' /\ [Next]_vars => [Fifo!Next]_(Fifo!vars)
<1> SUFFICES ASSUME IInv, IInv', [Next]_vars
             PROVE  Fifo!Next
  BY Zenon
<1>0. TypeOK /\ TypeOK'
  BY DEF IInv
<1>1. CASE Start
  BY <1>0, <1>1, LaunchLoses DEF Start, Fifo!Next, historyVars
<1>2. CASE Stop
  BY <1>0, <1>2, StopLoses DEF Stop, Fifo!Next
<1>3. CASE PostRequest
  BY <1>0, <1>3, PostRefines DEF Fifo!Next
<1>5. CASE UNCHANGED <<posted, urgent, handled, pending, toCore>>
  BY <1>0, <1>5, ConnectionLoses DEF Fifo!Next
<1>4. CASE OnReadyRead
  BY <1>4, <1>5
     DEF OnReadyRead, OnHelloAck, OnPong, OnOtherFrame, NullDereference,
         supervisorVars, coreVars, historyVars, budgetVars
<1>6. ASSUME NEW i \in Slots, OnStrayReadyRead(i) PROVE Fifo!Next
  BY <1>5, <1>6
     DEF OnStrayReadyRead, NullDereference, supervisorVars, coreVars,
         historyVars, budgetVars
<1>7. ASSUME NEW i \in Slots, OnDisconnected(i) PROVE Fifo!Next
  BY <1>5, <1>7 DEF OnDisconnected, historyVars, budgetVars
<1>8. ASSUME NEW i \in Slots, OnDisconnectedThenStop(i) PROVE Fifo!Next
  BY <1>0, <1>8, StopLoses DEF OnDisconnectedThenStop, Fifo!Next
<1>9. CASE OnProcessFinished
  BY <1>5, <1>9 DEF OnProcessFinished, supervisorVars, historyVars, budgetVars
<1>10. CASE RetryConnect
  <2>1. UNCHANGED <<posted, urgent, handled, pending>>
    BY <1>10 DEF RetryConnect, historyVars, budgetVars
  <2>2. \/ toCore' = toCore
        \/ toCore' = [toCore EXCEPT ![socket] = <<Hello>>]
    BY <1>10 DEF RetryConnect, SendHello
  <2>3. \A i \in Slots : toCore'[i] \in {toCore[i], <<>>, <<Hello>>}
    BY <1>0, <2>2 DEF TypeOK
  <2> QED
    BY <1>0, <2>1, <2>3, ConnectionLoses DEF Fifo!Next
<1>11. CASE MaybeRestartUnhealthy
  BY <1>0, <1>11, HealthTickLoses DEF Fifo!Next
<1>12. CASE MaybeRestartUnhealthyThenStop
  BY <1>0, <1>12, StopLoses DEF MaybeRestartUnhealthyThenStop, Fifo!Next
<1>13. CASE RestartNow
  BY <1>0, <1>13, LaunchLoses DEF RestartNow, Fifo!Next, historyVars
<1>20. CASE RestartNowDisconnects
  <2>1. /\ UNCHANGED <<posted, urgent, handled, pending>>
        /\ toCore' = Reset(toCore, socket, <<>>)
    BY <1>20 DEF RestartNowDisconnects, historyVars, budgetVars
  <2>2. \A j \in Slots : toCore'[j] \in {toCore[j], <<>>, <<Hello>>}
    BY <1>0, <2>1 DEF Reset, TypeOK
  <2> QED
    BY <1>0, <2>1, <2>2, ConnectionLoses DEF Fifo!Next
<1>21. CASE CrashCallbackReturns
  <2>1. CASE NullDereference
    BY <1>5, <2>1 DEF NullDereference, supervisorVars, coreVars, historyVars,
                      budgetVars
  <2>2. CASE /\ LaunchAndConnect(core, Reset(link, socket, FALSE), NoSlot)
             /\ UNCHANGED <<posted, urgent, handled, pending>>
    BY <1>0, <2>2, LaunchLoses DEF Fifo!Next
  <2> QED
    BY <1>21, <2>1, <2>2 DEF CrashCallbackReturns
<1>22. CASE ReadyCallbackReturns
  BY <1>0, <1>22, FlushLoses DEF Fifo!Next
<1>14. CASE RestartNowStopping
  BY <1>5, <1>14 DEF RestartNowStopping, supervisorVars, coreVars, historyVars,
                     budgetVars
<1>15. ASSUME NEW i \in Slots, CoreListen(i) PROVE Fifo!Next
  BY <1>5, <1>15 DEF CoreListen, supervisorVars, historyVars, budgetVars
<1>16. ASSUME NEW i \in Slots, CoreHandle(i) PROVE Fifo!Next
  BY <1>0, <1>16, HandleRefines DEF Fifo!Next
<1>17. ASSUME NEW i \in Slots, CoreCrash(i) PROVE Fifo!Next
  <2>1. /\ UNCHANGED <<posted, urgent, handled, pending>>
        /\ toCore' = [toCore EXCEPT ![i] = <<>>]
    BY <1>17 DEF CoreCrash, supervisorVars
  <2>2. \A j \in Slots : toCore'[j] \in {toCore[j], <<>>, <<Hello>>}
    BY <1>0, <2>1 DEF TypeOK
  <2> QED
    BY <1>0, <2>1, <2>2, ConnectionLoses DEF Fifo!Next
<1>18. ASSUME NEW i \in Slots, CoreHang(i) PROVE Fifo!Next
  BY <1>5, <1>18 DEF CoreHang, supervisorVars, historyVars
<1>19. CASE UNCHANGED vars
  BY <1>5, <1>19 DEF vars, supervisorVars, coreVars, historyVars, budgetVars
<1>23. CASE EventLoop
  BY <1>4, <1>6, <1>7, <1>8, <1>9, <1>10, <1>11, <1>12, <1>13, <1>14, <1>20,
     <1>23, Zenon DEF EventLoop
<1> QED
  BY <1>1, <1>2, <1>3, <1>15, <1>16, <1>17, <1>18, <1>19, <1>21, <1>22,
     <1>23, Zenon DEF Next

(* The bridge is a lossy first-in first-out channel from postRequest to    *)
(* handle_client: across queueing, drops, crashes, restarts and stop(),    *)
(* requests may be lost, but none is handled twice, and none out of order  *)
(* but for those that readyCallback posts, which overtake the requests     *)
(* that are held back until it returns.                                    *)
THEOREM BridgeRefinesLossyFifo == Spec => RefinesLossyFifo
<1>1. Init => Fifo!Init
  BY InitRefines
<1>2. IInv /\ IInv' /\ [Next]_vars => [Fifo!Next]_(Fifo!vars)
  BY StepRefines
<1> QED
  BY <1>1, <1>2, InvariantHolds, PTL DEF Spec, RefinesLossyFifo, Fifo!Spec

-----------------------------------------------------------------------------
(* What the channel guarantees.  What was handled comes before everything  *)
(* that is in flight, and everything in flight was posted.                 *)
FifoIInv ==
  /\ posted \in Nat
  /\ InFlight \subseteq 1..posted
  /\ urgent \subseteq 1..posted
  /\ handled \in Seq(Nat)
  /\ \A n \in 1..Len(handled) :
       /\ handled[n] <= posted
       /\ \A id \in InFlight : Precedes(urgent, handled[n], id)
  /\ \A m, n \in 1..Len(handled) :
       m < n => Precedes(urgent, handled[m], handled[n])

LEMMA FifoInit == Fifo!Init => FifoIInv
<1> SUFFICES ASSUME Fifo!Init PROVE FifoIInv
  OBVIOUS
<1>1. posted = 0 /\ InFlight = {} /\ urgent = {} /\ handled = <<>>
  BY DEF Fifo!Init
<1>2. handled \in Seq(Nat) /\ Len(handled) = 0
  BY <1>1
<1> QED
  BY <1>1, <1>2 DEF FifoIInv

LEMMA FifoStep == FifoIInv /\ [Fifo!Next]_(Fifo!vars) => FifoIInv'
<1> SUFFICES ASSUME FifoIInv, [Fifo!Next]_(Fifo!vars)
             PROVE  FifoIInv'
  OBVIOUS
<1> USE DEF FifoIInv
<1>0. \A n \in 1..Len(handled) : handled[n] \in Nat
  BY ElementOfSeq
<1>1. CASE Fifo!Post
  <2>1. /\ posted' = posted + 1 /\ handled' = handled
        /\ InFlight' \subseteq InFlight \cup {posted + 1}
        /\ urgent' \subseteq urgent \cup {posted + 1}
        /\ urgent \subseteq urgent'
    BY <1>1 DEF Fifo!Post
  <2>2. /\ posted' \in Nat /\ InFlight' \subseteq 1..posted'
        /\ urgent' \subseteq 1..posted'
    BY <2>1
  <2>3. \A a, b \in Nat :
          a <= posted /\ b <= posted /\ Precedes(urgent, a, b)
            => Precedes(urgent', a, b)
    BY <2>1 DEF Precedes
  <2>4. \A a \in Nat : a <= posted => Precedes(urgent', a, posted + 1)
    BY DEF Precedes
  <2>5. \A n \in 1..Len(handled) :
          /\ handled[n] <= posted'
          /\ \A id \in InFlight' : Precedes(urgent', handled[n], id)
    <3> SUFFICES ASSUME NEW n \in 1..Len(handled)
                 PROVE  /\ handled[n] <= posted'
                        /\ \A id \in InFlight' : Precedes(urgent', handled[n], id)
      OBVIOUS
    <3>1. handled[n] <= posted /\ handled[n] \in Nat
      BY <1>0
    <3>2. ASSUME NEW id \in InFlight
          PROVE  Precedes(urgent', handled[n], id)
      <4>1. id \in Nat /\ id <= posted /\ Precedes(urgent, handled[n], id)
        OBVIOUS
      <4> QED
        BY <2>3, <3>1, <4>1
    <3> QED
      BY <2>1, <2>4, <3>1, <3>2
  <2>6. \A m, n \in 1..Len(handled) :
          m < n => Precedes(urgent', handled[m], handled[n])
    BY <1>0, <2>3
  <2> QED
    BY <2>1, <2>2, <2>5, <2>6
<1>2. CASE Fifo!Lose
  BY <1>2 DEF Fifo!Lose
<1>3. CASE Fifo!Handle
  <2>1. PICK id \in InFlight :
          /\ \A other \in InFlight \ {id} : Precedes(urgent, id, other)
          /\ InFlight' = InFlight \ {id}
          /\ handled' = Append(handled, id)
          /\ posted' = posted /\ urgent' = urgent
    BY <1>3 DEF Fifo!Handle, Fifo!Before, Precedes
  <2>2. id \in Nat /\ id <= posted
    OBVIOUS
  <2>3. /\ handled' \in Seq(Nat) /\ Len(handled') = Len(handled) + 1
        /\ Len(handled) \in Nat
        /\ handled'[Len(handled) + 1] = id
        /\ \A n \in 1..Len(handled) : handled'[n] = handled[n]
    BY <2>1, <2>2, Appended
  <2>4. \A n \in 1..Len(handled') :
          \/ n \in 1..Len(handled) /\ handled'[n] = handled[n]
          \/ n = Len(handled) + 1 /\ handled'[n] = id
    BY <2>3
  <2>5. \A n \in 1..Len(handled') :
          /\ handled'[n] <= posted'
          /\ \A other \in InFlight' : Precedes(urgent, handled'[n], other)
    BY <2>1, <2>2, <2>4
  <2>6. ASSUME NEW m \in 1..Len(handled'), NEW n \in 1..Len(handled'), m < n
        PROVE  Precedes(urgent, handled'[m], handled'[n])
    <3>1. m \in 1..Len(handled) /\ handled'[m] = handled[m]
      BY <2>3, <2>4, <2>6
    <3>2. CASE n \in 1..Len(handled) /\ handled'[n] = handled[n]
      BY <2>6, <3>1, <3>2
    <3>3. CASE handled'[n] = id
      BY <3>1, <3>3
    <3> QED
      BY <2>4, <3>2, <3>3
  <2> QED
    BY <2>1, <2>3, <2>5, <2>6
<1>4. CASE UNCHANGED Fifo!vars
  BY <1>4 DEF Fifo!vars
<1> QED
  BY <1>1, <1>2, <1>3, <1>4 DEF Fifo!Next

(* handle_client sees the requests of postRequest in the order they were   *)
(* posted, each at most once, whatever crashed or was restarted between;   *)
(* those that readyCallback posts come before those held back meanwhile.   *)
THEOREM HandledOnceInOrder == Spec => []Fifo!HandledInOrder
<1>1. FifoIInv => Fifo!HandledInOrder
  BY DEF FifoIInv, Precedes, Fifo!HandledInOrder, Fifo!Before
<1>2. Fifo!Spec => []FifoIInv
  BY FifoInit, FifoStep, PTL DEF Fifo!Spec
<1>3. Spec => Fifo!Spec
  BY BridgeRefinesLossyFifo DEF RefinesLossyFifo
<1> QED
  BY <1>1, <1>2, <1>3, PTL

=============================================================================
