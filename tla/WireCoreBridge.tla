--------------------------- MODULE WireCoreBridge ---------------------------
(***************************************************************************)
(* WireCoreSupervisor (src/wiremudder/bridge): the Qt client's supervisor  *)
(* of the WireCore sidecar, composed with the sidecar processes it starts. *)
(*                                                                         *)
(* Every handler runs to completion on the Qt main thread, so a handler is *)
(* one action, except that the two handlers which still have work to do    *)
(* after a callback of the application are split there: what the callback  *)
(* calls runs in between.  The sidecars, the timers, the event loop's      *)
(* deliveries and the application's calls interleave.  A slot names one    *)
(* launch: the QProcess, the process it started and the QLocalSocket made  *)
(* with it.  Slots are reused once nothing refers to them, so that the     *)
(* number of restarts has no bound.                                        *)
(***************************************************************************)
EXTENDS Integers, Sequences, FiniteSets, BoundedQueue

CONSTANTS
  Slots,               \* launches that can exist side by side
  NoSlot,              \* the null pointer
  QueueCapacity,       \* kQueueCapacity
  MaxConnectAttempts,  \* retries of a refused connect (100 in the code)
  StaleTicks,          \* kPongStaleMs in health intervals
  AckStatuses,         \* whether a hello may be acknowledged or rejected
  MaxRetryTimers,      \* bound: retry timers told apart
  MaxPosts,            \* bound: requests posted
  MaxFaults,           \* bound: crashes, hangs and failed launches
  MaxAbandoned,        \* bound: sidecars abandoned and still running
  MaxCalls             \* bound: calls of start() and stop()

ASSUME BridgeAssumption ==
  /\ NoSlot \notin Slots
  /\ QueueCapacity \in Nat \ {0}
  /\ MaxConnectAttempts \in Nat
  /\ StaleTicks \in Nat
  /\ AckStatuses \subseteq BOOLEAN
  /\ MaxRetryTimers \in Nat \ {0}
  /\ MaxPosts \in Nat
  /\ MaxFaults \in Nat
  /\ MaxAbandoned \in Nat
  /\ MaxCalls \in Nat

VARIABLES
  process,         \* m_process
  socket,          \* m_socket
  pid,             \* m_pid, as the slot whose process it names
  connected,       \* m_connected
  handshakeDone,   \* m_handshakeDone
  stopping,        \* m_stopping
  restartPending,  \* m_restartPending
  connectAttempts, \* m_connectAttempts
  lastPong,        \* m_lastPongMs as health ticks ago; -1 is "never"
  pending,         \* m_pending
  inside,          \* the callback the Qt thread is in: readyCallback of
                   \* processFrame, or the crashCallback of restartNow
  healthTimer,     \* m_healthTimer is running
  restartTimers,   \* single-shot timers armed for restartNow
  retryTimers,     \* single-shot timers armed to connect again
  core,            \* the sidecar process of a slot
  hung,            \* slots whose process is not scheduled: no answer, and
                   \* SIGTERM is not acted on
  reaped,          \* slots whose QProcess is NotRunning
  link,            \* slots whose QLocalSocket is in ConnectedState
  toCore,          \* frames on their way to the sidecar
  toClient,        \* frames on their way to the client
  handled,         \* requests the sidecars handled, in order (history)
  urgent,          \* requests written by readyCallback (history)
  abandoned,       \* sidecars running that nothing owns any more (history)
  fault,           \* the client dereferenced a null pointer
  posted, faults, calls

supervisorVars == <<process, socket, pid, connected, handshakeDone, stopping,
                    restartPending, connectAttempts, lastPong, pending,
                    inside>>
timerVars == <<healthTimer, restartTimers, retryTimers>>
coreVars == <<core, hung, reaped, link, toCore, toClient>>
historyVars == <<handled, urgent, abandoned>>
budgetVars == <<posted, faults, calls>>
vars == <<supervisorVars, timerVars, coreVars, historyVars, fault, budgetVars>>

Hello == [kind |-> "hello"]
Ping == [kind |-> "ping"]
Request(id) == [kind |-> "request", id |-> id]
HelloAck(ok) == [kind |-> "hello_ack", ok |-> ok]
Pong == [kind |-> "pong"]
Response == [kind |-> "response"]

ClientFrames == {Hello, Ping} \cup {Request(id) : id \in 1..MaxPosts}
CoreFrames == {HelloAck(ok) : ok \in BOOLEAN} \cup {Pong, Response}

TypeOK ==
  /\ process \in Slots \cup {NoSlot}
  /\ socket \in Slots \cup {NoSlot}
  /\ pid \in Slots \cup {NoSlot}
  /\ connected \in BOOLEAN
  /\ handshakeDone \in BOOLEAN
  /\ stopping \in BOOLEAN
  /\ restartPending \in BOOLEAN
  /\ connectAttempts \in 0..MaxConnectAttempts
  /\ lastPong \in -1..(StaleTicks + 1)
  /\ pending \in Seq(1..MaxPosts)
  /\ inside \in {"none", "ready", "restart"}
  /\ healthTimer \in BOOLEAN
  /\ restartTimers \in Nat
  /\ retryTimers \in 0..MaxRetryTimers
  /\ core \in [Slots -> {"none", "booting", "listening", "exited"}]
  /\ hung \subseteq Slots
  /\ reaped \subseteq Slots
  /\ link \in [Slots -> BOOLEAN]
  /\ toCore \in [Slots -> Seq(ClientFrames)]
  /\ toClient \in [Slots -> Seq(CoreFrames)]
  /\ handled \in Seq(1..MaxPosts)
  /\ urgent \subseteq 1..MaxPosts
  /\ abandoned \subseteq Slots
  /\ fault \in BOOLEAN
  /\ posted \in 0..MaxPosts
  /\ faults \in 0..MaxFaults
  /\ calls \in 0..MaxCalls

RunningStates == {"booting", "listening"}

Alive(i) == core[i] \in RunningStates

(* m_process && m_process->state() != QProcess::NotRunning *)
ProcessRunning == process # NoSlot /\ process \notin reaped

(* Slots nothing refers to: no current launch, no socket left behind by an *)
(* earlier one that can still deliver an event, no sidecar still running.  *)
FreeSlots ==
  {i \in Slots \ ({process, socket, pid} \cup abandoned) : ~link[i]}

(* f with the value at i, if i is a slot at all, set to v. *)
Reset(f, i, v) == [j \in DOMAIN f |-> IF j = i THEN v ELSE f[j]]

(* The frames in transit on the connections that stay up. *)
Carried(frames, linkNow) ==
  [i \in Slots |-> IF linkNow[i] THEN frames[i] ELSE <<>>]

Least(a, b) == IF a < b THEN a ELSE b

Init ==
  /\ process = NoSlot /\ socket = NoSlot /\ pid = NoSlot
  /\ connected = FALSE /\ handshakeDone = FALSE
  /\ stopping = FALSE /\ restartPending = FALSE
  /\ connectAttempts = 0 /\ lastPong = -1
  /\ pending = <<>> /\ inside = "none"
  /\ healthTimer = FALSE /\ restartTimers = 0 /\ retryTimers = 0
  /\ core = [i \in Slots |-> "none"]
  /\ hung = {} /\ reaped = {}
  /\ link = [i \in Slots |-> FALSE]
  /\ toCore = [i \in Slots |-> <<>>]
  /\ toClient = [i \in Slots |-> <<>>]
  /\ handled = <<>> /\ urgent = {} /\ abandoned = {} /\ fault = FALSE
  /\ posted = 0 /\ faults = 0 /\ calls = 0

-----------------------------------------------------------------------------
(* Effects shared by the handlers. *)

(* The client process is gone: nothing it holds matters any more. *)
NullDereference ==
  /\ fault' = TRUE
  /\ UNCHANGED <<supervisorVars, timerVars, coreVars, historyVars,
                 budgetVars>>

(* Mutant: m_connected survives. *)
ClearHandshakeOnly == handshakeDone' = FALSE /\ UNCHANGED connected

ClearConnection == connected' = FALSE /\ handshakeDone' = FALSE

(* Mutant: an attempt too many. *)
RetryOrReportOffByOne(running) ==
  IF running /\ connectAttempts <= MaxConnectAttempts
    THEN /\ retryTimers < MaxRetryTimers
         /\ connectAttempts' = connectAttempts + 1
         /\ retryTimers' = retryTimers + 1
    ELSE UNCHANGED <<connectAttempts, retryTimers>>

(* The errorOccurred handler before the handshake: retry while the process *)
(* is running and attempts remain; otherwise report readyCallback(false).  *)
RetryOrReport(running) ==
  IF running /\ connectAttempts < MaxConnectAttempts
    THEN /\ retryTimers < MaxRetryTimers
         /\ connectAttempts' = connectAttempts + 1
         /\ retryTimers' = retryTimers + 1
    ELSE UNCHANGED <<connectAttempts, retryTimers>>

(* The connected handler: a fresh connection on slot i, opened with hello. *)
SendHello(i) ==
  /\ connectAttempts' = 0
  /\ toCore' = [toCore EXCEPT ![i] = <<Hello>>]

(* launchAndConnect, on the slot tables left by what the caller did first; *)
(* the QProcess that m_process held is dropped, and its process left as    *)
(* the caller left it.  When waitForStarted fails no socket is made and    *)
(* the health timer is not touched.                                        *)
LaunchFails(coreNow, linkNow, socketNow) ==
  /\ faults < MaxFaults
  /\ faults' = faults + 1
  /\ \E i \in FreeSlots :
       /\ process' = i
       /\ core' = [coreNow EXCEPT ![i] = "exited"]
       /\ reaped' = (reaped \ {process}) \cup {i}
  /\ hung' = {j \in hung : coreNow[j] \in RunningStates}
  /\ socket' = socketNow
  /\ link' = linkNow
  /\ toCore' = Carried(toCore, linkNow)
  /\ toClient' = Carried(toClient, linkNow)
  /\ UNCHANGED <<pid, connectAttempts, retryTimers, healthTimer>>

(* The process starts; whether it already listens decides the first        *)
(* connectToServer.                                                        *)
LaunchStarts(coreNow, linkNow) ==
  /\ \E i \in FreeSlots :
       /\ process' = i
       /\ socket' = i
       /\ pid' = i
       /\ \/ /\ core' = [coreNow EXCEPT ![i] = "listening"]
             /\ link' = [linkNow EXCEPT ![i] = TRUE]
             /\ connectAttempts' = 0
             /\ toCore' = [Carried(toCore, linkNow) EXCEPT ![i] = <<Hello>>]
             /\ UNCHANGED retryTimers
          \/ /\ core' = [coreNow EXCEPT ![i] = "booting"]
             /\ link' = linkNow
             /\ RetryOrReport(TRUE)
             /\ toCore' = Carried(toCore, linkNow)
  /\ reaped' = reaped \ {process}
  /\ hung' = {j \in hung : coreNow[j] \in RunningStates}
  /\ toClient' = Carried(toClient, linkNow)
  /\ healthTimer' = TRUE
  /\ UNCHANGED faults

LaunchAndConnect(coreNow, linkNow, socketNow) ==
  \/ LaunchFails(coreNow, linkNow, socketNow)
  \/ LaunchStarts(coreNow, linkNow)

(* Mutant: the process is left running. *)
NotTerminated == core

(* The process after terminate() and, if it does not finish, kill(). *)
Terminated == Reset(core, process, "none")

(* What stop() leaves: the process is gone, by the shutdown frame, SIGTERM *)
(* or SIGKILL; a socket that was connected reports disconnected to         *)
(* onDisconnected, which clears handshakeDone and returns.  Queued frames  *)
(* and single-shot timers survive.                                         *)
StopEffects ==
  /\ stopping' = TRUE
  /\ connected' = FALSE
  /\ handshakeDone' = (handshakeDone /\ ~(socket # NoSlot /\ link[socket]))
  /\ healthTimer' = FALSE
  /\ process' = NoSlot
  /\ socket' = NoSlot
  /\ pid' = NoSlot
  /\ core' = Terminated
  /\ hung' = hung \ {process}
  /\ reaped' = reaped \ {process}
  /\ link' = Reset(link, socket, FALSE)
  /\ toCore' = Reset(toCore, socket, <<>>)
  /\ toClient' = Reset(toClient, socket, <<>>)
  /\ UNCHANGED <<connectAttempts, lastPong, pending, inside>>

(* Mutant: the flag is set and no timer armed. *)
FlagRestartOnly == restartPending' = TRUE /\ UNCHANGED restartTimers

(* Arm restartNow once: set the flag, call crashCallback, schedule.  The   *)
(* callback may call stop() before the timer is armed.                     *)
ScheduleRestart ==
  /\ restartPending' = TRUE
  /\ restartTimers' = restartTimers + 1

-----------------------------------------------------------------------------
(* Calls of the application, of its own accord or inside a callback. *)

(* start.  A sidecar launched inside restartNow's callback is going to be  *)
(* abandoned.                                                              *)
Start ==
  /\ calls < MaxCalls
  /\ inside = "restart" => Cardinality(abandoned) < MaxAbandoned
  /\ ~ProcessRunning
  /\ calls' = calls + 1
  /\ stopping' = FALSE
  /\ ClearConnection
  /\ lastPong' = -1
  /\ restartPending' = FALSE
  /\ LaunchAndConnect(core, link, socket)
  /\ UNCHANGED <<pending, inside, restartTimers, historyVars, fault, posted>>

Stop ==
  /\ calls < MaxCalls
  /\ calls' = calls + 1
  /\ StopEffects
  /\ UNCHANGED <<restartPending, restartTimers, retryTimers, historyVars,
                 fault, posted, faults>>

(* postRequest with a valid frame id and payload; the refusals change      *)
(* nothing.  A frame written to a sidecar that has died is lost.           *)
PostRequest ==
  /\ posted < MaxPosts
  /\ ProcessRunning
  /\ posted' = posted + 1
  /\ IF connected
       THEN /\ toCore' = IF Alive(socket)
                           THEN [toCore EXCEPT ![socket] =
                                   Append(@, Request(posted + 1))]
                           ELSE toCore
            /\ urgent' = IF inside = "ready" THEN urgent \cup {posted + 1}
                                             ELSE urgent
            /\ UNCHANGED pending
       ELSE /\ pending' = PushDropOldest(pending, posted + 1, QueueCapacity)
            /\ UNCHANGED <<toCore, urgent>>
  /\ UNCHANGED <<process, socket, pid, connected, handshakeDone, stopping,
                 restartPending, connectAttempts, lastPong, inside, timerVars,
                 core, hung, reaped, link, toClient, handled, abandoned,
                 fault, faults, calls>>

-----------------------------------------------------------------------------
(* Events the Qt event loop delivers. *)

(* Mutant: the handshake's status is ignored. *)
FlushPendingAlways ==
  /\ toCore' = [toCore EXCEPT ![socket] =
       @ \o [n \in DOMAIN pending |-> Request(pending[n])]]
  /\ pending' = <<>>

(* Mutant: m_pending is not cleared. *)
FlushPendingKeeps ==
  /\ toCore' = IF connected /\ Alive(socket)
                 THEN [toCore EXCEPT ![socket] =
                         @ \o [n \in DOMAIN pending |-> Request(pending[n])]]
                 ELSE toCore
  /\ UNCHANGED pending

(* flushPending, when the handshake was accepted. *)
FlushPending ==
  IF connected
    THEN /\ toCore' = [toCore EXCEPT ![socket] =
               IF Alive(socket)
                 THEN @ \o [n \in DOMAIN pending |-> Request(pending[n])]
                 ELSE @]
         /\ pending' = <<>>
    ELSE UNCHANGED <<toCore, pending>>

(* A hello_ack line, up to the call of readyCallback. *)
OnHelloAck(ok) ==
  /\ connected' = ok
  /\ handshakeDone' = TRUE
  /\ lastPong' = 0
  /\ toClient' = [toClient EXCEPT ![socket] = Tail(@)]
  /\ inside' = "ready"
  /\ UNCHANGED <<process, socket, pid, stopping, restartPending,
                 connectAttempts, pending, timerVars, core, hung, reaped,
                 link, toCore, historyVars, fault, budgetVars>>

(* readyCallback returns, and processFrame flushes.  The loop of           *)
(* onReadyRead reads m_socket again, which a callback that stopped the     *)
(* bridge has left null.                                                   *)
ReadyCallbackReturns ==
  /\ inside = "ready"
  /\ IF socket = NoSlot
       THEN NullDereference
       ELSE /\ inside' = "none"
            /\ FlushPending
            /\ UNCHANGED <<process, socket, pid, connected, handshakeDone,
                           stopping, restartPending, connectAttempts,
                           lastPong, timerVars, core, hung, reaped, link,
                           toClient, historyVars, fault, budgetVars>>

OnPong ==
  /\ lastPong' = 0
  /\ toClient' = [toClient EXCEPT ![socket] = Tail(@)]
  /\ UNCHANGED <<process, socket, pid, connected, handshakeDone, stopping,
                 restartPending, connectAttempts, pending, inside, timerVars,
                 core, hung, reaped, link, toCore, historyVars, fault,
                 budgetVars>>

(* Any other frame goes to frameCallback, which may stop the bridge. *)
OnOtherFrame ==
  \/ calls < MaxCalls /\ NullDereference
  \/ /\ toClient' = [toClient EXCEPT ![socket] = Tail(@)]
     /\ UNCHANGED <<supervisorVars, timerVars, core, hung, reaped, link,
                    toCore, historyVars, fault, budgetVars>>

(* onReadyRead and processFrame, one line at a time. *)
OnReadyRead ==
  /\ socket # NoSlot
  /\ link[socket]
  /\ toClient[socket] # <<>>
  /\ LET frame == Head(toClient[socket]) IN
       \/ frame.kind = "hello_ack" /\ OnHelloAck(frame.ok)
       \/ frame.kind = "pong" /\ OnPong
       \/ frame.kind = "response" /\ OnOtherFrame

(* readyRead of a socket that start() left behind: onReadyRead reads       *)
(* m_socket, not the sender.                                               *)
OnStrayReadyRead(i) ==
  /\ i # socket
  /\ link[i]
  /\ toClient[i] # <<>>
  /\ IF socket = NoSlot
       THEN NullDereference
       ELSE /\ toClient' = [toClient EXCEPT ![i] = <<>>]
            /\ UNCHANGED <<supervisorVars, timerVars, core, hung, reaped,
                           link, toCore, historyVars, fault, budgetVars>>

(* The peer of slot i is gone: errorOccurred, then disconnected.  Neither  *)
(* handler looks at which socket emitted the signal.                       *)
OnDisconnected(i) ==
  /\ link[i]
  /\ core[i] = "exited"
  /\ toClient[i] = <<>>
  /\ IF handshakeDone \/ stopping
       THEN UNCHANGED <<connectAttempts, retryTimers>>
       ELSE RetryOrReport(ProcessRunning)
  /\ ClearConnection
  /\ link' = [link EXCEPT ![i] = FALSE]
  /\ IF stopping \/ restartPending
       THEN UNCHANGED <<restartPending, restartTimers>>
       ELSE ScheduleRestart
  /\ UNCHANGED <<process, socket, pid, stopping, lastPong, pending, inside,
                 healthTimer, core, hung, reaped, toCore, toClient,
                 historyVars, fault, budgetVars>>

(* The same, with a crashCallback that calls stop(). *)
OnDisconnectedThenStop(i) ==
  /\ calls < MaxCalls
  /\ calls' = calls + 1
  /\ i = socket
  /\ link[i]
  /\ core[i] = "exited"
  /\ toClient[i] = <<>>
  /\ ~stopping
  /\ ~restartPending
  /\ StopEffects
  /\ ScheduleRestart
  /\ UNCHANGED <<retryTimers, historyVars, fault, posted, faults>>

(* QProcess notices that its process has exited. *)
OnProcessFinished ==
  /\ process # NoSlot
  /\ core[process] = "exited"
  /\ process \notin reaped
  /\ reaped' = reaped \cup {process}
  /\ UNCHANGED <<supervisorVars, timerVars, core, hung, link, toCore,
                 toClient, historyVars, fault, budgetVars>>

-----------------------------------------------------------------------------
(* Timers. *)

(* The 50 ms retry: connectToServer on whatever m_socket is by now.  On a  *)
(* socket that is connected already it is an error, like a refusal.        *)
RetryConnect ==
  /\ retryTimers > 0
  /\ \/ /\ stopping \/ socket = NoSlot
        /\ retryTimers' = retryTimers - 1
        /\ UNCHANGED <<handshakeDone, connectAttempts, link, toCore>>
     \/ /\ ~stopping
        /\ socket # NoSlot
        /\ ~link[socket]
        /\ core[socket] = "listening"
        /\ retryTimers' = retryTimers - 1
        /\ handshakeDone' = FALSE
        /\ link' = [link EXCEPT ![socket] = TRUE]
        /\ SendHello(socket)
     \/ /\ ~stopping
        /\ socket # NoSlot
        /\ link[socket] \/ core[socket] # "listening"
        /\ IF ~handshakeDone /\ ProcessRunning
                /\ connectAttempts < MaxConnectAttempts
             THEN /\ connectAttempts' = connectAttempts + 1
                  /\ UNCHANGED retryTimers
             ELSE /\ retryTimers' = retryTimers - 1
                  /\ UNCHANGED connectAttempts
        /\ UNCHANGED <<handshakeDone, link, toCore>>
  /\ UNCHANGED <<process, socket, pid, connected, stopping, restartPending,
                 lastPong, pending, inside, healthTimer, restartTimers, core,
                 hung, reaped, toClient, historyVars, fault, budgetVars>>

(* Bound: at most one ping or pong in transit is told apart. *)
PingInTransit(i) ==
  \/ \E n \in DOMAIN toCore[i] : toCore[i][n] = Ping
  \/ \E n \in DOMAIN toClient[i] : toClient[i][n] = Pong

SendPing ==
  toCore' = IF connected /\ Alive(socket) /\ ~PingInTransit(socket)
              THEN [toCore EXCEPT ![socket] = Append(@, Ping)]
              ELSE toCore

Aged == IF lastPong = -1 THEN -1 ELSE Least(lastPong + 1, StaleTicks + 1)

Stale == connected /\ Aged > StaleTicks

(* The health tick, maybeRestartUnhealthy. *)
MaybeRestartUnhealthy ==
  /\ healthTimer
  /\ SendPing
  /\ lastPong' = Aged
  /\ IF Stale /\ ~stopping /\ ~restartPending
       THEN ScheduleRestart
       ELSE UNCHANGED <<restartPending, restartTimers>>
  /\ UNCHANGED <<process, socket, pid, connected, handshakeDone, stopping,
                 connectAttempts, pending, inside, healthTimer, retryTimers,
                 core, hung, reaped, link, toClient, historyVars, fault,
                 budgetVars>>

(* The same, with a crashCallback that calls stop(). *)
MaybeRestartUnhealthyThenStop ==
  /\ calls < MaxCalls
  /\ calls' = calls + 1
  /\ healthTimer
  /\ Stale
  /\ ~stopping
  /\ ~restartPending
  /\ StopEffects
  /\ ScheduleRestart
  /\ UNCHANGED <<retryTimers, historyVars, fault, posted, faults>>

(* The 200 ms restart timer, when no callback comes in between. *)
RestartNow ==
  /\ restartTimers > 0
  /\ ~stopping
  /\ socket # NoSlot /\ link[socket] => restartPending
  /\ restartTimers' = restartTimers - 1
  /\ ClearConnection
  /\ restartPending' = FALSE
  /\ LaunchAndConnect(Terminated, Reset(link, socket, FALSE), NoSlot)
  /\ UNCHANGED <<stopping, lastPong, pending, inside, historyVars, fault,
                 posted, calls>>

(* Tearing down a connected socket reports disconnected to onDisconnected, *)
(* which schedules another restart when the flag is not set: restartNow,   *)
(* with m_process null already, up to that call of crashCallback.          *)
RestartNowDisconnects ==
  /\ restartTimers > 0
  /\ ~stopping
  /\ socket # NoSlot /\ link[socket] /\ ~restartPending
  /\ restartTimers' = restartTimers - 1
  /\ ClearConnection
  /\ restartPending' = TRUE
  /\ process' = NoSlot
  /\ core' = Terminated
  /\ hung' = hung \ {process}
  /\ reaped' = reaped \ {process}
  /\ link' = Reset(link, socket, FALSE)
  /\ toCore' = Reset(toCore, socket, <<>>)
  /\ toClient' = Reset(toClient, socket, <<>>)
  /\ inside' = "restart"
  /\ UNCHANGED <<socket, pid, stopping, connectAttempts, lastPong, pending,
                 healthTimer, retryTimers, historyVars, fault, budgetVars>>

(* crashCallback returns, onDisconnected arms its timer and restartNow     *)
(* goes on: it deletes what m_socket is by now, which a callback that      *)
(* stopped the bridge has left null, and overwrites the process of a       *)
(* callback that started it.  Deleting a socket that the callback has      *)
(* connected may report one more, late, disconnected.                      *)
CrashCallbackReturns ==
  /\ inside = "restart"
  /\ IF socket = NoSlot
       THEN NullDereference
       ELSE /\ \E late \in {FALSE, link[socket]} :
                 /\ restartTimers' = restartTimers + (IF late THEN 2 ELSE 1)
                 /\ restartPending' = late
            /\ inside' = "none"
            /\ ClearConnection
            /\ abandoned' = abandoned \cup
                              ({process} \cap {i \in Slots : Alive(i)})
            /\ LaunchAndConnect(core, Reset(link, socket, FALSE), NoSlot)
            /\ UNCHANGED <<stopping, lastPong, pending, handled, urgent,
                           fault, posted, calls>>

RestartNowStopping ==
  /\ restartTimers > 0
  /\ stopping
  /\ restartTimers' = restartTimers - 1
  /\ UNCHANGED <<supervisorVars, healthTimer, retryTimers, coreVars,
                 historyVars, fault, budgetVars>>

-----------------------------------------------------------------------------
(* The sidecar processes. *)

(* main binds the socket and starts to accept. *)
CoreListen(i) ==
  /\ core[i] = "booting"
  /\ i \notin hung
  /\ core' = [core EXCEPT ![i] = "listening"]
  /\ UNCHANGED <<supervisorVars, timerVars, hung, reaped, link, toCore,
                 toClient, historyVars, fault, budgetVars>>

(* One turn of handle_client. *)
CoreHandle(i) ==
  /\ core[i] = "listening"
  /\ i \notin hung
  /\ toCore[i] # <<>>
  /\ toCore' = [toCore EXCEPT ![i] = Tail(@)]
  /\ LET frame == Head(toCore[i]) IN
       \/ /\ frame.kind = "hello"
          /\ \E ok \in AckStatuses :
               toClient' = [toClient EXCEPT ![i] = Append(@, HelloAck(ok))]
          /\ UNCHANGED handled
       \/ /\ frame.kind = "ping"
          /\ toClient' = [toClient EXCEPT ![i] = Append(@, Pong)]
          /\ UNCHANGED handled
       \/ /\ frame.kind = "request"
          /\ toClient' = [toClient EXCEPT ![i] = Append(@, Response)]
          /\ handled' = Append(handled, frame.id)
  /\ UNCHANGED <<supervisorVars, timerVars, core, hung, reaped, link,
                 urgent, abandoned, fault, budgetVars>>

CoreCrash(i) ==
  /\ faults < MaxFaults
  /\ Alive(i)
  /\ faults' = faults + 1
  /\ core' = [core EXCEPT ![i] = "exited"]
  /\ hung' = hung \ {i}
  /\ toCore' = [toCore EXCEPT ![i] = <<>>]
  /\ abandoned' = abandoned \ {i}
  /\ UNCHANGED <<supervisorVars, timerVars, reaped, link, toClient,
                 handled, urgent, fault, posted, calls>>

CoreHang(i) ==
  /\ faults < MaxFaults
  /\ Alive(i)
  /\ i \notin hung
  /\ faults' = faults + 1
  /\ hung' = hung \cup {i}
  /\ UNCHANGED <<supervisorVars, timerVars, core, reaped, link, toCore,
                 toClient, historyVars, fault, posted, calls>>

-----------------------------------------------------------------------------

(* What the event loop runs while the Qt thread is in no callback. *)
EventLoop ==
  /\ inside = "none"
  /\ \/ OnReadyRead
     \/ \E i \in Slots : OnStrayReadyRead(i)
     \/ \E i \in Slots : OnDisconnected(i)
     \/ \E i \in Slots : OnDisconnectedThenStop(i)
     \/ OnProcessFinished
     \/ RetryConnect
     \/ MaybeRestartUnhealthy
     \/ MaybeRestartUnhealthyThenStop
     \/ RestartNow
     \/ RestartNowDisconnects
     \/ RestartNowStopping

Next ==
  /\ ~fault
  /\ \/ Start
     \/ Stop
     \/ PostRequest
     \/ EventLoop
     \/ ReadyCallbackReturns
     \/ CrashCallbackReturns
     \/ \E i \in Slots : CoreListen(i)
     \/ \E i \in Slots : CoreHandle(i)
     \/ \E i \in Slots : CoreCrash(i)
     \/ \E i \in Slots : CoreHang(i)

Spec == Init /\ [][Next]_vars

Idle == ~fault /\ inside = "none"

(* The event loop delivers what is due and armed timers fire; a callback   *)
(* returns; a sidecar that is not hung is scheduled.  The application's    *)
(* calls, crashes and hangs are under no obligation.                       *)
Fairness ==
  /\ WF_vars(Idle /\ OnReadyRead)
  /\ WF_vars(Idle /\ OnProcessFinished)
  /\ WF_vars(Idle /\ RetryConnect)
  /\ WF_vars(Idle /\ MaybeRestartUnhealthy)
  /\ WF_vars(Idle /\ (RestartNow \/ RestartNowDisconnects
                        \/ RestartNowStopping))
  /\ WF_vars(~fault /\ (ReadyCallbackReturns \/ CrashCallbackReturns))
  /\ \A i \in Slots :
       /\ WF_vars(Idle /\ OnStrayReadyRead(i))
       /\ WF_vars(Idle /\ OnDisconnected(i))
       /\ WF_vars(~fault /\ CoreListen(i))
       /\ WF_vars(~fault /\ CoreHandle(i))

FairSpec == Spec /\ Fairness

-----------------------------------------------------------------------------
(* Properties. *)

(* Whenever m_connected is set, m_socket is a connected socket whose       *)
(* handshake is done, so that the unguarded m_socket->write of sendPing,   *)
(* postRequest and flushPending is safe.  (It need not be the socket of    *)
(* m_process: a start() that fails to launch keeps the socket before it.)  *)
ConnectedConsistent ==
  connected => /\ socket # NoSlot
               /\ handshakeDone
               /\ link[socket]

(* The queue of held-back frames never outgrows kQueueCapacity, and is     *)
(* empty while connected, but for the time readyCallback runs in: other    *)
(* than from that callback, postRequest never writes past a frame that was *)
(* posted earlier.                                                         *)
PendingDisciplined ==
  /\ Len(pending) <= QueueCapacity
  /\ connected /\ inside # "ready" => pending = <<>>

(* The only sidecar that can be running is the supervised one: restarts,   *)
(* late timers and stop() leave no second process behind.  The exception   *)
(* is a crashCallback of restartNow that calls start(): m_process is null  *)
(* by then, so start() does not refuse, and restartNow goes on to          *)
(* overwrite the process it launched.                                      *)
NoOrphanSidecar == \A i \in Slots : Alive(i) => i = process \/ i \in abandoned

(* m_restartPending suppresses further restarts, so while it is set and    *)
(* the bridge is not stopping a restart timer is armed (or about to be, by *)
(* the handler whose callback runs); otherwise the sidecar would never be  *)
(* restarted again.                                                        *)
RestartPendingIsArmed ==
  restartPending /\ ~stopping /\ inside # "restart" => restartTimers > 0

(* The requests held back or on their way to a sidecar. *)
InFlight ==
  {pending[n] : n \in DOMAIN pending}
    \cup {id \in 1..MaxPosts :
            \E i \in Slots : \E n \in DOMAIN toCore[i] :
              toCore[i][n] = Request(id)}

Fifo == INSTANCE LossyFifo WITH MaxPosts <- MaxPosts, posted <- posted,
                                inFlight <- InFlight, urgent <- urgent,
                                handled <- handled

(* The bridge implements a lossy first-in first-out channel: the sidecars  *)
(* handle each request at most once and in the order they were posted,     *)
(* across queueing, drops, crashes, restarts and stop()/start(); a restart *)
(* loses requests but repeats and reorders none.  Only a request that      *)
(* readyCallback posts overtakes, and only the requests held back before   *)
(* it: processFrame flushes those when the callback has returned.          *)
RefinesLossyFifo == Fifo!Spec

(* A frame other than hello is on its way to a sidecar only on the current *)
(* connection and only once hello was acknowledged with "ok": nothing is   *)
(* written ahead of the handshake or left on a connection given up.  (The  *)
(* late disconnect of an earlier socket clears m_connected under a live    *)
(* connection, which the restart it schedules then tears down.)            *)
HandshakeFirst ==
  \A i \in Slots : \A n \in DOMAIN toCore[i] :
    toCore[i][n] # Hello => i = socket /\ (connected \/ restartPending)

(* start() or a restart has launched a sidecar that did not come up. *)
RelaunchFailed == process \in reaped /\ socket # process

(* A connected sidecar that dies or stops answering. *)
PeerLost ==
  /\ connected
  /\ socket = process
  /\ core[process] = "exited" \/ process \in hung

Serving == process # NoSlot /\ Alive(process) /\ process \notin hung

(* "a crashed peer is detected via socket disconnect and restarted", and a *)
(* silent one by its stale pong: losing a connected sidecar always ends    *)
(* with a running one, a launch that failed, or a stop of the bridge.      *)
PeerLossIsRepaired ==
  PeerLost ~> (Serving \/ RelaunchFailed \/ stopping \/ fault)

(* What a comment of the bridge implies, and the code does not keep: a     *)
(* restart that is scheduled is over at some point.  (Unless the sidecar   *)
(* keeps being late with its pongs, or the client dies of a null pointer.) *)
RestartsSettle ==
  []<>((restartTimers = 0 /\ inside = "none") \/ Stale \/ fault)

=============================================================================
