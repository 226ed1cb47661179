----------------------------- MODULE GrpcClient -----------------------------
(***************************************************************************)
(* The gRPC client that registers the bot at the gateway (grpc/client).    *)
(* A receiveLoop reads the stream and answers requests, heartbeatLoops     *)
(* send on it, a reconnect goroutine replaces stream and connection after  *)
(* an error, and Close, run by main at shutdown, waits for the end of the  *)
(* receive loop.  They share c.stream, c.conn, c.connectionID and the      *)
(* flag c.reconnecting under the mutex c.mu, the context c.ctx and the     *)
(* channel c.done, which may be closed once.                               *)
(*                                                                         *)
(* Only Close keeps the mutex while it waits for another goroutine; every  *)
(* other critical section is one action, enabled while MutexFree.          *)
(***************************************************************************)
EXTENDS Naturals, FiniteSets

CONSTANTS
    Receivers,      \* goroutines that may run receiveLoop
    Reconnectors,   \* goroutines that may run reconnect
    Heartbeats,     \* goroutines that may run heartbeatLoop
    MaxAttempts,    \* maxReconnectAttempts
    MaxBreaks       \* bound: how often an established stream breaks

ASSUME AttemptsAssumption == MaxAttempts \in Nat \ {0}
ASSUME BoundAssumption == MaxBreaks \in Nat

VARIABLES
    main,           \* where main is: Connect, running, in Close, after it
    cancelled,      \* c.ctx is done
    stream,         \* c.stream: nil, usable, or one whose calls fail
    conn,           \* c.conn
    connectionID,   \* whether c.connectionID is set
    reconnecting,
    done,           \* how often c.done has been closed
    receiver,       \* receiver[r]: where receiveLoop r is
    reconnector,    \* reconnector[c]: where reconnect c is, and its attempt
    heartbeat,      \* heartbeat[b]: where heartbeatLoop b is
    panicked,       \* a nil stream was used, or c.done closed twice
    breaks

link == <<stream, conn, connectionID>>
vars == <<main, cancelled, stream, conn, connectionID, reconnecting, done, receiver,
          reconnector, heartbeat, panicked, breaks>>
-----------------------------------------------------------------------------
Off == [pc |-> "off", attempt |-> 0]

TypeOK ==
    /\ main \in {"connect", "without", "running", "cancelled", "waiting", "closed"}
    /\ cancelled \in BOOLEAN
    /\ stream \in {"nil", "up", "failed"}
    /\ conn \in {"nil", "open", "closed"}
    /\ connectionID \in BOOLEAN
    /\ reconnecting \in BOOLEAN
    /\ done \in Nat
    /\ receiver \in [Receivers -> {"off", "loop", "recv", "request", "status"}]
    /\ reconnector \in [Reconnectors ->
          [pc : {"off", "start", "check", "sleep", "finish"}, attempt : 0..MaxAttempts]]
    /\ heartbeat \in [Heartbeats -> {"off", "wait", "send"}]
    /\ panicked \in BOOLEAN
    /\ breaks \in 0..MaxBreaks

Init ==
    /\ main = "connect"
    /\ cancelled = FALSE
    /\ stream = "nil"
    /\ conn = "nil"
    /\ connectionID = FALSE
    /\ reconnecting = FALSE
    /\ done = 0
    /\ receiver = [r \in Receivers |-> "off"]
    /\ reconnector = [c \in Reconnectors |-> Off]
    /\ heartbeat = [b \in Heartbeats |-> "off"]
    /\ panicked = FALSE
    /\ breaks = 0

\* A panic, or the return of Close, ends the process.
Alive == ~ panicked /\ main # "closed"

MutexFree == Alive /\ main # "waiting"
-----------------------------------------------------------------------------
(* Connecting                                                              *)

\* doConnect: no client, no stream, no registration, or success.  c.stream is
\* set before the registration is sent, c.conn before the stream is opened.
DoConnect(oldStream, oldConn, ok) ==
    \/ /\ ~ ok
       /\ \/ stream' = oldStream /\ conn' = oldConn
          \/ stream' = oldStream /\ conn' = "closed"
          \/ stream' = "failed"  /\ conn' = "closed"
    \/ /\ ok
       /\ ~ cancelled
       /\ stream' = "up" /\ conn' = "open"

\* go c.receiveLoop(); go c.heartbeatLoop()
StartLoops ==
    /\ \E r \in Receivers : receiver[r] = "off" /\ receiver' = [receiver EXCEPT ![r] = "loop"]
    /\ \E b \in Heartbeats : heartbeat[b] = "off" /\ heartbeat' = [heartbeat EXCEPT ![b] = "wait"]

\* main goes on without the client, and without closing it, when Connect fails.
Connect ==
    /\ main = "connect"
    /\ \/ /\ DoConnect(stream, conn, TRUE)
          /\ StartLoops
          /\ main' = "running"
       \/ /\ DoConnect(stream, conn, FALSE)
          /\ main' = "without"
          /\ UNCHANGED <<receiver, heartbeat>>
    /\ UNCHANGED <<cancelled, connectionID, reconnecting, done, reconnector, panicked, breaks>>
-----------------------------------------------------------------------------
(* reconnect                                                               *)

\* A second reconnect leaves the work to the one that has set the flag.
ReconnectStart(c) ==
    /\ reconnector[c].pc = "start"
    /\ MutexFree
    /\ IF reconnecting
       THEN /\ reconnector' = [reconnector EXCEPT ![c] = Off]
            /\ UNCHANGED reconnecting
       ELSE /\ reconnector' = [reconnector EXCEPT ![c] = [pc |-> "check", attempt |-> 1]]
            /\ reconnecting' = TRUE
    /\ UNCHANGED <<main, cancelled, link, done, receiver, heartbeat, panicked, breaks>>

\* The head of the loop over the attempts.
ReconnectCheck(c) ==
    /\ Alive
    /\ reconnector[c].pc = "check"
    /\ reconnector' = [reconnector EXCEPT ![c].pc = IF cancelled THEN "finish" ELSE "sleep"]
    /\ UNCHANGED <<main, cancelled, link, reconnecting, done, receiver, heartbeat, panicked,
                   breaks>>

CloseDone ==
    /\ done' = done + 1
    /\ panicked' = (panicked \/ done > 0)

LastAttemptOneLate(c) == reconnector[c].attempt > MaxAttempts

LastAttempt(c) == reconnector[c].attempt = MaxAttempts

\* After the delay: the old stream and connection are dropped and a new one is
\* tried, in one critical section.  The last attempt that fails closes c.done.
ReconnectAttempt(c) ==
    /\ reconnector[c].pc = "sleep"
    /\ MutexFree
    /\ connectionID' = FALSE
    /\ \/ /\ DoConnect("nil", "nil", TRUE)
          /\ StartLoops
          /\ reconnector' = [reconnector EXCEPT ![c].pc = "finish"]
          /\ UNCHANGED <<done, panicked>>
       \/ /\ DoConnect("nil", "nil", FALSE)
          /\ ~ LastAttempt(c)
          /\ reconnector' = [reconnector EXCEPT ![c].pc = "check", ![c].attempt = @ + 1]
          /\ UNCHANGED <<receiver, heartbeat, done, panicked>>
       \/ /\ DoConnect("nil", "nil", FALSE)
          /\ LastAttempt(c)
          /\ reconnector' = [reconnector EXCEPT ![c].pc = "finish"]
          /\ CloseDone
          /\ UNCHANGED <<receiver, heartbeat>>
    /\ UNCHANGED <<main, cancelled, reconnecting, breaks>>

ReconnectFinishWithoutReset(c) ==
    /\ reconnector[c].pc = "finish"
    /\ MutexFree
    /\ reconnector' = [reconnector EXCEPT ![c] = Off]
    /\ UNCHANGED <<main, cancelled, link, reconnecting, done, receiver, heartbeat, panicked,
                   breaks>>

\* The deferred function, which runs after the new loops have been started.
ReconnectFinish(c) ==
    /\ reconnector[c].pc = "finish"
    /\ MutexFree
    /\ reconnecting' = FALSE
    /\ reconnector' = [reconnector EXCEPT ![c] = Off]
    /\ UNCHANGED <<main, cancelled, link, done, receiver, heartbeat, panicked, breaks>>
-----------------------------------------------------------------------------
(* receiveLoop                                                             *)

ReceiverGoesTo(r, pc) == receiver' = [receiver EXCEPT ![r] = pc]

ReceiveCheckWithoutReturn(r) ==
    /\ Alive
    /\ receiver[r] = "loop"
    /\ ReceiverGoesTo(r, "recv")
    /\ IF cancelled THEN CloseDone ELSE UNCHANGED <<done, panicked>>
    /\ UNCHANGED <<main, cancelled, link, reconnecting, reconnector, heartbeat, breaks>>

\* A cancelled context ends the loop, and only then is c.done closed.
ReceiveCheck(r) ==
    /\ Alive
    /\ receiver[r] = "loop"
    /\ \/ cancelled /\ ReceiverGoesTo(r, "off") /\ CloseDone
       \/ ~ cancelled /\ ReceiverGoesTo(r, "recv") /\ UNCHANGED <<done, panicked>>
    /\ UNCHANGED <<main, cancelled, link, reconnecting, reconnector, heartbeat, breaks>>

\* Recv returns a message: a request or a status is handled, anything else is
\* logged.
ReceiveMessage(r) ==
    /\ Alive
    /\ receiver[r] = "recv"
    /\ stream = "up"
    /\ \E pc \in {"request", "status", "loop"} : ReceiverGoesTo(r, pc)
    /\ UNCHANGED <<main, cancelled, link, reconnecting, done, reconnector, heartbeat, panicked,
                   breaks>>

StartReconnectNever == UNCHANGED reconnector

\* go c.reconnect()
StartReconnect ==
    \E c \in Reconnectors : /\ reconnector[c] = Off
                            /\ reconnector' = [reconnector EXCEPT ![c].pc = "start"]

ReceiveErrorWithoutReturn(r) ==
    /\ Alive
    /\ receiver[r] = "recv"
    /\ stream = "failed"
    /\ ReceiverGoesTo(r, "loop")
    /\ StartReconnect
    /\ UNCHANGED <<main, cancelled, link, reconnecting, done, heartbeat, panicked, breaks>>

\* Recv fails: go c.reconnect() and the end of this loop, or the end of the client.
ReceiveError(r) ==
    /\ Alive
    /\ receiver[r] = "recv"
    /\ stream = "failed" \/ cancelled
    /\ ReceiverGoesTo(r, "off")
    /\ \/ /\ cancelled
          /\ CloseDone
          /\ UNCHANGED reconnector
       \/ /\ ~ cancelled
          /\ StartReconnect
          /\ UNCHANGED <<done, panicked>>
    /\ UNCHANGED <<main, cancelled, link, reconnecting, heartbeat, breaks>>

\* handleServiceRequest sends the response under the mutex; its error is logged.
HandleServiceRequest(r) ==
    /\ receiver[r] = "request"
    /\ MutexFree
    /\ ReceiverGoesTo(r, "loop")
    /\ panicked' = (panicked \/ stream = "nil")
    /\ UNCHANGED <<main, cancelled, link, reconnecting, done, reconnector, heartbeat, breaks>>

HandleStatus(r) ==
    /\ receiver[r] = "status"
    /\ MutexFree
    /\ ReceiverGoesTo(r, "loop")
    /\ connectionID' = TRUE
    /\ UNCHANGED <<main, cancelled, stream, conn, reconnecting, done, reconnector, heartbeat,
                   panicked, breaks>>
-----------------------------------------------------------------------------
(* heartbeatLoop                                                           *)

HeartbeatGoesTo(b, pc) == heartbeat' = [heartbeat EXCEPT ![b] = pc]

HeartbeatCancelled(b) ==
    /\ Alive
    /\ heartbeat[b] = "wait"
    /\ cancelled
    /\ HeartbeatGoesTo(b, "off")
    /\ UNCHANGED <<main, cancelled, link, reconnecting, done, receiver, reconnector, panicked,
                   breaks>>

\* A tick reads c.connectionID and c.stream in one critical section ...
HeartbeatTick(b) ==
    /\ heartbeat[b] = "wait"
    /\ MutexFree
    /\ connectionID /\ stream # "nil"
    /\ HeartbeatGoesTo(b, "send")
    /\ UNCHANGED <<main, cancelled, link, reconnecting, done, receiver, reconnector, panicked,
                   breaks>>

\* ... and sends on c.stream in another.  A failed send ends the loop.
HeartbeatSend(b) ==
    /\ heartbeat[b] = "send"
    /\ MutexFree
    /\ \/ stream # "nil" /\ HeartbeatGoesTo(b, "wait") /\ UNCHANGED panicked
       \/ stream # "nil" /\ HeartbeatGoesTo(b, "off") /\ UNCHANGED panicked
       \/ stream = "nil" /\ HeartbeatGoesTo(b, "off") /\ panicked' = TRUE
    /\ UNCHANGED <<main, cancelled, link, reconnecting, done, receiver, reconnector, breaks>>
-----------------------------------------------------------------------------
(* Close and the gateway                                                   *)

CloseCancel ==
    /\ Alive
    /\ main = "running"
    /\ main' = "cancelled"
    /\ cancelled' = TRUE
    /\ UNCHANGED <<link, reconnecting, done, receiver, reconnector, heartbeat, panicked, breaks>>

\* Under the mutex the stream and the connection are closed.  The error of a
\* connection that is closed already ends Close without waiting.
CloseConnection ==
    /\ Alive
    /\ main = "cancelled"
    /\ main' = IF conn = "closed" THEN "closed" ELSE "waiting"
    /\ conn' = IF conn = "nil" THEN "nil" ELSE "closed"
    /\ stream' = IF stream = "nil" THEN "nil" ELSE "failed"
    /\ UNCHANGED <<cancelled, connectionID, reconnecting, done, receiver, reconnector, heartbeat,
                   panicked, breaks>>

\* <-c.done, with the mutex held.
CloseReturn ==
    /\ Alive
    /\ main = "waiting"
    /\ done > 0
    /\ main' = "closed"
    /\ UNCHANGED <<cancelled, link, reconnecting, done, receiver, reconnector, heartbeat,
                   panicked, breaks>>

\* The gateway or the network ends the stream.
StreamBreaks ==
    /\ Alive
    /\ stream = "up"
    /\ breaks < MaxBreaks
    /\ breaks' = breaks + 1
    /\ stream' = "failed"
    /\ UNCHANGED <<main, cancelled, conn, connectionID, reconnecting, done, receiver,
                   reconnector, heartbeat, panicked>>

Reconnect(c) == ReconnectStart(c) \/ ReconnectCheck(c) \/ ReconnectAttempt(c) \/ ReconnectFinish(c)

ReceiveLoop(r) ==
    \/ ReceiveCheck(r)
    \/ ReceiveMessage(r)
    \/ ReceiveError(r)
    \/ HandleServiceRequest(r)
    \/ HandleStatus(r)

HeartbeatLoop(b) == HeartbeatCancelled(b) \/ HeartbeatTick(b) \/ HeartbeatSend(b)

Close == CloseCancel \/ CloseConnection \/ CloseReturn

Next ==
    \/ Connect
    \/ \E c \in Reconnectors : Reconnect(c)
    \/ \E r \in Receivers : ReceiveLoop(r)
    \/ \E b \in Heartbeats : HeartbeatLoop(b)
    \/ Close
    \/ StreamBreaks

Spec == Init /\ [][Next]_vars

\* Go runs every goroutine that can run, and a mutex is handed to its waiters in
\* turn.  Neither messages nor a shutdown nor a break of the stream need happen.
FairSpec ==
    /\ Spec
    /\ WF_vars(CloseConnection \/ CloseReturn)
    /\ \A c \in Reconnectors : WF_vars(Reconnect(c))
    /\ \A r \in Receivers :
          /\ WF_vars(ReceiveCheck(r) \/ ReceiveError(r))
          /\ WF_vars(HandleServiceRequest(r) \/ HandleStatus(r))
    /\ \A b \in Heartbeats : WF_vars(HeartbeatLoop(b))
-----------------------------------------------------------------------------
\* c.done is closed at most once, whichever of receive loop and reconnect ends
\* the client; closing a closed channel panics.
DoneClosedOnce == done <= 1

\* c.stream is read without the mutex: at most one receive loop does so, for gRPC forbids
\* concurrent Recv calls and two loops would both start a reconnect; and while one does, no
\* reconnect is still to provide another stream, so nobody replaces the one that is read.
StreamHasOneUser ==
    /\ Cardinality({r \in Receivers : receiver[r] # "off"}) <= 1
    /\ \A r \in Receivers, c \in Reconnectors :
          receiver[r] # "off" => reconnector[c].pc \notin {"check", "sleep"}

\* A reconnection comes to an end, unless Close holds the mutex.
ReconnectEnds == reconnecting ~> ~ reconnecting \/ main \in {"waiting", "closed"} \/ panicked

\* A break of the stream is repaired or ends in giving up, unless a second break
\* follows it: until then a client that has not been closed has a receive loop or
\* a reconnect that will start one.
OneBreakIsRepaired ==
    main = "running" /\ done = 0 /\ breaks <= 1 =>
        \/ \E r \in Receivers : receiver[r] # "off"
        \/ \E c \in Reconnectors : reconnector[c].pc \in {"start", "check", "sleep"}

\* Close returns.
CloseReturns == main = "cancelled" ~> main = "closed" \/ panicked
=============================================================================
