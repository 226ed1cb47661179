-------------------------- MODULE GrpcClientProofs --------------------------
(***************************************************************************)
(* Safety of the gateway client for any number of receive loops,           *)
(* reconnects, heartbeats, attempts and breaks.  One goroutine at a time   *)
(* has the stream in its care: the receive loop that reads it, or the      *)
(* reconnect that is to provide another.                                   *)
(***************************************************************************)
EXTENDS GrpcClient, FiniteSetTheorems, TLAPS

Reading(r) == receiver[r] # "off"
Repairing(c) == reconnector[c].pc \in {"start", "check", "sleep"}

\* The stream is in the care of at most one goroutine.
OneCares ==
    /\ \A r, s \in Receivers : Reading(r) /\ Reading(s) => r = s
    /\ \A c, d \in Reconnectors : Repairing(c) /\ Repairing(d) => c = d
    /\ \A r \in Receivers, c \in Reconnectors : ~ (Reading(r) /\ Repairing(c))

\* Before the client is connected, and after c.done has been closed, it is in nobody's.
NobodyCares ==
    done > 0 \/ main \in {"connect", "without"} =>
        /\ \A r \in Receivers : ~ Reading(r)
        /\ \A c \in Reconnectors : ~ Repairing(c)

DoneOnce == done \in {0, 1}

\* What the main goroutine has done so far.
MainInOrder ==
    /\ cancelled = TRUE => main \in {"cancelled", "waiting", "closed"}
    /\ main = "connect" => stream = "nil" /\ done = 0 /\ breaks = 0 /\ reconnecting = FALSE

\* No break so far: the receive loop reads a stream that works.  One break: it has not been
\* noticed, or a reconnect is about to take it up and finds the flag free, or has done so, or
\* the stream works again, which a second break would have to change.
BreakInCare == main = "running" /\ done = 0 =>
    /\ breaks = 0 => /\ stream = "up" /\ reconnecting = FALSE
                     /\ \E r \in Receivers : Reading(r)
    /\ breaks = 1 => \/ /\ \E r \in Receivers : Reading(r)
                        /\ stream = "up" \/ reconnecting = FALSE
                     \/ \E c \in Reconnectors : reconnector[c].pc = "start" /\ reconnecting = FALSE
                     \/ \E c \in Reconnectors : reconnector[c].pc \in {"check", "sleep"}

IInv == TypeOK /\ OneCares /\ NobodyCares /\ DoneOnce /\ MainInOrder /\ BreakInCare
-----------------------------------------------------------------------------
(* Types                                                                   *)

\* Init sets every variable to a value of its type.
LEMMA InitTypes == Init => TypeOK
<1> SUFFICES ASSUME Init PROVE TypeOK
  OBVIOUS
<1>1. 0 \in 0..MaxAttempts /\ 0 \in 0..MaxBreaks
  BY AttemptsAssumption, BoundAssumption
<1>2. Off \in [pc : {"off", "start", "check", "sleep", "finish"}, attempt : 0..MaxAttempts]
  BY <1>1 DEF Off
<1>3. reconnector \in [Reconnectors -> [pc : {"off", "start", "check", "sleep", "finish"}, attempt : 0..MaxAttempts]]
  BY <1>2 DEF Init
<1>4. /\ receiver \in [Receivers -> {"off", "loop", "recv", "request", "status"}]
      /\ heartbeat \in [Heartbeats -> {"off", "wait", "send"}]
  BY DEF Init
<1> QED BY <1>1, <1>3, <1>4 DEF Init, TypeOK

\* doConnect leaves a stream and a connection of their types.
LEMMA ConnectTypes ==
    ASSUME NEW s \in {"nil", "up", "failed"}, NEW k \in {"nil", "open", "closed"}, NEW ok \in BOOLEAN,
           DoConnect(s, k, ok)
    PROVE  stream' \in {"nil", "up", "failed"} /\ conn' \in {"nil", "open", "closed"}
BY DEF DoConnect

\* The loops that are started are in their places.
LEMMA LoopTypes ==
    ASSUME TypeOK, StartLoops
    PROVE  /\ receiver' \in [Receivers -> {"off", "loop", "recv", "request", "status"}]
           /\ heartbeat' \in [Heartbeats -> {"off", "wait", "send"}]
BY DEF TypeOK, StartLoops

\* c.done counts up, and the flag of the panic stays Boolean.
LEMMA CloseDoneTypes ==
    ASSUME TypeOK, CloseDone
    PROVE  done' \in Nat /\ panicked' \in BOOLEAN
<1>1. done' \in Nat
  BY DEF TypeOK, CloseDone
<1>2. panicked' \in BOOLEAN
  BY Zenon DEF TypeOK, CloseDone
<1> QED BY <1>1, <1>2

\* A goroutine of reconnect keeps its attempt within the limit.
LEMMA ReconnectorTypes ==
    ASSUME TypeOK, NEW c \in Reconnectors, NEW pc \in {"off", "start", "check", "sleep", "finish"},
           NEW n \in 0..MaxAttempts
    PROVE  /\ [reconnector EXCEPT ![c] = [pc |-> pc, attempt |-> n]] \in
                 [Reconnectors -> [pc : {"off", "start", "check", "sleep", "finish"}, attempt : 0..MaxAttempts]]
           /\ [reconnector EXCEPT ![c].pc = pc] \in
                 [Reconnectors -> [pc : {"off", "start", "check", "sleep", "finish"}, attempt : 0..MaxAttempts]]
           /\ [reconnector EXCEPT ![c].pc = pc, ![c].attempt = n] \in
                 [Reconnectors -> [pc : {"off", "start", "check", "sleep", "finish"}, attempt : 0..MaxAttempts]]
BY DEF TypeOK

\* Connect
LEMMA ConnectTypeOK == TypeOK /\ Connect => TypeOK'
<1> SUFFICES ASSUME TypeOK, Connect PROVE TypeOK'
  OBVIOUS
<1>1. stream' \in {"nil", "up", "failed"} /\ conn' \in {"nil", "open", "closed"}
  BY ConnectTypes DEF TypeOK, Connect
<1>2. /\ receiver' \in [Receivers -> {"off", "loop", "recv", "request", "status"}]
      /\ heartbeat' \in [Heartbeats -> {"off", "wait", "send"}]
  BY LoopTypes DEF TypeOK, Connect
<1> QED BY <1>1, <1>2 DEF TypeOK, Connect

\* The steps of reconnect, but for the attempt.
LEMMA ReconnectTypeOK ==
    ASSUME TypeOK, NEW c \in Reconnectors, ReconnectStart(c) \/ ReconnectCheck(c) \/ ReconnectFinish(c)
    PROVE  TypeOK'
<1> USE DEF link
<1>1. 0 \in 0..MaxAttempts /\ 1 \in 0..MaxAttempts
  BY AttemptsAssumption
<1>2. CASE ReconnectStart(c)
  <2>1. reconnector' \in [Reconnectors -> [pc : {"off", "start", "check", "sleep", "finish"}, attempt : 0..MaxAttempts]]
    <3>1. \/ reconnector' = [reconnector EXCEPT ![c] = [pc |-> "off", attempt |-> 0]]
          \/ reconnector' = [reconnector EXCEPT ![c] = [pc |-> "check", attempt |-> 1]]
      BY <1>2 DEF ReconnectStart, Off
    <3>2. CASE reconnector' = [reconnector EXCEPT ![c] = [pc |-> "off", attempt |-> 0]]
      BY <1>1, <3>2, ReconnectorTypes
    <3>3. CASE reconnector' = [reconnector EXCEPT ![c] = [pc |-> "check", attempt |-> 1]]
      BY <1>1, <3>3, ReconnectorTypes
    <3> QED BY <3>1, <3>2, <3>3
  <2>2. reconnecting' \in BOOLEAN
    BY <1>2 DEF ReconnectStart, TypeOK
  <2> QED BY <1>2, <2>1, <2>2 DEF ReconnectStart, TypeOK
<1>3. CASE ReconnectCheck(c)
  <2>1. reconnector' \in [Reconnectors -> [pc : {"off", "start", "check", "sleep", "finish"}, attempt : 0..MaxAttempts]]
    BY <1>1, <1>3, ReconnectorTypes DEF ReconnectCheck
  <2> QED BY <1>3, <2>1 DEF ReconnectCheck, TypeOK
<1>4. CASE ReconnectFinish(c)
  <2>1. reconnector' \in [Reconnectors -> [pc : {"off", "start", "check", "sleep", "finish"}, attempt : 0..MaxAttempts]]
    BY <1>1, <1>4, ReconnectorTypes DEF ReconnectFinish, Off
  <2> QED BY <1>4, <2>1 DEF ReconnectFinish, TypeOK
<1> QED BY <1>2, <1>3, <1>4

\* The attempt of a reconnect.
LEMMA AttemptTypeOK ==
    ASSUME TypeOK, NEW c \in Reconnectors, ReconnectAttempt(c)
    PROVE  TypeOK'
<1>1. stream' \in {"nil", "up", "failed"} /\ conn' \in {"nil", "open", "closed"}
  BY ConnectTypes DEF ReconnectAttempt
<1>2. /\ receiver' \in [Receivers -> {"off", "loop", "recv", "request", "status"}]
      /\ heartbeat' \in [Heartbeats -> {"off", "wait", "send"}]
  BY LoopTypes DEF TypeOK, ReconnectAttempt
<1>3. done' \in Nat /\ panicked' \in BOOLEAN
  BY CloseDoneTypes DEF TypeOK, ReconnectAttempt
<1>4. reconnector' \in [Reconnectors -> [pc : {"off", "start", "check", "sleep", "finish"}, attempt : 0..MaxAttempts]]
  <2>1. CASE ~ LastAttempt(c) /\ reconnector' = [reconnector EXCEPT ![c].pc = "check", ![c].attempt = @ + 1]
    <3>1. reconnector[c].attempt \in 0..MaxAttempts /\ reconnector[c].attempt # MaxAttempts
      BY <2>1 DEF TypeOK, LastAttempt
    <3>2. reconnector[c].attempt + 1 \in 0..MaxAttempts
      BY <3>1, AttemptsAssumption
    <3>3. reconnector' = [reconnector EXCEPT ![c].pc = "check", ![c].attempt = reconnector[c].attempt + 1]
      BY <2>1 DEF TypeOK
    <3> QED BY <3>2, <3>3, ReconnectorTypes
  <2>2. CASE reconnector' = [reconnector EXCEPT ![c].pc = "finish"]
    <3>1. 0 \in 0..MaxAttempts
      BY AttemptsAssumption
    <3> QED BY <2>2, <3>1, ReconnectorTypes
  <2> QED BY <2>1, <2>2 DEF ReconnectAttempt
<1> QED BY <1>1, <1>2, <1>3, <1>4 DEF ReconnectAttempt, TypeOK

\* The steps of receiveLoop.
LEMMA ReceiveTypeOK ==
    ASSUME TypeOK, NEW r \in Receivers, ReceiveLoop(r)
    PROVE  TypeOK'
<1> USE DEF link
<1>1. receiver' \in [Receivers -> {"off", "loop", "recv", "request", "status"}]
  BY DEF TypeOK, ReceiveLoop, ReceiveCheck, ReceiveMessage, ReceiveError, HandleServiceRequest, HandleStatus,
         ReceiverGoesTo
<1>2. CASE ReceiveCheck(r)
  <2>1. done' \in Nat /\ panicked' \in BOOLEAN
    BY <1>2, CloseDoneTypes DEF TypeOK, ReceiveCheck
  <2> QED BY <1>1, <1>2, <2>1 DEF TypeOK, ReceiveCheck
<1>3. CASE ReceiveMessage(r)
  BY <1>1, <1>3 DEF TypeOK, ReceiveMessage
<1>4. CASE ReceiveError(r)
  <2>1. done' \in Nat /\ panicked' \in BOOLEAN
    BY <1>4, CloseDoneTypes DEF TypeOK, ReceiveError
  <2>2. reconnector' \in [Reconnectors -> [pc : {"off", "start", "check", "sleep", "finish"}, attempt : 0..MaxAttempts]]
    <3>1. 0 \in 0..MaxAttempts
      BY AttemptsAssumption
    <3>2. CASE StartReconnect
      <4>1. PICK c \in Reconnectors : reconnector' = [reconnector EXCEPT ![c].pc = "start"]
        BY <3>2 DEF StartReconnect
      <4> QED BY <3>1, <4>1, ReconnectorTypes
    <3>3. CASE UNCHANGED reconnector
      BY <3>3 DEF TypeOK
    <3> QED BY <1>4, <3>2, <3>3 DEF ReceiveError
  <2> QED BY <1>1, <1>4, <2>1, <2>2 DEF TypeOK, ReceiveError
<1>5. CASE HandleServiceRequest(r)
  <2>1. panicked' \in BOOLEAN
    BY <1>5, Zenon DEF TypeOK, HandleServiceRequest
  <2> QED BY <1>1, <1>5, <2>1 DEF TypeOK, HandleServiceRequest
<1>6. CASE HandleStatus(r)
  BY <1>1, <1>6 DEF TypeOK, HandleStatus
<1> QED BY <1>2, <1>3, <1>4, <1>5, <1>6 DEF ReceiveLoop

\* The heartbeats, Close and the gateway.
LEMMA OtherTypeOK ==
    ASSUME TypeOK, (\E b \in Heartbeats : HeartbeatLoop(b)) \/ Close \/ StreamBreaks
    PROVE  TypeOK'
<1> USE DEF link
<1>1. ASSUME NEW b \in Heartbeats, HeartbeatLoop(b) PROVE TypeOK'
  <2>1. CASE HeartbeatCancelled(b)
    BY <2>1 DEF TypeOK, HeartbeatCancelled, HeartbeatGoesTo
  <2>2. CASE HeartbeatTick(b)
    BY <2>2 DEF TypeOK, HeartbeatTick, HeartbeatGoesTo
  <2>3. CASE HeartbeatSend(b)
    <3>1. panicked' \in BOOLEAN
      BY <2>3, Zenon DEF TypeOK, HeartbeatSend
    <3>2. heartbeat' \in [Heartbeats -> {"off", "wait", "send"}]
      BY <2>3 DEF TypeOK, HeartbeatSend, HeartbeatGoesTo
    <3> QED BY <2>3, <3>1, <3>2 DEF TypeOK, HeartbeatSend
  <2> QED BY <1>1, <2>1, <2>2, <2>3 DEF HeartbeatLoop
<1>2. CASE CloseCancel
  BY <1>2 DEF TypeOK, CloseCancel
<1>3. CASE CloseConnection \/ CloseReturn
  BY <1>3 DEF TypeOK, CloseConnection, CloseReturn
<1>4. CASE StreamBreaks
  BY <1>4, BoundAssumption DEF TypeOK, StreamBreaks
<1> QED BY <1>1, <1>2, <1>3, <1>4 DEF Close

\* Every step keeps the types.
LEMMA NextTypes == TypeOK /\ [Next]_vars => TypeOK'
<1> SUFFICES ASSUME TypeOK, [Next]_vars PROVE TypeOK'
  OBVIOUS
<1>1. CASE UNCHANGED vars
  BY <1>1 DEF vars, TypeOK
<1>2. ASSUME NEW c \in Reconnectors, Reconnect(c) PROVE TypeOK'
  BY <1>2, ReconnectTypeOK, AttemptTypeOK DEF Reconnect
<1> QED BY <1>1, <1>2, ConnectTypeOK, ReceiveTypeOK, OtherTypeOK DEF Next

\* Every variable of the client keeps its type (client.go), for every value of the constants.
THEOREM TypeCorrect == Spec => []TypeOK
<1> QED BY InitTypes, NextTypes, PTL DEF Spec
-----------------------------------------------------------------------------
(* Who has the stream in its care                                          *)

Care == OneCares /\ NobodyCares /\ DoneOnce /\ MainInOrder /\ BreakInCare

\* Nobody has it at the start.
LEMMA InitCare == Init => Care
BY DEF Init, Care, OneCares, NobodyCares, DoneOnce, MainInOrder, BreakInCare, Reading, Repairing, Off

\* The first receive loop takes it over.
LEMMA LoopsStart ==
    ASSUME TypeOK, StartLoops
    PROVE  \E r \in Receivers : /\ receiver[r] = "off" /\ receiver'[r] = "loop"
                                /\ \A s \in Receivers \ {r} : receiver'[s] = receiver[s]
<1>1. PICK r \in Receivers : receiver[r] = "off" /\ receiver' = [receiver EXCEPT ![r] = "loop"]
  BY DEF StartLoops
<1>2. receiver'[r] = "loop" /\ (\A s \in Receivers \ {r} : receiver'[s] = receiver[s])
  BY <1>1 DEF TypeOK
<1> QED BY <1>1, <1>2

\* Connect hands the stream to the receive loop it starts, and nobody had it before.
LEMMA ConnectCare ==
    ASSUME TypeOK, Care, Connect
    PROVE  Care'
<1>1. /\ \A r \in Receivers : ~ Reading(r)
      /\ \A c \in Reconnectors : ~ Repairing(c)
      /\ done = 0 /\ breaks = 0 /\ cancelled \in BOOLEAN /\ cancelled # TRUE /\ reconnecting = FALSE
  BY DEF Connect, Care, NobodyCares, MainInOrder, TypeOK
<1>2. UNCHANGED <<cancelled, connectionID, reconnecting, done, reconnector, panicked, breaks>>
  BY DEF Connect
<1>3. CASE DoConnect(stream, conn, TRUE) /\ StartLoops /\ main' = "running"
  <2>1. PICK r \in Receivers : /\ receiver[r] = "off" /\ receiver'[r] = "loop"
                               /\ \A s \in Receivers \ {r} : receiver'[s] = receiver[s]
    BY <1>3, LoopsStart
  <2>2. stream' = "up"
    BY <1>3 DEF DoConnect
  <2>3. Reading(r)' /\ (\A s \in Receivers \ {r} : ~ Reading(s)') /\ (\A c \in Reconnectors : ~ Repairing(c)')
    BY <1>1, <1>2, <2>1 DEF Reading, Repairing
  <2>4. OneCares'
    BY <2>3 DEF OneCares
  <2>5. NobodyCares' /\ DoneOnce' /\ MainInOrder'
    <3>1. done' = 0 /\ main' = "running" /\ cancelled' # TRUE
      BY <1>1, <1>2, <1>3
    <3>2. NobodyCares' /\ DoneOnce'
      BY <3>1 DEF NobodyCares, DoneOnce
    <3>3. MainInOrder'
      BY <3>1 DEF MainInOrder
    <3> QED BY <3>2, <3>3
  <2>6. BreakInCare'
    BY <1>1, <1>2, <2>2, <2>3 DEF BreakInCare
  <2> QED BY <2>4, <2>5, <2>6 DEF Care
<1>4. CASE main' = "without" /\ UNCHANGED <<receiver, heartbeat>>
  BY <1>1, <1>2, <1>4
     DEF Care, OneCares, NobodyCares, DoneOnce, MainInOrder, BreakInCare, Reading, Repairing
<1> QED BY <1>3, <1>4 DEF Connect

\* A reconnect that finds the flag set leaves the stream to another one; else it goes on.
LEMMA ReconnectStartCare ==
    ASSUME TypeOK, Care, NEW c \in Reconnectors, ReconnectStart(c)
    PROVE  Care'
<1>1. /\ UNCHANGED <<main, cancelled, stream, done, receiver, breaks>>
      /\ reconnector[c].pc = "start"
      /\ \A d \in Reconnectors \ {c} : reconnector'[d] = reconnector[d]
  BY DEF ReconnectStart, TypeOK, link
<1>2. main \in {"connect", "without"} => FALSE
  BY <1>1 DEF Care, NobodyCares, Repairing
<1>3. done # 0 => FALSE
  BY <1>1 DEF Care, NobodyCares, Repairing, TypeOK
<1>4. \A d \in Reconnectors \ {c} : ~ Repairing(d)
  BY <1>1 DEF Care, OneCares, Repairing
<1>5. \A r \in Receivers : ~ Reading(r)
  BY <1>1 DEF Care, OneCares, Repairing
<1>6. CASE reconnecting = TRUE
  <2>1. reconnector'[c].pc = "off"
    BY <1>6 DEF ReconnectStart, TypeOK, Off
  <2>2. ~ (main = "running" /\ breaks <= 1)
    BY <1>1, <1>3, <1>4, <1>5, <1>6 DEF Care, BreakInCare, Repairing, TypeOK
  <2> QED BY <1>1, <1>2, <1>3, <1>4, <1>5, <2>1, <2>2
          DEF Care, OneCares, NobodyCares, DoneOnce, MainInOrder, BreakInCare, Reading, Repairing
<1>7. CASE reconnecting = FALSE
  <2>1. reconnector'[c].pc = "check"
    BY <1>7 DEF ReconnectStart, TypeOK
  <2>2. main = "running" => breaks # 0
    BY <1>1, <1>3, <1>4, <1>5 DEF Care, BreakInCare, Repairing, TypeOK
  <2> QED BY <1>1, <1>2, <1>3, <1>4, <1>5, <2>1, <2>2
          DEF Care, OneCares, NobodyCares, DoneOnce, MainInOrder, BreakInCare, Reading, Repairing
<1> QED BY <1>6, <1>7 DEF TypeOK

\* A reconnect that finds the context cancelled gives the stream up, but then Close is at work.
LEMMA ReconnectCheckCare ==
    ASSUME TypeOK, Care, NEW c \in Reconnectors, ReconnectCheck(c)
    PROVE  Care'
<1>1. /\ UNCHANGED <<main, cancelled, stream, reconnecting, done, receiver, breaks>>
      /\ reconnector[c].pc = "check"
      /\ \A d \in Reconnectors \ {c} : reconnector'[d] = reconnector[d]
  BY DEF ReconnectCheck, TypeOK, link
<1>3. \/ cancelled = TRUE /\ reconnector'[c].pc = "finish"
      \/ cancelled = FALSE /\ reconnector'[c].pc = "sleep"
  <2>1. CASE cancelled = TRUE
    BY <2>1 DEF ReconnectCheck, TypeOK
  <2>2. CASE cancelled = FALSE
    BY <2>2 DEF ReconnectCheck, TypeOK
  <2> QED BY <2>1, <2>2 DEF TypeOK
<1>2. cancelled = TRUE => main # "running"
  BY DEF Care, MainInOrder
<1> QED BY <1>1, <1>2, <1>3 DEF Care, OneCares, NobodyCares, DoneOnce, MainInOrder, BreakInCare, Reading, Repairing

\* An attempt hands the stream to a new receive loop, or keeps it in care for the next attempt,
\* or gives up and says so by closing c.done.
LEMMA AttemptCare ==
    ASSUME TypeOK, Care, NEW c \in Reconnectors, ReconnectAttempt(c)
    PROVE  Care'
<1>1. /\ UNCHANGED <<main, cancelled, reconnecting, breaks>>
      /\ reconnector[c].pc = "sleep"
  BY DEF ReconnectAttempt
<1>2. /\ main \notin {"connect", "without"} /\ done = 0
      /\ \A d \in Reconnectors \ {c} : ~ Repairing(d)
      /\ \A r \in Receivers : ~ Reading(r)
  BY <1>1 DEF Care, OneCares, NobodyCares, Repairing, TypeOK
<1>3. \A d \in Reconnectors \ {c} : reconnector'[d] = reconnector[d]
  BY DEF ReconnectAttempt, TypeOK
<1>4. main = "running" => breaks # 0
  BY <1>1, <1>2 DEF Care, BreakInCare, TypeOK
<1>5. MainInOrder'
  BY <1>1, <1>2 DEF Care, MainInOrder
<1>6. CASE DoConnect("nil", "nil", TRUE) /\ StartLoops /\ reconnector' = [reconnector EXCEPT ![c].pc = "finish"]
           /\ UNCHANGED <<done, panicked>>
  <2>1. PICK r \in Receivers : /\ receiver[r] = "off" /\ receiver'[r] = "loop"
                               /\ \A s \in Receivers \ {r} : receiver'[s] = receiver[s]
    BY <1>6, LoopsStart
  <2>2. stream' = "up" /\ reconnector'[c].pc = "finish"
    BY <1>6 DEF DoConnect, TypeOK
  <2>3. Reading(r)' /\ (\A s \in Receivers \ {r} : ~ Reading(s)') /\ (\A d \in Reconnectors : ~ Repairing(d)')
    BY <1>2, <1>3, <2>1, <2>2 DEF Reading, Repairing
  <2>4. OneCares' /\ NobodyCares' /\ DoneOnce'
    BY <1>1, <1>2, <1>6, <2>3 DEF OneCares, NobodyCares, DoneOnce
  <2>5. BreakInCare'
    BY <1>1, <1>4, <2>2, <2>3 DEF BreakInCare
  <2> QED BY <1>5, <2>4, <2>5 DEF Care
<1>7. CASE ~ LastAttempt(c) /\ reconnector' = [reconnector EXCEPT ![c].pc = "check", ![c].attempt = @ + 1]
           /\ UNCHANGED <<receiver, heartbeat, done, panicked>>
  <2>1. reconnector'[c].pc = "check"
    BY <1>7 DEF TypeOK
  <2>2. (\A r \in Receivers : ~ Reading(r)') /\ (\A d \in Reconnectors \ {c} : ~ Repairing(d)')
    BY <1>2, <1>3, <1>7 DEF Reading, Repairing
  <2>3. OneCares' /\ NobodyCares' /\ DoneOnce'
    BY <1>1, <1>2, <1>7, <2>2 DEF OneCares, NobodyCares, DoneOnce
  <2>4. BreakInCare'
    BY <1>1, <1>4, <2>1, <2>2 DEF BreakInCare
  <2> QED BY <1>5, <2>3, <2>4 DEF Care
<1>8. CASE LastAttempt(c) /\ reconnector' = [reconnector EXCEPT ![c].pc = "finish"] /\ CloseDone
           /\ UNCHANGED <<receiver, heartbeat>>
  <2>1. reconnector'[c].pc = "finish" /\ done' = 1
    BY <1>2, <1>8 DEF TypeOK, CloseDone
  <2>2. (\A r \in Receivers : ~ Reading(r)') /\ (\A d \in Reconnectors : ~ Repairing(d)')
    BY <1>2, <1>3, <1>8, <2>1 DEF Reading, Repairing
  <2>3. OneCares' /\ NobodyCares' /\ DoneOnce' /\ BreakInCare'
    BY <2>1, <2>2 DEF OneCares, NobodyCares, DoneOnce, BreakInCare
  <2> QED BY <1>5, <2>3 DEF Care
<1> QED BY <1>6, <1>7, <1>8 DEF ReconnectAttempt

\* A reconnect that ends has nothing in its care.
LEMMA ReconnectFinishCare ==
    ASSUME TypeOK, Care, NEW c \in Reconnectors, ReconnectFinish(c)
    PROVE  Care'
<1>1. /\ UNCHANGED <<main, cancelled, stream, done, receiver, breaks>>
      /\ reconnector[c].pc = "finish" /\ reconnector'[c].pc = "off" /\ reconnecting' = FALSE
      /\ \A d \in Reconnectors \ {c} : reconnector'[d] = reconnector[d]
  BY DEF ReconnectFinish, TypeOK, link, Off
<1> QED BY <1>1 DEF Care, OneCares, NobodyCares, DoneOnce, MainInOrder, BreakInCare, Reading, Repairing

\* A receive loop that goes on keeps the stream in its care.
LEMMA ReceiverGoesOn ==
    ASSUME TypeOK, Care, NEW r \in Receivers, Reading(r), NEW pc \in {"loop", "recv", "request", "status"},
           ReceiverGoesTo(r, pc), UNCHANGED <<main, cancelled, stream, reconnecting, done, reconnector, breaks>>
    PROVE  Care'
<1>1. receiver'[r] = pc /\ (\A s \in Receivers \ {r} : receiver'[s] = receiver[s])
  BY DEF ReceiverGoesTo, TypeOK
<1>2. \A s \in Receivers : Reading(s)' <=> Reading(s)
  BY <1>1 DEF Reading
<1> QED BY <1>2 DEF Care, OneCares, NobodyCares, DoneOnce, MainInOrder, BreakInCare, Repairing

\* A receive loop that ends after a cancellation closes c.done, and nobody has the stream.
LEMMA ReceiverCloses ==
    ASSUME TypeOK, Care, NEW r \in Receivers, Reading(r), cancelled,
           ReceiverGoesTo(r, "off"), CloseDone, UNCHANGED <<main, cancelled, stream, reconnecting, reconnector, breaks>>
    PROVE  Care'
<1>1. receiver'[r] = "off" /\ (\A s \in Receivers \ {r} : receiver'[s] = receiver[s])
  BY DEF ReceiverGoesTo, TypeOK
<1>2. main \notin {"connect", "without", "running"} /\ done = 0
  BY DEF Care, NobodyCares, MainInOrder, TypeOK
<1>3. (\A s \in Receivers : ~ Reading(s)') /\ (\A c \in Reconnectors : ~ Repairing(c)')
  BY <1>1 DEF Care, OneCares, Reading, Repairing
<1>4. done' = 1
  BY <1>2 DEF CloseDone
<1> QED BY <1>2, <1>3, <1>4 DEF Care, OneCares, NobodyCares, DoneOnce, MainInOrder, BreakInCare

\* A receive loop that fails hands the stream to a reconnect.
LEMMA ReceiverFails ==
    ASSUME TypeOK, Care, NEW r \in Receivers, Reading(r), ~ cancelled, stream = "failed",
           ReceiverGoesTo(r, "off"), StartReconnect, UNCHANGED <<main, cancelled, stream, reconnecting, done, breaks>>
    PROVE  Care'
<1>1. receiver'[r] = "off" /\ (\A s \in Receivers \ {r} : receiver'[s] = receiver[s])
  BY DEF ReceiverGoesTo, TypeOK
<1>2. PICK c \in Reconnectors : reconnector' = [reconnector EXCEPT ![c].pc = "start"]
  BY DEF StartReconnect
<1>3. reconnector'[c].pc = "start" /\ (\A d \in Reconnectors \ {c} : reconnector'[d] = reconnector[d])
  BY <1>2 DEF TypeOK
<1>4. (\A s \in Receivers : ~ Reading(s)') /\ (\A d \in Reconnectors \ {c} : ~ Repairing(d)')
  BY <1>1, <1>3 DEF Care, OneCares, Reading, Repairing
<1>5. done = 0 /\ main \notin {"connect", "without"}
  BY DEF Care, NobodyCares, TypeOK
<1>6. main = "running" => breaks # 0 /\ (breaks = 1 => reconnecting = FALSE)
  <2>1. \A d \in Reconnectors : ~ Repairing(d)
    BY DEF Care, OneCares
  <2> QED BY <1>5, <2>1 DEF Care, BreakInCare, Repairing
<1>7. BreakInCare'
  BY <1>3, <1>5, <1>6 DEF BreakInCare
<1> QED BY <1>4, <1>5, <1>7 DEF Care, OneCares, NobodyCares, DoneOnce, MainInOrder

\* The steps of a receive loop keep its stream in its care, or hand it to a reconnect.
LEMMA ReceiveCare ==
    ASSUME TypeOK, Care, NEW r \in Receivers, ReceiveLoop(r)
    PROVE  Care'
<1>1. Reading(r)
  BY DEF Reading, ReceiveLoop, ReceiveCheck, ReceiveMessage, ReceiveError, HandleServiceRequest, HandleStatus
<1>2. CASE ReceiveCheck(r)
  BY <1>1, <1>2, ReceiverGoesOn, ReceiverCloses DEF ReceiveCheck, link
<1>3. CASE ReceiveMessage(r)
  BY <1>1, <1>3, ReceiverGoesOn DEF ReceiveMessage, link
<1>4. CASE ReceiveError(r)
  BY <1>1, <1>4, ReceiverFails, ReceiverCloses DEF ReceiveError, link
<1>5. CASE HandleServiceRequest(r)
  BY <1>1, <1>5, ReceiverGoesOn DEF HandleServiceRequest, link
<1>6. CASE HandleStatus(r)
  BY <1>1, <1>6, ReceiverGoesOn DEF HandleStatus
<1> QED BY <1>2, <1>3, <1>4, <1>5, <1>6 DEF ReceiveLoop

\* A heartbeat has nothing in its care; the main goroutine closes, and takes no stream over;
\* a break is one more break.
LEMMA OtherCare ==
    ASSUME TypeOK, Care, (\E b \in Heartbeats : HeartbeatLoop(b)) \/ Close \/ StreamBreaks
    PROVE  Care'
<1> USE DEF Care, OneCares, NobodyCares, DoneOnce, MainInOrder, BreakInCare, Reading, Repairing, link
<1>1. ASSUME NEW b \in Heartbeats, HeartbeatLoop(b) PROVE Care'
  BY <1>1 DEF HeartbeatLoop, HeartbeatCancelled, HeartbeatTick, HeartbeatSend
<1>2. CASE CloseCancel
  BY <1>2 DEF CloseCancel
<1>3. CASE CloseConnection
  BY <1>3 DEF CloseConnection
<1>4. CASE CloseReturn
  BY <1>4 DEF CloseReturn
<1>5. CASE StreamBreaks
  <2>1. breaks \in Nat /\ breaks' = breaks + 1 /\ stream = "up"
    BY <1>5 DEF StreamBreaks, TypeOK
  <2>2. UNCHANGED <<main, cancelled, reconnecting, done, receiver, reconnector>>
    BY <1>5 DEF StreamBreaks
  <2>3. breaks' # 0 /\ (breaks' = 1 => breaks = 0)
    BY <2>1
  <2>4. main = "connect" => FALSE
    BY <1>5 DEF StreamBreaks
  <2>5. BreakInCare'
    BY <2>2, <2>3
  <2>6. OneCares' /\ NobodyCares' /\ DoneOnce' /\ MainInOrder'
    BY <2>2, <2>4
  <2> QED BY <2>5, <2>6
<1> QED BY <1>1, <1>2, <1>3, <1>4, <1>5 DEF Close
-----------------------------------------------------------------------------
\* Every step keeps the stream in the care of one goroutine.
LEMMA NextCare == TypeOK /\ Care /\ [Next]_vars => Care'
<1> SUFFICES ASSUME TypeOK, Care, [Next]_vars PROVE Care'
  OBVIOUS
<1>1. CASE UNCHANGED vars
  BY <1>1 DEF vars, Care, OneCares, NobodyCares, DoneOnce, MainInOrder, BreakInCare, Reading, Repairing
<1>2. ASSUME NEW c \in Reconnectors, Reconnect(c) PROVE Care'
  BY <1>2, ReconnectStartCare, ReconnectCheckCare, AttemptCare, ReconnectFinishCare DEF Reconnect
<1> QED BY <1>1, <1>2, ConnectCare, ReceiveCare, OtherCare DEF Next

\* The invariant holds throughout.
LEMMA AlwaysIInv == Spec => []IInv
<1>1. Init => IInv
  BY InitTypes, InitCare DEF IInv, Care
<1>2. IInv /\ [Next]_vars => IInv'
  BY NextTypes, NextCare DEF IInv, Care
<1> QED BY <1>1, <1>2, PTL DEF Spec

\* c.done is closed at most once, by the goroutine that has the stream in its care: closing a
\* closed channel would panic (receiveLoop, reconnect).
THEOREM DoneIsClosedOnce == Spec => []DoneClosedOnce
<1>1. IInv => DoneClosedOnce
  BY DEF IInv, DoneOnce, DoneClosedOnce
<1> QED BY <1>1, AlwaysIInv, PTL

\* The stream has one user at a time: no second loop reads it, and no reconnect replaces it while
\* one does (receiveLoop, reconnect).
THEOREM OneUser == Spec => []StreamHasOneUser
<1>1. ASSUME IInv PROVE Cardinality({r \in Receivers : receiver[r] # "off"}) <= 1
  <2> DEFINE S == {r \in Receivers : receiver[r] # "off"}
  <2>1. CASE S = {}
    BY <2>1, FS_EmptySet
  <2>2. CASE S # {}
    <3>1. PICK r \in S : TRUE
      BY <2>2
    <3>2. S = {r}
      BY <1>1, <3>1 DEF IInv, OneCares, Reading
    <3> QED BY <3>2, FS_Singleton
  <2> QED BY <2>1, <2>2
<1>2. ASSUME IInv PROVE \A r \in Receivers, c \in Reconnectors :
          receiver[r] # "off" => reconnector[c].pc \notin {"check", "sleep"}
  BY <1>2 DEF IInv, OneCares, Reading, Repairing
<1>3. IInv => StreamHasOneUser
  BY <1>1, <1>2 DEF StreamHasOneUser
<1> QED BY <1>3, AlwaysIInv, PTL

\* The first break is in somebody's care until it is repaired or given up: the flag is free when
\* the reconnect for it begins, so that it is not taken for a second one (reconnect).
THEOREM FirstBreakInCare == Spec => []OneBreakIsRepaired
<1>1. IInv => OneBreakIsRepaired
  <2>1. TypeOK /\ breaks <= 1 => breaks \in {0, 1}
    BY DEF TypeOK
  <2> QED BY <2>1 DEF IInv, BreakInCare, Reading, OneBreakIsRepaired
<1> QED BY <1>1, AlwaysIInv, PTL
=============================================================================
