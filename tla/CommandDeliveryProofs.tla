------------------------ MODULE CommandDeliveryProofs ------------------------
(***************************************************************************)
(* Machine-checked theorems about CommandDelivery, for any set of commands *)
(* and handlers and any bound on copies and faults.                        *)
(***************************************************************************)
EXTENDS CommandDelivery, TLAPS

(***************************************************************************)
(* Type correctness.                                                       *)
(***************************************************************************)

USE DEF AckStatus, Ack, Presence, Undelivered, Unfinished, Final, Status,
        InProgress, Answers, Requests, Workers, Reports

LEMMA InitType == Init => TypeOK
<1>1. Init => TransportTypeOK
  BY TransportAssumption DEF Init, TransportInit, TransportTypeOK
<1>2. Init => ServiceTypeOK
  BY DEF Init, TransportInit, ServiceInit, ServiceTypeOK, Loop, IdleLoop
<1>3. Init => AgentTypeOK
  <2> SUFFICES ASSUME AgentInit PROVE AgentTypeOK
    BY DEF Init
  <2>1. buffer \in Seq(Commands) /\ Len(buffer) <= BufferCap
    <3>1. buffer = <<>>
      BY DEF AgentInit
    <3> QED BY <3>1, AgentAssumption
  <2>2. current \in Handling /\ current.pc = "idle"
    BY DEF AgentInit, Handling, Idle
  <2> QED BY <2>1, <2>2 DEF AgentInit, AgentTypeOK
<1> QED BY <1>1, <1>2, <1>3 DEF TypeOK

\* The rows of CommandRepository stay rows, whichever statement is applied.
LEMMA RowsType ==
  ASSUME status \in [Commands -> Status], NEW c \in Commands
  PROVE  /\ MarkSent(c) \in [Commands -> Status]
         /\ ExpireRow(c) \in [Commands -> Status]
         /\ ExpireOverdue \in [Commands -> Status]
         /\ \A a \in AckStatus : ApplyAck([id |-> c, status |-> a]) \in [Commands -> Status]
BY DEF MarkSent, ExpireRow, ExpireOverdue, ApplyAck, AllowedFrom

LEMMA CopiesType ==
  ASSUME commandsTopic \in [Commands -> 0..MaxCopies], NEW c \in Commands
  PROVE  /\ AddCopy(c) \in [Commands -> 0..MaxCopies]
         /\ commandsTopic[c] > 0 => TakeCopy(c) \in [Commands -> 0..MaxCopies]
BY TransportAssumption DEF AddCopy, TakeCopy

LEMMA FaultType ==
  ASSUME faults \in 0..MaxFaults, NEW kind, Fault(kind)
  PROVE  faults' \in 0..MaxFaults
BY TransportAssumption DEF Fault

LEMMA FailureEffect ==
  ASSUME TypeOK, FailStatement
  PROVE  /\ faults' \in 0..MaxFaults
         /\ acksTopic' \subseteq acksTopic /\ statusTopic' \subseteq statusTopic
         /\ \/ request' = request
            \/ \E c \in Commands : request[c] \in InProgress /\ request' = [request EXCEPT ![c] = "lost"]
         /\ \/ worker' = worker
            \/ \E w \in Workers : worker' = [worker EXCEPT ![w] = IdleLoop]
         /\ UNCHANGED <<status, overdue, online, commandsTopic, apiConnected, link>>
<1>1. faults' \in 0..MaxFaults
  BY FaultType DEF FailStatement, TypeOK, TransportTypeOK
<1> QED BY <1>1 DEF FailStatement, Proceed

LEMMA ServiceType ==
  ASSUME TypeOK, ServiceStep, UNCHANGED agentVars
  PROVE  TypeOK'
<1> USE DEF TypeOK, TransportTypeOK, ServiceTypeOK, agentVars
<1>0. AgentTypeOK'
  BY DEF AgentTypeOK
<1>1. ASSUME NEW c \in Commands, AssertCommandable(c) PROVE TypeOK'
  BY <1>0, <1>1 DEF AssertCommandable, Proceed, transportVars
<1>2. ASSUME NEW c \in Commands, InsertCommand(c) PROVE TypeOK'
  BY <1>0, <1>2 DEF InsertCommand, Proceed, transportVars
<1>3. ASSUME NEW c \in Commands, PublishCommand(c) PROVE TypeOK'
  BY <1>0, <1>3, CopiesType DEF PublishCommand, PublishJson, Proceed
<1>4. ASSUME NEW c \in Commands, MarkPublished(c) PROVE TypeOK'
  BY <1>0, <1>4, RowsType DEF MarkPublished, Proceed, transportVars
<1>5. ASSUME NEW c \in Commands, PassExpiry(c) PROVE TypeOK'
  BY <1>0, <1>5 DEF PassExpiry, transportVars
<1>6. ASSUME NEW r \in Refreshes, PollRefresh(r) PROVE TypeOK'
  BY <1>0, <1>6 DEF PollRefresh, Proceed, transportVars
<1>7. ASSUME NEW r \in Refreshes, GiveUpRefresh(r) PROVE TypeOK'
  BY <1>0, <1>7, RowsType, TransportAssumption DEF GiveUpRefresh, Proceed, transportVars
<1>8. ASSUME NEW m \in acksTopic, HandleAck(m) PROVE TypeOK'
  <2>1. m = [id |-> m.id, status |-> m.status] /\ m.id \in Commands /\ m.status \in AckStatus
    OBVIOUS
  <2>2. ApplyAck(m) \in [Commands -> Status]
    BY <2>1 DEF ApplyAck
  <2> QED BY <1>0, <1>8, <2>2, TransportAssumption DEF HandleAck, Fault
<1>9. ASSUME NEW w \in Handlers, NEW s \in statusTopic, HandleStatus(w, s) PROVE TypeOK'
  BY <1>0, <1>9 DEF HandleStatus, Loop
<1>10. ASSUME NEW w \in Workers, SweepOverdue(w) PROVE TypeOK'
  BY <1>0, <1>10, RowsType DEF SweepOverdue, transportVars, Loop, ExpireOverdue
<1>11. ASSUME NEW w \in Workers, FindRows(w) PROVE TypeOK'
  BY <1>0, <1>11 DEF FindRows, NextRow, PendingForOnlineDevices, Deliverable, transportVars, Loop
<1>12. ASSUME NEW w \in Workers, PublishRow(w) PROVE TypeOK'
  BY <1>0, <1>12, CopiesType DEF PublishRow, PublishJson, NextRow, Loop
<1>13. ASSUME NEW w \in Workers, MarkRow(w) PROVE TypeOK'
  BY <1>0, <1>13, RowsType DEF MarkRow, NextRow, transportVars, Loop
<1>14. ASSUME ConnectApi PROVE TypeOK'
  <2>1. worker' \in [Workers -> Loop] /\ \A w \in Workers : worker'[w].pc = "mark" => worker'[w].cur \in Commands
    BY <1>14 DEF ConnectApi, Loop
  <2>2. statusTopic' \subseteq Presence
    BY <1>14 DEF ConnectApi, RetainedStatus
  <2>3. apiConnected' \in BOOLEAN
    BY <1>14 DEF ConnectApi
  <2>4. UNCHANGED <<status, overdue, online, request, commandsTopic, acksTopic, link, faults>>
    BY <1>14 DEF ConnectApi
  <2> QED BY <1>0, <2>1, <2>2, <2>3, <2>4
<1>15. ASSUME DisconnectApi PROVE TypeOK'
  <2>1. ServiceTypeOK'
    BY <1>15 DEF DisconnectApi, serviceVars
  <2>2. apiConnected' \in BOOLEAN
    BY <1>15 DEF DisconnectApi
  <2>3. faults' \in 0..MaxFaults
    BY <1>15, FaultType DEF DisconnectApi
  <2>4. UNCHANGED <<commandsTopic, acksTopic, statusTopic, link>>
    BY <1>15 DEF DisconnectApi
  <2> QED BY <1>0, <2>1, <2>2, <2>3, <2>4
<1>18. ASSUME ConnectApiOnly PROVE TypeOK'
  <2>1. UNCHANGED <<serviceVars, commandsTopic, acksTopic, statusTopic, link>> /\ apiConnected' = TRUE
    BY <1>18 DEF ConnectApiOnly
  <2>2. faults' \in 0..MaxFaults
    BY <1>18, FaultType DEF ConnectApiOnly
  <2> QED BY <1>0, <2>1, <2>2 DEF serviceVars
<1>16. ASSUME CrashApi PROVE TypeOK'
  <2>1. faults' \in 0..MaxFaults
    BY <1>16, FaultType DEF CrashApi
  <2>2. commandsTopic' \in [Commands -> 0..MaxCopies]
    <3>1. PICK S \in SUBSET Commands :
            commandsTopic' = [c \in Commands |-> IF c \in S /\ commandsTopic[c] > 0
                                                 THEN commandsTopic[c] - 1 ELSE commandsTopic[c]]
      BY <1>16 DEF CrashApi
    <3> QED BY <3>1, TransportAssumption
  <2>3. request' \in [Commands -> Requests] /\ UNCHANGED <<status, overdue, online, link>>
    BY <1>16 DEF CrashApi
  <2>4. worker' \in [Workers -> Loop] /\ \A w \in Workers : worker'[w].pc # "mark"
    BY <1>16 DEF CrashApi, IdleLoop, Loop
  <2>5. acksTopic' \subseteq Ack /\ statusTopic' \subseteq Presence /\ apiConnected' \in BOOLEAN
    BY <1>16 DEF CrashApi
  <2> QED BY <1>0, <2>1, <2>2, <2>3, <2>4, <2>5
<1>17. ASSUME FailStatement PROVE TypeOK'
  <2>1. faults' \in 0..MaxFaults /\ acksTopic' \subseteq Ack /\ statusTopic' \subseteq Presence
    BY <1>17, FailureEffect
  <2>2. request' \in [Commands -> Requests]
    BY <1>17, FailureEffect
  <2>3. worker' \in [Workers -> Loop] /\ \A w \in Workers : worker'[w].pc = "mark" => worker'[w].cur \in Commands
    BY <1>17, FailureEffect DEF IdleLoop, Loop
  <2>4. UNCHANGED <<status, overdue, online, commandsTopic, apiConnected, link>>
    BY <1>17, FailureEffect
  <2> QED BY <1>0, <2>1, <2>2, <2>3, <2>4
<1> QED
  BY <1>1, <1>2, <1>3, <1>4, <1>5, <1>6, <1>7, <1>8, <1>9, <1>10, <1>11, <1>12, <1>13,
     <1>14, <1>15, <1>16, <1>17, <1>18 DEF ServiceStep

LEMMA BufferType ==
  ASSUME buffer \in Seq(Commands), Len(buffer) <= BufferCap, NEW c \in Commands
  PROVE  /\ TryEmit(c) \in Seq(Commands) /\ Len(TryEmit(c)) <= BufferCap
         /\ buffer # <<>> => /\ Head(buffer) \in Commands
                             /\ Tail(buffer) \in Seq(Commands) /\ Len(Tail(buffer)) <= BufferCap
BY AgentAssumption DEF TryEmit

LEMMA AgentType ==
  ASSUME TypeOK, AgentStep, UNCHANGED serviceVars
  PROVE  TypeOK'
<1> USE DEF TypeOK, TransportTypeOK, AgentTypeOK
<1>0. ServiceTypeOK'
  BY DEF ServiceTypeOK, serviceVars
<1>1. ASSUME ConnectDevice PROVE TypeOK'
  <2>1. faults' \in 0..MaxFaults /\ deaf' \in BOOLEAN
    BY <1>1, FaultType, Zenon DEF ConnectDevice
  <2>2. /\ link' \in BOOLEAN /\ statusTopic' \subseteq Presence
        /\ UNCHANGED <<buffer, current, done, stored, commandsTopic, acksTopic, apiConnected>>
    BY <1>1 DEF ConnectDevice
  <2> QED BY <1>0, <2>1, <2>2
<1>2. ASSUME DisconnectDevice PROVE TypeOK'
  BY <1>0, <1>2, FaultType DEF DisconnectDevice
<1>12. ASSUME NEW c \in Commands, Unheard(c) PROVE TypeOK'
  BY <1>0, <1>12, CopiesType DEF Unheard, agentVars
<1>3. ASSUME CrashDevice PROVE TypeOK'
  <2>1. buffer' \in Seq(Commands) /\ Len(buffer') <= BufferCap
    <3>1. buffer' = <<>>
      BY <1>3 DEF CrashDevice
    <3> QED BY <3>1, AgentAssumption
  <2>2. current' \in Handling /\ (current'.pc # "idle" => current'.id \in Commands)
    BY <1>3 DEF CrashDevice, Idle, Handling
  <2>3. faults' \in 0..MaxFaults
    BY <1>3, FaultType DEF CrashDevice
  <2>4. statusTopic' \subseteq Presence
    BY <1>3 DEF CrashDevice
  <2>6. acksTopic' \subseteq Ack /\ link' \in BOOLEAN /\ deaf' \in BOOLEAN
    BY <1>3 DEF CrashDevice
  <2>5. UNCHANGED <<done, stored, commandsTopic, apiConnected>>
    BY <1>3 DEF CrashDevice
  <2> QED BY <1>0, <2>1, <2>2, <2>3, <2>4, <2>5, <2>6
<1>4. ASSUME NEW c \in Commands, Deliver(c) PROVE TypeOK'
  BY <1>0, <1>4, BufferType, CopiesType, FaultType DEF Deliver
<1>5. ASSUME AckReceipt PROVE TypeOK'
  BY <1>0, <1>5, BufferType, FaultType DEF AckReceipt, SendAck, Handling
<1>6. ASSUME RefuseExpired PROVE TypeOK'
  BY <1>0, <1>6 DEF RefuseExpired, Handling, transportVars
<1>7. ASSUME StartRun PROVE TypeOK'
  BY <1>0, <1>7 DEF StartRun, Handling, transportVars
<1>8. ASSUME Run PROVE TypeOK'
  BY <1>0, <1>8 DEF Run, Handling, transportVars
<1>9. ASSUME ReportHeartbeat PROVE TypeOK'
  <2>1. PICK ok \in BOOLEAN :
          Push("heartbeat", ok) /\ current' = [current EXCEPT !.pc = "reporting", !.ok = ok]
    BY <1>9 DEF ReportHeartbeat
  <2>2. current' \in Handling /\ current'.id \in Commands
    BY <1>9, <2>1 DEF ReportHeartbeat, Handling
  <2>3. stored' \in [Refreshes -> SUBSET Reports]
    BY <1>9, <2>1 DEF ReportHeartbeat, Push
  <2>4. UNCHANGED <<buffer, done, deaf, transportVars>>
    BY <1>9 DEF ReportHeartbeat
  <2> QED BY <1>0, <2>2, <2>3, <2>4 DEF transportVars
<1>10. ASSUME ReportTelemetry PROVE TypeOK'
  <2>1. PICK ok \in BOOLEAN :
          /\ Push("telemetry", ok)
          /\ current' = [current EXCEPT !.pc = "replying", !.ok = @ /\ ok]
          /\ done' = IF current.ok /\ ok THEN done \cup {current.id} ELSE done
    BY <1>10 DEF ReportTelemetry
  <2>2. current' \in Handling /\ current'.id \in Commands
    BY <1>10, <2>1 DEF ReportTelemetry, Handling
  <2>3. stored' \in [Refreshes -> SUBSET Reports]
    BY <2>1 DEF Push
  <2>4. done' \subseteq Commands
    BY <1>10, <2>1 DEF ReportTelemetry
  <2>5. UNCHANGED <<buffer, deaf, transportVars>>
    BY <1>10 DEF ReportTelemetry
  <2> QED BY <1>0, <2>2, <2>3, <2>4, <2>5 DEF transportVars
<1>11. ASSUME AckOutcome PROVE TypeOK'
  BY <1>0, <1>11, FaultType DEF AckOutcome, SendAck, Idle, Handling
<1> QED
  BY <1>1, <1>2, <1>3, <1>4, <1>5, <1>6, <1>7, <1>8, <1>9, <1>10, <1>11, <1>12 DEF AgentStep

LEMMA LossType ==
  ASSUME TypeOK, NEW c \in Commands, LoseQueued(c), UNCHANGED <<serviceVars, agentVars>>
  PROVE  TypeOK'
BY CopiesType, FaultType
DEF TypeOK, TransportTypeOK, ServiceTypeOK, AgentTypeOK, LoseQueued, serviceVars, agentVars

LEMMA NextType == TypeOK /\ [Next]_vars => TypeOK'
<1> SUFFICES ASSUME TypeOK, [Next]_vars PROVE TypeOK'
  OBVIOUS
<1>1. CASE UNCHANGED vars
  BY <1>1 DEF TypeOK, TransportTypeOK, ServiceTypeOK, AgentTypeOK, vars, serviceVars, agentVars, transportVars
<1> QED BY <1>1, ServiceType, AgentType, LossType DEF Next

\* Every reachable state of the command stream is well typed.
THEOREM TypeCorrect == Spec => []TypeOK
BY InitType, NextType, PTL DEF Spec

(***************************************************************************)
(* How one step may change a row, and how it may change a request.         *)
(***************************************************************************)

RowMove(c) ==
  \/ status'[c] = status[c]
  \/ status[c] = "none" /\ status'[c] = "pending" /\ request[c] = "checked" /\ request'[c] = "inserted"
  \/ status[c] = "pending" /\ status'[c] = "sent"
  \/ status[c] \in Undelivered /\ status'[c] = "acknowledged"
  \/ status[c] \in Unfinished /\ status'[c] = "failed"
  \/ status[c] \in Unfinished /\ status'[c] = "succeeded" /\ [id |-> c, status |-> "succeeded"] \in acksTopic
  \/ status[c] \in Unfinished /\ status'[c] = "expired" /\ (c \in Refreshes \/ c \in overdue)

RequestMove(c) ==
  \/ request'[c] = request[c]
  \/ request[c] = "idle" /\ request'[c] \in {"checked", "refused"}
  \/ request[c] = "checked" /\ request'[c] = "inserted" /\ status'[c] = "pending"
  \/ /\ request[c] \in InProgress \ {"checked"}
     /\ request'[c] \in {"published", "unpublished", "created", "waiting", "givingUp"}
  \/ request[c] = "waiting" /\ request'[c] = "ok" /\ status[c] = "succeeded"
  \/ request[c] = "waiting" /\ request'[c] = "failed" /\ status[c] = "failed"
  \/ /\ request[c] \in {"unpublished", "givingUp"}
     /\ request'[c] \in {"timeout", "unavailable"}
     /\ status' = ExpireRow(c)
  \/ request[c] \in InProgress /\ request'[c] = "lost"

LEMMA AckRow ==
  ASSUME TypeOK, NEW m \in acksTopic, status' = ApplyAck(m), NEW c \in Commands
  PROVE  RowMove(c)
<1>1. m \in Ack
  BY DEF TypeOK, TransportTypeOK
<1>2. m.id \in Commands /\ m.status \in AckStatus /\ m = [id |-> m.id, status |-> m.status]
  BY <1>1
<1>3. CASE m.id # c \/ status[m.id] \notin AllowedFrom(m.status)
  BY <1>2, <1>3 DEF ApplyAck, RowMove, TypeOK, ServiceTypeOK
<1>4. CASE m.id = c /\ status[m.id] \in AllowedFrom(m.status)
  <2>1. status'[c] = m.status
    BY <1>4 DEF ApplyAck, TypeOK, ServiceTypeOK
  <2> QED BY <1>2, <1>4, <2>1 DEF AllowedFrom, RowMove
<1> QED BY <1>3, <1>4

LEMMA RowSteps ==
  ASSUME TypeOK, RowComesFirst, [Next]_vars, NEW c \in Commands
  PROVE  RowMove(c)
<1> USE DEF TypeOK, ServiceTypeOK
<1>1. CASE status' = status
  BY <1>1 DEF RowMove
<1>2. ASSUME ServiceStep PROVE RowMove(c)
  <2>1. ASSUME NEW d \in Commands, InsertCommand(d) PROVE RowMove(c)
    <3>1. status[d] = "none" /\ request[d] = "checked"
      BY <2>1 DEF InsertCommand, RowComesFirst
    <3>2. status' = [status EXCEPT ![d] = "pending"] /\ request' = [request EXCEPT ![d] = "inserted"]
      BY <2>1 DEF InsertCommand, Proceed
    <3> QED BY <3>1, <3>2 DEF RowMove
  <2>2. ASSUME NEW d \in Commands, status' = MarkSent(d) PROVE RowMove(c)
    BY <2>2 DEF MarkSent, RowMove
  <2>3. ASSUME NEW r \in Refreshes, status' = ExpireRow(r) PROVE RowMove(c)
    BY <2>3 DEF ExpireRow, RowMove
  <2>4. ASSUME status' = ExpireOverdue PROVE RowMove(c)
    BY <2>4 DEF ExpireOverdue, RowMove
  <2>5. \/ \E d \in Commands : InsertCommand(d) \/ status' = MarkSent(d)
        \/ \E r \in Refreshes : status' = ExpireRow(r)
        \/ \E m \in acksTopic : status' = ApplyAck(m)
        \/ status' = ExpireOverdue
        \/ status' = status
    BY <1>2 DEF ServiceStep, AssertCommandable, PublishCommand, MarkPublished, PassExpiry, PollRefresh,
       GiveUpRefresh, HandleAck, HandleStatus, SweepOverdue, FindRows, PublishRow, MarkRow,
       ConnectApi, ConnectApiOnly, DisconnectApi, CrashApi, FailStatement, serviceVars
  <2> QED BY <1>1, <2>1, <2>2, <2>3, <2>4, <2>5, AckRow
<1>3. CASE UNCHANGED serviceVars
  BY <1>1, <1>3 DEF serviceVars
<1> QED BY <1>2, <1>3 DEF Next, vars

LEMMA RequestSteps ==
  ASSUME TypeOK, [Next]_vars, NEW c \in Commands
  PROVE  RequestMove(c)
<1> USE DEF TypeOK, ServiceTypeOK
<1>1. CASE request' = request
  BY <1>1 DEF RequestMove
<1>2. ASSUME ServiceStep PROVE RequestMove(c)
  <2>1. ASSUME NEW d \in Commands, AssertCommandable(d) PROVE RequestMove(c)
    BY <2>1 DEF AssertCommandable, Proceed, RequestMove
  <2>2. ASSUME NEW d \in Commands, InsertCommand(d) PROVE RequestMove(c)
    BY <2>2 DEF InsertCommand, Proceed, RequestMove
  <2>3. ASSUME NEW d \in Commands, PublishCommand(d) PROVE RequestMove(c)
    BY <2>3 DEF PublishCommand, Proceed, RequestMove
  <2>4. ASSUME NEW d \in Commands, MarkPublished(d) PROVE RequestMove(c)
    BY <2>4 DEF MarkPublished, Proceed, RequestMove
  <2>5. ASSUME NEW r \in Refreshes, PollRefresh(r) PROVE RequestMove(c)
    BY <2>5 DEF PollRefresh, Proceed, RequestMove
  <2>6. ASSUME NEW r \in Refreshes, GiveUpRefresh(r) PROVE RequestMove(c)
    BY <2>6 DEF GiveUpRefresh, Proceed, RequestMove
  <2>7. ASSUME CrashApi PROVE RequestMove(c)
    <3>1. request' = [d \in Commands |-> IF request[d] \in InProgress THEN "lost" ELSE request[d]]
      BY <2>7 DEF CrashApi
    <3> QED BY <3>1 DEF RequestMove
  <2>9. ASSUME FailStatement PROVE RequestMove(c)
    BY <1>1, <2>9, FailureEffect DEF RequestMove
  <2>8. \/ \E d \in Commands : AssertCommandable(d) \/ InsertCommand(d) \/ PublishCommand(d) \/ MarkPublished(d)
        \/ \E r \in Refreshes : PollRefresh(r) \/ GiveUpRefresh(r)
        \/ CrashApi
        \/ FailStatement
        \/ request' = request
    BY <1>2 DEF ServiceStep, PassExpiry, HandleAck, HandleStatus, SweepOverdue, FindRows, PublishRow,
       MarkRow, ConnectApi, ConnectApiOnly, DisconnectApi, serviceVars
  <2> QED BY <1>1, <2>1, <2>2, <2>3, <2>4, <2>5, <2>6, <2>7, <2>8, <2>9
<1>3. CASE UNCHANGED serviceVars
  BY <1>1, <1>3 DEF serviceVars
<1> QED BY <1>2, <1>3 DEF Next, vars

(***************************************************************************)
(* RowComesFirst: whatever is in transit, buffered, handled or about to be *)
(* published after a step already had its row before the step.             *)
(***************************************************************************)

LEMMA BufferedType ==
  ASSUME buffer \in Seq(Commands)
  PROVE  /\ buffer # <<>> =>
              /\ Head(buffer) \in Buffered
              /\ {Tail(buffer)[i] : i \in 1..Len(Tail(buffer))} \subseteq Buffered
         /\ \A c \in Commands :
              {TryEmit(c)[i] : i \in 1..Len(TryEmit(c))} \subseteq Buffered \cup {c}
<1>1. ASSUME buffer # <<>>
      PROVE  /\ Head(buffer) \in Buffered
             /\ {Tail(buffer)[i] : i \in 1..Len(Tail(buffer))} \subseteq Buffered
  <2>1. Len(buffer) \in Nat /\ Len(buffer) > 0 /\ Head(buffer) = buffer[1]
    BY <1>1
  <2>2. \A i \in 1..Len(Tail(buffer)) : Tail(buffer)[i] = buffer[i + 1] /\ i + 1 \in 1..Len(buffer)
    BY <1>1
  <2> QED BY <2>1, <2>2 DEF Buffered
<1>2. ASSUME NEW c \in Commands
      PROVE  {TryEmit(c)[i] : i \in 1..Len(TryEmit(c))} \subseteq Buffered \cup {c}
  <2>1. \A i \in 1..Len(Append(buffer, c)) :
          Append(buffer, c)[i] = c \/ (i \in 1..Len(buffer) /\ Append(buffer, c)[i] = buffer[i])
    OBVIOUS
  <2> QED BY <2>1 DEF TryEmit, Buffered
<1> QED BY <1>1, <1>2

LEMMA CopiesHaveRows ==
  ASSUME TypeOK, RowComesFirst, [Next]_vars, NEW c \in Commands, commandsTopic'[c] > 0
  PROVE  status[c] # "none"
<1> USE DEF TypeOK, TransportTypeOK, ServiceTypeOK, RowComesFirst
<1>1. CASE commandsTopic[c] > 0
  BY <1>1
<1>2. ASSUME NEW d \in Commands, PublishCommand(d) PROVE status[c] # "none"
  <2>1. status[d] # "none"
    BY <1>2 DEF PublishCommand
  <2>2. commandsTopic' = AddCopy(d) \/ commandsTopic' = commandsTopic
    BY <1>2 DEF PublishCommand, PublishJson
  <2> QED BY <1>1, <2>1, <2>2 DEF AddCopy
<1>3. ASSUME NEW w \in Workers, PublishRow(w) PROVE status[c] # "none"
  <2>1. PICK d \in worker[w].todo : commandsTopic' = AddCopy(d) \/ commandsTopic' = commandsTopic
    BY <1>3 DEF PublishRow, PublishJson
  <2>2. d \in Commands /\ status[d] # "none"
    BY DEF Loop
  <2> QED BY <1>1, <2>1, <2>2 DEF AddCopy
<1>4. ASSUME NEW d \in Commands, commandsTopic[d] > 0, commandsTopic' = TakeCopy(d) PROVE status[c] # "none"
  BY <1>1, <1>4 DEF TakeCopy
<1>5. ASSUME CrashApi PROVE status[c] # "none"
  <2>1. PICK S \in SUBSET Commands :
          commandsTopic' = [d \in Commands |-> IF d \in S /\ commandsTopic[d] > 0
                                               THEN commandsTopic[d] - 1 ELSE commandsTopic[d]]
    BY <1>5 DEF CrashApi
  <2> QED BY <1>1, <2>1
<1>6. \/ commandsTopic' = commandsTopic
      \/ \E d \in Commands : \/ PublishCommand(d)
                             \/ commandsTopic[d] > 0 /\ commandsTopic' = TakeCopy(d)
      \/ \E w \in Workers : PublishRow(w)
      \/ CrashApi
  <2>1. CASE ServiceStep
    BY <2>1 DEF ServiceStep, AssertCommandable, InsertCommand, MarkPublished, PassExpiry, PollRefresh,
       GiveUpRefresh, HandleAck, HandleStatus, SweepOverdue, FindRows, MarkRow, ConnectApi,
       ConnectApiOnly, DisconnectApi, FailStatement, transportVars
  <2>2. CASE AgentStep
    BY <2>2 DEF AgentStep, ConnectDevice, DisconnectDevice, CrashDevice, Deliver, Unheard, AckReceipt,
       RefuseExpired, StartRun, Run, ReportHeartbeat, ReportTelemetry, AckOutcome, transportVars
  <2>3. CASE \E d \in Commands : LoseQueued(d)
    BY <2>3 DEF LoseQueued
  <2>4. CASE UNCHANGED vars
    BY <2>4 DEF vars, transportVars
  <2> QED BY <2>1, <2>2, <2>3, <2>4 DEF Next
<1> QED BY <1>1, <1>2, <1>3, <1>4, <1>5, <1>6

LEMMA DeviceHasRows ==
  ASSUME TypeOK, RowComesFirst, [Next]_vars, NEW c \in Commands,
         c \in Buffered' \/ (current'.pc # "idle" /\ current'.id = c)
  PROVE  status[c] # "none"
<1> USE DEF TypeOK, AgentTypeOK, RowComesFirst
<1>1. ASSUME UNCHANGED <<buffer, current>> PROVE status[c] # "none"
  BY <1>1 DEF Buffered
<1>2. ASSUME CrashDevice PROVE status[c] # "none"
  <2>1. buffer' = <<>> /\ current'.pc = "idle"
    BY <1>2 DEF CrashDevice, Idle
  <2> QED BY <2>1 DEF Buffered
<1>3. ASSUME NEW d \in Commands, Deliver(d) PROVE status[c] # "none"
  <2>1. commandsTopic[d] > 0 /\ buffer' = TryEmit(d) /\ current' = current
    BY <1>3 DEF Deliver
  <2>2. Buffered' \subseteq Buffered \cup {d}
    <3>1. Buffered' = {TryEmit(d)[i] : i \in 1..Len(TryEmit(d))}
      BY <2>1 DEF Buffered
    <3>2. buffer \in Seq(Commands)
      OBVIOUS
    <3> QED BY <3>1, <3>2, BufferedType
  <2> QED BY <2>1, <2>2
<1>4. ASSUME AckReceipt PROVE status[c] # "none"
  <2>1. buffer # <<>> /\ buffer' = Tail(buffer) /\ current'.id = Head(buffer)
    BY <1>4 DEF AckReceipt
  <2>2. Buffered' \subseteq Buffered /\ current'.id \in Buffered
    BY <2>1, BufferedType DEF Buffered
  <2> QED BY <2>2
<1>5. ASSUME buffer' = buffer, current.pc # "idle", current'.id = current.id PROVE status[c] # "none"
  BY <1>5 DEF Buffered
<1>6. ASSUME buffer' = buffer, current'.pc = "idle" PROVE status[c] # "none"
  BY <1>6 DEF Buffered
<1>7. \/ UNCHANGED <<buffer, current>>
      \/ CrashDevice \/ AckReceipt
      \/ \E d \in Commands : Deliver(d)
      \/ buffer' = buffer /\ current.pc # "idle" /\ current'.id = current.id
      \/ buffer' = buffer /\ current'.pc = "idle"
  <2>1. CASE AgentStep
    <3>1. CASE ConnectDevice \/ DisconnectDevice \/ \E d \in Commands : Unheard(d)
      BY <3>1 DEF ConnectDevice, DisconnectDevice, Unheard, agentVars
    <3>2. CASE RefuseExpired \/ StartRun
      BY <3>2 DEF RefuseExpired, StartRun, Handling
    <3>3. CASE Run
      BY <3>3 DEF Run, Handling
    <3>4. CASE ReportHeartbeat
      BY <3>4 DEF ReportHeartbeat, Handling
    <3>5. CASE ReportTelemetry
      BY <3>5 DEF ReportTelemetry, Handling
    <3>6. CASE AckOutcome
      BY <3>6 DEF AckOutcome, Idle
    <3> QED BY <2>1, <3>1, <3>2, <3>3, <3>4, <3>5, <3>6 DEF AgentStep
  <2>2. CASE UNCHANGED agentVars
    BY <2>2 DEF agentVars
  <2> QED BY <2>1, <2>2 DEF Next, vars
<1> QED BY <1>1, <1>2, <1>3, <1>4, <1>5, <1>6, <1>7

LEMMA LoopsHaveRows ==
  ASSUME TypeOK, RowComesFirst, [Next]_vars, NEW w \in Workers, NEW c \in worker'[w].todo
  PROVE  status[c] # "none"
<1> USE DEF TypeOK, ServiceTypeOK, RowComesFirst
<1>1. CASE worker'[w].todo \subseteq worker[w].todo
  BY <1>1
<1>2. ASSUME NEW v \in Workers, FindRows(v) PROVE status[c] # "none"
  BY <1>1, <1>2 DEF FindRows, NextRow, PendingForOnlineDevices, Deliverable, Loop
<1>3. ASSUME NEW v \in Workers, PublishRow(v) PROVE worker'[w].todo \subseteq worker[w].todo
  BY <1>3 DEF PublishRow, NextRow, Loop
<1>4. ASSUME NEW v \in Workers, MarkRow(v) \/ SweepOverdue(v) PROVE worker'[w].todo \subseteq worker[w].todo
  BY <1>4 DEF MarkRow, SweepOverdue, NextRow, Loop
<1>5. ASSUME NEW v \in Handlers, NEW s \in statusTopic, HandleStatus(v, s)
      PROVE  worker'[w].todo \subseteq worker[w].todo
  BY <1>5 DEF HandleStatus, Loop
<1>6. ASSUME ConnectApi \/ CrashApi \/ FailStatement PROVE worker'[w].todo \subseteq worker[w].todo
  <2>1. \/ worker' = [worker EXCEPT ![Flush].pc = "sweep"]
        \/ worker' = [v \in Workers |-> IdleLoop]
        \/ worker' = worker
        \/ \E v \in Workers : worker' = [worker EXCEPT ![v] = IdleLoop]
    BY <1>6, FailureEffect DEF ConnectApi, CrashApi
  <2> QED BY <2>1 DEF IdleLoop, Loop
<1>7. CASE worker' = worker
  BY <1>1, <1>7
<1>8. \/ worker' = worker
      \/ \E v \in Workers : FindRows(v) \/ PublishRow(v) \/ MarkRow(v) \/ SweepOverdue(v)
      \/ \E v \in Handlers, s \in statusTopic : HandleStatus(v, s)
      \/ ConnectApi \/ CrashApi \/ FailStatement
  <2>1. CASE ServiceStep
    BY <2>1 DEF ServiceStep, AssertCommandable, InsertCommand, PublishCommand, MarkPublished, PassExpiry,
       PollRefresh, GiveUpRefresh, HandleAck, ConnectApiOnly, DisconnectApi, serviceVars
  <2>2. CASE UNCHANGED serviceVars
    BY <2>2 DEF serviceVars
  <2> QED BY <2>1, <2>2 DEF Next, vars
<1> QED BY <1>1, <1>2, <1>3, <1>4, <1>5, <1>6, <1>7, <1>8

LEMMA RowComesFirstStep ==
  ASSUME TypeOK, TypeOK', RowComesFirst, [Next]_vars
  PROVE  RowComesFirst'
<1>1. ASSUME NEW c \in Commands
      PROVE  /\ status'[c] = "none" => status[c] = "none"
             /\ request'[c] \in {"idle", "checked", "refused"} => status'[c] = "none"
             /\ request'[c] \notin {"idle", "checked", "refused", "lost"} => status'[c] # "none"
  <2>1. RowMove(c) /\ RequestMove(c)
    BY RowSteps, RequestSteps
  <2>2. status'[c] = "none" => status[c] = "none"
    BY <2>1 DEF RowMove
  <2> QED BY <2>1, <2>2 DEF RowMove, RequestMove, RowComesFirst, TypeOK, ServiceTypeOK
<1>2. \A c \in Commands : commandsTopic'[c] > 0 \/ c \in Buffered' => status'[c] # "none"
  BY <1>1, CopiesHaveRows, DeviceHasRows
<1>3. current'.pc # "idle" => status'[current'.id] # "none"
  BY <1>1, DeviceHasRows DEF TypeOK, AgentTypeOK
<1>4. \A w \in Workers : \A c \in worker'[w].todo : status'[c] # "none"
  BY <1>1, LoopsHaveRows DEF TypeOK, ServiceTypeOK, Loop
<1> QED BY <1>1, <1>2, <1>3, <1>4 DEF RowComesFirst

(***************************************************************************)
(* SuccessIsEarned.                                                        *)
(***************************************************************************)

\* The device's half: what it has done, what it claims, what the server stored.
DeviceEarned ==
  /\ \A m \in acksTopic : m.status = "succeeded" => m.id \in done
  /\ current.pc = "replying" /\ current.ok => current.id \in done
  /\ current.pc = "reporting" =>
       current.id \in Refreshes /\ (current.ok => "heartbeat" \in stored[current.id])
  /\ \A r \in Refreshes : r \in done => stored[r] = Reports

LEMMA DeviceEarnedStep ==
  ASSUME TypeOK, DeviceEarned, AgentStep
  PROVE  DeviceEarned' /\ done \subseteq done'
<1> USE DEF TypeOK, TransportTypeOK, AgentTypeOK, DeviceEarned
<1>1. CASE ConnectDevice \/ DisconnectDevice \/ \E c \in Commands : Deliver(c) \/ Unheard(c)
  BY <1>1 DEF ConnectDevice, DisconnectDevice, Deliver, Unheard, agentVars
<1>2. CASE CrashDevice
  <2>1. acksTopic' \subseteq acksTopic /\ current'.pc = "idle" /\ UNCHANGED <<done, stored>>
    BY <1>2 DEF CrashDevice, Idle
  <2> QED BY <2>1
<1>3. CASE AckReceipt
  <2>1. /\ current'.pc = "acked" /\ UNCHANGED <<done, stored>>
        /\ \A m \in acksTopic' : m \in acksTopic \/ m.status = "acknowledged"
    BY <1>3 DEF AckReceipt, SendAck
  <2> QED BY <2>1
<1>4. CASE RefuseExpired \/ StartRun
  <2>1. /\ current'.pc = "running" \/ (current'.pc = "replying" /\ current'.ok = FALSE)
        /\ UNCHANGED <<done, stored, acksTopic>>
    BY <1>4 DEF RefuseExpired, StartRun, Handling, transportVars
  <2> QED BY <2>1
<1>5. CASE Run
  <2>1. PICK ok \in BOOLEAN : /\ current' = [current EXCEPT !.pc = "replying", !.ok = ok]
                              /\ done' = IF ok THEN done \cup {current.id} ELSE done
    BY <1>5 DEF Run
  <2>2. current.id \notin Refreshes /\ UNCHANGED <<stored, acksTopic>>
    BY <1>5 DEF Run, transportVars
  <2>3. current'.pc = "replying" /\ current'.id = current.id /\ (current'.ok => ok)
    BY <2>1 DEF Handling
  <2> QED BY <2>1, <2>2, <2>3
<1>6. CASE ReportHeartbeat
  <2>1. PICK ok \in BOOLEAN : /\ Push("heartbeat", ok)
                              /\ current' = [current EXCEPT !.pc = "reporting", !.ok = ok]
    BY <1>6 DEF ReportHeartbeat
  <2>2. current.id \in Refreshes /\ UNCHANGED <<done, acksTopic>>
    BY <1>6 DEF ReportHeartbeat, transportVars
  <2>3. current'.pc = "reporting" /\ current'.id = current.id /\ (current'.ok => ok)
    BY <2>1 DEF Handling
  <2>4. /\ ok => "heartbeat" \in stored'[current.id]
        /\ \A r \in Refreshes : stored[r] = Reports => stored'[r] = Reports
    BY <2>1, <2>2 DEF Push
  <2> QED BY <2>2, <2>3, <2>4
<1>7. CASE ReportTelemetry
  <2>1. PICK ok \in BOOLEAN :
          /\ Push("telemetry", ok)
          /\ current' = [current EXCEPT !.pc = "replying", !.ok = @ /\ ok]
          /\ done' = IF current.ok /\ ok THEN done \cup {current.id} ELSE done
    BY <1>7 DEF ReportTelemetry
  <2>2. current.pc = "reporting" /\ current.id \in Refreshes /\ UNCHANGED acksTopic
    BY <1>7 DEF ReportTelemetry, transportVars
  <2>3. current'.pc = "replying" /\ current'.id = current.id /\ (current'.ok => current.ok /\ ok)
    BY <2>1 DEF Handling
  <2>4. /\ current.ok /\ ok => stored'[current.id] = Reports
        /\ \A r \in Refreshes : stored[r] = Reports => stored'[r] = Reports
    BY <2>1, <2>2 DEF Push
  <2>5. /\ done \subseteq done'
        /\ current'.ok => current'.id \in done'
        /\ \A r \in done' : r \in done \/ (r = current.id /\ current.ok /\ ok)
    BY <2>1, <2>3
  <2>6. \A m \in acksTopic' : m.status = "succeeded" => m.id \in done'
    BY <2>2, <2>5
  <2>7. \A r \in Refreshes : r \in done' => stored'[r] = Reports
    BY <2>4, <2>5
  <2>8. current'.pc \notin {"reporting"} /\ (current'.pc = "replying" /\ current'.ok => current'.id \in done')
    BY <2>3, <2>5
  <2> QED BY <2>5, <2>6, <2>7, <2>8
<1>8. CASE AckOutcome
  <2>1. /\ current'.pc = "idle" /\ UNCHANGED <<done, stored>>
        /\ \A m \in acksTopic' : \/ m \in acksTopic
                                 \/ m.status = "failed"
                                 \/ m.id = current.id /\ current.ok
    BY <1>8 DEF AckOutcome, SendAck, Idle
  <2>2. current.pc = "replying"
    BY <1>8 DEF AckOutcome
  <2> QED BY <2>1, <2>2
<1> QED BY <1>1, <1>2, <1>3, <1>4, <1>5, <1>6, <1>7, <1>8 DEF AgentStep

LEMMA SuccessIsEarnedStep ==
  ASSUME TypeOK, RowComesFirst, SuccessIsEarned, [Next]_vars
  PROVE  SuccessIsEarned'
<1>1. DeviceEarned
  BY DEF SuccessIsEarned, DeviceEarned
<1>2. DeviceEarned' /\ done \subseteq done'
  <2>1. CASE AgentStep
    BY <1>1, <2>1, DeviceEarnedStep
  <2>2. CASE acksTopic' \subseteq acksTopic /\ UNCHANGED agentVars
    BY <1>1, <2>2 DEF DeviceEarned, agentVars
  <2>3. ServiceStep => acksTopic' \subseteq acksTopic
    BY DEF ServiceStep, AssertCommandable, InsertCommand, PublishCommand, MarkPublished, PassExpiry,
       PollRefresh, GiveUpRefresh, HandleAck, HandleStatus, SweepOverdue, FindRows, PublishRow,
       MarkRow, ConnectApi, ConnectApiOnly, DisconnectApi, CrashApi, FailStatement, transportVars
  <2>4. (\E c \in Commands : LoseQueued(c)) => acksTopic' \subseteq acksTopic
    BY DEF LoseQueued
  <2> QED BY <2>1, <2>2, <2>3, <2>4 DEF Next, vars, transportVars, agentVars
<1>3. ASSUME NEW c \in Commands, status'[c] = "succeeded" PROVE c \in done'
  BY <1>2, <1>3, RowSteps DEF RowMove, SuccessIsEarned
<1> QED BY <1>2, <1>3 DEF SuccessIsEarned, DeviceEarned

(***************************************************************************)
(* The answers of refresh() and the expiry of the commands of create().    *)
(***************************************************************************)

LEMMA AnswerMatchesRowStep ==
  ASSUME TypeOK, RowComesFirst, AnswerMatchesRow, [Next]_vars
  PROVE  AnswerMatchesRow'
<1> SUFFICES ASSUME NEW c \in Commands
             PROVE  /\ request'[c] = "ok" => status'[c] = "succeeded"
                    /\ request'[c] \in {"failed", "timeout", "unavailable"} => status'[c] \in Final
  BY DEF AnswerMatchesRow
<1>1. RowMove(c) /\ RequestMove(c)
  BY RowSteps, RequestSteps
<1>2. /\ status[c] = "succeeded" => status'[c] = "succeeded"
      /\ status[c] \in Final => status'[c] \in Final
  BY <1>1 DEF RowMove
<1>3. ASSUME request[c] \in {"unpublished", "givingUp"}, status' = ExpireRow(c) PROVE status'[c] \in Final
  BY <1>3 DEF ExpireRow, RowComesFirst, TypeOK, ServiceTypeOK
<1> QED BY <1>1, <1>2, <1>3 DEF RequestMove, AnswerMatchesRow

\* Time does not go back.
LEMMA OverdueGrows ==
  ASSUME [Next]_vars
  PROVE  overdue \subseteq overdue'
<1>1. CASE ServiceStep
  BY <1>1 DEF ServiceStep, AssertCommandable, InsertCommand, PublishCommand, MarkPublished, PassExpiry,
     PollRefresh, GiveUpRefresh, HandleAck, HandleStatus, SweepOverdue, FindRows, PublishRow,
     MarkRow, ConnectApi, ConnectApiOnly, DisconnectApi, CrashApi, FailStatement, serviceVars
<1>2. CASE UNCHANGED serviceVars
  BY <1>2 DEF serviceVars
<1> QED BY <1>1, <1>2 DEF Next, vars

LEMMA ExpiredIsOverdueStep ==
  ASSUME TypeOK, RowComesFirst, ExpiredIsOverdue, [Next]_vars
  PROVE  ExpiredIsOverdue'
BY OverdueGrows, RowSteps DEF RowMove, ExpiredIsOverdue

(***************************************************************************)
(* The theorems.                                                           *)
(***************************************************************************)

LEMMA InitInv == Init => Inv
<1> SUFFICES ASSUME Init PROVE Inv
  OBVIOUS
<1>1. TypeOK
  BY InitType
<1>2. RowComesFirst
  BY DEF Init, TransportInit, ServiceInit, AgentInit, RowComesFirst, Buffered, Idle, IdleLoop
<1>3. SuccessIsEarned
  BY DEF Init, TransportInit, ServiceInit, AgentInit, SuccessIsEarned, Idle
<1>4. AnswerMatchesRow /\ ExpiredIsOverdue
  BY DEF Init, ServiceInit, AnswerMatchesRow, ExpiredIsOverdue
<1> QED BY <1>1, <1>2, <1>3, <1>4 DEF Inv

\* The inductive invariant holds in every reachable state.
THEOREM Invariance == Spec => []Inv
<1>1. Inv /\ [Next]_vars => Inv'
  <2> SUFFICES ASSUME Inv, [Next]_vars PROVE Inv'
    OBVIOUS
  <2>1. TypeOK'
    BY NextType DEF Inv
  <2> QED BY <2>1, RowComesFirstStep, SuccessIsEarnedStep, AnswerMatchesRowStep, ExpiredIsOverdueStep DEF Inv
<1> QED BY <1>1, InitInv, PTL DEF Spec

\* When refresh() answers 200, the server holds both reports made for it.
THEOREM RefreshAnswersAreFresh == Spec => []RefreshAnswerIsFresh
<1>1. Inv => RefreshAnswerIsFresh
  BY TransportAssumption DEF Inv, AnswerMatchesRow, SuccessIsEarned, RefreshAnswerIsFresh
<1> QED BY <1>1, Invariance, PTL

\* Once refresh() has answered, its row is final.
THEOREM AnsweredRefreshesAreClosed == Spec => []AnsweredRefreshIsClosed
<1>1. Inv => AnsweredRefreshIsClosed
  BY TransportAssumption DEF Inv, AnswerMatchesRow, AnsweredRefreshIsClosed
<1> QED BY <1>1, Invariance, PTL

(***************************************************************************)
(* What is after a command: a step that is not one of the four of Forgets  *)
(* leaves something after it.                                              *)
(***************************************************************************)

LEMMA CopiesStay ==
  ASSUME commandsTopic \in [Commands -> 0..MaxCopies], NEW c \in Commands, NEW d \in Commands
  PROVE  /\ AddCopy(c)[c] > 0
         /\ commandsTopic[c] > 0 => AddCopy(d)[c] > 0
         /\ c # d => TakeCopy(d)[c] = commandsTopic[c]
BY TransportAssumption DEF AddCopy, TakeCopy

\* A publish leaves a copy of what it was asked for, unless the API is cut off.
LEMMA PublishedIsInTransit ==
  ASSUME TransportTypeOK, NEW c \in Commands, NEW d \in Commands, NEW published,
         PublishJson(d, published), apiConnected
  PROVE  /\ commandsTopic[c] > 0 => commandsTopic'[c] > 0
         /\ c = d => commandsTopic'[c] > 0
BY CopiesStay DEF TransportTypeOK, PublishJson

LEMMA BufferKeeps ==
  ASSUME buffer \in Seq(Commands), NEW d \in Commands
  PROVE  /\ Buffered \subseteq {TryEmit(d)[i] : i \in 1..Len(TryEmit(d))}
         /\ Len(buffer) < BufferCap => d \in {TryEmit(d)[i] : i \in 1..Len(TryEmit(d))}
         /\ buffer # <<>> => Buffered \subseteq {Head(buffer)} \cup {Tail(buffer)[i] : i \in 1..Len(Tail(buffer))}
<1>1. /\ Len(Append(buffer, d)) = Len(buffer) + 1 /\ Append(buffer, d)[Len(buffer) + 1] = d
      /\ Len(buffer) \in Nat /\ \A i \in 1..Len(buffer) : Append(buffer, d)[i] = buffer[i]
  OBVIOUS
<1>2. Len(buffer) + 1 \in 1..Len(Append(buffer, d)) /\ \A i \in 1..Len(buffer) : i \in 1..Len(Append(buffer, d))
  BY <1>1
<1>3. ASSUME buffer # <<>>, NEW i \in 1..Len(buffer)
      PROVE  buffer[i] = Head(buffer) \/ \E j \in 1..Len(Tail(buffer)) : buffer[i] = Tail(buffer)[j]
  <2>1. Len(Tail(buffer)) = Len(buffer) - 1 /\ Head(buffer) = buffer[1]
    BY <1>3
  <2>2. CASE i = 1
    BY <2>1, <2>2
  <2>3. CASE i # 1
    <3>1. i - 1 \in 1..Len(Tail(buffer)) /\ Tail(buffer)[i - 1] = buffer[i]
      BY <1>1, <1>3, <2>1, <2>3
    <3> QED BY <3>1
  <2> QED BY <2>2, <2>3
<1> QED BY <1>1, <1>2, <1>3 DEF Buffered, TryEmit

\* What is closed stays closed, and a row that appears has its request after it.
LEMMA ClosedStays ==
  ASSUME TypeOK, RowComesFirst, [Next]_vars, NEW c \in Commands,
         status[c] \notin Undelivered \/ c \in overdue
  PROVE  status'[c] \notin Undelivered \/ c \in overdue' \/ request'[c] = "inserted"
<1>1. overdue \subseteq overdue'
  BY OverdueGrows
<1> QED BY <1>1, RowSteps DEF RowMove, TypeOK, ServiceTypeOK
LEMMA ServicePursues ==
  ASSUME TypeOK, RowComesFirst, ServiceStep, UNCHANGED agentVars, NEW c \in Commands,
         Pursued(c), ~Forgets(c)
  PROVE  Pursued(c)'
<1> USE DEF TypeOK, TransportTypeOK, ServiceTypeOK
<1> SUFFICES ASSUME ~Pursued(c)' PROVE FALSE
  OBVIOUS
<1>0. /\ status'[c] \in Undelivered /\ c \notin overdue' /\ request'[c] # "inserted"
      /\ ~(commandsTopic'[c] > 0) /\ \A m \in acksTopic' : m.id # c
      /\ apiConnected' /\ link' /\ "online" \notin statusTopic'
      /\ \A w \in Handlers : worker'[w].pc \notin {"sweep", "find"} /\ c \notin worker'[w].todo
  BY DEF Pursued
<1>1. status[c] \in Undelivered /\ c \notin overdue
  BY <1>0, ClosedStays DEF Next
<1>2. c \notin Buffered /\ ~(current.pc # "idle" /\ current.id = c)
  <2>1. Buffered' = Buffered /\ current' = current
    BY DEF Buffered, agentVars
  <2> QED BY <2>1 DEF Pursued
<1>3. \/ request[c] = "inserted"
      \/ commandsTopic[c] > 0
      \/ \E m \in acksTopic : m.id = c
      \/ ~apiConnected \/ ~link \/ "online" \in statusTopic
      \/ \E w \in Handlers : worker[w].pc \in {"sweep", "find"} \/ c \in worker[w].todo
  BY <1>1, <1>2 DEF Pursued
<1>4. ASSUME UNCHANGED <<worker, transportVars>>, request[c] # "inserted" PROVE FALSE
  BY <1>0, <1>3, <1>4 DEF transportVars
<1>5. ASSUME NEW d \in Commands, AssertCommandable(d) \/ InsertCommand(d) \/ MarkPublished(d) \/ PassExpiry(d)
      PROVE  FALSE
  <2>1. UNCHANGED <<worker, transportVars>> /\ (request[c] = "inserted" => request'[c] = "inserted")
    BY <1>5 DEF AssertCommandable, InsertCommand, MarkPublished, PassExpiry, Proceed
  <2> QED BY <1>0, <1>4, <2>1
<1>6. ASSUME NEW d \in Commands, PublishCommand(d) PROVE FALSE
  <2>1. PICK published \in BOOLEAN : PublishJson(d, published)
    BY <1>6 DEF PublishCommand
  <2>2. UNCHANGED <<worker, acksTopic, statusTopic, apiConnected, link>>
    BY <1>6 DEF PublishCommand
  <2>3. (commandsTopic[c] > 0 => commandsTopic'[c] > 0) /\ (c = d => commandsTopic'[c] > 0)
    BY <1>0, <2>1, <2>2, PublishedIsInTransit
  <2>4. request[c] = "inserted" => c = d
    BY <1>0, <1>6 DEF PublishCommand, Proceed
  <2> QED BY <1>0, <1>3, <2>2, <2>3, <2>4
<1>7. ASSUME NEW r \in Refreshes, PollRefresh(r) \/ GiveUpRefresh(r) PROVE FALSE
  <2>1. UNCHANGED <<worker, transportVars>> /\ (request[c] = "inserted" => request'[c] = "inserted")
    BY <1>7 DEF PollRefresh, GiveUpRefresh, Proceed
  <2> QED BY <1>0, <1>4, <2>1
<1>8. ASSUME NEW m \in acksTopic, HandleAck(m) PROVE FALSE
  <2>1. m.id = c => status'[c] \notin Undelivered
    BY <1>1, <1>8 DEF HandleAck, ApplyAck, AllowedFrom
  <2>2. \A n \in acksTopic : n.id = c => n \in acksTopic'
    BY <1>0, <1>8, <2>1 DEF HandleAck
  <2>3. UNCHANGED <<request, worker, commandsTopic, statusTopic, apiConnected, link>>
    BY <1>8 DEF HandleAck
  <2> QED BY <1>0, <1>3, <2>2, <2>3
<1>9. ASSUME NEW v \in Handlers, NEW s \in statusTopic, HandleStatus(v, s) PROVE FALSE
  <2>1. CASE s = "online"
    <3>1. worker'[v].pc = "sweep"
      BY <1>9, <2>1 DEF HandleStatus, Loop
    <3> QED BY <1>0, <3>1
  <2>2. CASE s # "online"
    <3>1. /\ "online" \in statusTopic => "online" \in statusTopic'
          /\ UNCHANGED <<request, worker, commandsTopic, acksTopic, apiConnected, link>>
      BY <1>9, <2>2 DEF HandleStatus
    <3> QED BY <1>0, <1>3, <3>1
  <2> QED BY <2>1, <2>2
<1>10. ASSUME NEW v \in Workers, SweepOverdue(v) PROVE FALSE
  <2>1. UNCHANGED <<request, transportVars>> /\ worker' = [worker EXCEPT ![v].pc = "find"]
    BY <1>10 DEF SweepOverdue
  <2>2. \A w \in Handlers : /\ worker'[w].todo = worker[w].todo
                            /\ worker[w].pc \in {"sweep", "find"} => worker'[w].pc \in {"sweep", "find"}
    BY <2>1 DEF Loop
  <2> QED BY <1>0, <1>3, <2>1, <2>2 DEF transportVars
<1>11. ASSUME NEW v \in Workers, FindRows(v) PROVE FALSE
  <2>1. /\ UNCHANGED <<request, transportVars>>
        /\ worker' = [worker EXCEPT ![v] = NextRow(IF v = Flush THEN PendingForOnlineDevices ELSE Deliverable)]
        /\ worker[v].pc = "find"
    BY <1>11 DEF FindRows
  <2>2. v \in Handlers => c \in worker'[v].todo
    BY <1>1, <2>1, ServiceAssumption DEF NextRow, Deliverable
  <2>3. \A w \in Handlers : w # v => worker'[w] = worker[w]
    BY <2>1
  <2> QED BY <1>0, <1>3, <2>1, <2>2, <2>3 DEF transportVars
<1>12. ASSUME NEW v \in Workers, PublishRow(v) PROVE FALSE
  <2>1. PICK d \in worker[v].todo, published \in BOOLEAN :
          /\ PublishJson(d, published)
          /\ worker' = [worker EXCEPT ![v] =
               IF published THEN [pc |-> "mark", todo |-> worker[v].todo \ {d}, cur |-> d]
                            ELSE NextRow(worker[v].todo \ {d})]
    BY <1>12 DEF PublishRow
  <2>2. worker[v].pc = "loop" /\ UNCHANGED <<request, acksTopic, statusTopic, apiConnected, link>>
    BY <1>12 DEF PublishRow
  <2>3. d \in Commands
    BY DEF Loop
  <2>4. (commandsTopic[c] > 0 => commandsTopic'[c] > 0) /\ (c = d => commandsTopic'[c] > 0)
    BY <1>0, <2>1, <2>2, <2>3, PublishedIsInTransit
  <2>5. \A w \in Handlers : /\ worker[w].pc \in {"sweep", "find"} => worker'[w].pc = worker[w].pc
                            /\ c # d /\ c \in worker[w].todo => c \in worker'[w].todo
    BY <2>1, <2>2 DEF NextRow
  <2> QED BY <1>0, <1>3, <2>2, <2>4, <2>5
<1>13. ASSUME NEW v \in Workers, MarkRow(v) PROVE FALSE
  <2>1. /\ UNCHANGED <<request, transportVars>> /\ worker[v].pc = "mark"
        /\ worker' = [worker EXCEPT ![v] = NextRow(worker[v].todo)]
    BY <1>13 DEF MarkRow
  <2>2. \A w \in Handlers : /\ worker[w].pc \in {"sweep", "find"} => worker'[w].pc = worker[w].pc
                            /\ c \in worker[w].todo => c \in worker'[w].todo
    BY <2>1 DEF NextRow
  <2> QED BY <1>0, <1>3, <2>1, <2>2 DEF transportVars
<1>14. ASSUME ConnectApi PROVE FALSE
  <2>1. link' = link /\ RetainedStatus \in statusTopic'
    BY <1>14 DEF ConnectApi
  <2> QED BY <1>0, <2>1 DEF RetainedStatus
<1>15. ASSUME DisconnectApi \/ CrashApi PROVE FALSE
  BY <1>0, <1>15 DEF DisconnectApi, CrashApi
<1>16. ~FailStatement /\ ~ConnectApiOnly
  BY DEF Forgets
<1> QED
  BY <1>5, <1>6, <1>7, <1>8, <1>9, <1>10, <1>11, <1>12, <1>13, <1>14, <1>15, <1>16
  DEF ServiceStep

LEMMA AgentPursues ==
  ASSUME TypeOK, RowComesFirst, AgentStep, UNCHANGED serviceVars, NEW c \in Commands,
         Pursued(c), ~Forgets(c)
  PROVE  Pursued(c)'
<1> USE DEF TypeOK, TransportTypeOK, AgentTypeOK
<1> SUFFICES ASSUME ~Pursued(c)' PROVE FALSE
  OBVIOUS
<1>0. /\ ~(commandsTopic'[c] > 0) /\ \A m \in acksTopic' : m.id # c
      /\ apiConnected' /\ link' /\ "online" \notin statusTopic'
      /\ c \notin Buffered' /\ ~(current'.pc # "idle" /\ current'.id = c)
  BY DEF Pursued
<1>1. \/ commandsTopic[c] > 0 \/ \E m \in acksTopic : m.id = c
      \/ ~apiConnected \/ ~link \/ "online" \in statusTopic
      \/ c \in Buffered \/ (current.pc # "idle" /\ current.id = c)
  BY DEF Pursued, serviceVars
<1>2. ASSUME ConnectDevice PROVE FALSE
  BY <1>0, <1>2 DEF ConnectDevice
<1>3. ASSUME DisconnectDevice \/ CrashDevice PROVE FALSE
  BY <1>0, <1>3 DEF DisconnectDevice, CrashDevice
<1>4. ASSUME NEW d \in Commands, Deliver(d) PROVE FALSE
  <2>1. UNCHANGED <<acksTopic, statusTopic, apiConnected, link, current>> /\ buffer' = TryEmit(d)
    BY <1>4 DEF Deliver
  <2>2. Buffered' = {TryEmit(d)[i] : i \in 1..Len(TryEmit(d))}
    BY <2>1 DEF Buffered
  <2>3. buffer \in Seq(Commands)
    OBVIOUS
  <2>4. c \notin Buffered /\ (Len(buffer) < BufferCap => c # d)
    BY <1>0, <2>2, <2>3, BufferKeeps
  <2>5. c # d
    BY <1>4, <2>4, AgentAssumption DEF Forgets
  <2>6. commandsTopic[c] > 0 => commandsTopic'[c] > 0
    BY <1>4, <2>5, CopiesStay DEF Deliver
  <2> QED BY <1>0, <1>1, <2>1, <2>4, <2>6
<1>5. ASSUME AckReceipt PROVE FALSE
  <2>1. /\ buffer # <<>> /\ buffer' = Tail(buffer) /\ current.pc = "idle"
        /\ current'.pc = "acked" /\ current'.id = Head(buffer)
        /\ acksTopic \subseteq acksTopic'
        /\ UNCHANGED <<commandsTopic, statusTopic, apiConnected, link>>
    BY <1>5 DEF AckReceipt, SendAck
  <2>2. Buffered \subseteq {Head(buffer)} \cup Buffered'
    BY <2>1, BufferKeeps DEF Buffered
  <2> QED BY <1>0, <1>1, <2>1, <2>2
<1>6. ASSUME RefuseExpired \/ StartRun \/ Run \/ ReportHeartbeat \/ ReportTelemetry PROVE FALSE
  <2>1. UNCHANGED <<buffer, transportVars>>
    BY <1>6 DEF RefuseExpired, StartRun, Run, ReportHeartbeat, ReportTelemetry
  <2>2. current'.id = current.id /\ current'.pc # "idle"
    BY <1>6 DEF RefuseExpired, StartRun, Run, ReportHeartbeat, ReportTelemetry, Handling
  <2>3. Buffered' = Buffered
    BY <2>1 DEF Buffered
  <2> QED BY <1>0, <1>1, <2>1, <2>2, <2>3 DEF transportVars
<1>7. ASSUME AckOutcome PROVE FALSE
  <2>1. UNCHANGED <<buffer, commandsTopic, statusTopic, apiConnected, link>> /\ acksTopic \subseteq acksTopic'
    BY <1>7 DEF AckOutcome, SendAck
  <2>2. SendAck(current.id, IF current.ok THEN "succeeded" ELSE "failed")
    BY <1>7 DEF AckOutcome
  <2>3. current.id # c
    <3>1. PICK o : SendAck(current.id, o)
      BY <2>2
    <3>2. [id |-> current.id, status |-> o] \in acksTopic'
      BY <1>0, <2>1, <3>1 DEF SendAck
    <3> QED BY <1>0, <3>2
  <2>4. Buffered' = Buffered
    BY <2>1 DEF Buffered
  <2> QED BY <1>0, <1>1, <2>1, <2>3, <2>4
<1>8. ASSUME NEW d \in Commands, Unheard(d) PROVE FALSE
  <2>1. c # d
    BY <1>8 DEF Forgets
  <2>2. commandsTopic[c] > 0 => commandsTopic'[c] > 0
    BY <1>8, <2>1, CopiesStay DEF Unheard
  <2>3. UNCHANGED <<buffer, current, acksTopic, statusTopic, apiConnected, link>>
    BY <1>8 DEF Unheard, agentVars
  <2>4. Buffered' = Buffered
    BY <2>3 DEF Buffered
  <2> QED BY <1>0, <1>1, <2>2, <2>3, <2>4
<1> QED BY <1>2, <1>3, <1>4, <1>5, <1>6, <1>7, <1>8 DEF AgentStep

LEMMA PursuitStep ==
  ASSUME TypeOK, RowComesFirst, [Next]_vars, NEW c \in Commands, Pursued(c)
  PROVE  Pursued(c)' \/ Forgets(c)
<1>1. CASE \E d \in Commands : LoseQueued(d) /\ UNCHANGED <<serviceVars, agentVars>>
  BY <1>1 DEF LoseQueued, Pursued
<1>2. CASE UNCHANGED vars
  BY <1>2 DEF vars, serviceVars, agentVars, transportVars, Pursued, Buffered
<1> QED BY <1>1, <1>2, ServicePursues, AgentPursues DEF Next

\* Nothing but the four losses of Forgets ends the pursuit of a command that is
\* still to be delivered.
THEOREM CommandsAreNotForgotten == Spec => OnlyErrorsForget
<1>1. Inv /\ [Next]_vars =>
        [\A c \in Commands : Pursued(c) /\ ~Pursued(c)' => Forgets(c)]_vars
  BY PursuitStep DEF Inv
<1> QED BY <1>1, Invariance, PTL DEF Spec, OnlyErrorsForget

\* Where no statement and no SUBSCRIBE fails and nothing is delivered to a full
\* buffer, every command is closed, overdue or pursued, at every moment.
NoErrors   == {"sql error", "api subscribe", "device subscribe"} \cap FaultKinds = {}
NoBurst    == \A d \in Commands : Len(buffer) = BufferCap => ~Deliver(d)

THEOREM EveryCommandIsPursued ==
  ASSUME NoErrors
  PROVE  Spec /\ [][NoBurst]_vars => [](\A c \in Commands : Pursued(c))
<1> DEFINE P == ~deaf /\ \A c \in Commands : Pursued(c)
<1>1. Init => P
  BY DEF Init, ServiceInit, AgentInit, Pursued
<1>2. ~FailStatement /\ ~ConnectApiOnly /\ ~Fault("device subscribe")
  BY Zenon DEF FailStatement, ConnectApiOnly, Fault, NoErrors
<1>3. ASSUME ~deaf, [Next]_vars PROVE ~deaf'
  <2>1. AgentStep => ~deaf'
    BY <1>2, <1>3, Zenon DEF AgentStep, ConnectDevice, DisconnectDevice, CrashDevice, Deliver, Unheard,
       AckReceipt, RefuseExpired, StartRun, Run, ReportHeartbeat, ReportTelemetry, AckOutcome
  <2> QED BY <1>3, <2>1 DEF Next, vars, agentVars
<1>4. Inv /\ [NoBurst]_vars /\ P /\ [Next]_vars => P'
  <2>1. ASSUME UNCHANGED vars, P PROVE P'
    BY <2>1 DEF vars, serviceVars, agentVars, transportVars, Pursued, Buffered
  <2>2. ASSUME Inv, NoBurst, P, [Next]_vars, NEW c \in Commands PROVE Pursued(c)'
    <3>1. ~Forgets(c)
      BY <1>2, <2>2 DEF Forgets, NoBurst, Unheard
    <3> QED BY <2>2, <3>1, PursuitStep DEF Inv
  <2> QED BY <1>3, <2>1, <2>2
<1>5. P => \A c \in Commands : Pursued(c)
  OBVIOUS
<1> HIDE DEF P
<1> QED BY <1>1, <1>4, <1>5, Invariance, PTL DEF Spec
=============================================================================
