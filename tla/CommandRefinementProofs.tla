----------------------- MODULE CommandRefinementProofs -----------------------
(***************************************************************************)
(* The command stream implements CommandLifecycle: every step of a         *)
(* request, a handler, a redelivery loop, the agent or a fault changes the *)
(* rows as the life cycle allows, or leaves them and what is done alone.   *)
(***************************************************************************)
EXTENDS CommandDeliveryProofs

Refines == Lifecycle!Next \/ UNCHANGED Lifecycle!lifecycleVars

\* The changes a statement of the API makes to the rows.
StatusStep ==
  \/ \E c \in Commands : InsertCommand(c) \/ status' = MarkSent(c)
  \/ \E r \in Refreshes : status' = ExpireRow(r)
  \/ \E m \in acksTopic : status' = ApplyAck(m)
  \/ status' = ExpireOverdue
  \/ status' = status

LEMMA ServiceStatusStep ==
  ASSUME TypeOK, ServiceStep
  PROVE  StatusStep
BY DEF TypeOK, ServiceTypeOK, StatusStep, ServiceStep, AssertCommandable, PublishCommand, MarkPublished,
   PassExpiry, PollRefresh, GiveUpRefresh, HandleAck, HandleStatus, SweepOverdue, FindRows, PublishRow,
   MarkRow, ConnectApi, ConnectApiOnly, DisconnectApi, CrashApi, FailStatement, serviceVars

LEMMA AckRefines ==
  ASSUME Inv, NEW m \in acksTopic, status' = ApplyAck(m), done' = done
  PROVE  Refines
<1>1. m.id \in Commands /\ m.status \in AckStatus
  BY DEF Inv, TypeOK, TransportTypeOK, Ack
<1>2. CASE status[m.id] \notin AllowedFrom(m.status)
  BY <1>2 DEF ApplyAck, Refines, Lifecycle!lifecycleVars
<1>3. CASE status[m.id] \in AllowedFrom(m.status)
  <2>1. status' = [status EXCEPT ![m.id] = m.status]
    BY <1>3 DEF ApplyAck
  <2>2. CASE m.status = "acknowledged"
    <3>1. Lifecycle!Acknowledge(m.id)
      BY <1>3, <2>1, <2>2 DEF AllowedFrom, Undelivered, Lifecycle!Acknowledge, Lifecycle!Become, Lifecycle!Undelivered
    <3> QED BY <1>1, <3>1 DEF Refines, Lifecycle!Next
  <2>3. CASE m.status = "failed"
    <3>1. Lifecycle!Fail(m.id)
      BY <1>3, <2>1, <2>3 DEF AllowedFrom, Undelivered, Unfinished,
         Lifecycle!Fail, Lifecycle!Become, Lifecycle!Unfinished, Lifecycle!Undelivered
    <3> QED BY <1>1, <3>1 DEF Refines, Lifecycle!Next
  <2>4. CASE m.status = "succeeded"
    <3>1. m.id \in done
      BY <2>4 DEF Inv, SuccessIsEarned
    <3>2. Lifecycle!Succeed(m.id)
      BY <1>3, <2>1, <2>4, <3>1 DEF AllowedFrom, Undelivered, Unfinished,
         Lifecycle!Succeed, Lifecycle!Become, Lifecycle!Unfinished, Lifecycle!Undelivered
    <3> QED BY <1>1, <3>2 DEF Refines, Lifecycle!Next
  <2> QED BY <1>1, <2>2, <2>3, <2>4 DEF AckStatus
<1> QED BY <1>2, <1>3

LEMMA ExpiryRefines ==
  ASSUME Inv, NEW S \in SUBSET Commands, \A c \in S : status[c] \in Unfinished, done' = done,
         status' = [c \in Commands |-> IF c \in S THEN "expired" ELSE status[c]]
  PROVE  Refines
<1>1. Lifecycle!Expire(S)
  BY DEF Lifecycle!Expire, Unfinished, Undelivered, Lifecycle!Unfinished, Lifecycle!Undelivered
<1> QED BY <1>1 DEF Refines, Lifecycle!Next

LEMMA ServiceRefines ==
  ASSUME Inv, ServiceStep, done' = done
  PROVE  Refines
<1>1. status \in [Commands -> Status]
  BY DEF Inv, TypeOK, ServiceTypeOK
<1>2. CASE status' = status
  BY <1>2 DEF Refines, Lifecycle!lifecycleVars
<1>3. ASSUME NEW c \in Commands, InsertCommand(c) PROVE Refines
  <2>1. status[c] = "none" /\ status' = [status EXCEPT ![c] = "pending"]
    BY <1>3 DEF InsertCommand, Inv, RowComesFirst
  <2>2. Lifecycle!Insert(c)
    BY <2>1 DEF Lifecycle!Insert, Lifecycle!Become
  <2> QED BY <2>2 DEF Refines, Lifecycle!Next
<1>4. ASSUME NEW c \in Commands, status' = MarkSent(c) PROVE Refines
  <2>1. CASE status[c] = "pending"
    <3>1. Lifecycle!Send(c)
      BY <1>4, <2>1 DEF MarkSent, Lifecycle!Send, Lifecycle!Become
    <3> QED BY <3>1 DEF Refines, Lifecycle!Next
  <2> QED BY <1>2, <1>4, <2>1 DEF MarkSent
<1>5. ASSUME NEW r \in Refreshes, status' = ExpireRow(r) PROVE Refines
  <2>1. CASE status[r] \in Unfinished
    <3>1. status' = [c \in Commands |-> IF c \in {r} THEN "expired" ELSE status[c]]
      BY <1>1, <1>5, <2>1 DEF ExpireRow
    <3>2. {r} \in SUBSET Commands
      BY TransportAssumption
    <3> QED BY <2>1, <3>1, <3>2, ExpiryRefines
  <2> QED BY <1>2, <1>5, <2>1 DEF ExpireRow
<1>6. CASE status' = ExpireOverdue
  <2> DEFINE S == {c \in Commands : c \in overdue /\ status[c] \in Undelivered}
  <2>1. status' = [c \in Commands |-> IF c \in S THEN "expired" ELSE status[c]]
    BY <1>6 DEF ExpireOverdue
  <2>2. S \in SUBSET Commands /\ \A c \in S : status[c] \in Unfinished
    BY DEF Unfinished
  <2> QED BY <2>1, <2>2, ExpiryRefines
<1> QED BY <1>2, <1>3, <1>4, <1>5, <1>6, ServiceStatusStep, AckRefines DEF StatusStep, Inv

LEMMA AgentRefines ==
  ASSUME Inv, AgentStep, status' = status
  PROVE  Refines
<1>1. \/ done' = done
      \/ current.pc # "idle" /\ done' = done \cup {current.id}
  BY DEF AgentStep, ConnectDevice, DisconnectDevice, CrashDevice, Deliver, Unheard, AckReceipt, RefuseExpired,
     StartRun, Run, ReportHeartbeat, ReportTelemetry, AckOutcome, agentVars
<1>2. CASE done' = done
  BY <1>2 DEF Refines, Lifecycle!lifecycleVars
<1>3. CASE current.pc # "idle" /\ done' = done \cup {current.id}
  <2>1. current.id \in Commands /\ status[current.id] # "none"
    BY <1>3 DEF Inv, TypeOK, AgentTypeOK, RowComesFirst
  <2>2. Lifecycle!CarryOut(current.id)
    BY <1>3, <2>1 DEF Lifecycle!CarryOut
  <2> QED BY <2>1, <2>2 DEF Refines, Lifecycle!Next
<1> QED BY <1>1, <1>2, <1>3

\* Whatever the interleaving and the faults, the rows an admin reads follow
\* the life cycle, and a success is never written before the work is done.
THEOREM LifecycleImplemented == Spec => ImplementsLifecycle
<1>1. Init => Lifecycle!Init
  BY DEF Init, ServiceInit, AgentInit, Lifecycle!Init
<1>2. Inv /\ [Next]_vars => [Lifecycle!Next]_(Lifecycle!lifecycleVars)
  <2> SUFFICES ASSUME Inv, [Next]_vars PROVE Refines
    BY DEF Refines
  <2>1. CASE ServiceStep /\ UNCHANGED agentVars
    BY <2>1, ServiceRefines DEF agentVars
  <2>2. CASE AgentStep /\ UNCHANGED serviceVars
    BY <2>2, AgentRefines DEF serviceVars
  <2>3. CASE UNCHANGED <<serviceVars, agentVars>>
    BY <2>3 DEF serviceVars, agentVars, Refines, Lifecycle!lifecycleVars
  <2> QED BY <2>1, <2>2, <2>3 DEF Next, vars
<1> QED BY <1>1, <1>2, Invariance, PTL DEF Spec, ImplementsLifecycle, Lifecycle!Spec

(***************************************************************************)
(* A final status is never rewritten: by a repeated, late or reordered     *)
(* ack, by markSent after an await, or by a sweep (CommandRepository).     *)
(* The life cycle promises it, and what implements it inherits it.         *)
(***************************************************************************)
FinalStays == [][\A c \in Commands : status[c] \in Final => status'[c] = status[c]]_status

LEMMA FinalStep ==
  ASSUME TypeOK, [Lifecycle!Next]_(Lifecycle!lifecycleVars), NEW c \in Commands, status[c] \in Final
  PROVE  status'[c] = status[c]
<1>0. status \in [Commands -> Status]
  BY DEF TypeOK, ServiceTypeOK
<1>1. ASSUME NEW d \in Commands,
             \/ Lifecycle!Insert(d) \/ Lifecycle!Send(d) \/ Lifecycle!Acknowledge(d)
             \/ Lifecycle!Fail(d) \/ Lifecycle!Succeed(d)
      PROVE  status'[c] = status[c]
  BY <1>0, <1>1 DEF Lifecycle!Insert, Lifecycle!Send, Lifecycle!Acknowledge, Lifecycle!Fail, Lifecycle!Succeed,
     Lifecycle!Become, Lifecycle!Undelivered, Lifecycle!Unfinished, Final
<1>2. ASSUME NEW S \in SUBSET Commands, Lifecycle!Expire(S)
      PROVE  status'[c] = status[c]
  BY <1>2 DEF Lifecycle!Expire, Lifecycle!Unfinished, Lifecycle!Undelivered, Final
<1> QED
  BY <1>1, <1>2 DEF Lifecycle!Next, Lifecycle!CarryOut, Lifecycle!lifecycleVars

THEOREM FinalStatusStays == Spec => FinalStays
<1>1. TypeOK /\ [Lifecycle!Next]_(Lifecycle!lifecycleVars) =>
        [\A c \in Commands : status[c] \in Final => status'[c] = status[c]]_status
  BY FinalStep
<1> QED BY <1>1, TypeCorrect, LifecycleImplemented, PTL DEF FinalStays, ImplementsLifecycle, Lifecycle!Spec
=============================================================================
