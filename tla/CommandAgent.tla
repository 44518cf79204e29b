---------------------------- MODULE CommandAgent ----------------------------
(***************************************************************************)
(* The device side of remote commands: DeviceMqttGateway (the connection   *)
(* and the buffer of received commands), MqttConnectionService.            *)
(* handleCommand (acknowledge, run, ack the outcome) and what              *)
(* CommandExecutor runs.  The device has a clock of its own, which may be  *)
(* ahead of the API's or behind, or set at any time: whether expiresAt has *)
(* passed is open each time the agent looks, whatever the API believes.    *)
(***************************************************************************)
EXTENDS MqttTransport, Sequences

CONSTANT BufferCap  \* extraBufferCapacity of the shared flow of received commands

ASSUME AgentAssumption == BufferCap \in Nat \ {0}

VARIABLES
  buffer,    \* commands received and not yet collected, oldest first
  current,   \* the command in handleCommand: [pc, id, ok]
  done,      \* the commands carried out at least once (history)
  stored,    \* what the runs of each refresh made the server store (history)
  deaf       \* the present connection has no subscription to the commands

agentVars == <<buffer, current, done, stored, deaf>>

Reports == {"heartbeat", "telemetry"}

Handling == [pc : {"idle", "acked", "running", "reporting", "replying"},
             id : Commands \cup {NoCommand}, ok : BOOLEAN]

AgentTypeOK ==
  /\ buffer \in Seq(Commands) /\ Len(buffer) <= BufferCap
  /\ current \in Handling /\ (current.pc # "idle" => current.id \in Commands)
  /\ done \subseteq Commands
  /\ stored \in [Refreshes -> SUBSET Reports]
  /\ deaf \in BOOLEAN

Idle == [pc |-> "idle", id |-> NoCommand, ok |-> FALSE]

AgentInit ==
  /\ buffer = <<>>
  /\ current = Idle
  /\ done = {}
  /\ stored = [r \in Refreshes |-> {}]
  /\ deaf = FALSE

-----------------------------------------------------------------------------
(* The connection: connected and disconnected listeners, Last Will.          *)

\* automaticReconnect, or the service started again: publishes "online", then
\* subscribes; a SUBSCRIBE that fails is logged and not tried again.
ConnectDevice ==
  /\ ~link
  /\ link' = TRUE
  /\ statusTopic' = statusTopic \cup {"online"}
  /\ \/ UNCHANGED <<deaf, faults>>
     \/ Fault("device subscribe") /\ deaf' = TRUE
  /\ UNCHANGED <<buffer, current, done, stored, commandsTopic, acksTopic, apiConnected>>

\* The network is lost: the broker publishes the Last Will.
DisconnectDevice ==
  /\ link
  /\ Fault("device drop")
  /\ link' = FALSE
  /\ deaf' = FALSE
  /\ statusTopic' = statusTopic \cup {"offline"}
  /\ UNCHANGED <<buffer, current, done, stored, commandsTopic, acksTopic, apiConnected>>

\* The process dies: the buffer, the command being handled and the acks the
\* client still held are gone; the identity and the session survive.
CrashDevice ==
  /\ Fault("device crash")
  /\ link' = FALSE
  /\ deaf' = FALSE
  /\ statusTopic' = IF link THEN statusTopic \cup {"offline"} ELSE statusTopic
  /\ acksTopic' \in SUBSET acksTopic
  /\ buffer' = <<>>
  /\ current' = Idle
  /\ UNCHANGED <<done, stored, commandsTopic, apiConnected>>

-----------------------------------------------------------------------------
(* The callback of the subscription: tryEmit, whose result is not looked at. *)

\* A buffer that grows with the burst.
BugTryEmitUnbounded(c) == Append(buffer, c)
TryEmit(c) == IF Len(buffer) < BufferCap THEN Append(buffer, c) ELSE buffer

\* The broker sends the message again if the PUBACK of the device is lost.
Deliver(c) ==
  /\ link
  /\ commandsTopic[c] > 0
  /\ buffer' = TryEmit(c)
  /\ \/ commandsTopic' = TakeCopy(c) /\ UNCHANGED faults
     \/ Fault("duplicate") /\ UNCHANGED commandsTopic
  /\ UNCHANGED <<acksTopic, statusTopic, apiConnected, link, current, done, stored, deaf>>

\* Without a subscription the message reaches no callback; where the session has
\* kept an earlier one, Deliver still may.
Unheard(c) ==
  /\ link /\ deaf
  /\ commandsTopic[c] > 0
  /\ commandsTopic' = TakeCopy(c)
  /\ UNCHANGED <<agentVars, acksTopic, statusTopic, apiConnected, link, faults>>

-----------------------------------------------------------------------------
(* handleCommand, one command at a time.                                     *)

\* ackCommand: QoS 1, kept by the client until its PUBACK.  A failure is logged
\* and handleCommand goes on (the broker forgot the session, no client).
SendAck(c, outcome) ==
  \/ acksTopic' = acksTopic \cup {[id |-> c, status |-> outcome]} /\ UNCHANGED faults
  \/ ~link /\ Fault("loss") /\ UNCHANGED acksTopic

AckReceipt ==
  /\ current.pc = "idle"
  /\ buffer # <<>>
  /\ current' = [pc |-> "acked", id |-> Head(buffer), ok |-> FALSE]
  /\ buffer' = Tail(buffer)
  /\ SendAck(Head(buffer), "acknowledged")
  /\ UNCHANGED <<done, stored, deaf, commandsTopic, statusTopic, apiConnected, link>>

\* The step that begins to execute c.
Starts(c) == current.pc = "acked" /\ current.id = c /\ current'.pc = "running"

\* Instant.now().isAfter(expiresAt): the command fails without running.
RefuseExpired ==
  /\ current.pc = "acked"
  /\ current' = [current EXCEPT !.pc = "replying", !.ok = FALSE]
  /\ UNCHANGED <<buffer, done, stored, deaf, transportVars>>

\* Not yet past, to this clock: the row may well be expired.
StartRun ==
  /\ current.pc = "acked"
  /\ current' = [current EXCEPT !.pc = "running"]
  /\ UNCHANGED <<buffer, done, stored, deaf, transportVars>>

\* The command is carried out, or its action throws (an unknown type does).
Run ==
  /\ current.pc = "running"
  /\ current.id \notin Refreshes
  /\ \E ok \in BOOLEAN :
       /\ current' = [current EXCEPT !.pc = "replying", !.ok = ok]
       /\ done' = IF ok THEN done \cup {current.id} ELSE done
  /\ UNCHANGED <<buffer, stored, deaf, transportVars>>

\* One HTTP call of report(): the server may store what it carries and the
\* answer be lost, or refuse it (a blocked device) or never get it.
Push(report, ok) ==
  \/ stored' = [stored EXCEPT ![current.id] = @ \cup {report}]
  \/ ok = FALSE /\ UNCHANGED stored

\* report() with the telemetry skipped.
BugReportHeartbeatOnly ==
  /\ current.pc = "running"
  /\ current.id \in Refreshes
  /\ \E ok \in BOOLEAN :
       /\ Push("heartbeat", ok)
       /\ current' = [current EXCEPT !.pc = "replying", !.ok = ok]
       /\ done' = IF ok THEN done \cup {current.id} ELSE done
  /\ UNCHANGED <<buffer, deaf, transportVars>>

ReportHeartbeat ==
  /\ current.pc = "running"
  /\ current.id \in Refreshes
  /\ \E ok \in BOOLEAN :
       Push("heartbeat", ok) /\ current' = [current EXCEPT !.pc = "reporting", !.ok = ok]
  /\ UNCHANGED <<buffer, done, deaf, transportVars>>

\* Runs whether or not the heartbeat went through; both must have.
ReportTelemetry ==
  /\ current.pc = "reporting"
  /\ \E ok \in BOOLEAN :
       /\ Push("telemetry", ok)
       /\ current' = [current EXCEPT !.pc = "replying", !.ok = @ /\ ok]
       /\ done' = IF current.ok /\ ok THEN done \cup {current.id} ELSE done
  /\ UNCHANGED <<buffer, deaf, transportVars>>

AckOutcome ==
  /\ current.pc = "replying"
  /\ SendAck(current.id, IF current.ok THEN "succeeded" ELSE "failed")
  /\ current' = Idle
  /\ UNCHANGED <<buffer, done, stored, deaf, commandsTopic, statusTopic, apiConnected, link>>

AgentStep ==
  \/ ConnectDevice \/ DisconnectDevice \/ CrashDevice
  \/ \E c \in Commands : Deliver(c) \/ Unheard(c)
  \/ AckReceipt \/ RefuseExpired \/ StartRun
  \/ Run \/ ReportHeartbeat \/ ReportTelemetry \/ AckOutcome
=============================================================================
