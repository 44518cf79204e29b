--------------------------- MODULE CommandDelivery ---------------------------
(***************************************************************************)
(* Remote commands end to end: the API (CommandService) and the agent of   *)
(* one device (CommandAgent) over MQTT (MqttTransport).  Devices share     *)
(* nothing but the loop of the flush, so one of them is enough.            *)
(***************************************************************************)
EXTENDS CommandService, CommandAgent

vars == <<serviceVars, agentVars, transportVars>>

TypeOK == TransportTypeOK /\ ServiceTypeOK /\ AgentTypeOK

Init == TransportInit /\ ServiceInit /\ AgentInit

Next ==
  \/ ServiceStep /\ UNCHANGED agentVars
  \/ AgentStep /\ UNCHANGED serviceVars
  \/ (\E c \in Commands : LoseQueued(c)) /\ UNCHANGED <<serviceVars, agentVars>>

Spec == Init /\ [][Next]_vars

(***************************************************************************)
(* Fairness.  The event loop of the API and Postgres answer, so a started  *)
(* request, handler or loop goes on; mqtt.js and HiveMQ reconnect by       *)
(* themselves (reconnectPeriod, automaticReconnect, START_STICKY); QoS 1   *)
(* delivers over a connection that stays up; the coroutine of              *)
(* handleCommand goes on.  Faults, admin requests and time are not fair.   *)
(***************************************************************************)
WithoutAgent == UNCHANGED agentVars
WithoutService == UNCHANGED serviceVars

Fairness ==
  /\ \A c \in Commands :
       /\ WF_vars((InsertCommand(c) \/ PublishCommand(c) \/ MarkPublished(c)) /\ WithoutAgent)
       /\ WF_vars((Deliver(c) \/ Unheard(c)) /\ WithoutService)
  /\ \A r \in Refreshes : WF_vars((PollRefresh(r) \/ GiveUpRefresh(r)) /\ WithoutAgent)
  /\ \A m \in Ack : WF_vars(HandleAck(m) /\ WithoutAgent)
  /\ \A s \in Presence : WF_vars((\E w \in Handlers : HandleStatus(w, s)) /\ WithoutAgent)
  /\ \A w \in Workers :
       WF_vars((SweepOverdue(w) \/ FindRows(w) \/ PublishRow(w) \/ MarkRow(w)) /\ WithoutAgent)
  /\ WF_vars(ConnectApi /\ WithoutAgent)
  /\ WF_vars(ConnectDevice /\ WithoutService)
  /\ WF_vars((AckReceipt \/ RefuseExpired \/ StartRun \/ Run
              \/ ReportHeartbeat \/ ReportTelemetry \/ AckOutcome) /\ WithoutService)

FairSpec == Spec /\ Fairness

-----------------------------------------------------------------------------
(* Safety.                                                                   *)

\* The command stream refines the life cycle an admin relies on: rows only
\* move forward, a final status stays (a late or repeated ack never rewrites
\* it), and "succeeded" comes after the device did the work - across
\* concurrent handlers, redeliveries and crashes (CommandRepository).
Lifecycle == INSTANCE CommandLifecycle
ImplementsLifecycle == Lifecycle!Spec

\* When refresh() answers 200 the server has stored a heartbeat and a
\* telemetry sent for this very request, not older data (CommandService.
\* refresh; CommandExecutor "refresh" and DeviceRepository.report).
RefreshAnswerIsFresh ==
  \A r \in Refreshes : request[r] = "ok" => status[r] = "succeeded" /\ stored[r] = Reports

\* Once refresh() has answered, its row is final: no later redelivery finds it
\* (CommandService.waitForCompletion, CommandRepository.expire).
AnsweredRefreshIsClosed ==
  \A r \in Refreshes :
    request[r] \in {"ok", "failed", "timeout", "unavailable"} => status[r] \in Final

Buffered == {buffer[i] : i \in 1..Len(buffer)}

\* A command that is still to be delivered and that something is on its way to
\* deliver, or to find again: its request, a copy, an ack, a connection to come
\* back, the presence that starts a redelivery, or the redelivery itself.
Pursued(c) ==
  \/ status[c] \notin Undelivered \/ c \in overdue
  \/ request[c] = "inserted"
  \/ commandsTopic[c] > 0 \/ c \in Buffered \/ (current.pc # "idle" /\ current.id = c)
  \/ \E m \in acksTopic : m.id = c
  \/ ~apiConnected \/ ~link \/ "online" \in statusTopic
  \/ \E w \in Handlers : worker[w].pc \in {"sweep", "find"} \/ c \in worker[w].todo

\* The four ways the code loses sight of a command: what was after it is dropped
\* by a SQL error, a burst drops it on a full buffer, and a failed SUBSCRIBE, only
\* logged, leaves the device deaf to it or the API without its flush.
Forgets(c) ==
  \/ FailStatement
  \/ Deliver(c) /\ Len(buffer) = BufferCap
  \/ Unheard(c)
  \/ ConnectApiOnly

\* No other step does: no drop, crash, loss, duplicate or race of requests, loops
\* and handlers (redeliver, main.ts).
OnlyErrorsForget ==
  [][\A c \in Commands : Pursued(c) /\ ~Pursued(c)' => Forgets(c)]_vars

-----------------------------------------------------------------------------
(* Why it holds: the inductive invariant.                                    *)

\* The row of a command is there before anything else of it exists.
RowComesFirst ==
  /\ \A c \in Commands :
       /\ request[c] \in {"idle", "checked", "refused"} => status[c] = "none"
       /\ request[c] \notin {"idle", "checked", "refused", "lost"} => status[c] # "none"
       /\ commandsTopic[c] > 0 \/ c \in Buffered => status[c] # "none"
  /\ current.pc # "idle" => status[current.id] # "none"
  /\ \A w \in Workers : \A c \in worker[w].todo : status[c] # "none"

\* A success is claimed, from the run to the row, only for what was done, and
\* a refresh is done when the server has stored both of its reports.
SuccessIsEarned ==
  /\ \A c \in Commands : status[c] = "succeeded" => c \in done
  /\ \A m \in acksTopic : m.status = "succeeded" => m.id \in done
  /\ current.pc = "replying" /\ current.ok => current.id \in done
  /\ current.pc = "reporting" =>
       current.id \in Refreshes /\ (current.ok => "heartbeat" \in stored[current.id])
  /\ \A r \in Refreshes : r \in done => stored[r] = Reports

\* What refresh() answered agrees with a row that will not change any more.
AnswerMatchesRow ==
  \A c \in Commands :
    /\ request[c] = "ok" => status[c] = "succeeded"
    /\ request[c] \in {"failed", "timeout", "unavailable"} => status[c] \in Final

\* Only the sweep expires a command of create(), and only in time.
ExpiredIsOverdue ==
  \A c \in Commands \ Refreshes : status[c] = "expired" => c \in overdue

Inv == TypeOK /\ RowComesFirst /\ SuccessIsEarned /\ AnswerMatchesRow /\ ExpiredIsOverdue

-----------------------------------------------------------------------------
(* Liveness, under FairSpec.                                                 *)

\* Faults being finite, a command is acknowledged, completed or expired before
\* its expiresAt passes, if it passes at all: the redelivery on "online" and
\* the flush make up for what crashes and losses took.
\* It is checked without the bursts that a full buffer drops.
CommandsAreTaken ==
  \A c \in Commands :
    (status[c] \in Undelivered) ~> (status[c] \notin Undelivered \/ c \in overdue)

-----------------------------------------------------------------------------
(* What the code says of itself and the model refutes.                       *)

\* service.ts says the agent must dedupe by id: a command is run once.
DoneIsNotRunAgain == [][\A c \in done : ~Starts(c)]_vars
=============================================================================
