--------------------------- MODULE CommandService ---------------------------
(***************************************************************************)
(* The API side of remote commands: CommandService and CommandRepository   *)
(* (features/command), wired to the MQTT gateway by main.ts.  Every action *)
(* is one step between two awaits of the code: one SQL statement, or one   *)
(* publish.  Requests, message handlers and the flush interleave freely    *)
(* at those awaits.                                                        *)
(***************************************************************************)
EXTENDS MqttTransport

CONSTANTS
  Handlers,    \* bound: status handlers that run at the same time
  Flush        \* the run of flushPendingForOnlineDevices

ASSUME ServiceAssumption == Flush \notin Handlers

VARIABLES
  status,    \* device_commands.status, "none" before the INSERT
  overdue,   \* the commands whose expiresAt has passed, by the clock of the API
  online,    \* devices.online
  request,   \* where the admin's request for each command is, or its answer
  worker     \* the redelivery loops: one per status handler, and the flush

serviceVars == <<status, overdue, online, request, worker>>

Undelivered == {"pending", "sent"}
Unfinished  == Undelivered \cup {"acknowledged"}
Final       == {"succeeded", "failed", "expired"}
Status      == {"none"} \cup Unfinished \cup Final

\* The awaits of a request, then what it answers ("lost": a 500, or nothing).
InProgress == {"checked", "inserted", "published", "unpublished", "waiting", "givingUp"}
Answers    == {"created", "refused", "ok", "failed", "timeout", "unavailable", "lost"}
Requests   == {"idle"} \cup InProgress \cup Answers

Workers == Handlers \cup {Flush}
Loop    == [pc : {"idle", "sweep", "find", "loop", "mark"},
            todo : SUBSET Commands, cur : Commands \cup {NoCommand}]

ServiceTypeOK ==
  /\ status \in [Commands -> Status]
  /\ overdue \subseteq Commands
  /\ online \in BOOLEAN
  /\ request \in [Commands -> Requests]
  /\ worker \in [Workers -> Loop]
  /\ \A w \in Workers : worker[w].pc = "mark" => worker[w].cur \in Commands

IdleLoop == [pc |-> "idle", todo |-> {}, cur |-> NoCommand]

ServiceInit ==
  /\ status = [c \in Commands |-> "none"]
  /\ overdue = {}
  /\ online = link
  /\ request = [c \in Commands |-> "idle"]
  /\ worker = [w \in Workers |-> IdleLoop]

-----------------------------------------------------------------------------
(* The statements of CommandRepository: what each UPDATE leaves in the rows. *)

\* A markSent without its "status = 'pending'" condition.
BugMarkSentAnyRow(c) == [status EXCEPT ![c] = "sent"]
MarkSent(c) == IF status[c] = "pending" THEN [status EXCEPT ![c] = "sent"] ELSE status

\* A final ack accepted whatever the row says.
BugAllowedFromAny(ack) == Status \ {"none"}
AllowedFrom(ack) == IF ack = "acknowledged" THEN Undelivered ELSE Unfinished

ApplyAck(m) ==
  IF status[m.id] \in AllowedFrom(m.status) THEN [status EXCEPT ![m.id] = m.status] ELSE status

\* An expire that forgets the acknowledged rows.
BugExpireUndelivered(c) ==
  IF status[c] \in Undelivered THEN [status EXCEPT ![c] = "expired"] ELSE status
ExpireRow(c) == IF status[c] \in Unfinished THEN [status EXCEPT ![c] = "expired"] ELSE status

\* A sweep that does not look at expiresAt.
BugSweepAll == [c \in Commands |-> IF status[c] \in Undelivered THEN "expired" ELSE status[c]]
ExpireOverdue ==
  [c \in Commands |-> IF c \in overdue /\ status[c] \in Undelivered THEN "expired" ELSE status[c]]

\* A redelivery that only looks for what was never published.
BugDeliverablePending == {c \in Commands \ overdue : status[c] = "pending"}
Deliverable == {c \in Commands \ overdue : status[c] \in Undelivered}

PendingForOnlineDevices == {c \in Commands \ overdue : online /\ status[c] = "pending"}

-----------------------------------------------------------------------------
(* Requests of the admin: create(), and refresh() with its waitForCompletion. *)

Proceed(c, to) == request' = [request EXCEPT ![c] = to]

\* The row of the device is outside this module: it may be unknown, not
\* enrolled or blocked, and a refresh also needs it online.
AssertCommandable(c) ==
  /\ request[c] = "idle"
  /\ \/ Proceed(c, "refused")
     \/ (c \in Refreshes => online) /\ Proceed(c, "checked")
  /\ UNCHANGED <<status, overdue, online, worker, transportVars>>

InsertCommand(c) ==
  /\ request[c] = "checked"
  /\ status' = [status EXCEPT ![c] = "pending"]
  /\ Proceed(c, "inserted")
  /\ UNCHANGED <<overdue, online, worker, transportVars>>

PublishCommand(c) ==
  /\ request[c] = "inserted"
  /\ \E published \in BOOLEAN :
       /\ PublishJson(c, published)
       /\ Proceed(c, IF published THEN "published"
                     ELSE IF c \in Refreshes THEN "unpublished" ELSE "created")
  /\ UNCHANGED <<status, overdue, online, worker, acksTopic, statusTopic, apiConnected, link, faults>>

MarkPublished(c) ==
  /\ request[c] = "published"
  /\ status' = MarkSent(c)
  /\ Proceed(c, IF c \in Refreshes THEN "waiting" ELSE "created")
  /\ UNCHANGED <<overdue, online, worker, transportVars>>

\* One findById of the poll sees a completed row, or it is the last one
\* before the deadline and sees anything else.
PollRefresh(c) ==
  /\ request[c] = "waiting"
  /\ Proceed(c, IF status[c] = "succeeded" THEN "ok"
                ELSE IF status[c] = "failed" THEN "failed" ELSE "givingUp")
  /\ UNCHANGED <<status, overdue, online, worker, transportVars>>

GiveUpRefresh(c) ==
  /\ request[c] \in {"unpublished", "givingUp"}
  /\ status' = ExpireRow(c)
  /\ Proceed(c, IF request[c] = "givingUp" THEN "timeout" ELSE "unavailable")
  /\ UNCHANGED <<overdue, online, worker, transportVars>>

-----------------------------------------------------------------------------
(* Messages of the device.  A handler is started for each and not awaited. *)

\* One UPDATE: which of two concurrent handlers goes first is open, and a
\* handler that was started goes on when the connection falls.  The broker
\* delivers the ack again if its PUBACK is lost.
HandleAck(m) ==
  /\ m \in acksTopic
  /\ status' = ApplyAck(m)
  /\ \/ acksTopic' = acksTopic \ {m} /\ UNCHANGED faults
     \/ Fault("duplicate") /\ UNCHANGED acksTopic
  /\ UNCHANGED <<overdue, online, request, worker, commandsTopic, statusTopic, apiConnected, link>>

\* A redelivery for devices that were known to be offline alone.
BugHandleStatusChange(w, s) ==
  /\ s \in statusTopic
  /\ worker[w].pc = "idle"
  /\ statusTopic' = statusTopic \ {s}
  /\ online' = (s = "online")
  /\ worker' = IF s = "online" /\ ~online THEN [worker EXCEPT ![w].pc = "sweep"] ELSE worker
  /\ UNCHANGED <<status, overdue, request, commandsTopic, acksTopic, apiConnected, link, faults>>

HandleStatus(w, s) ==
  /\ s \in statusTopic
  /\ worker[w].pc = "idle"
  /\ statusTopic' = statusTopic \ {s}
  /\ online' = (s = "online")
  /\ worker' = IF s = "online" THEN [worker EXCEPT ![w].pc = "sweep"] ELSE worker
  /\ UNCHANGED <<status, overdue, request, commandsTopic, acksTopic, apiConnected, link, faults>>

-----------------------------------------------------------------------------
(* redeliver (status handlers) and flushPendingForOnlineDevices (Flush):     *)
(* expireOverdue, one SELECT, then publish and markSent row by row.  The     *)
(* order of createdAt is abstracted.                                         *)

NextRow(todo) == [pc |-> IF todo = {} THEN "idle" ELSE "loop", todo |-> todo, cur |-> NoCommand]

SweepOverdue(w) ==
  /\ worker[w].pc = "sweep"
  /\ status' = ExpireOverdue
  /\ worker' = [worker EXCEPT ![w].pc = "find"]
  /\ UNCHANGED <<overdue, online, request, transportVars>>

FindRows(w) ==
  /\ worker[w].pc = "find"
  /\ worker' = [worker EXCEPT ![w] = NextRow(IF w = Flush THEN PendingForOnlineDevices ELSE Deliverable)]
  /\ UNCHANGED <<status, overdue, online, request, transportVars>>

PublishRow(w) ==
  /\ worker[w].pc = "loop"
  /\ \E c \in worker[w].todo, published \in BOOLEAN :
       /\ PublishJson(c, published)
       /\ worker' = [worker EXCEPT ![w] =
            IF published THEN [pc |-> "mark", todo |-> worker[w].todo \ {c}, cur |-> c]
                         ELSE NextRow(worker[w].todo \ {c})]
  /\ UNCHANGED <<status, overdue, online, request, acksTopic, statusTopic, apiConnected, link, faults>>

MarkRow(w) ==
  /\ worker[w].pc = "mark"
  /\ status' = MarkSent(worker[w].cur)
  /\ worker' = [worker EXCEPT ![w] = NextRow(worker[w].todo)]
  /\ UNCHANGED <<overdue, online, request, transportVars>>

-----------------------------------------------------------------------------
(* The connection of the API to the broker, and its process.                 *)

\* The connect handler subscribes, which brings the retained status again,
\* and flushes.  Bound: a new connection waits for the previous flush.
ConnectApi ==
  /\ ~apiConnected
  /\ worker[Flush].pc = "idle"
  /\ apiConnected' = TRUE
  /\ statusTopic' = statusTopic \cup {RetainedStatus}
  /\ worker' = [worker EXCEPT ![Flush].pc = "sweep"]
  /\ UNCHANGED <<status, overdue, online, request, commandsTopic, acksTopic, link, faults>>

\* A SUBSCRIBE that fails is logged and ends the handler: the session still
\* brings acks and statuses, but neither the retained status nor the flush comes.
ConnectApiOnly ==
  /\ ~apiConnected
  /\ Fault("api subscribe")
  /\ apiConnected' = TRUE
  /\ UNCHANGED <<serviceVars, commandsTopic, acksTopic, statusTopic, link>>

DisconnectApi ==
  /\ apiConnected
  /\ Fault("api drop")
  /\ apiConnected' = FALSE
  /\ UNCHANGED <<serviceVars, commandsTopic, acksTopic, statusTopic, link>>

\* The process dies: its requests and loops with it, the publishes mqtt.js
\* held in memory, and the messages whose handler had not reached its UPDATE.
CrashApi ==
  /\ Fault("api crash")
  /\ apiConnected' = FALSE
  /\ request' = [c \in Commands |-> IF request[c] \in InProgress THEN "lost" ELSE request[c]]
  /\ worker' = [w \in Workers |-> IdleLoop]
  /\ \E S \in SUBSET Commands :
       commandsTopic' = [c \in Commands |-> IF c \in S /\ commandsTopic[c] > 0
                                            THEN commandsTopic[c] - 1 ELSE commandsTopic[c]]
  /\ acksTopic' \in SUBSET acksTopic
  /\ statusTopic' \in SUBSET statusTopic
  /\ UNCHANGED <<status, overdue, online, link>>

\* A statement of Postgres fails: its request answers 500, its loop ends
\* there, its message is dropped with a log line.
FailStatement ==
  /\ Fault("sql error")
  /\ \/ \E c \in Commands : request[c] \in InProgress \ {"inserted"} /\ Proceed(c, "lost")
                           /\ UNCHANGED <<worker, acksTopic, statusTopic>>
     \/ \E w \in Workers : /\ worker[w].pc \in {"sweep", "find", "mark"}
                          /\ worker' = [worker EXCEPT ![w] = IdleLoop]
                          /\ UNCHANGED <<request, acksTopic, statusTopic>>
     \/ \E m \in acksTopic : acksTopic' = acksTopic \ {m} /\ UNCHANGED <<request, worker, statusTopic>>
     \/ \E s \in statusTopic : statusTopic' = statusTopic \ {s} /\ UNCHANGED <<request, worker, acksTopic>>
  /\ UNCHANGED <<status, overdue, online, commandsTopic, apiConnected, link>>

\* Time: the expiresAt of an inserted command passes, by the clock of the API.
PassExpiry(c) ==
  /\ status[c] # "none"
  /\ c \notin overdue
  /\ overdue' = overdue \cup {c}
  /\ UNCHANGED <<status, online, request, worker, transportVars>>

ServiceStep ==
  \/ \E c \in Commands : AssertCommandable(c) \/ InsertCommand(c) \/ PublishCommand(c)
                         \/ MarkPublished(c) \/ PassExpiry(c)
  \/ \E c \in Refreshes : PollRefresh(c) \/ GiveUpRefresh(c)
  \/ \E m \in acksTopic : HandleAck(m)
  \/ \E w \in Handlers, s \in statusTopic : HandleStatus(w, s)
  \/ \E w \in Workers : SweepOverdue(w) \/ FindRows(w) \/ PublishRow(w) \/ MarkRow(w)
  \/ ConnectApi \/ ConnectApiOnly \/ DisconnectApi \/ CrashApi \/ FailStatement
=============================================================================
