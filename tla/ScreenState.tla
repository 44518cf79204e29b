----------------------------- MODULE ScreenState -----------------------------
(***************************************************************************)
(* The screen power state of a device, from the display to the row the     *)
(* dashboard shows: ScreenStateReporter and publishScreenState on the      *)
(* device, the retained topic mdm/devices/{id}/screen, handleScreen in the *)
(* API, and the heartbeats, which carry the state too.                     *)
(***************************************************************************)
EXTENDS Naturals, Sequences

CONSTANTS
  Reports,      \* bound: coroutines of report() alive at the same time
  Unknown,      \* no value: lastReported = null, nothing retained, no heartbeat
  MaxChanges,   \* bound: times the display is switched
  MaxUpdates,   \* bound: setScreenOn calls of one value under way at the same time
  MaxFaults     \* bound: connections lost, processes killed, calls failed

ASSUME ScreenAssumption ==
  /\ Unknown \notin BOOLEAN
  /\ MaxChanges \in Nat /\ MaxFaults \in Nat
  /\ MaxUpdates \in Nat \ {0}

VARIABLES
  screen,        \* PowerManager.isInteractive
  broadcasts,    \* ACTION_SCREEN_ON / OFF sent and not received yet
  reporter,      \* the service runs, with its receiver registered
  lastReported,  \* ScreenStateReporter.lastReported
  report,        \* the coroutines of report(): [pc, on]
  connected,     \* the connection state is CONNECTED
  seen,          \* what the reporter's collector has last seen of it
  retained,      \* the message the broker retains
  screenTopic,   \* messages on their way to the API, in order
  updates,       \* setScreenOn calls under way, by value
  isScreenOn,    \* devices.is_screen_on
  heartbeat,     \* the screenOn of the heartbeat under way
  apiConnected,  \* the API is connected and subscribed
  sent,          \* history: the values this reporter has published
  changes, faults

deviceVars == <<screen, broadcasts, reporter, lastReported, report, connected, seen, heartbeat, changes>>
serverVars == <<retained, screenTopic, updates, isScreenOn, apiConnected, sent>>
vars == <<deviceVars, serverVars, faults>>

Value == BOOLEAN \cup {Unknown}
Done == [pc |-> "idle", on |-> FALSE]

TypeOK ==
  /\ screen \in BOOLEAN /\ isScreenOn \in BOOLEAN
  /\ reporter \in BOOLEAN /\ connected \in BOOLEAN /\ seen \in BOOLEAN /\ apiConnected \in BOOLEAN
  /\ lastReported \in Value /\ retained \in Value /\ heartbeat \in Value
  /\ report \in [Reports -> [pc : {"idle", "launched", "awaiting"}, on : BOOLEAN]]
  /\ screenTopic \in Seq(BOOLEAN) /\ sent \subseteq BOOLEAN
  /\ updates \in [BOOLEAN -> 0..MaxUpdates]
  /\ broadcasts \in 0..MaxChanges /\ changes \in 0..MaxChanges /\ faults \in 0..MaxFaults

\* The service has just connected for the first time.
Init ==
  /\ screen \in BOOLEAN /\ isScreenOn = FALSE
  /\ reporter = TRUE /\ connected = TRUE /\ seen = FALSE /\ apiConnected = TRUE
  /\ lastReported = Unknown /\ retained = Unknown /\ heartbeat = Unknown
  /\ report = [r \in Reports |-> Done]
  /\ screenTopic = <<>> /\ sent = {}
  /\ updates = [v \in BOOLEAN |-> 0]
  /\ broadcasts = 0 /\ changes = 0 /\ faults = 0

Fault == faults < MaxFaults /\ faults' = faults + 1

-----------------------------------------------------------------------------
(* The device.                                                               *)

SwitchScreen ==
  /\ changes < MaxChanges
  /\ changes' = changes + 1
  /\ screen' = ~screen
  /\ broadcasts' = IF reporter THEN broadcasts + 1 ELSE broadcasts
  /\ UNCHANGED <<reporter, lastReported, report, connected, seen, heartbeat, serverVars, faults>>

\* report(): reads the state, then publishes it in a coroutine of its own.
Launch(r) ==
  /\ report[r].pc = "idle"
  /\ report' = [report EXCEPT ![r] = [pc |-> "launched", on |-> screen]]

Receive(r) ==
  /\ reporter /\ broadcasts > 0
  /\ broadcasts' = broadcasts - 1
  /\ IF screen = lastReported THEN UNCHANGED report ELSE Launch(r)
  /\ UNCHANGED <<screen, reporter, lastReported, connected, seen, heartbeat, changes, serverVars, faults>>

(***************************************************************************)
(* The collector of connectionState.  A StateFlow keeps its last value     *)
(* only: a connection that drops and returns meanwhile is not seen.        *)
(***************************************************************************)
CollectState == seen # connected /\ seen' = connected

\* Without force = true the report is deduplicated.
BugReportConnected(r) ==
  /\ reporter /\ connected /\ CollectState
  /\ IF screen = lastReported THEN UNCHANGED report ELSE Launch(r)
  /\ UNCHANGED <<screen, broadcasts, reporter, lastReported, connected, heartbeat, changes, serverVars, faults>>

ReportConnected(r) ==
  /\ reporter /\ connected /\ CollectState
  /\ Launch(r)
  /\ UNCHANGED <<screen, broadcasts, reporter, lastReported, connected, heartbeat, changes, serverVars, faults>>

SeeDisconnected ==
  /\ ~connected /\ CollectState
  /\ UNCHANGED <<screen, broadcasts, reporter, lastReported, report, connected, heartbeat, changes,
                 serverVars, faults>>

\* publishScreenState is false - not CONNECTED, or its publish failed with the
\* connection - and nothing is remembered.
BugGiveUpReport(r) ==
  /\ report[r].pc # "idle" /\ ~connected
  /\ report' = [report EXCEPT ![r] = Done]
  /\ lastReported' = report[r].on
  /\ UNCHANGED <<screen, broadcasts, reporter, connected, seen, heartbeat, changes, serverVars, faults>>

GiveUpReport(r) ==
  /\ report[r].pc # "idle" /\ ~connected
  /\ report' = [report EXCEPT ![r] = Done]
  /\ UNCHANGED <<screen, broadcasts, reporter, lastReported, connected, seen, heartbeat, changes,
                 serverVars, faults>>

\* The coroutines run on the threads of Dispatchers.IO: either goes first.
PublishScreen(r) ==
  /\ report[r].pc = "launched" /\ connected
  /\ report' = [report EXCEPT ![r].pc = "awaiting"]
  /\ retained' = report[r].on
  /\ screenTopic' = Append(screenTopic, report[r].on)
  /\ sent' = sent \cup {report[r].on}
  /\ UNCHANGED <<screen, broadcasts, reporter, lastReported, connected, seen, heartbeat, changes,
                 updates, isScreenOn, apiConnected, faults>>

\* The PUBACK came, perhaps before a drop; two of them resume in either order.
Remember(r) ==
  /\ report[r].pc = "awaiting"
  /\ lastReported' = report[r].on
  /\ report' = [report EXCEPT ![r] = Done]
  /\ UNCHANGED <<screen, broadcasts, reporter, connected, seen, heartbeat, changes, serverVars, faults>>

Disconnect ==
  /\ connected
  /\ Fault
  /\ connected' = FALSE
  /\ UNCHANGED <<screen, broadcasts, reporter, lastReported, report, seen, heartbeat, changes, serverVars>>

Connect ==
  /\ reporter /\ ~connected
  /\ connected' = TRUE
  /\ UNCHANGED <<screen, broadcasts, reporter, lastReported, report, seen, heartbeat, changes, serverVars, faults>>

\* The process is killed; START_STICKY brings the service back.
KillAgent ==
  /\ reporter
  /\ Fault
  /\ reporter' = FALSE /\ connected' = FALSE /\ seen' = FALSE
  /\ broadcasts' = 0
  /\ lastReported' = Unknown
  /\ report' = [r \in Reports |-> Done]
  /\ sent' = {}
  /\ UNCHANGED <<screen, heartbeat, changes, retained, screenTopic, updates, isScreenOn, apiConnected>>

StartReporter ==
  /\ ~reporter
  /\ reporter' = TRUE
  /\ UNCHANGED <<screen, broadcasts, lastReported, report, connected, seen, heartbeat, changes,
                 serverVars, faults>>

\* HeartbeatWorker: every 15 minutes, for ever.
SendHeartbeat ==
  /\ heartbeat = Unknown
  /\ heartbeat' = screen
  /\ UNCHANGED <<screen, broadcasts, reporter, lastReported, report, connected, seen, changes,
                 serverVars, faults>>

\* The request failed before it reached the API.
LoseHeartbeat ==
  /\ heartbeat # Unknown
  /\ Fault
  /\ heartbeat' = Unknown
  /\ UNCHANGED <<screen, broadcasts, reporter, lastReported, report, connected, seen, changes, serverVars>>

-----------------------------------------------------------------------------
(* The API.                                                                  *)

\* A handler per message, not awaited.
DeliverScreen ==
  /\ apiConnected /\ screenTopic # <<>>
  /\ updates[Head(screenTopic)] < MaxUpdates
  /\ updates' = [updates EXCEPT ![Head(screenTopic)] = @ + 1]
  /\ screenTopic' = Tail(screenTopic)
  /\ UNCHANGED <<deviceVars, retained, isScreenOn, apiConnected, sent, faults>>

SetScreenOn(v) ==
  /\ updates[v] > 0
  /\ updates' = [updates EXCEPT ![v] = @ - 1]
  /\ isScreenOn' = v
  /\ UNCHANGED <<deviceVars, retained, screenTopic, apiConnected, sent, faults>>

\* The statement fails: the error is logged, the message gone.
FailScreen(v) ==
  /\ updates[v] > 0
  /\ Fault
  /\ updates' = [updates EXCEPT ![v] = @ - 1]
  /\ UNCHANGED <<deviceVars, retained, screenTopic, isScreenOn, apiConnected, sent>>

\* A recordHeartbeat that leaves is_screen_on to the screen topic.
BugRecordHeartbeat ==
  /\ heartbeat # Unknown
  /\ heartbeat' = Unknown
  /\ UNCHANGED <<screen, broadcasts, reporter, lastReported, report, connected, seen, changes,
                 serverVars, faults>>

\* A recordHeartbeat that also writes what a heartbeat did not determine.
BugRecordAnyHeartbeat ==
  /\ isScreenOn' = heartbeat
  /\ heartbeat' = Unknown
  /\ UNCHANGED <<screen, broadcasts, reporter, lastReported, report, connected, seen, changes,
                 retained, screenTopic, updates, apiConnected, sent, faults>>

\* recordHeartbeat writes is_screen_on as well.
RecordHeartbeat ==
  /\ heartbeat # Unknown
  /\ isScreenOn' = heartbeat
  /\ heartbeat' = Unknown
  /\ UNCHANGED <<screen, broadcasts, reporter, lastReported, report, connected, seen, changes,
                 retained, screenTopic, updates, apiConnected, sent, faults>>

\* The API loses the broker, or its process dies with the handlers under way.
DisconnectApi ==
  /\ apiConnected
  /\ Fault
  /\ apiConnected' = FALSE
  /\ updates' \in {updates, [v \in BOOLEAN |-> 0]}
  /\ UNCHANGED <<deviceVars, retained, screenTopic, isScreenOn, sent>>

\* A subscription that does not bring the retained message.
BugConnectApi ==
  /\ ~apiConnected
  /\ apiConnected' = TRUE
  /\ UNCHANGED <<deviceVars, retained, screenTopic, updates, isScreenOn, sent, faults>>

\* Subscribing again brings the retained message again.
ConnectApi ==
  /\ ~apiConnected
  /\ apiConnected' = TRUE
  /\ screenTopic' = IF retained = Unknown THEN screenTopic ELSE Append(screenTopic, retained)
  /\ UNCHANGED <<deviceVars, retained, updates, isScreenOn, sent, faults>>

-----------------------------------------------------------------------------
Next ==
  \/ SwitchScreen \/ Disconnect \/ Connect \/ SeeDisconnected \/ KillAgent \/ StartReporter
  \/ \E r \in Reports : Receive(r) \/ ReportConnected(r) \/ GiveUpReport(r) \/ PublishScreen(r) \/ Remember(r)
  \/ SendHeartbeat \/ LoseHeartbeat \/ RecordHeartbeat
  \/ DeliverScreen \/ \E v \in BOOLEAN : SetScreenOn(v) \/ FailScreen(v)
  \/ DisconnectApi \/ ConnectApi

Spec == Init /\ [][Next]_vars

(***************************************************************************)
(* Fairness: coroutines and handlers run, the clients reconnect, the       *)
(* service is sticky, WorkManager repeats the heartbeat.  The display and  *)
(* the faults are free.                                                    *)
(***************************************************************************)
Fairness ==
  /\ WF_vars(Connect) /\ WF_vars(StartReporter) /\ WF_vars(ConnectApi)
  /\ WF_vars(SendHeartbeat) /\ WF_vars(RecordHeartbeat)
  /\ WF_vars(\E r \in Reports : Receive(r))
  /\ WF_vars(\E r \in Reports : ReportConnected(r)) /\ WF_vars(SeeDisconnected)
  /\ \A r \in Reports : WF_vars(GiveUpReport(r) \/ PublishScreen(r) \/ Remember(r))
  /\ WF_vars(DeliverScreen)
  /\ \A v \in BOOLEAN : WF_vars(SetScreenOn(v))

FairSpec == Spec /\ Fairness

-----------------------------------------------------------------------------
(***************************************************************************)
(* A change of the display is passed over only if its value did reach the  *)
(* broker: what lastReported remembers was published by this reporter - "a *)
(* silent no-op must not be mistaken for success" (ScreenStateReporter).   *)
(***************************************************************************)
OnlyPublishedIsRemembered == lastReported \in sent \cup {Unknown}

\* Why: a report waits for a PUBACK only once its value is published.  A
\* broadcast announces a change.
AwaitedWasSent == \A r \in Reports : report[r].pc = "awaiting" => report[r].on \in sent

Inv == TypeOK /\ broadcasts <= changes /\ AwaitedWasSent /\ OnlyPublishedIsRemembered

(***************************************************************************)
(* What the broker retains is what the row says, or is on its way to it,   *)
(* through drops and crashes of either side, except for three writers: a   *)
(* handler whose statement fails, a handler that ends out of order, and a  *)
(* heartbeat that saw another state (handleScreen, recordHeartbeat).       *)
(***************************************************************************)
Tracked ==
  \/ retained = Unknown \/ isScreenOn = retained \/ ~apiConnected
  \/ \E v \in BOOLEAN : v = retained /\ (updates[v] > 0 \/ \E i \in DOMAIN screenTopic : screenTopic[i] = v)

RowFollowsTopic ==
  [][Tracked /\ ~Tracked' =>
       \/ \E v \in BOOLEAN : IF v = retained THEN FailScreen(v) ELSE SetScreenOn(v)
       \/ heartbeat # retained /\ RecordHeartbeat]_vars

(***************************************************************************)
(* Whatever the screen topic and the unawaited handlers did to it, the row *)
(* of a display that stays as it is ends up telling its state: the next    *)
(* heartbeat writes it (recordHeartbeat).                                  *)
(***************************************************************************)
HeartbeatMendsScreen ==
  \A v \in BOOLEAN : <>[](screen = v) => <>[](isScreenOn = v)

(***************************************************************************)
(* Every reconnection re-asserts the state (ScreenStateReporter.start): of *)
(* a reporter that saw its connection drop, has nothing under way and      *)
(* reconnects for good, the broker ends up retaining the display's state.  *)
(***************************************************************************)
Dropped(v) ==
  /\ ~connected /\ ~seen /\ screen = v
  /\ \A r \in Reports : report[r] = Done

ReconnectMendsScreen ==
  \A v \in BOOLEAN :
    [](Dropped(v) /\ [](screen = v) /\ [](connected => []connected) => <>[](retained = v))

(***************************************************************************)
(* The state is reported "whenever it changes" (ScreenStateReporter): a    *)
(* display that stays as it is, on a connection that stays up, ends up     *)
(* retained as it is.                                                      *)
(***************************************************************************)
ScreenIsRetained ==
  \A v \in BOOLEAN : <>[](screen = v /\ connected) => <>[](retained = v)
=============================================================================
