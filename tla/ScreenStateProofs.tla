-------------------------- MODULE ScreenStateProofs --------------------------
(***************************************************************************)
(* Theorems about ScreenState: its types, and that the deduplication of    *)
(* reports never relies on a value the broker was not sent.                *)
(***************************************************************************)
EXTENDS ScreenState, SequenceTheorems, TLAPS

Coroutine == [pc : {"idle", "launched", "awaiting"}, on : BOOLEAN]

\* The state the proofs are about: the coroutines and what they know.
reportVars == <<report, lastReported, sent>>

\* The five things a step may do to it.
Starts(r) == Launch(r) /\ UNCHANGED <<lastReported, sent>>
Publishes(r) ==
  /\ report' = [report EXCEPT ![r].pc = "awaiting"]
  /\ sent' = sent \cup {report[r].on}
  /\ UNCHANGED lastReported
Ends(r) ==
  /\ report' = [report EXCEPT ![r] = Done]
  /\ \/ UNCHANGED lastReported
     \/ report[r].pc = "awaiting" /\ lastReported' = report[r].on
  /\ UNCHANGED sent
Forgets ==
  /\ report' = [r \in Reports |-> Done]
  /\ lastReported' = Unknown
  /\ sent' = {}

LEMMA ReportEffects ==
  ASSUME [Next]_vars
  PROVE  \/ UNCHANGED reportVars
         \/ Forgets
         \/ \E r \in Reports : Starts(r) \/ Publishes(r) \/ Ends(r)
<1> USE DEF reportVars, deviceVars, serverVars
<1>1. CASE SwitchScreen \/ Disconnect \/ Connect \/ SeeDisconnected \/ StartReporter
  BY <1>1 DEF SwitchScreen, Disconnect, Connect, SeeDisconnected, StartReporter
<1>2. CASE KillAgent
  BY <1>2 DEF KillAgent, Forgets
<1>3. ASSUME NEW r \in Reports, Receive(r) \/ ReportConnected(r)
      PROVE  UNCHANGED reportVars \/ Starts(r)
  BY <1>3 DEF Receive, ReportConnected, Starts
<1>4. ASSUME NEW r \in Reports, GiveUpReport(r) \/ Remember(r)
      PROVE  Ends(r)
  BY <1>4 DEF GiveUpReport, Remember, Ends
<1>5. ASSUME NEW r \in Reports, PublishScreen(r)
      PROVE  Publishes(r)
  BY <1>5 DEF PublishScreen, Publishes
<1>6. CASE SendHeartbeat \/ LoseHeartbeat \/ RecordHeartbeat
  BY <1>6 DEF SendHeartbeat, LoseHeartbeat, RecordHeartbeat
<1>7. CASE DeliverScreen \/ DisconnectApi \/ ConnectApi
  BY <1>7 DEF DeliverScreen, DisconnectApi, ConnectApi
<1>8. ASSUME NEW v \in BOOLEAN, SetScreenOn(v) \/ FailScreen(v)
      PROVE  UNCHANGED reportVars
  BY <1>8 DEF SetScreenOn, FailScreen
<1>9. CASE UNCHANGED vars
  BY <1>9 DEF vars
<1> QED BY <1>1, <1>2, <1>3, <1>4, <1>5, <1>6, <1>7, <1>8, <1>9 DEF Next

\* What a coroutine waits to hear of, and what it remembers, was published.
LEMMA ReportsStep ==
  ASSUME Inv, [Next]_vars
  PROVE  /\ report' \in [Reports -> Coroutine]
         /\ lastReported' \in Value
         /\ sent' \subseteq BOOLEAN
         /\ AwaitedWasSent'
         /\ OnlyPublishedIsRemembered'
<1> USE DEF AwaitedWasSent, OnlyPublishedIsRemembered, Value
<1>0. /\ report \in [Reports -> Coroutine]
      /\ lastReported \in Value /\ sent \subseteq BOOLEAN /\ screen \in BOOLEAN
      /\ AwaitedWasSent /\ OnlyPublishedIsRemembered
  BY DEF Inv, TypeOK, Coroutine
<1>1. CASE UNCHANGED reportVars
  BY <1>0, <1>1 DEF reportVars
<1>2. CASE Forgets
  BY <1>2 DEF Forgets, Done, Coroutine
<1>3. ASSUME NEW r \in Reports, Starts(r)
      PROVE  /\ report' \in [Reports -> Coroutine]
             /\ AwaitedWasSent'
             /\ sent' = sent /\ lastReported' = lastReported
  BY <1>0, <1>3 DEF Starts, Launch, Coroutine
<1>4. ASSUME NEW r \in Reports, Publishes(r)
      PROVE  /\ report' \in [Reports -> Coroutine]
             /\ AwaitedWasSent'
             /\ sent \subseteq sent' /\ sent' \subseteq BOOLEAN
             /\ lastReported' = lastReported
  BY <1>0, <1>4 DEF Publishes, Coroutine
<1>5. ASSUME NEW r \in Reports, Ends(r)
      PROVE  /\ report' \in [Reports -> Coroutine]
             /\ AwaitedWasSent'
             /\ sent' = sent /\ lastReported' \in sent \cup {Unknown}
  BY <1>0, <1>5 DEF Ends, Done, Coroutine
<1> QED BY <1>0, <1>1, <1>2, <1>3, <1>4, <1>5, ReportEffects

\* A broadcast announces a change of the display, one at most for each.
LEMMA CountersStep ==
  ASSUME Inv, [Next]_vars
  PROVE  /\ broadcasts' \in Nat /\ changes' \in 0..MaxChanges
         /\ broadcasts' <= changes'
         /\ faults' \in 0..MaxFaults
         /\ updates' \in [BOOLEAN -> 0..MaxUpdates]
<1> USE ScreenAssumption DEF deviceVars, serverVars, Fault
<1>0. /\ broadcasts \in Nat /\ changes \in 0..MaxChanges /\ broadcasts <= changes
      /\ faults \in 0..MaxFaults /\ updates \in [BOOLEAN -> 0..MaxUpdates]
  BY DEF Inv, TypeOK
<1>1. CASE SwitchScreen
  BY <1>0, <1>1 DEF SwitchScreen
<1>2. CASE Connect \/ SeeDisconnected \/ StartReporter \/ SendHeartbeat \/ RecordHeartbeat \/ ConnectApi
  BY <1>0, <1>2 DEF Connect, SeeDisconnected, StartReporter, SendHeartbeat, RecordHeartbeat, ConnectApi
<1>3. CASE Disconnect \/ LoseHeartbeat
  BY <1>0, <1>3 DEF Disconnect, LoseHeartbeat
<1>4. CASE KillAgent
  BY <1>0, <1>4 DEF KillAgent
<1>5. ASSUME NEW r \in Reports, ReportConnected(r) \/ GiveUpReport(r) \/ PublishScreen(r) \/ Remember(r)
      PROVE  UNCHANGED <<broadcasts, changes, faults, updates>>
  BY <1>5 DEF ReportConnected, GiveUpReport, PublishScreen, Remember
<1>6. ASSUME NEW r \in Reports, Receive(r)
      PROVE  broadcasts' = broadcasts - 1 /\ broadcasts > 0 /\ UNCHANGED <<changes, faults, updates>>
  BY <1>6 DEF Receive
<1>7. CASE DeliverScreen
  <2>1. PICK v \in BOOLEAN : v = Head(screenTopic)
    BY <1>7 DEF DeliverScreen, Inv, TypeOK
  <2>2. updates[v] \in Nat /\ updates[v] < MaxUpdates /\ updates' = [updates EXCEPT ![v] = @ + 1]
    BY <1>0, <1>7, <2>1 DEF DeliverScreen
  <2>3. updates' \in [BOOLEAN -> 0..MaxUpdates]
    BY <1>0, <2>2
  <2> QED BY <1>0, <1>7, <2>3 DEF DeliverScreen
<1>8. ASSUME NEW v \in BOOLEAN, SetScreenOn(v) \/ FailScreen(v)
      PROVE  /\ updates' \in [BOOLEAN -> 0..MaxUpdates] /\ faults' \in 0..MaxFaults
             /\ UNCHANGED <<broadcasts, changes>>
  BY <1>0, <1>8 DEF SetScreenOn, FailScreen
<1>9. CASE DisconnectApi
  BY <1>0, <1>9 DEF DisconnectApi
<1>10. CASE UNCHANGED vars
  BY <1>0, <1>10 DEF vars
<1> QED BY <1>0, <1>1, <1>2, <1>3, <1>4, <1>5, <1>6, <1>7, <1>8, <1>9, <1>10 DEF Next

\* The values on their way are values of the display.
LEMMA ValuesStep ==
  ASSUME Inv, [Next]_vars
  PROVE  /\ screen' \in BOOLEAN /\ isScreenOn' \in BOOLEAN
         /\ retained' \in Value /\ heartbeat' \in Value
         /\ screenTopic' \in Seq(BOOLEAN)
<1> USE DEF deviceVars, serverVars, Value
<1>0. /\ screen \in BOOLEAN /\ isScreenOn \in BOOLEAN
      /\ retained \in Value /\ heartbeat \in Value
      /\ screenTopic \in Seq(BOOLEAN)
      /\ report \in [Reports -> Coroutine]
  BY DEF Inv, TypeOK, Coroutine
<1>1. CASE SwitchScreen \/ SendHeartbeat \/ LoseHeartbeat
  BY <1>0, <1>1 DEF SwitchScreen, SendHeartbeat, LoseHeartbeat
<1>2. CASE Disconnect \/ Connect \/ SeeDisconnected \/ KillAgent \/ StartReporter \/ DisconnectApi
  BY <1>0, <1>2 DEF Disconnect, Connect, SeeDisconnected, KillAgent, StartReporter, DisconnectApi
<1>3. CASE RecordHeartbeat
  BY <1>0, <1>3 DEF RecordHeartbeat
<1>4. ASSUME NEW r \in Reports, Receive(r) \/ ReportConnected(r) \/ GiveUpReport(r) \/ Remember(r)
      PROVE  UNCHANGED <<screen, isScreenOn, retained, heartbeat, screenTopic>>
  BY <1>4 DEF Receive, ReportConnected, GiveUpReport, Remember
<1>5. ASSUME NEW r \in Reports, PublishScreen(r)
      PROVE  /\ retained' \in Value /\ screenTopic' \in Seq(BOOLEAN)
             /\ UNCHANGED <<screen, isScreenOn, heartbeat>>
  <2>1. report[r].on \in BOOLEAN
    BY <1>0 DEF Coroutine
  <2> QED BY <1>0, <1>5, <2>1 DEF PublishScreen
<1>6. CASE DeliverScreen
  BY <1>0, <1>6 DEF DeliverScreen
<1>7. ASSUME NEW v \in BOOLEAN, SetScreenOn(v) \/ FailScreen(v)
      PROVE  isScreenOn' \in BOOLEAN /\ UNCHANGED <<screen, retained, heartbeat, screenTopic>>
  BY <1>0, <1>7 DEF SetScreenOn, FailScreen
<1>8. CASE ConnectApi
  <2>1. CASE retained = Unknown
    BY <1>0, <1>8, <2>1 DEF ConnectApi
  <2>2. CASE retained # Unknown
    <3>1. retained \in BOOLEAN
      BY <1>0, <2>2
    <3>2. Append(screenTopic, retained) \in Seq(BOOLEAN)
      BY <1>0, <3>1
    <3> QED BY <1>0, <1>8, <2>2, <3>2 DEF ConnectApi
  <2> QED BY <2>1, <2>2
<1>9. CASE UNCHANGED vars
  BY <1>0, <1>9 DEF vars
<1> QED BY <1>0, <1>1, <1>2, <1>3, <1>4, <1>5, <1>6, <1>7, <1>8, <1>9 DEF Next

LEMMA FlagsStep ==
  ASSUME Inv, [Next]_vars
  PROVE  reporter' \in BOOLEAN /\ connected' \in BOOLEAN /\ seen' \in BOOLEAN /\ apiConnected' \in BOOLEAN
BY DEF Inv, TypeOK, Next, vars, deviceVars, serverVars, CollectState, SwitchScreen, Disconnect, Connect,
       SeeDisconnected, KillAgent, StartReporter, Receive, ReportConnected, GiveUpReport,
       PublishScreen, Remember, SendHeartbeat, LoseHeartbeat, RecordHeartbeat, DeliverScreen,
       SetScreenOn, FailScreen, DisconnectApi, ConnectApi

(***************************************************************************)
(* The inductive invariant of ScreenState: the types, the reports that     *)
(* await a PUBACK were published, what is remembered was published.        *)
(***************************************************************************)
THEOREM Invariance == Spec => []Inv
<1>1. Init => Inv
  <2> SUFFICES ASSUME Init PROVE Inv
    OBVIOUS
  <2>1. /\ report \in [Reports -> Coroutine]
        /\ AwaitedWasSent /\ OnlyPublishedIsRemembered
    BY DEF Init, AwaitedWasSent, OnlyPublishedIsRemembered, Done, Coroutine
  <2>2. updates \in [BOOLEAN -> 0..MaxUpdates]
    BY ScreenAssumption DEF Init
  <2>3. screenTopic \in Seq(BOOLEAN)
    BY DEF Init
  <2>4. TypeOK
    <3>1. /\ screen \in BOOLEAN /\ isScreenOn \in BOOLEAN
          /\ reporter \in BOOLEAN /\ connected \in BOOLEAN /\ seen \in BOOLEAN /\ apiConnected \in BOOLEAN
          /\ lastReported \in Value /\ retained \in Value /\ heartbeat \in Value
          /\ sent \subseteq BOOLEAN
      BY DEF Init, Value
    <3>2. broadcasts \in 0..MaxChanges /\ changes \in 0..MaxChanges /\ faults \in 0..MaxFaults
      BY ScreenAssumption DEF Init
    <3> QED BY <2>1, <2>2, <2>3, <3>1, <3>2 DEF TypeOK, Coroutine
  <2>5. broadcasts <= changes
    BY DEF Init
  <2> QED BY <2>1, <2>4, <2>5 DEF Inv
<1>2. Inv /\ [Next]_vars => Inv'
  <2> SUFFICES ASSUME Inv, [Next]_vars PROVE Inv'
    OBVIOUS
  <2>1. broadcasts' \in 0..MaxChanges
    BY CountersStep, ScreenAssumption
  <2>2. TypeOK'
    BY <2>1, ReportsStep, CountersStep, ValuesStep, FlagsStep DEF TypeOK, Coroutine, Value
  <2> QED BY <2>2, ReportsStep, CountersStep DEF Inv
<1> QED BY <1>1, <1>2, PTL DEF Spec

(***************************************************************************)
(* report() deduplicates only against a value this reporter did publish:   *)
(* for any number of coroutines, changes and faults.                       *)
(***************************************************************************)
THEOREM RememberedIsPublished == Spec => []OnlyPublishedIsRemembered
<1>1. Inv => OnlyPublishedIsRemembered
  BY DEF Inv
<1> QED BY <1>1, Invariance, PTL

-----------------------------------------------------------------------------
(* The row and what the broker retains.                                      *)

OnTopic(v)  == \E i \in DOMAIN screenTopic : screenTopic[i] = v
OnItsWay(v) == updates[v] > 0 \/ OnTopic(v)

LEMMA TrackedForm ==
  ASSUME TypeOK
  PROVE  Tracked <=> retained = Unknown \/ isScreenOn = retained \/ ~apiConnected \/ OnItsWay(retained)
BY DEF TypeOK, Value, Tracked, OnItsWay, OnTopic

\* A message that is appended is on the topic, and no other leaves it.
LEMMA Appended ==
  ASSUME TypeOK, NEW w \in BOOLEAN, screenTopic' = Append(screenTopic, w)
  PROVE  OnTopic(w)' /\ \A v \in BOOLEAN : OnTopic(v) => OnTopic(v)'
<1>1. /\ screenTopic \in Seq(BOOLEAN) /\ Len(screenTopic) \in Nat
      /\ DOMAIN screenTopic = 1..Len(screenTopic)
  BY DEF TypeOK
<1>2. /\ screenTopic' \in Seq(BOOLEAN) /\ Len(screenTopic') = Len(screenTopic) + 1
      /\ DOMAIN screenTopic' = 1..(Len(screenTopic) + 1)
      /\ screenTopic'[Len(screenTopic) + 1] = w
      /\ \A i \in 1..Len(screenTopic) : screenTopic'[i] = screenTopic[i]
  BY <1>1, AppendProperties
<1> QED BY <1>1, <1>2 DEF OnTopic

\* A message that is delivered is handed to its handler.
LEMMA Delivered ==
  ASSUME TypeOK, DeliverScreen, NEW v \in BOOLEAN, OnItsWay(v)
  PROVE  OnItsWay(v)'
<1> DEFINE h == Head(screenTopic)
<1>1. /\ screenTopic \in Seq(BOOLEAN) /\ screenTopic # <<>> /\ Len(screenTopic) \in Nat
      /\ screenTopic' = Tail(screenTopic) /\ updates' = [updates EXCEPT ![h] = @ + 1]
  BY DEF DeliverScreen, TypeOK
<1>2. h \in BOOLEAN /\ h = screenTopic[1] /\ Len(screenTopic) > 0
  BY <1>1, EmptySeq
<1>3. updates'[h] > 0 /\ (updates[v] > 0 => updates'[v] > 0)
  BY <1>1, <1>2, ScreenAssumption DEF TypeOK
<1>4. CASE updates[v] > 0
  BY <1>3, <1>4 DEF OnItsWay
<1>5. CASE OnTopic(v)
  <2>1. PICK i \in 1..Len(screenTopic) : screenTopic[i] = v
    BY <1>1, <1>5 DEF OnTopic
  <2>2. CASE i = 1
    BY <1>2, <1>3, <2>1, <2>2 DEF OnItsWay
  <2>3. CASE i # 1
    <3>1. /\ screenTopic' \in Seq(BOOLEAN) /\ Len(screenTopic') = Len(screenTopic) - 1
          /\ \A j \in 1..Len(screenTopic') : screenTopic'[j] = screenTopic[j + 1]
      BY <1>1, HeadTailProperties
    <3>2. i - 1 \in DOMAIN screenTopic' /\ screenTopic'[i - 1] = screenTopic[i]
      BY <1>1, <2>1, <2>3, <3>1
    <3> QED BY <2>1, <3>2 DEF OnItsWay, OnTopic
  <2> QED BY <2>2, <2>3
<1> QED BY <1>4, <1>5 DEF OnItsWay

LEMMA TrackedStep ==
  ASSUME Inv, Inv', [Next]_vars, Tracked, ~Tracked'
  PROVE  \/ \E v \in BOOLEAN : IF v = retained THEN FailScreen(v) ELSE SetScreenOn(v)
         \/ heartbeat # retained /\ RecordHeartbeat
<1> USE ScreenAssumption
<1>1. /\ TypeOK /\ TypeOK' /\ retained \in Value
      /\ retained' # Unknown /\ isScreenOn' # retained' /\ apiConnected'
      /\ \A w \in BOOLEAN : w = retained' => ~OnItsWay(w)'
      /\ retained = Unknown \/ isScreenOn = retained \/ ~apiConnected \/ OnItsWay(retained)
  <2>1. TypeOK /\ TypeOK'
    BY DEF Inv
  <2>2. retained \in Value /\ retained' \in Value
    BY <2>1 DEF TypeOK
  <2>3. retained' # Unknown /\ isScreenOn' # retained' /\ apiConnected'
    BY DEF Tracked
  <2>4. ASSUME NEW w \in BOOLEAN, w = retained' PROVE ~OnItsWay(w)'
    BY <2>4 DEF Tracked, OnItsWay, OnTopic
  <2> QED BY <2>1, <2>2, <2>3, <2>4, TrackedForm
<1>2. ASSUME NEW r \in Reports, PublishScreen(r) PROVE FALSE
  <2>1. PICK w \in BOOLEAN : w = report[r].on
    BY <1>1 DEF TypeOK
  <2>2. screenTopic' = Append(screenTopic, w) /\ retained' = w
    BY <1>2, <2>1 DEF PublishScreen
  <2>3. OnTopic(w)'
    BY <1>1, <2>2, Appended
  <2>4. OnItsWay(w)'
    BY <2>3 DEF OnItsWay
  <2> QED BY <1>1, <2>2, <2>4
<1>3. CASE ConnectApi
  <2>1. retained' = retained /\ retained \in BOOLEAN
    BY <1>1, <1>3 DEF ConnectApi, Value
  <2>2. PICK w \in BOOLEAN : w = retained
    BY <2>1
  <2>3. screenTopic' = Append(screenTopic, w)
    BY <1>3, <2>1, <2>2 DEF ConnectApi
  <2>4. OnTopic(w)'
    BY <1>1, <2>3, Appended
  <2>5. OnItsWay(w)'
    BY <2>4 DEF OnItsWay
  <2> QED BY <1>1, <2>1, <2>2, <2>5
<1>4. CASE DeliverScreen
  <2>1. retained' = retained /\ isScreenOn' = isScreenOn /\ apiConnected' = apiConnected
    BY <1>4 DEF DeliverScreen
  <2>2. PICK w \in BOOLEAN : w = retained
    BY <1>1, <2>1 DEF Value
  <2>3. OnItsWay(w)
    BY <1>1, <2>1, <2>2
  <2>4. OnItsWay(w)'
    BY <1>1, <1>4, <2>3, Delivered
  <2> QED BY <1>1, <2>1, <2>2, <2>4
<1>5. ASSUME NEW v \in BOOLEAN, SetScreenOn(v) \/ FailScreen(v)
      PROVE  IF v = retained THEN FailScreen(v) ELSE SetScreenOn(v)
  <2>1. /\ retained' = retained /\ apiConnected' = apiConnected /\ screenTopic' = screenTopic
        /\ \A w \in BOOLEAN : w # v => updates'[w] = updates[w]
        /\ SetScreenOn(v) => isScreenOn' = v
        /\ FailScreen(v) => isScreenOn' = isScreenOn
    BY <1>1, <1>5 DEF SetScreenOn, FailScreen, TypeOK
  <2>2. CASE v = retained
    BY <1>1, <1>5, <2>1, <2>2
  <2>3. CASE v # retained
    <3>1. PICK w \in BOOLEAN : w = retained
      BY <1>1, <2>1 DEF Value
    <3>2. OnItsWay(w) => OnItsWay(w)'
      BY <2>1, <2>3, <3>1 DEF OnItsWay, OnTopic
    <3>3. ~FailScreen(v)
      BY <1>1, <2>1, <3>1, <3>2
    <3> QED BY <1>5, <2>3, <3>3
  <2> QED BY <2>2, <2>3
<1>6. CASE RecordHeartbeat
  <2>1. /\ retained' = retained /\ apiConnected' = apiConnected /\ screenTopic' = screenTopic
        /\ updates' = updates /\ isScreenOn' = heartbeat
    BY <1>6 DEF RecordHeartbeat
  <2> QED BY <1>1, <1>6, <2>1
<1>7. CASE DisconnectApi
  BY <1>1, <1>7 DEF DisconnectApi
<1>8. ASSUME UNCHANGED <<retained, isScreenOn, apiConnected, screenTopic, updates>> PROVE FALSE
  <2>1. Tracked'
    BY <1>8 DEF Tracked
  <2> QED BY <2>1
<1>9. CASE \/ SwitchScreen \/ Disconnect \/ Connect \/ SeeDisconnected \/ KillAgent \/ StartReporter
           \/ \E r \in Reports : Receive(r) \/ ReportConnected(r) \/ GiveUpReport(r) \/ Remember(r)
           \/ SendHeartbeat \/ LoseHeartbeat \/ UNCHANGED vars
  BY <1>8, <1>9
     DEF SwitchScreen, Disconnect, Connect, SeeDisconnected, KillAgent, StartReporter, Receive, ReportConnected,
         GiveUpReport, Remember, SendHeartbeat, LoseHeartbeat, vars, serverVars
<1> QED BY <1>2, <1>3, <1>4, <1>5, <1>6, <1>7, <1>9 DEF Next

(***************************************************************************)
(* The row follows the retained message, unless a statement fails, a       *)
(* handler ends out of order or a heartbeat saw another state: for any     *)
(* number of reports, messages, handlers and faults.                       *)
(***************************************************************************)
THEOREM RowIsFollowed == Spec => RowFollowsTopic
<1>1. Inv /\ Inv' /\ [Next]_vars =>
        [Tracked /\ ~Tracked' =>
           \/ \E v \in BOOLEAN : IF v = retained THEN FailScreen(v) ELSE SetScreenOn(v)
           \/ heartbeat # retained /\ RecordHeartbeat]_vars
  BY TrackedStep
<1> QED BY <1>1, Invariance, PTL DEF Spec, RowFollowsTopic
=============================================================================
