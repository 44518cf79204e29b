------------------------ MODULE AgentEnrollmentProofs ------------------------
(***************************************************************************)
(* The inductive invariant of enrollment on the agent, and what it says of *)
(* the key, for any number of workers, screens, intents and faults.        *)
(***************************************************************************)
EXTENDS AgentEnrollment, TLAPS

\* The server pins one key at most, and only one it was given.
LEMMA PinsKeys ==
  ASSUME NEW pub, TypeOK, pub \in 0..key, pinned <= key
  PROVE  Pins(pub) \in 0..MaxKeys /\ Pins(pub) <= key
BY AgentEnrollmentAssumption DEF TypeOK, Pins

\* Cancelling the worker changes no point and no key.
LEMMA CancelKeeps ==
  ASSUME TypeOK, NEW a \in Attempts
  PROVE  CancelWorker[a].pc = at[a].pc /\ CancelWorker[a].pub = at[a].pub
BY DEF TypeOK, CancelWorker

-----------------------------------------------------------------------------
(* Type correctness.                                                         *)

LEMMA Constructors ==
  /\ Idle \in Attempt
  /\ NoWork \in Work
  /\ Up \in [beat : BOOLEAN, service : BOOLEAN]
BY AgentEnrollmentAssumption DEF Idle, Attempt, NoWork, Work, Up

LEMMA ArmType == TypeOK /\ Arm => armed' \in [beat : BOOLEAN, service : BOOLEAN]
BY Constructors DEF TypeOK, Arm

LEMMA Moves ==
  ASSUME TypeOK, NEW a \in Attempts, NEW pc \in Points
  PROVE  To(a, pc) \in [Attempts -> Attempt]
BY DEF TypeOK, To, Attempt

LEMMA Ends ==
  ASSUME TypeOK, NEW a \in Attempts
  PROVE  /\ [at EXCEPT ![a] = Idle] \in [Attempts -> Attempt]
         /\ [work EXCEPT !.state = "enqueued", !.by = NoWorker] \in Work
<1>1. [at EXCEPT ![a] = Idle] \in [Attempts -> Attempt]
  BY Constructors DEF TypeOK
<1>2. [work EXCEPT !.state = "enqueued", !.by = NoWorker] \in Work
  BY DEF TypeOK, Work
<1> QED BY <1>1, <1>2

LEMMA CancelType == TypeOK => CancelWorker \in [Attempts -> Attempt]
BY DEF TypeOK, CancelWorker, Attempt

LEMMA InitType == Init => TypeOK
<1>1. Init => /\ key \in 0..MaxKeys /\ pinned \in 0..MaxKeys /\ late \subseteq 1..MaxKeys
              /\ faults \in 0..MaxFaults /\ intents \in 0..MaxIntents
  BY AgentEnrollmentAssumption DEF Init
<1>2. Init => store \in Prefs /\ disk \in Prefs
  BY DEF Init, Prefs
<1>3. Init => work \in Work
  BY AgentEnrollmentAssumption, Constructors DEF Init, NoWork, Work
<1>4. Init => at \in [Attempts -> Attempt]
  BY Constructors DEF Init
<1>5. Init => /\ intent \in [pc : {"none", "write", "decide"}, auto : BOOLEAN]
              /\ offered \in BOOLEAN
              /\ armed \in [beat : BOOLEAN, service : BOOLEAN]
              /\ owner \in BOOLEAN
  BY DEF Init
<1> QED BY <1>1, <1>2, <1>3, <1>4, <1>5 DEF TypeOK

LEMMA RunsType ==
  ASSUME TypeOK, EnrolledIsRegistered, NEW a \in Attempts, Runs(a) PROVE TypeOK'
<1> USE AgentEnrollmentAssumption
<1>1. CASE EnsureKeyPair(a)
  <2>1. at' \in [Attempts -> Attempt]
    BY <1>1, Moves DEF EnsureKeyPair, Points
  <2> QED BY <1>1, <2>1 DEF EnsureKeyPair, TypeOK, device, outside
<1>2. CASE GenerateKeyPair(a)
  <2>1. at' \in [Attempts -> Attempt]
    BY <1>2, Moves DEF GenerateKeyPair, Points
  <2> QED BY <1>2, <2>1 DEF GenerateKeyPair, TypeOK, outside
<1>3. CASE ReadPublicKey(a)
  <2>1. at' \in [Attempts -> Attempt]
    <3>1. at \in [Attempts -> Attempt] /\ key \in 0..MaxKeys
      BY DEF TypeOK
    <3>2. [at[a] EXCEPT !.pc = "challenge", !.pub = key] \in Attempt
      BY <3>1 DEF Attempt, Points
    <3>3. at' = [at EXCEPT ![a] = [at[a] EXCEPT !.pc = "challenge", !.pub = key]]
      BY <1>3, <3>1 DEF ReadPublicKey
    <3> QED BY <3>1, <3>2, <3>3
  <2> QED BY <1>3, <2>1 DEF ReadPublicKey, TypeOK, device, outside
<1>4. CASE ReceiveChallenge(a)
  <2>1. at' \in [Attempts -> Attempt]
    <3> DEFINE pub == IF at[a].pub = key THEN at[a].pub ELSE 0
    <3>1. pub \in 0..MaxKeys
      BY DEF TypeOK
    <3>2. [at[a] EXCEPT !.pc = "post", !.pub = pub] \in Attempt
      BY <3>1 DEF TypeOK, Attempt, Points
    <3>3. at' = [at EXCEPT ![a] = [at[a] EXCEPT !.pc = "post", !.pub = pub]]
      BY <1>4 DEF ReceiveChallenge, TypeOK, Attempt
    <3> QED BY <3>2, <3>3 DEF TypeOK
  <2> QED BY <1>4, <2>1 DEF ReceiveChallenge, TypeOK, device, outside
<1>5. CASE ServerAccepts(a)
  <2>1. at' \in [Attempts -> Attempt]
    BY <1>5, Moves DEF ServerAccepts, Points
  <2>2. pinned' \in 0..MaxKeys
    <3>1. at[a].pub \in 0..key
      BY DEF EnrolledIsRegistered, TypeOK, Attempt
    <3> QED BY <1>5, <3>1, PinsKeys DEF ServerAccepts, EnrolledIsRegistered
  <2> QED BY <1>5, <2>1, <2>2 DEF ServerAccepts, TypeOK, device
<1>6. CASE ServerRefuses(a)
  <2>1. at' \in [Attempts -> Attempt]
    BY <1>6, Ends DEF Fails, ServerRefuses
  <2>2. work' \in Work
    BY <1>6, Ends, Constructors DEF ServerRefuses, Fails, TypeOK
  <2> QED BY <1>6, <2>1, <2>2 DEF ServerRefuses, TypeOK, device, outside
<1>7. CASE SaveEnrollment(a)
  <2>1. at' \in [Attempts -> Attempt]
    BY <1>7, Moves DEF SaveEnrollment, Points
  <2>2. store' \in Prefs
    BY <1>7 DEF SaveEnrollment, Prefs
  <2> QED BY <1>7, <2>1, <2>2 DEF SaveEnrollment, TypeOK, outside
<1>8. CASE SendTelemetryAndArm(a)
  <2>1. at' \in [Attempts -> Attempt]
    BY <1>8, Ends DEF SendTelemetryAndArm
  <2>2. work' \in Work
    BY <1>8, Ends, Constructors DEF SendTelemetryAndArm, TypeOK
  <2>3. armed' \in [beat : BOOLEAN, service : BOOLEAN]
    BY <1>8, ArmType DEF SendTelemetryAndArm
  <2> QED BY <1>8, <2>1, <2>2, <2>3 DEF SendTelemetryAndArm, TypeOK, device, outside
<1>9. CASE EndCancelled(a)
  <2>1. at' \in [Attempts -> Attempt]
    BY <1>9, Ends DEF EndCancelled
  <2>2. late' \subseteq 1..MaxKeys
    <3>1. at[a].pub # 0 => at[a].pub \in 1..MaxKeys
      BY DEF TypeOK, Attempt
    <3>2. late' \subseteq late \cup ({at[a].pub} \ {0})
      BY <1>9 DEF EndCancelled
    <3> QED BY <3>1, <3>2 DEF TypeOK
  <2> QED BY <1>9, <2>1, <2>2 DEF EndCancelled, TypeOK, device
<1> QED BY <1>1, <1>2, <1>3, <1>4, <1>5, <1>6, <1>7, <1>8, <1>9 DEF Runs

LEMMA OtherStepsType ==
  ASSUME TypeOK, EnrolledIsRegistered, [Next]_vars, \A a \in Attempts : ~Runs(a) PROVE TypeOK'
<1> USE AgentEnrollmentAssumption
<1>1. ASSUME NEW w \in Workers, StartWork(w) PROVE TypeOK'
  <2>1. at' \in [Attempts -> Attempt]
    BY <1>1, Moves DEF StartWork, Points, Attempts, TypeOK
  <2>2. work' \in Work
    <3>1. work \in Work /\ [work EXCEPT !.state = "running", !.by = w] \in Work
      BY DEF TypeOK, Work
    <3> QED BY <1>1, <3>1, Constructors DEF StartWork
  <2>3. armed' \in [beat : BOOLEAN, service : BOOLEAN]
    BY <1>1, ArmType DEF StartWork, TypeOK
  <2> QED BY <1>1, <2>1, <2>2, <2>3 DEF StartWork, TypeOK, device, outside
<1>2. ASSUME NEW a \in Attempts, CallFails(a) PROVE TypeOK'
  <2>1. at' \in [Attempts -> Attempt] /\ work' \in Work
    BY <1>2, Ends, Constructors DEF CallFails, Fails, TypeOK
  <2>2. late' \subseteq 1..MaxKeys
    <3>1. at[a].pub # 0 => at[a].pub \in 1..MaxKeys
      BY DEF TypeOK, Attempt
    <3>2. late' \subseteq late \cup ({at[a].pub} \ {0})
      BY <1>2 DEF CallFails
    <3> QED BY <3>1, <3>2 DEF TypeOK
  <2> QED BY <1>2, <2>1, <2>2 DEF CallFails, Fault, TypeOK, device
<1>3. CASE Refresh
  BY <1>3 DEF Refresh, TypeOK, device, outside
<1>4. CASE DisableAutoEnroll
  <2>1. at' \in [Attempts -> Attempt] /\ work' \in Work
    BY <1>4, Constructors, CancelType DEF DisableAutoEnroll
  <2>2. store' \in Prefs
    BY <1>4 DEF DisableAutoEnroll, TypeOK, Prefs
  <2> QED BY <1>4, <2>1, <2>2 DEF DisableAutoEnroll, TypeOK, outside
<1>5. CASE WriteFlags
  <2>1. store' \in Prefs /\ intent' \in [pc : {"none", "write", "decide"}, auto : BOOLEAN]
    BY <1>5 DEF WriteFlags, TypeOK, Prefs
  <2> QED BY <1>5, <2>1 DEF WriteFlags, TypeOK, outside
<1>6. CASE Decide
  <2>1. at' \in [Attempts -> Attempt]
    BY <1>6, CancelType DEF Decide, EnqueueEnrollment, TypeOK
  <2>2. work' \in Work
    <3>1. [state |-> "enqueued", usb |-> TRUE, by |-> NoWorker] \in Work
      BY DEF Work
    <3> QED BY <1>6, <3>1 DEF Decide, EnqueueEnrollment, TypeOK
  <2> QED BY <1>6, <2>1, <2>2 DEF Decide, TypeOK, device, outside
<1>7. ASSUME NEW s \in Screens, RunEnrollment(s) PROVE TypeOK'
  <2>1. at' \in [Attempts -> Attempt]
    BY <1>7, Moves DEF RunEnrollment, Points, Attempts
  <2> QED BY <1>7, <2>1 DEF RunEnrollment, TypeOK, device, outside
<1>8. ASSUME NEW s \in Screens, CloseScreen(s) PROVE TypeOK'
  <2>1. at' \in [Attempts -> Attempt]
    <3>1. at \in [Attempts -> Attempt] /\ s \in Attempts
      BY DEF TypeOK, Attempts
    <3>2. [at[s] EXCEPT !.cancelled = TRUE] \in Attempt
      BY <3>1 DEF Attempt
    <3>3. at' = [at EXCEPT ![s] = [at[s] EXCEPT !.cancelled = TRUE]]
      BY <1>8, <3>1 DEF CloseScreen
    <3> QED BY <3>1, <3>2, <3>3
  <2> QED BY <1>8, <2>1 DEF CloseScreen, Fault, TypeOK, device, outside
<1>9. ASSUME NEW auto \in BOOLEAN, ReceiveIntent(auto) PROVE TypeOK'
  BY <1>9 DEF ReceiveIntent, TypeOK, device, outside
<1>10. ASSUME NEW pub \in late, HandleLate(pub) PROVE TypeOK'
  <2>1. pinned' \in 0..MaxKeys
    BY <1>10, PinsKeys DEF HandleLate, EnrolledIsRegistered, TypeOK
  <2> QED BY <1>10, <2>1 DEF HandleLate, TypeOK, device
<1>11. CASE Flush
  BY <1>11 DEF Flush, TypeOK, outside
<1>12. CASE KillProcess
  <2>1. late' \subseteq 1..MaxKeys
    BY <1>12 DEF KillProcess, TypeOK, Attempt
  <2>2. at' \in [Attempts -> Attempt]
    BY <1>12, Constructors DEF KillProcess
  <2>3. work' \in Work
    BY <1>12, Ends DEF KillProcess, TypeOK, Work
  <2>4. armed' \in [beat : BOOLEAN, service : BOOLEAN]
    <3>1. disk.enrolled \in BOOLEAN /\ (disk.enrolled /\ owner) \in BOOLEAN
      BY DEF TypeOK, Prefs
    <3>2. PICK service \in {disk.enrolled, disk.enrolled /\ owner} : armed' = [armed EXCEPT !.service = service]
      BY <1>12 DEF KillProcess
    <3>3. service \in BOOLEAN
      BY <3>1
    <3> QED BY <3>2, <3>3 DEF TypeOK
  <2>5. intent' \in [pc : {"none", "write", "decide"}, auto : BOOLEAN]
    BY <1>12 DEF KillProcess
  <2>6. /\ UNCHANGED <<key, disk, owner, intents, pinned>> /\ store' = disk
        /\ offered' = FALSE
    BY <1>12 DEF KillProcess
  <2>7. faults' \in 0..MaxFaults
    BY <1>12 DEF KillProcess, Fault, TypeOK
  <2> QED BY <2>1, <2>2, <2>3, <2>4, <2>5, <2>6, <2>7 DEF TypeOK
<1>13. CASE UNCHANGED vars
  BY <1>13 DEF vars, TypeOK
<1>14. ASSUME NEW w \in Workers, RefuseForeground(w) PROVE TypeOK'
  BY <1>14, Constructors DEF RefuseForeground, TypeOK, device, outside
<1>15. CASE StopWork
  <2>1. at' \in [Attempts -> Attempt] /\ work' \in Work
    BY <1>15, CancelType, Ends DEF StopWork, TypeOK, Work
  <2> QED BY <1>15, <2>1 DEF StopWork, Fault, TypeOK, device, outside
<1> QED BY <1>1, <1>2, <1>3, <1>4, <1>5, <1>6, <1>7, <1>8, <1>9, <1>10, <1>11, <1>12, <1>13, <1>14, <1>15
        DEF Next, MainThread

-----------------------------------------------------------------------------
(* Who runs the work.                                                        *)

\* a goes to another point; or a ends; the other attempts stay.
Goes(a) ==
  /\ Active(a) /\ at'[a].pc # "idle" /\ at'[a].cancelled = at[a].cancelled
  /\ \A b \in Attempts : b # a => at'[b] = at[b]
  /\ work' = work
Stops(a) ==
  /\ at'[a] = Idle
  /\ \A b \in Attempts : b # a => at'[b] = at[b]
  /\ \/ work' = work /\ work.by # a
     \/ work.by = a /\ work'.by = NoWorker /\ work'.state # "running"

LEMMA RunsMove ==
  ASSUME TypeOK, NEW a \in Attempts, WorkIsOwned, Runs(a) \/ CallFails(a)
  PROVE  Goes(a) \/ Stops(a)
<1> USE AgentEnrollmentAssumption DEF Active
<1>1. ASSUME NEW pc \in Points, Active(a), at' = To(a, pc), work' = work PROVE Goes(a)
  BY <1>1 DEF Goes, To, TypeOK, Points, Attempt
<1>2. CASE EnsureKeyPair(a)
  BY <1>1, <1>2 DEF EnsureKeyPair, Points
<1>3. CASE GenerateKeyPair(a)
  BY <1>1, <1>3 DEF GenerateKeyPair, Points
<1>4. CASE ReadPublicKey(a)
  BY <1>4 DEF ReadPublicKey, Goes, TypeOK, Attempt
<1>5. CASE ReceiveChallenge(a)
  BY <1>5 DEF ReceiveChallenge, Goes, TypeOK, Attempt
<1>6. CASE ServerAccepts(a)
  BY <1>1, <1>6 DEF ServerAccepts, Points
<1>7. CASE SaveEnrollment(a)
  BY <1>1, <1>7 DEF SaveEnrollment, Points
<1>8. ASSUME Fails(a) PROVE Stops(a)
  BY <1>8 DEF Fails, Stops, TypeOK, NoWork, Work
<1>9. CASE ServerRefuses(a)
  BY <1>8, <1>9 DEF ServerRefuses
<1>10. CASE CallFails(a)
  BY <1>8, <1>10 DEF CallFails
<1>11. CASE SendTelemetryAndArm(a)
  BY <1>11 DEF SendTelemetryAndArm, Stops, TypeOK, NoWork
<1>12. CASE EndCancelled(a)
  <2>1. work.by # a
    BY <1>12 DEF EndCancelled, WorkIsOwned, Attempts
  <2> QED BY <1>12, <2>1 DEF EndCancelled, Stops, TypeOK
<1> QED BY <1>2, <1>3, <1>4, <1>5, <1>6, <1>7, <1>9, <1>10, <1>11, <1>12 DEF Runs

LEMMA WorkStep ==
  ASSUME TypeOK, WorkIsOwned, [Next]_vars PROVE WorkIsOwned'
<1> USE AgentEnrollmentAssumption DEF Active
<1>1. ASSUME NEW w \in Workers, StartWork(w) PROVE WorkIsOwned'
  <2>1. CASE store.enrolled
    BY <1>1, <2>1 DEF StartWork, WorkIsOwned, NoWork
  <2>2. CASE ~store.enrolled
    <3>1. /\ work'.state = "running" /\ work'.by = w
          /\ at'[w].pc = "ensure" /\ at'[w].cancelled = at[w].cancelled
          /\ \A b \in Attempts : b # w => at'[b] = at[b]
      <4>1. work'.state = "running" /\ work'.by = w
        BY <1>1, <2>2 DEF StartWork, TypeOK, Work
      <4>2. /\ at'[w].pc = "ensure" /\ at'[w].cancelled = at[w].cancelled
            /\ \A b \in Attempts : b # w => at'[b] = at[b]
        BY <1>1, <2>2 DEF StartWork, To, TypeOK, Attempt, Attempts
      <4> QED BY <4>1, <4>2
    <3>2. at[w].cancelled = FALSE
      BY <1>1 DEF StartWork, WorkIsOwned, TypeOK, Attempt, Attempts
    <3> QED BY <1>1, <3>1, <3>2 DEF StartWork, WorkIsOwned, TypeOK, Work, Attempts
  <2> QED BY <2>1, <2>2
<1>2. ASSUME NEW a \in Attempts, Runs(a) \/ CallFails(a) PROVE WorkIsOwned'
  <2>1. CASE Goes(a)
    <3>1. \A b \in Attempts : (at'[b].pc = "idle" <=> at[b].pc = "idle") /\ at'[b].cancelled = at[b].cancelled
      BY <2>1 DEF Goes
    <3>2. work.by # NoWorker => work.by \in Attempts
      BY DEF TypeOK, Work, Attempts
    <3> QED BY <2>1, <3>1, <3>2 DEF Goes, WorkIsOwned, Attempts
  <2>2. CASE Stops(a)
    BY <2>2 DEF Stops, WorkIsOwned, Idle, TypeOK, Work, Attempts
  <2> QED BY <1>2, <2>1, <2>2, RunsMove
<1>3. ASSUME at' = CancelWorker, work'.by = NoWorker, work'.state # "running" PROVE WorkIsOwned'
  <2>1. \A a \in Attempts : at'[a].pc = at[a].pc
    BY <1>3, CancelKeeps
  <2>2. \A a \in Attempts : a # work.by => at'[a] = at[a]
    BY <1>3 DEF CancelWorker, TypeOK
  <2>3. work.by # NoWorker => at'[work.by].cancelled
    BY <1>3 DEF CancelWorker, WorkIsOwned, TypeOK, Work, Attempt, Attempts
  <2>4. work'.state # "running" /\ work'.by = NoWorker
    BY <1>3
  <2>5. \A w \in Workers : at'[w].pc # "idle" => at'[w].cancelled
    BY <2>1, <2>2, <2>3 DEF WorkIsOwned, Attempts
  <2>6. \A a \in Attempts : at'[a].cancelled => at'[a].pc # "idle"
    BY <2>1, <2>2 DEF WorkIsOwned, Attempts
  <2> QED BY <2>4, <2>5, <2>6 DEF WorkIsOwned
<1>4. CASE DisableAutoEnroll
  BY <1>3, <1>4 DEF DisableAutoEnroll, NoWork
<1>5. CASE Decide
  <2>1. CASE UNCHANGED <<work, at>>
    BY <2>1 DEF WorkIsOwned
  <2>2. CASE EnqueueEnrollment(TRUE)
    BY <1>3, <2>2 DEF EnqueueEnrollment
  <2> QED BY <1>5, <2>1, <2>2 DEF Decide
<1>6. ASSUME NEW s \in Screens, RunEnrollment(s) PROVE WorkIsOwned'
  <2>1. at'[s].cancelled = at[s].cancelled /\ at'[s].pc # "idle" /\ work' = work
    BY <1>6 DEF RunEnrollment, To, TypeOK, Attempt, Attempts
  <2>2. \A b \in Attempts : b # s => at'[b] = at[b]
    BY <1>6 DEF RunEnrollment, To, TypeOK
  <2> QED BY <1>6, <2>1, <2>2 DEF WorkIsOwned, TypeOK, Work, Attempts
<1>7. ASSUME NEW s \in Screens, CloseScreen(s) PROVE WorkIsOwned'
  <2>1. at'[s].pc = at[s].pc /\ work' = work /\ Active(s)
    BY <1>7 DEF CloseScreen, TypeOK, Attempt, Attempts
  <2>2. \A b \in Attempts : b # s => at'[b] = at[b]
    BY <1>7 DEF CloseScreen, TypeOK
  <2> QED BY <1>7, <2>1, <2>2 DEF WorkIsOwned, TypeOK, Work, Attempts
<1>8. CASE KillProcess
  <2>1. \A a \in Attempts : at'[a] = Idle
    BY <1>8 DEF KillProcess
  <2>2. work'.by = NoWorker /\ work'.state # "running"
    BY <1>8 DEF KillProcess, WorkIsOwned, TypeOK, Work
  <2> QED BY <2>1, <2>2 DEF WorkIsOwned, Idle, Attempts
<1>9. ASSUME UNCHANGED <<work, at>> PROVE WorkIsOwned'
  BY <1>9 DEF WorkIsOwned
<1>10. ASSUME Refresh \/ WriteFlags \/ Flush \/ UNCHANGED vars \/ (\E pub \in late : HandleLate(pub))
              \/ (\E auto \in BOOLEAN : ReceiveIntent(auto))
       PROVE  UNCHANGED <<work, at>>
  BY <1>10 DEF Refresh, WriteFlags, Flush, vars, HandleLate, ReceiveIntent
<1>11. ASSUME NEW w \in Workers, RefuseForeground(w) PROVE WorkIsOwned'
  BY <1>11 DEF RefuseForeground, WorkIsOwned, NoWork
<1>12. CASE StopWork
  BY <1>3, <1>12 DEF StopWork, TypeOK, Work
<1> QED BY <1>1, <1>2, <1>4, <1>5, <1>6, <1>7, <1>8, <1>9, <1>10, <1>11, <1>12 DEF Next, MainThread

-----------------------------------------------------------------------------
(* What the agent knows, the server knows.                                   *)

\* The facts about one attempt.
Grounded(a) ==
  /\ at[a].pub <= key
  /\ at[a].pc \in {"read", "challenge", "post"} => key # 0
  /\ at[a].pc = "challenge" => at[a].pub # 0
  /\ at[a].pc \in {"save", "telemetry"} => pinned # 0
  /\ at[a].pc = "telemetry" => store.enrolled

LEMMA GroundedForm ==
  EnrolledIsRegistered <=> /\ disk.enrolled => store.enrolled
                           /\ store.enrolled => pinned # 0
                           /\ pinned <= key /\ late \subseteq 1..key
                           /\ \A a \in Attempts : Grounded(a)
BY DEF EnrolledIsRegistered, Grounded

\* A step that lets the key and the pinned key grow, and forgets nothing, only
\* has to answer for the attempt that moves.
LEMMA OthersGrounded ==
  ASSUME TypeOK, TypeOK', EnrolledIsRegistered, NEW a \in Attempts,
         key <= key', pinned # 0 => pinned' # 0, store.enrolled => store'.enrolled,
         at'[a] = at[a]
  PROVE  Grounded(a)'
<1>1. at[a].pub \in Nat /\ key \in Nat /\ key' \in Nat
  BY DEF TypeOK, Attempt
<1>2. Grounded(a)
  BY GroundedForm
<1> QED BY <1>1, <1>2 DEF Grounded

LEMMA RunsGrounded ==
  ASSUME TypeOK, TypeOK', WorkIsOwned, EnrolledIsRegistered, NEW a \in Attempts, Runs(a)
  PROVE  EnrolledIsRegistered'
<1> USE AgentEnrollmentAssumption
<1>1. key \in Nat /\ key' \in Nat /\ pinned \in Nat /\ pinned' \in Nat /\ at[a].pub \in Nat
  BY DEF TypeOK, Attempt
<1>2. Grounded(a) /\ pinned <= key /\ late \subseteq 1..key
  BY GroundedForm
<1>3. ASSUME key <= key', pinned # 0 => pinned' # 0, store.enrolled => store'.enrolled,
             \A b \in Attempts : b # a => at'[b] = at[b], Grounded(a)',
             disk' = disk, store'.enrolled => pinned' # 0, pinned' <= key', late' \subseteq 1..key'
      PROVE  EnrolledIsRegistered'
  <2>1. \A b \in Attempts : Grounded(b)'
    BY <1>3, OthersGrounded
  <2>2. disk'.enrolled => store'.enrolled
    BY <1>3 DEF EnrolledIsRegistered
  <2> QED BY <1>3, <2>1, <2>2 DEF EnrolledIsRegistered, Grounded
<1>4. \A b \in Attempts : b # a => at'[b] = at[b]
  BY RunsMove DEF Goes, Stops
<1>5. late \subseteq 1..key /\ (store.enrolled => pinned # 0)
  BY DEF EnrolledIsRegistered
<1>6. CASE EnsureKeyPair(a)
  <2>1. Grounded(a)'
    BY <1>2, <1>6 DEF EnsureKeyPair, To, Grounded, TypeOK, Attempt, device, outside
  <2> QED BY <1>1, <1>2, <1>3, <1>4, <1>5, <1>6, <2>1 DEF EnsureKeyPair, device, outside
<1>7. CASE GenerateKeyPair(a)
  <2>1. key' = key + 1 /\ at'[a].pc = "read" /\ at'[a].pub = at[a].pub
    BY <1>7 DEF GenerateKeyPair, To, TypeOK, Attempt
  <2>2. Grounded(a)'
    BY <1>1, <1>2, <2>1 DEF Grounded
  <2> QED BY <1>1, <1>2, <1>3, <1>4, <1>5, <1>7, <2>1, <2>2 DEF GenerateKeyPair, outside
<1>8. CASE ReadPublicKey(a)
  <2>1. at'[a].pc = "challenge" /\ at'[a].pub = key /\ key # 0
    BY <1>2, <1>8 DEF ReadPublicKey, Grounded, TypeOK, Attempt
  <2>2. Grounded(a)'
    BY <1>1, <1>8, <2>1 DEF ReadPublicKey, Grounded, device
  <2>3. UNCHANGED <<key, store, disk, pinned, late>>
    BY <1>8 DEF ReadPublicKey, device, outside
  <2> QED BY <1>1, <1>2, <1>3, <1>4, <1>5, <2>2, <2>3
<1>9. CASE ReceiveChallenge(a)
  <2>1. at'[a].pc = "post" /\ at'[a].pub \in {0, at[a].pub} /\ key # 0
    BY <1>2, <1>9 DEF ReceiveChallenge, Grounded, TypeOK, Attempt
  <2>2. Grounded(a)'
    BY <1>1, <1>2, <1>9, <2>1 DEF ReceiveChallenge, Grounded, device
  <2>3. UNCHANGED <<key, store, disk, pinned, late>>
    BY <1>9 DEF ReceiveChallenge, device, outside
  <2> QED BY <1>1, <1>2, <1>3, <1>4, <1>5, <2>2, <2>3
<1>10. CASE ServerAccepts(a)
  <2>1. at'[a].pc = "save" /\ at'[a].pub = at[a].pub
    BY <1>10 DEF ServerAccepts, To, TypeOK, Attempt
  <2>2. pinned' # 0 /\ pinned' <= key
    BY <1>1, <1>2, <1>10 DEF ServerAccepts, Accepts, Pins, Grounded
  <2>3. Grounded(a)'
    BY <1>1, <1>2, <1>10, <2>1, <2>2 DEF ServerAccepts, Grounded, device
  <2> QED BY <1>1, <1>2, <1>3, <1>4, <1>5, <1>10, <2>2, <2>3 DEF ServerAccepts, device
<1>11. CASE SaveEnrollment(a)
  <2>1. at'[a].pc = "telemetry" /\ at'[a].pub = at[a].pub /\ store'.enrolled
    BY <1>11 DEF SaveEnrollment, To, TypeOK, Attempt
  <2>2. pinned # 0
    BY <1>2, <1>11 DEF SaveEnrollment, Grounded
  <2>3. Grounded(a)'
    BY <1>1, <1>2, <1>11, <2>1, <2>2 DEF SaveEnrollment, Grounded, outside
  <2> QED BY <1>1, <1>2, <1>3, <1>4, <1>5, <1>11, <2>1, <2>2, <2>3 DEF SaveEnrollment, outside
<1>12. CASE ServerRefuses(a) \/ SendTelemetryAndArm(a)
  <2>1. at'[a] = Idle
    BY <1>12 DEF ServerRefuses, Fails, SendTelemetryAndArm, TypeOK
  <2>2. Grounded(a)'
    BY <1>1, <2>1 DEF Grounded, Idle
  <2>3. UNCHANGED <<key, store, disk, pinned, late>>
    BY <1>12 DEF ServerRefuses, SendTelemetryAndArm, device, outside
  <2> QED BY <1>1, <1>2, <1>3, <1>4, <1>5, <2>2, <2>3
<1>13. CASE EndCancelled(a)
  <2>1. at'[a] = Idle
    BY <1>13 DEF EndCancelled, TypeOK
  <2>2. Grounded(a)'
    BY <1>1, <2>1 DEF Grounded, Idle
  <2>3. late' \subseteq late \cup ({at[a].pub} \ {0})
    BY <1>13 DEF EndCancelled
  <2>4. at[a].pub # 0 => at[a].pub \in 1..key
    BY <1>1, <1>2 DEF Grounded
  <2>5. late' \subseteq 1..key
    BY <1>5, <2>3, <2>4
  <2> QED BY <1>1, <1>2, <1>3, <1>4, <1>5, <1>13, <2>2, <2>5 DEF EndCancelled, device
<1> QED BY <1>6, <1>7, <1>8, <1>9, <1>10, <1>11, <1>12, <1>13 DEF Runs

LEMMA OtherStepsGrounded ==
  ASSUME TypeOK, TypeOK', WorkIsOwned, EnrolledIsRegistered, [Next]_vars, \A a \in Attempts : ~Runs(a)
  PROVE  EnrolledIsRegistered'
<1> USE AgentEnrollmentAssumption
<1>1. key \in Nat /\ pinned \in Nat
  BY DEF TypeOK
<1>2. /\ disk.enrolled => store.enrolled
      /\ store.enrolled => pinned # 0
      /\ pinned <= key /\ late \subseteq 1..key
      /\ \A a \in Attempts : Grounded(a)
  BY GroundedForm
\* Attempts that keep their point, stop or set out know nothing new.
<1>3. ASSUME \A a \in Attempts : \/ at'[a].pc = at[a].pc /\ at'[a].pub = at[a].pub
                                 \/ at'[a].pc \in {"idle", "ensure"} /\ at'[a].pub \in {0, at[a].pub},
             key' = key, pinned # 0 => pinned' # 0, store'.enrolled = store.enrolled
      PROVE  \A a \in Attempts : Grounded(a)'
  <2>1. \A a \in Attempts : at[a].pub \in Nat
    BY DEF TypeOK, Attempt
  <2> QED BY <1>1, <1>2, <1>3, <2>1 DEF Grounded
<1>4. ASSUME \A a \in Attempts : Grounded(a)', key' = key, pinned' = pinned,
             store'.enrolled = store.enrolled, disk' = disk, late' \subseteq 1..key
      PROVE  EnrolledIsRegistered'
  BY <1>2, <1>4 DEF EnrolledIsRegistered, Grounded
<1>5. ASSUME NEW w \in Workers, StartWork(w) PROVE EnrolledIsRegistered'
  <2>1. \A a \in Attempts : \/ at'[a].pc = at[a].pc /\ at'[a].pub = at[a].pub
                            \/ at'[a].pc \in {"idle", "ensure"} /\ at'[a].pub \in {0, at[a].pub}
    BY <1>5 DEF StartWork, To, TypeOK, Attempt, Attempts
  <2>2. UNCHANGED <<key, store, disk, pinned, late>>
    BY <1>5 DEF StartWork, device, outside
  <2> QED BY <1>2, <1>3, <1>4, <2>1, <2>2
<1>6. ASSUME NEW a \in Attempts, CallFails(a) PROVE EnrolledIsRegistered'
  <2>1. \A b \in Attempts : IF b = a THEN at'[b] = Idle ELSE at'[b] = at[b]
    BY <1>6 DEF CallFails, Fails, TypeOK
  <2>2. \A b \in Attempts : \/ at'[b].pc = at[b].pc /\ at'[b].pub = at[b].pub
                            \/ at'[b].pc \in {"idle", "ensure"} /\ at'[b].pub \in {0, at[b].pub}
    BY <2>1 DEF Idle
  <2>3. UNCHANGED <<key, store, disk, pinned>>
    BY <1>6 DEF CallFails, device
  <2>4. late' \subseteq late \cup ({at[a].pub} \ {0})
    BY <1>6 DEF CallFails
  <2>5. at[a].pub # 0 => at[a].pub \in 1..key
    BY <1>1, <1>2 DEF Grounded, TypeOK, Attempt
  <2>6. late' \subseteq 1..key
    BY <1>2, <2>4, <2>5
  <2> QED BY <1>3, <1>4, <2>2, <2>3, <2>6
<1>7. ASSUME at' = at \/ at' = CancelWorker PROVE
        \A a \in Attempts : at'[a].pc = at[a].pc /\ at'[a].pub = at[a].pub
  BY <1>7, CancelKeeps
<1>8. CASE Refresh \/ (\E auto \in BOOLEAN : ReceiveIntent(auto)) \/ UNCHANGED vars
  <2>1. UNCHANGED <<key, store, disk, pinned, late, at>>
    BY <1>8 DEF Refresh, ReceiveIntent, vars, device, outside
  <2> QED BY <1>2, <1>3, <1>4, <2>1
<1>9. CASE Decide
  <2>1. UNCHANGED <<key, store, disk, pinned, late>> /\ (at' = at \/ at' = CancelWorker)
    BY <1>9 DEF Decide, EnqueueEnrollment, device, outside
  <2> QED BY <1>2, <1>3, <1>4, <1>7, <2>1
<1>10. CASE DisableAutoEnroll
  <2>1. UNCHANGED <<key, disk, pinned, late>> /\ at' = CancelWorker
    BY <1>10 DEF DisableAutoEnroll, outside
  <2>2. store'.enrolled = store.enrolled
    BY <1>10 DEF DisableAutoEnroll, TypeOK, Prefs
  <2> QED BY <1>2, <1>3, <1>4, <1>7, <2>1, <2>2
<1>11. CASE WriteFlags
  <2>1. UNCHANGED <<key, disk, pinned, late, at>>
    BY <1>11 DEF WriteFlags, outside
  <2>2. store'.enrolled = store.enrolled
    BY <1>11 DEF WriteFlags, TypeOK, Prefs
  <2> QED BY <1>2, <1>3, <1>4, <2>1, <2>2
<1>12. ASSUME NEW s \in Screens, RunEnrollment(s) \/ CloseScreen(s) PROVE EnrolledIsRegistered'
  <2>1. \A a \in Attempts : \/ at'[a].pc = at[a].pc /\ at'[a].pub = at[a].pub
                            \/ at'[a].pc \in {"idle", "ensure"} /\ at'[a].pub \in {0, at[a].pub}
    BY <1>12 DEF RunEnrollment, CloseScreen, To, TypeOK, Attempt, Attempts
  <2>2. UNCHANGED <<key, store, disk, pinned, late>>
    BY <1>12 DEF RunEnrollment, CloseScreen, device, outside
  <2> QED BY <1>2, <1>3, <1>4, <2>1, <2>2
<1>13. ASSUME NEW pub \in late, HandleLate(pub) PROVE EnrolledIsRegistered'
  <2>1. UNCHANGED <<key, store, disk, at>> /\ late' \subseteq late
    BY <1>13 DEF HandleLate, device
  <2>2. pub \in 1..key
    BY <1>2
  <2>3. pinned' # 0 /\ pinned' <= key
    BY <1>1, <1>2, <1>13, <2>2 DEF HandleLate, Pins
  <2>4. \A a \in Attempts : Grounded(a)'
    BY <1>3, <2>1, <2>3
  <2> QED BY <1>2, <2>1, <2>3, <2>4 DEF EnrolledIsRegistered, Grounded
<1>14. CASE Flush
  <2>1. UNCHANGED <<key, store, pinned, late, at>> /\ disk' = store
    BY <1>14 DEF Flush, outside
  <2>2. \A a \in Attempts : Grounded(a)'
    BY <1>3, <2>1
  <2> QED BY <1>2, <2>1, <2>2 DEF EnrolledIsRegistered, Grounded
<1>15. CASE KillProcess
  <2>1. /\ UNCHANGED <<key, disk, pinned>> /\ store' = disk
        /\ \A a \in Attempts : at'[a] = Idle
        /\ late' = late \cup ({at[a].pub : a \in {b \in Attempts : at[b].pc = "post"}} \ {0})
    BY <1>15 DEF KillProcess
  <2>2. \A a \in Attempts : at[a].pub # 0 => at[a].pub \in 1..key
    BY <1>1, <1>2 DEF Grounded, TypeOK, Attempt
  <2>3. late' \subseteq 1..key
    BY <1>2, <2>1, <2>2
  <2>4. \A a \in Attempts : Grounded(a)'
    BY <1>1, <2>1 DEF Grounded, Idle
  <2> QED BY <1>2, <2>1, <2>3, <2>4 DEF EnrolledIsRegistered, Grounded
<1>16. CASE StopWork \/ \E w \in Workers : RefuseForeground(w)
  <2>1. UNCHANGED <<key, store, disk, pinned, late>> /\ (at' = at \/ at' = CancelWorker)
    BY <1>16 DEF StopWork, RefuseForeground, device, outside
  <2> QED BY <1>2, <1>3, <1>4, <1>7, <2>1
<1> QED BY <1>16, <1>5, <1>6, <1>8, <1>9, <1>10, <1>11, <1>12, <1>13, <1>14, <1>15 DEF Next, MainThread

-----------------------------------------------------------------------------
(* The theorems.                                                             *)

LEMMA InvInit == Init => Inv
<1>1. Init => WorkIsOwned
  BY AgentEnrollmentAssumption DEF Init, WorkIsOwned, NoWork, Idle, Active, Attempts
<1>2. Init => EnrolledIsRegistered
  BY AgentEnrollmentAssumption DEF Init, EnrolledIsRegistered, Idle
<1> QED BY InitType, <1>1, <1>2 DEF Inv

LEMMA InvStep == Inv /\ [Next]_vars => Inv'
<1> SUFFICES ASSUME Inv, [Next]_vars PROVE Inv'
  OBVIOUS
<1> USE DEF Inv
<1>1. TypeOK'
  BY RunsType, OtherStepsType
<1>2. WorkIsOwned'
  BY WorkStep
<1>3. EnrolledIsRegistered'
  BY <1>1, RunsGrounded, OtherStepsGrounded
<1> QED BY <1>1, <1>2, <1>3

\* For any number of workers, screens, keys, intents and faults: the types, one
\* worker at a time that is not cancelled, and a saved enrollment that the
\* server knows of.
THEOREM Invariance == Spec => []Inv
BY InvInit, InvStep, PTL DEF Spec

KeepsKey ==
  key # 0 => /\ \A a \in Attempts : at'[a].pc = "generate" => at[a].pc = "generate"
             /\ key' = key \/ \E a \in Attempts : at[a].pc = "generate"

LEMMA KeyStep ==
  ASSUME Inv, [Next]_vars PROVE KeepsKey
<1> USE AgentEnrollmentAssumption DEF Inv, KeepsKey
<1>1. ASSUME NEW a \in Attempts, Runs(a) \/ CallFails(a), key # 0 PROVE KeepsKey
  <2>1. \A b \in Attempts : b # a => at'[b] = at[b]
    BY <1>1, RunsMove DEF Goes, Stops
  <2>2. at'[a].pc = "generate" => at[a].pc = "generate"
    <3>1. CASE Goes(a)
      BY <1>1, <3>1 DEF Runs, EnsureKeyPair, GenerateKeyPair, ReadPublicKey, ReceiveChallenge, ServerAccepts,
                ServerRefuses, SaveEnrollment, SendTelemetryAndArm, EndCancelled, CallFails, Fails, To,
                Goes, Idle, TypeOK, Attempt
    <3>2. CASE Stops(a)
      BY <3>2 DEF Stops, Idle
    <3> QED BY <1>1, <3>1, <3>2, RunsMove
  <2>3. key' = key \/ at[a].pc = "generate"
    BY <1>1 DEF Runs, EnsureKeyPair, GenerateKeyPair, ReadPublicKey, ReceiveChallenge, ServerAccepts,
                ServerRefuses, SaveEnrollment, SendTelemetryAndArm, EndCancelled, CallFails, device
  <2> QED BY <2>1, <2>2, <2>3
<1>2. CASE \E w \in Workers : StartWork(w)
  BY <1>2 DEF StartWork, To, TypeOK, Attempt, device
<1>3. CASE Decide \/ DisableAutoEnroll \/ StopWork \/ \E w \in Workers : RefuseForeground(w)
  <2>1. key' = key /\ (at' = at \/ at' = CancelWorker)
    BY <1>3 DEF Decide, DisableAutoEnroll, EnqueueEnrollment, StopWork, RefuseForeground, device
  <2> QED BY <2>1, CancelKeeps
<1>4. CASE \E s \in Screens : RunEnrollment(s) \/ CloseScreen(s)
  BY <1>4 DEF RunEnrollment, CloseScreen, To, TypeOK, Attempt, device
<1>5. CASE KillProcess
  BY <1>5 DEF KillProcess, Idle
<1>6. CASE \/ Refresh \/ WriteFlags \/ Flush \/ UNCHANGED vars \/ (\E pub \in late : HandleLate(pub))
           \/ (\E auto \in BOOLEAN : ReceiveIntent(auto))
  BY <1>6 DEF Refresh, WriteFlags, Flush, vars, HandleLate, ReceiveIntent, device
<1> QED BY <1>1, <1>2, <1>3, <1>4, <1>5, <1>6 DEF Next, MainThread

\* A key, once generated, is only replaced by attempts that had found none: the
\* rule of DeviceKeyStore.ensureKeyPair, through retries, cancellations and kills.
THEOREM KeyIsKept == Spec => RetriesKeepKey
<1>1. Inv /\ [Next]_vars => [KeepsKey]_vars
  BY KeyStep
<1> QED BY Invariance, <1>1, PTL DEF Spec, RetriesKeepKey, KeepsKey

-----------------------------------------------------------------------------
(* When the device is locked out.                                            *)

\* Two attempts that both found no key, before either generates, are the only
\* way to lose the key the server pins: while that does not happen, no
\* cancellation, kill, late POST or retry locks the device out (ensureKeyPair).
OneGenerator == \A a, b \in Attempts : at[a].pc = "generate" /\ at[b].pc = "generate" => a = b
OnlyRacesLockOut == []OneGenerator => []~LockedOut

\* One key is ever generated, by the one attempt that found none.
OneKey ==
  /\ key \in {0, 1}
  /\ \A a \in Attempts : at[a].pc = "generate" => key = 0

LEMMA OneKeyStep ==
  ASSUME Inv, OneGenerator, OneKey, [Next]_vars PROVE OneKey'
<1>1. CASE key # 0
  BY <1>1, KeyStep DEF KeepsKey, OneKey
<1>2. CASE key = 0 /\ key' = key
  BY <1>2 DEF OneKey
<1>3. ASSUME NEW a \in Attempts, GenerateKeyPair(a), key = 0 PROVE OneKey'
  <2>1. key' = 1 /\ at[a].pc = "generate"
    BY <1>3 DEF GenerateKeyPair
  <2>2. at'[a].pc = "read" /\ \A b \in Attempts : b # a => at'[b] = at[b]
    BY <1>3 DEF GenerateKeyPair, To, Inv, TypeOK, Attempt
  <2>3. \A b \in Attempts : b # a => at[b].pc # "generate"
    BY <2>1 DEF OneGenerator
  <2> QED BY <2>1, <2>2, <2>3 DEF OneKey
<1>4. key' = key \/ \E a \in Attempts : GenerateKeyPair(a)
  BY DEF Next, StartWork, RefuseForeground, StopWork, Runs, EnsureKeyPair, ReadPublicKey, ReceiveChallenge, ServerAccepts,
         ServerRefuses, SaveEnrollment, SendTelemetryAndArm, EndCancelled, CallFails, MainThread, Refresh,
         DisableAutoEnroll, WriteFlags, Decide, RunEnrollment, CloseScreen, ReceiveIntent, HandleLate, Flush,
         KillProcess, device, vars
<1> QED BY <1>1, <1>2, <1>3, <1>4

\* While no two attempts are about to generate a key at once, the device can
\* always enroll with the key the server pinned.
THEOREM LockOutNeedsARace == Spec => OnlyRacesLockOut
<1>1. Init => OneKey
  BY DEF Init, OneKey, Idle
<1>2. Inv /\ OneGenerator /\ OneKey /\ [Next]_vars => OneKey'
  BY OneKeyStep
<1>3. Inv /\ OneKey => ~LockedOut
  BY AgentEnrollmentAssumption DEF Inv, TypeOK, EnrolledIsRegistered, OneKey, LockedOut
<1> QED BY <1>1, <1>2, <1>3, Invariance, PTL DEF Spec, OnlyRacesLockOut

-----------------------------------------------------------------------------
(* How the work ends.                                                        *)

LEMMA ArmReports ==
  ASSUME Arm, store.enrolled, store' = store, TypeOK
  PROVE  Reporting' /\ (owner => Armed')
BY DEF Arm, Up, Reporting, Armed, TypeOK

\* How the work may end.
EndsArmed ==
  \/ Armed'
  \/ ~owner /\ (Reporting' \/ \E w \in Workers : RefuseForeground(w))
  \/ work.usb /\ \E w \in Workers : CallFails(w) \/ ServerRefuses(w)
  \/ DisableAutoEnroll

LEMMA WorkEndStep ==
  ASSUME Inv, [Next]_vars, work.state # "none", work'.state = "none"
  PROVE  EndsArmed
<1> USE AgentEnrollmentAssumption
<1>1. ASSUME NEW w \in Workers, StartWork(w) PROVE EndsArmed
  <2>1. store.enrolled /\ Arm /\ store' = store
    BY <1>1 DEF StartWork, device, Inv, TypeOK, Work
  <2>2. owner \in BOOLEAN
    BY DEF Inv, TypeOK
  <2> QED BY <2>1, <2>2, ArmReports DEF EndsArmed, Inv
<1>2. ASSUME NEW a \in Attempts, SendTelemetryAndArm(a) PROVE EndsArmed
  <2>1. work.by = a
    BY <1>2 DEF SendTelemetryAndArm
  <2>2. a \in Workers
    BY <2>1 DEF Inv, TypeOK, Work, Attempts
  <2>3. store.enrolled /\ store' = store /\ Arm
    BY <1>2, <2>2 DEF SendTelemetryAndArm, Inv, EnrolledIsRegistered, device
  <2>4. owner \in BOOLEAN
    BY DEF Inv, TypeOK
  <2> QED BY <2>3, <2>4, ArmReports DEF EndsArmed, Inv
<1>3. ASSUME NEW a \in Attempts, CallFails(a) \/ ServerRefuses(a)
      PROVE  work.usb /\ a \in Workers
  <2>1. Fails(a)
    BY <1>3 DEF CallFails, ServerRefuses
  <2>2. work.by = a
    BY <2>1 DEF Fails
  <2>3. a \in Workers
    BY <2>2 DEF Inv, TypeOK, Work, Attempts
  <2>4. work.usb
    BY <2>1, <2>2 DEF Fails, Inv, TypeOK, Work
  <2> QED BY <2>3, <2>4
<1>4. ASSUME NEW w \in Workers, RefuseForeground(w) PROVE EndsArmed
  <2>1. ~owner
    BY <1>4 DEF RefuseForeground
  <2> QED BY <1>4, <2>1 DEF EndsArmed
<1>5. ~Decide /\ ~KillProcess /\ ~StopWork
  <2>1. Decide => work' = work \/ work'.state = "enqueued"
    BY DEF Decide, EnqueueEnrollment
  <2>2. KillProcess \/ StopWork => work' = work \/ work' = [work EXCEPT !.state = "enqueued", !.by = NoWorker]
    BY DEF KillProcess, StopWork
  <2>3. [work EXCEPT !.state = "enqueued", !.by = NoWorker].state = "enqueued"
    BY DEF Inv, TypeOK, Work
  <2> QED BY <2>1, <2>2, <2>3
<1>6. work'.state # work.state
  OBVIOUS
<1>7. \/ \E w \in Workers : StartWork(w) \/ RefuseForeground(w)
      \/ \E a \in Attempts : SendTelemetryAndArm(a) \/ CallFails(a) \/ ServerRefuses(a)
      \/ DisableAutoEnroll
  BY <1>5, <1>6
     DEF Next, Runs, EnsureKeyPair, GenerateKeyPair, ReadPublicKey, ReceiveChallenge, ServerAccepts,
         SaveEnrollment, EndCancelled, MainThread, Refresh, WriteFlags, RunEnrollment, CloseScreen,
         ReceiveIntent, HandleLate, Flush, vars
<1> QED BY <1>1, <1>2, <1>3, <1>4, <1>7 DEF EndsArmed

\* However the work ends, short of a failure a person is told of, of a person
\* who turns it off and of what Android may refuse an agent that is not Device
\* Owner, the device is enrolled, reports and listens (EnrollWorker.doWork).
THEOREM WorkArms == Spec => WorkEndsArmed
<1>1. Inv /\ [Next]_vars => [work.state # "none" /\ work'.state = "none" => EndsArmed]_vars
  BY WorkEndStep
<1> QED BY <1>1, Invariance, PTL DEF Spec, WorkEndsArmed, EndsArmed
=============================================================================
