-------------------------- MODULE EnrollmentProofs --------------------------
(***************************************************************************)
(* Theorems about Enrollment: the inductive invariant, what it says of     *)
(* challenges, and the refinement of DeviceRegistry.                       *)
(*                                                                         *)
(* A statement of create() changes one call: Moves says how, field by      *)
(* field, so that the proofs about rows and locks need not look into the   *)
(* records again.                                                          *)
(***************************************************************************)
EXTENDS Enrollment, TLAPS

\* The call a goes to pc with the row d, and is otherwise what it was.
Moves(a, pc, d) ==
  /\ tx'[a].pc = pc /\ tx'[a].device = d
  /\ tx'[a].challenge = tx[a].challenge
  /\ tx'[a].android = tx[a].android /\ tx'[a].key = tx[a].key
  /\ \A b \in Others(a) : tx'[b] = tx[b]

\* A call that has been made is a record of Call.
LEMMA CallType ==
  ASSUME TypeOK, NEW a \in Attempts, tx[a].pc # "idle"
  PROVE  /\ tx[a] \in Call
         /\ tx[a].pc \in Open \cup Accepted \cup Answers
         /\ tx[a].challenge \in Challenges /\ tx[a].android \in AndroidIds
         /\ tx[a].key \in Keys /\ tx[a].device \in Attempts \cup {NoDevice}
<1>1. tx[a] \in Call \cup {Idle}
  BY DEF TypeOK
<1>2. tx[a] # Idle
  BY DEF Idle
<1>3. tx[a] \in Call
  BY <1>1, <1>2
<1> QED
  BY <1>3 DEF Call

\* What changing the position, or the position and the row, of a call does.
LEMMA MoveTo ==
  ASSUME TypeOK, NEW a \in Attempts, tx[a].pc # "idle",
         NEW pc \in Open \cup Accepted \cup Answers, To(a, pc)
  PROVE  Moves(a, pc, tx[a].device) /\ tx' \in [Attempts -> Call \cup {Idle}]
<1>1. tx \in [Attempts -> Call \cup {Idle}]
  BY DEF TypeOK
<1>2. tx[a] \in Call
  BY CallType
<1>3. [tx[a] EXCEPT !.pc = pc] \in Call
  BY <1>2 DEF Call
<1>4. tx' = [tx EXCEPT ![a] = [tx[a] EXCEPT !.pc = pc]]
  BY <1>1 DEF To
<1>5. tx'[a] = [tx[a] EXCEPT !.pc = pc] /\ \A b \in Others(a) : tx'[b] = tx[b]
  BY <1>1, <1>4 DEF Others
<1> QED
  BY <1>1, <1>2, <1>3, <1>4, <1>5 DEF Moves, Call

LEMMA MoveWith ==
  ASSUME TypeOK, NEW a \in Attempts, tx[a].pc # "idle",
         NEW pc \in Open \cup Accepted \cup Answers, NEW d \in Attempts \cup {NoDevice},
         tx' = [tx EXCEPT ![a].pc = pc, ![a].device = d]
  PROVE  Moves(a, pc, d) /\ tx' \in [Attempts -> Call \cup {Idle}]
<1>1. tx \in [Attempts -> Call \cup {Idle}]
  BY DEF TypeOK
<1>2. tx[a] \in Call
  BY CallType
<1> DEFINE new == [tx[a] EXCEPT !.pc = pc, !.device = d]
<1>3. new \in Call
  BY <1>2 DEF Call
<1>4. tx' = [tx EXCEPT ![a] = new]
  BY <1>1
<1>5. tx'[a] = new /\ \A b \in Others(a) : tx'[b] = tx[b]
  BY <1>1, <1>4 DEF Others
<1>6. new.pc = pc /\ new.device = d /\ new.challenge = tx[a].challenge
      /\ new.android = tx[a].android /\ new.key = tx[a].key
  BY <1>2 DEF Call
<1>7. tx' \in [Attempts -> Call \cup {Idle}]
  BY <1>1, <1>3, <1>4
<1> QED
  BY <1>5, <1>6, <1>7 DEF Moves

-----------------------------------------------------------------------------
(* The statements of a call, as what they move.                              *)

Goes(a, from, to) == tx[a].pc = from /\ row' = row /\ Moves(a, to, tx[a].device)
Stops(a)  == tx[a].pc \in Open /\ row' = row /\ \E p \in {"refused", "aborted"} : Moves(a, p, tx[a].device)
Locks(a)  == (\A b \in Others(a) : ~HoldsChallenge(b, tx[a].challenge)) /\ Goes(a, "consume", "find")
Signs(a)  == Goes(a, "signing", "answered") \/ Goes(a, "signing", "unsigned")

Finds(a) ==
  /\ tx[a].pc = "find" /\ row' = row
  /\ \E d \in Attempts :
       Matches(d, tx[a].android) /\ row[d].key = tx[a].key /\ Moves(a, "reEnroll", d)

Renews(a) ==
  /\ tx[a].pc = "reEnroll" /\ row' = row
  /\ \A b \in Others(a) : ~HoldsRow(b, tx[a].device)
  /\ \/ tx[a].device # NoDevice /\ row[tx[a].device] # NoDevice /\ Moves(a, "commit", tx[a].device)
     \/ Moves(a, "commit", NoDevice)

Inserts(a) ==
  /\ tx[a].pc = "insert" /\ row' = row
  /\ ~Taken(tx[a].android)
  /\ \A b \in Others(a) : ~(Inserted(b) /\ tx[b].android = tx[a].android /\ tx[a].android # NoAndroid)
  /\ Moves(a, "commit", a)

Commits(a) ==
  /\ tx[a].pc = "commit"
  /\ row' = IF Inserted(a)
            THEN [row EXCEPT ![a] = [android |-> tx[a].android, key |-> tx[a].key]]
            ELSE row
  /\ \/ tx[a].device = NoDevice /\ Moves(a, "gone", NoDevice)
     \/ tx[a].device # NoDevice /\ Moves(a, "signing", tx[a].device)

Acts(a) ==
  \/ Stops(a) \/ Goes(a, "assert", "consume") \/ Goes(a, "find", "insert") \/ Locks(a) \/ Signs(a)
  \/ Finds(a) \/ Renews(a) \/ Inserts(a) \/ Commits(a)

LEMMA Effects ==
  ASSUME TypeOK, KeysMatch, NEW a \in Attempts, Statement(a) \/ Abort(a)
  PROVE  Acts(a) /\ tx' \in [Attempts -> Call \cup {Idle}] /\ UNCHANGED <<issued, expired>>
<1> USE DEF Open, Accepted, Answers
<1>1. CASE Abort(a)
  <2>1. tx[a].pc # "idle" /\ To(a, "aborted") /\ tx[a].pc \in Open /\ row' = row
    BY <1>1 DEF Abort
  <2>2. Moves(a, "aborted", tx[a].device) /\ tx' \in [Attempts -> Call \cup {Idle}]
    BY <2>1, MoveTo
  <2> QED
    BY <1>1, <2>1, <2>2 DEF Acts, Stops, Abort
<1>2. CASE AssertChallengeValid(a)
  <2>1. tx[a].pc = "assert" /\ row' = row /\ (To(a, "refused") \/ To(a, "consume"))
    BY <1>2 DEF AssertChallengeValid
  <2>2. CASE To(a, "refused")
    <3>1. Moves(a, "refused", tx[a].device) /\ tx' \in [Attempts -> Call \cup {Idle}]
      BY <2>1, <2>2, MoveTo
    <3> QED
      BY <1>2, <2>1, <3>1 DEF Acts, Stops, AssertChallengeValid
  <2>3. CASE To(a, "consume")
    <3>1. Moves(a, "consume", tx[a].device) /\ tx' \in [Attempts -> Call \cup {Idle}]
      BY <2>1, <2>3, MoveTo
    <3> QED
      BY <1>2, <2>1, <3>1 DEF Acts, Goes, AssertChallengeValid
  <2> QED
    BY <2>1, <2>2, <2>3
<1>3. CASE ConsumeChallenge(a)
  <2>1. tx[a].pc = "consume" /\ row' = row /\ To(a, "find")
    BY <1>3 DEF ConsumeChallenge
  <2>2. Moves(a, "find", tx[a].device) /\ tx' \in [Attempts -> Call \cup {Idle}]
    BY <2>1, MoveTo
  <2> QED
    BY <1>3, <2>1, <2>2 DEF Acts, Locks, Goes, ConsumeChallenge
<1>4. CASE FindByAndroidId(a)
  <2>1. tx[a].pc = "find" /\ row' = row /\ UNCHANGED <<issued, expired>>
    BY <1>4 DEF FindByAndroidId
  <2>2. CASE To(a, "insert")
    <3>1. Moves(a, "insert", tx[a].device) /\ tx' \in [Attempts -> Call \cup {Idle}]
      BY <2>1, <2>2, MoveTo
    <3> QED
      BY <2>1, <3>1 DEF Acts, Goes
  <2>3. CASE To(a, "refused")
    <3>1. Moves(a, "refused", tx[a].device) /\ tx' \in [Attempts -> Call \cup {Idle}]
      BY <2>1, <2>3, MoveTo
    <3> QED
      BY <2>1, <3>1 DEF Acts, Stops
  <2>4. ASSUME NEW d \in Attempts, Matches(d, tx[a].android), row[d].key = tx[a].key,
               tx' = [tx EXCEPT ![a].pc = "reEnroll", ![a].device = d]
        PROVE  Acts(a) /\ tx' \in [Attempts -> Call \cup {Idle}]
    <3>1. Moves(a, "reEnroll", d) /\ tx' \in [Attempts -> Call \cup {Idle}]
      BY <2>1, <2>4, MoveWith
    <3> QED
      BY <2>1, <2>4, <3>1 DEF Acts, Finds
  <2> QED
    BY <1>4, <2>1, <2>2, <2>3, <2>4 DEF FindByAndroidId
<1>5. CASE ReEnrollDevice(a)
  <2> DEFINE d == IF row[tx[a].device] = NoDevice THEN NoDevice ELSE tx[a].device
  <2>1. tx[a].pc = "reEnroll" /\ row' = row /\ UNCHANGED <<issued, expired>>
        /\ \A b \in Others(a) : ~HoldsRow(b, tx[a].device)
    BY <1>5 DEF ReEnrollDevice
  <2>2. tx[a].device \in Attempts \cup {NoDevice} /\ tx[a].device # NoDevice
    BY <2>1, CallType DEF KeysMatch
  <2>3. tx' = [tx EXCEPT ![a].pc = "commit", ![a].device = d]
    BY <1>5 DEF ReEnrollDevice
  <2>4. d \in Attempts \cup {NoDevice}
    BY <2>2
  <2> HIDE DEF d
  <2>5. Moves(a, "commit", d) /\ tx' \in [Attempts -> Call \cup {Idle}]
    BY <2>1, <2>3, <2>4, MoveWith
  <2> QED
    BY <2>1, <2>2, <2>5 DEF Acts, Renews, d
<1>6. CASE CreateDevice(a)
  <2>1. tx[a].pc = "insert" /\ row' = row /\ UNCHANGED <<issued, expired>>
    BY <1>6 DEF CreateDevice
  <2>2. CASE Taken(tx[a].android)
    <3>1. To(a, "refused")
      BY <1>6, <2>2 DEF CreateDevice
    <3>2. Moves(a, "refused", tx[a].device) /\ tx' \in [Attempts -> Call \cup {Idle}]
      BY <2>1, <3>1, MoveTo
    <3> QED
      BY <2>1, <3>2 DEF Acts, Stops
  <2>3. CASE ~Taken(tx[a].android)
    <3>1. tx' = [tx EXCEPT ![a].pc = "commit", ![a].device = a]
      BY <1>6, <2>3 DEF CreateDevice
    <3>2. Moves(a, "commit", a) /\ tx' \in [Attempts -> Call \cup {Idle}]
      BY <2>1, <3>1, MoveWith
    <3> QED
      BY <1>6, <2>1, <2>3, <3>2 DEF Acts, Inserts, CreateDevice
  <2> QED
    BY <2>2, <2>3
<1>7. CASE Commit(a)
  <2>1. tx[a].pc = "commit" /\ UNCHANGED <<issued, expired>>
    BY <1>7 DEF Commit
  <2>2. CASE tx[a].device = NoDevice
    <3>1. To(a, "gone")
      BY <1>7, <2>2 DEF Commit
    <3>2. Moves(a, "gone", tx[a].device) /\ tx' \in [Attempts -> Call \cup {Idle}]
      BY <2>1, <3>1, MoveTo
    <3> QED
      BY <1>7, <2>1, <2>2, <3>2 DEF Acts, Commits, Commit
  <2>3. CASE tx[a].device # NoDevice
    <3>1. To(a, "signing")
      BY <1>7, <2>3 DEF Commit
    <3>2. Moves(a, "signing", tx[a].device) /\ tx' \in [Attempts -> Call \cup {Idle}]
      BY <2>1, <3>1, MoveTo
    <3> QED
      BY <1>7, <2>1, <2>3, <3>2 DEF Acts, Commits, Commit
  <2> QED
    BY <2>2, <2>3
<1>8. CASE SignToken(a)
  <2>1. tx[a].pc = "signing" /\ row' = row /\ UNCHANGED <<issued, expired>>
        /\ (To(a, "answered") \/ To(a, "unsigned"))
    BY <1>8 DEF SignToken
  <2>2. CASE To(a, "answered")
    <3>1. Moves(a, "answered", tx[a].device) /\ tx' \in [Attempts -> Call \cup {Idle}]
      BY <2>1, <2>2, MoveTo
    <3> QED
      BY <2>1, <3>1 DEF Acts, Signs, Goes
  <2>3. CASE To(a, "unsigned")
    <3>1. Moves(a, "unsigned", tx[a].device) /\ tx' \in [Attempts -> Call \cup {Idle}]
      BY <2>1, <2>3, MoveTo
    <3> QED
      BY <2>1, <3>1 DEF Acts, Signs, Goes
  <2> QED
    BY <2>1, <2>2, <2>3
<1> QED
  BY <1>1, <1>2, <1>3, <1>4, <1>5, <1>6, <1>7, <1>8 DEF Statement

\* The other steps: a new call, and the steps that leave every call alone.
LEMMA EnrollEffect ==
  ASSUME TypeOK, NEW a \in Attempts, NEW c \in Challenges, NEW x \in AndroidIds, NEW k \in Keys,
         Enroll(a, c, x, k)
  PROVE  /\ tx[a].pc = "idle" /\ tx'[a].pc = "assert" /\ tx'[a].device = NoDevice
         /\ tx'[a].challenge \in issued
         /\ \A b \in Others(a) : tx'[b] = tx[b]
         /\ tx' \in [Attempts -> Call \cup {Idle}]
         /\ UNCHANGED <<issued, expired, consumed, row>>
<1> DEFINE call == [pc |-> "assert", challenge |-> c, android |-> x, key |-> k, device |-> NoDevice]
<1>1. call \in Call
  BY DEF Call, Open
<1>2. tx' = [tx EXCEPT ![a] = call] /\ tx \in [Attempts -> Call \cup {Idle}]
  BY DEF Enroll, TypeOK
<1>3. tx' \in [Attempts -> Call \cup {Idle}]
  BY <1>1, <1>2
<1>4. tx'[a] = call /\ \A b \in Others(a) : tx'[b] = tx[b]
  BY <1>2 DEF Others
<1> QED
  BY <1>3, <1>4 DEF Enroll

\* A call begins; or all of them stay, and a proof looks at the rows only.
Begins(a) ==
  /\ tx[a].pc = "idle" /\ tx'[a].pc = "assert" /\ tx'[a].device = NoDevice
  /\ \A b \in Others(a) : tx'[b] = tx[b]
  /\ row' = row
Still == tx' = tx

LEMMA StepKinds ==
  ASSUME Inv, [Next]_vars
  PROVE  \/ \E a \in Attempts : Acts(a)
         \/ \E a \in Attempts : Begins(a)
         \/ Still /\ row' = row
         \/ Still /\ \E d \in Attempts, x \in AndroidIds : UpdateAndroidId(d, x)
         \/ Still /\ \E d \in Attempts : RemoveDevice(d)
<1>1. CASE \E a \in Attempts : Statement(a) \/ Abort(a)
  BY <1>1, Effects DEF Inv
<1>2. CASE \E a \in Attempts, c \in Challenges, x \in AndroidIds, k \in Keys : Enroll(a, c, x, k)
  BY <1>2, EnrollEffect DEF Inv, Begins
<1>3. CASE \E c \in Challenges : IssueChallenge(c) \/ PassExpiry(c)
  BY <1>3 DEF IssueChallenge, PassExpiry, Still
<1>4. CASE \E d \in Attempts, x \in AndroidIds : UpdateAndroidId(d, x)
  BY <1>4 DEF UpdateAndroidId, Still
<1>5. CASE \E d \in Attempts : RemoveDevice(d)
  BY <1>5 DEF RemoveDevice, Still
<1>6. CASE UNCHANGED vars
  BY <1>6 DEF vars, Still
<1> QED
  BY <1>1, <1>2, <1>3, <1>4, <1>5, <1>6 DEF Next

-----------------------------------------------------------------------------
(* One lemma per part of the invariant.                                      *)

LEMMA TypeStep ==
  ASSUME Inv, [Next]_vars
  PROVE  TypeOK'
<1>0. TypeOK /\ KeysMatch
  BY DEF Inv
<1>1. ASSUME NEW a \in Attempts, Statement(a) \/ Abort(a)
      PROVE  TypeOK'
  <2>1. Acts(a) /\ tx' \in [Attempts -> Call \cup {Idle}] /\ UNCHANGED <<issued, expired>>
    BY <1>0, <1>1, Effects
  <2>2. tx[a].pc # "idle"
    BY <2>1 DEF Acts, Stops, Goes, Locks, Signs, Finds, Renews, Inserts, Commits, Open
  <2>3. /\ tx[a].challenge \in issued /\ tx'[a].challenge = tx[a].challenge
        /\ \A b \in Others(a) : tx'[b] = tx[b]
    BY <1>0, <2>1, <2>2
       DEF TypeOK, Acts, Stops, Goes, Locks, Signs, Finds, Renews, Inserts, Commits, Moves
  <2>4. row' \in [Attempts -> Device \cup {NoDevice}]
    <3>1. row \in [Attempts -> Device \cup {NoDevice}]
      BY <1>0 DEF TypeOK
    <3>2. [android |-> tx[a].android, key |-> tx[a].key] \in Device
      BY <1>0, <2>2, CallType DEF Device
    <3>3. row' = row \/ row' = [row EXCEPT ![a] = [android |-> tx[a].android, key |-> tx[a].key]]
      BY <2>1 DEF Acts, Stops, Goes, Locks, Signs, Finds, Renews, Inserts, Commits
    <3> QED
      BY <3>1, <3>2, <3>3
  <2>5. consumed' \subseteq issued
    BY <1>0, <1>1, <2>3 DEF TypeOK, Statement, AssertChallengeValid, ConsumeChallenge, FindByAndroidId,
      ReEnrollDevice, CreateDevice, Commit, SignToken, Abort
  <2> QED
    BY <1>0, <2>1, <2>3, <2>4, <2>5 DEF TypeOK, Others
<1>2. ASSUME NEW a \in Attempts, NEW c \in Challenges, NEW x \in AndroidIds, NEW k \in Keys,
             Enroll(a, c, x, k)
      PROVE  TypeOK'
  BY <1>0, <1>2, EnrollEffect DEF TypeOK, Others
<1>3. ASSUME NEW c \in Challenges, IssueChallenge(c) \/ PassExpiry(c)
      PROVE  TypeOK'
  BY <1>0, <1>3 DEF TypeOK, IssueChallenge, PassExpiry
<1>4. ASSUME NEW d \in Attempts, NEW x \in AndroidIds, UpdateAndroidId(d, x)
      PROVE  TypeOK'
  <2>1. row[d] \in Device
    BY <1>0, <1>4 DEF TypeOK, UpdateAndroidId
  <2>2. [row[d] EXCEPT !.android = x] \in Device
    BY <2>1 DEF Device
  <2> QED
    BY <1>0, <1>4, <2>2 DEF TypeOK, UpdateAndroidId
<1>5. ASSUME NEW d \in Attempts, RemoveDevice(d)
      PROVE  TypeOK'
  BY <1>0, <1>5 DEF TypeOK, RemoveDevice
<1>6. CASE UNCHANGED vars
  BY <1>0, <1>6 DEF TypeOK, vars
<1> QED
  BY <1>1, <1>2, <1>3, <1>4, <1>5, <1>6 DEF Next

LEMMA LocksStep ==
  ASSUME Inv, [Next]_vars
  PROVE  LocksAreExclusive'
<1> USE DEF HoldsChallenge, HoldsRow
<1>0. LocksAreExclusive /\ TypeOK /\ RowsAreCommitted
  BY DEF Inv
<1>1. ASSUME NEW a \in Attempts, Acts(a)
      PROVE  LocksAreExclusive'
  <2>1. \A b \in Others(a) : tx'[b] = tx[b]
    BY <1>1 DEF Acts, Stops, Goes, Locks, Signs, Finds, Renews, Inserts, Commits, Moves
  <2>2. \A b \in Others(a), c \in Challenges : ~(HoldsChallenge(a, c)' /\ HoldsChallenge(b, c))
    <3>1. SUFFICES ASSUME NEW b \in Others(a), NEW c \in Challenges, HoldsChallenge(a, c)', HoldsChallenge(b, c)
                   PROVE  FALSE
      OBVIOUS
    <3>2. CASE Locks(a)
      BY <3>1, <3>2 DEF Locks, Goes, Moves
    <3>3. CASE ~Locks(a)
      <4>1. HoldsChallenge(a, c)
        BY <1>1, <3>1, <3>3 DEF Acts, Stops, Goes, Signs, Finds, Renews, Inserts, Commits, Moves
      <4> QED
        BY <1>0, <3>1, <4>1 DEF LocksAreExclusive, Others
    <3> QED
      BY <3>2, <3>3
  <2>3. \A b \in Others(a), d \in Attempts : ~(HoldsRow(a, d)' /\ HoldsRow(b, d))
    <3>1. SUFFICES ASSUME NEW b \in Others(a), NEW d \in Attempts, HoldsRow(a, d)', HoldsRow(b, d)
                   PROVE  FALSE
      OBVIOUS
    <3>2. b \in Attempts /\ b # a
      BY DEF Others
    <3>3. CASE Renews(a)
      BY <3>1, <3>3, EnrollmentAssumption DEF Renews, Moves
    <3>4. CASE Inserts(a)
      <4>1. d = a /\ tx[a].pc = "insert" /\ ~Inserted(b) /\ tx[b].device = a
        BY <3>1, <3>2, <3>4 DEF Inserts, Moves, Inserted
      <4>2. tx[a].pc \in Accepted
        BY <1>0, <3>1, <3>2, <4>1, EnrollmentAssumption DEF RowsAreCommitted
      <4> QED
        BY <4>1, <4>2 DEF Accepted
    <3> QED
      BY <1>1, <3>1, <3>3, <3>4 DEF Acts, Stops, Goes, Locks, Signs, Finds, Commits, Moves
  <2> QED
    BY <1>0, <2>1, <2>2, <2>3 DEF LocksAreExclusive, Others
<1>2. ASSUME NEW a \in Attempts, Begins(a)
      PROVE  LocksAreExclusive'
  BY <1>0, <1>2 DEF LocksAreExclusive, Others, Begins
<1>3. CASE Still
  BY <1>0, <1>3 DEF LocksAreExclusive, Still
<1> QED
  BY <1>1, <1>2, <1>3, StepKinds

\* A row that is committed is the one of a call that is done.
LEMMA RowsStep ==
  ASSUME Inv, [Next]_vars
  PROVE  RowsAreCommitted'
<1>0. RowsAreCommitted /\ TypeOK /\ KeysMatch
  BY DEF Inv
<1> USE EnrollmentAssumption DEF Inserted, Accepted
<1>1. ASSUME NEW a \in Attempts, Acts(a)
      PROVE  RowsAreCommitted'
  <2>1. \A b \in Others(a) : tx'[b] = tx[b]
    BY <1>1 DEF Acts, Stops, Goes, Locks, Signs, Finds, Renews, Inserts, Commits, Moves
  <2>2. \A b \in Attempts : tx[b].pc \in Accepted => tx'[b].pc \in Accepted
    BY <1>1, <2>1 DEF Acts, Stops, Goes, Locks, Signs, Finds, Renews, Inserts, Commits, Moves, Open, Others
  <2>3. \A d \in Attempts : row'[d] # NoDevice => tx'[d].pc \in Accepted
    <3>1. CASE row' = row
      BY <1>0, <2>2, <3>1 DEF RowsAreCommitted
    <3>2. CASE row' # row
      <4>1. Commits(a) /\ Inserted(a)
        BY <1>1, <3>2 DEF Acts, Stops, Goes, Locks, Signs, Finds, Renews, Inserts, Commits
      <4>2. tx'[a].pc \in Accepted /\ \A d \in Others(a) : row'[d] = row[d]
        BY <1>0, <4>1 DEF Commits, Moves, Others, TypeOK
      <4> QED
        BY <1>0, <2>2, <4>2 DEF RowsAreCommitted, Others
    <3> QED
      BY <3>1, <3>2
  <2>4. ASSUME tx'[a].pc \in {"reEnroll", "commit"} \cup Accepted, tx'[a].device # NoDevice, ~Inserted(a)'
        PROVE  tx'[tx'[a].device].pc \in Accepted
    <3>1. CASE Finds(a)
      <4>1. PICK d \in Attempts : row[d] # NoDevice /\ tx'[a].device = d
        BY <3>1 DEF Finds, Matches, Moves
      <4>2. tx[d].pc \in Accepted
        BY <1>0, <4>1 DEF RowsAreCommitted
      <4> QED
        BY <2>2, <4>1, <4>2
    <3>2. CASE Renews(a)
      <4>1. tx'[a].device = tx[a].device /\ tx[a].pc = "reEnroll"
        BY <2>4, <3>2 DEF Renews, Moves
      <4>2. tx[a].device \in Attempts
        BY <1>0, <2>4, <4>1, CallType
      <4>3. tx[tx[a].device].pc \in Accepted
        BY <1>0, <2>4, <4>1 DEF RowsAreCommitted
      <4> QED
        BY <2>2, <4>1, <4>2, <4>3
    <3>3. CASE Commits(a)
      <4>1. tx'[a].device = tx[a].device /\ tx[a].pc = "commit" /\ tx'[a].pc \in Accepted
        BY <2>4, <3>3 DEF Commits, Moves
      <4>2. tx[a].device \in Attempts
        BY <1>0, <2>4, <4>1, CallType
      <4>3. CASE tx[a].device = a
        BY <4>1, <4>3
      <4>4. CASE tx[a].device # a
        BY <1>0, <2>2, <2>4, <4>1, <4>2, <4>4 DEF RowsAreCommitted
      <4> QED
        BY <4>3, <4>4
    <3>4. CASE Inserts(a)
      BY <2>4, <3>4 DEF Inserts, Moves
    <3>5. CASE Signs(a)
      <4>1. tx'[a].device = tx[a].device /\ tx[a].pc = "signing"
        BY <3>5 DEF Signs, Goes, Moves
      <4>2. tx[a].device \in Attempts
        BY <1>0, <2>4, <4>1, CallType
      <4> QED
        BY <1>0, <2>2, <2>4, <4>1, <4>2 DEF RowsAreCommitted
    <3> QED
      BY <1>1, <2>4, <3>1, <3>2, <3>3, <3>4, <3>5 DEF Acts, Stops, Goes, Locks, Moves
  <2>5. ASSUME NEW b \in Others(a), tx'[b].pc \in {"reEnroll", "commit"} \cup Accepted,
               tx'[b].device # NoDevice, ~Inserted(b)'
        PROVE  tx'[tx'[b].device].pc \in Accepted
    <3>1. b \in Attempts /\ tx'[b] = tx[b] /\ tx[b].pc # "idle"
      BY <2>1, <2>5 DEF Others
    <3>2. tx[b].device \in Attempts
      BY <1>0, <2>5, <3>1, CallType
    <3> QED
      BY <1>0, <2>2, <2>5, <3>1, <3>2 DEF RowsAreCommitted
  <2> QED
    BY <2>3, <2>4, <2>5 DEF RowsAreCommitted, Others
<1>2. ASSUME NEW a \in Attempts, Begins(a)
      PROVE  RowsAreCommitted'
  <2>1. \A b \in Attempts : tx[b].pc \in Accepted => tx'[b] = tx[b]
    BY <1>2 DEF Others, Begins
  <2>2. \A b \in Attempts : tx'[b].pc \in {"reEnroll", "commit"} \cup Accepted =>
           tx'[b] = tx[b] /\ tx[b].device \in Attempts \cup {NoDevice}
    BY <1>0, <1>2, CallType DEF Others, Begins
  <2> QED
    BY <1>0, <1>2, <2>1, <2>2 DEF RowsAreCommitted, Begins
<1>3. CASE Still /\ row' = row
  BY <1>0, <1>3 DEF RowsAreCommitted, Still
<1>4. ASSUME Still, NEW d \in Attempts, NEW x \in AndroidIds, UpdateAndroidId(d, x)
      PROVE  RowsAreCommitted'
  BY <1>0, <1>4 DEF RowsAreCommitted, Still, UpdateAndroidId, TypeOK
<1>5. ASSUME Still, NEW d \in Attempts, RemoveDevice(d)
      PROVE  RowsAreCommitted'
  BY <1>0, <1>5 DEF RowsAreCommitted, Still, RemoveDevice, TypeOK
<1> QED
  BY <1>1, <1>2, <1>3, <1>4, <1>5, StepKinds

\* A call that inserts its row, or has, is the only one with its androidId.
LEMMA UniqueStep ==
  ASSUME Inv, [Next]_vars
  PROVE  AndroidsAreUnique'
<1>0. AndroidsAreUnique /\ RowsAreCommitted /\ TypeOK
  BY DEF Inv
<1> USE EnrollmentAssumption DEF Inserted, Taken, Matches
<1>1. ASSUME NEW a \in Attempts, Acts(a), row' = row
      PROVE  AndroidsAreUnique'
  <2>1. \A b \in Others(a) : tx'[b] = tx[b]
    BY <1>1 DEF Acts, Stops, Goes, Locks, Signs, Finds, Renews, Inserts, Commits, Moves
  <2>2. ASSUME Inserted(a)'
        PROVE  /\ row[a] = NoDevice /\ ~Taken(tx[a].android) /\ tx'[a].android = tx[a].android
               /\ \A b \in Others(a) :
                    Inserted(b) /\ tx[b].android = tx[a].android => tx[a].android = NoAndroid
    <3>1. CASE Inserts(a)
      <4>1. row[a] = NoDevice
        BY <1>0, <3>1 DEF Inserts, RowsAreCommitted, Accepted
      <4> QED
        BY <3>1, <4>1 DEF Inserts, Moves
    <3>2. CASE Renews(a)
      <4>1. tx[a].pc = "reEnroll" /\ tx[a].device = a
        BY <2>2, <3>2 DEF Renews, Moves
      <4>2. tx[a].pc \in Accepted
        BY <1>0, <4>1 DEF RowsAreCommitted
      <4> QED
        BY <4>1, <4>2 DEF Accepted
    <3> QED
      BY <1>1, <2>2, <3>1, <3>2 DEF Acts, Stops, Goes, Locks, Signs, Finds, Commits, Moves
  <2>3. \A b \in Attempts : Inserted(b)' => row[b] = NoDevice /\ ~Taken(tx'[b].android)
    BY <1>0, <2>1, <2>2 DEF AndroidsAreUnique, Others
  <2>4. ASSUME NEW b \in Attempts, NEW e \in Others(b), Inserted(b)', Inserted(e)',
               tx'[b].android = tx'[e].android
        PROVE  tx'[b].android = NoAndroid
    <3>1. CASE b = a
      BY <2>1, <2>2, <2>4, <3>1 DEF Others
    <3>2. CASE e = a
      BY <2>1, <2>2, <2>4, <3>2 DEF Others
    <3>3. CASE b # a /\ e # a
      BY <1>0, <2>1, <2>4, <3>3 DEF AndroidsAreUnique, Others
    <3> QED
      BY <3>1, <3>2, <3>3
  <2> QED
    BY <1>0, <1>1, <2>3, <2>4 DEF AndroidsAreUnique
<1>2. ASSUME NEW a \in Attempts, Commits(a), Inserted(a)
      PROVE  AndroidsAreUnique'
  <2>1. /\ ~Inserted(a)' /\ \A b \in Others(a) : tx'[b] = tx[b]
    BY <1>2 DEF Commits, Moves
  <2>2. /\ row'[a].android = tx[a].android
        /\ \A d \in Others(a) : row'[d] = row[d]
    BY <1>0, <1>2 DEF Commits, Others, TypeOK
  <2>3. row[a] = NoDevice /\ ~Taken(tx[a].android)
    BY <1>0, <1>2 DEF AndroidsAreUnique
  <2>4. ASSUME NEW d \in Attempts, NEW e \in Others(d), row'[d] # NoDevice, row'[e] # NoDevice,
               row'[d].android = row'[e].android
        PROVE  row'[d].android = NoAndroid
    <3>1. CASE d = a
      BY <2>2, <2>3, <2>4, <3>1 DEF Others
    <3>2. CASE e = a
      BY <2>2, <2>3, <2>4, <3>2 DEF Others
    <3>3. CASE d # a /\ e # a
      BY <1>0, <2>2, <2>4, <3>3 DEF AndroidsAreUnique, Others
    <3> QED
      BY <3>1, <3>2, <3>3
  <2>5. ASSUME NEW b \in Attempts, Inserted(b)'
        PROVE  row'[b] = NoDevice /\ ~Taken(tx[b].android)'
    <3>1. b \in Others(a) /\ tx'[b] = tx[b] /\ Inserted(b)
      BY <2>1, <2>5 DEF Others
    <3>2. row[b] = NoDevice /\ ~Taken(tx[b].android)
      BY <1>0, <3>1 DEF AndroidsAreUnique, Others
    <3>3. tx[b].android = tx[a].android => tx[b].android = NoAndroid
      BY <1>0, <1>2, <3>1 DEF AndroidsAreUnique, Others
    <3> QED
      BY <2>2, <3>1, <3>2, <3>3 DEF Others
  <2>6. ASSUME NEW b \in Attempts, NEW e \in Others(b), Inserted(b)', Inserted(e)',
               tx'[b].android = tx'[e].android
        PROVE  tx'[b].android = NoAndroid
    BY <1>0, <2>1, <2>6 DEF AndroidsAreUnique, Others
  <2> QED
    BY <2>4, <2>5, <2>6 DEF AndroidsAreUnique
<1>3. ASSUME NEW a \in Attempts, Begins(a)
      PROVE  AndroidsAreUnique'
  <2>1. \A b \in Attempts : Inserted(b)' => Inserted(b) /\ tx'[b] = tx[b]
    BY <1>3 DEF Begins, Others
  <2> QED
    BY <1>0, <1>3, <2>1 DEF AndroidsAreUnique, Begins, Others
<1>4. CASE Still /\ row' = row
  BY <1>0, <1>4 DEF AndroidsAreUnique, Still
<1>5. ASSUME Still, NEW d \in Attempts, NEW x \in AndroidIds, UpdateAndroidId(d, x)
      PROVE  AndroidsAreUnique'
  <2>1. /\ row[d] # NoDevice /\ row'[d].android = x
        /\ \A e \in Others(d) : row'[e] = row[e]
        /\ \A e \in Others(d) : x = NoAndroid \/ row[e] = NoDevice \/ row[e].android # x
        /\ \A b \in Attempts : ~(Inserted(b) /\ tx[b].android = x /\ x # NoAndroid)
    <3>1. row[d] \in Device
      BY <1>0, <1>5 DEF UpdateAndroidId, TypeOK
    <3>2. [row[d] EXCEPT !.android = x].android = x
      BY <3>1 DEF Device
    <3> QED
      BY <1>0, <1>5, <3>2 DEF UpdateAndroidId, TypeOK, Others
  <2>2. ASSUME NEW f \in Attempts, NEW e \in Others(f), row'[f] # NoDevice, row'[e] # NoDevice,
               row'[f].android = row'[e].android
        PROVE  row'[f].android = NoAndroid
    BY <1>0, <2>1, <2>2 DEF AndroidsAreUnique, Others
  <2>3. ASSUME NEW b \in Attempts, Inserted(b)
        PROVE  row'[b] = NoDevice /\ ~Taken(tx[b].android)'
    BY <1>0, <1>5, <2>1, <2>3 DEF AndroidsAreUnique, Others, Still
  <2> QED
    BY <1>0, <1>5, <2>2, <2>3 DEF AndroidsAreUnique, Still
<1>6. ASSUME Still, NEW d \in Attempts, RemoveDevice(d)
      PROVE  AndroidsAreUnique'
  <2>1. \A e \in Attempts : row'[e] = NoDevice \/ row'[e] = row[e]
    BY <1>0, <1>6 DEF RemoveDevice, TypeOK
  <2> QED
    BY <1>0, <1>6, <2>1 DEF AndroidsAreUnique, Still, Others
<1>7. \A a \in Attempts : Acts(a) => row' = row \/ (Commits(a) /\ Inserted(a))
  BY DEF Acts, Stops, Goes, Locks, Signs, Finds, Renews, Inserts, Commits
<1> QED
  BY <1>1, <1>2, <1>3, <1>4, <1>5, <1>6, <1>7, StepKinds

\* The key of the row a call found or wrote is the one it presents.
LEMMA KeysStep ==
  ASSUME Inv, [Next]_vars
  PROVE  KeysMatch'
<1>0. KeysMatch /\ RowsAreCommitted /\ TypeOK
  BY DEF Inv
<1> USE EnrollmentAssumption DEF Accepted
<1>1. ASSUME NEW a \in Attempts, Acts(a), row' = row
      PROVE  KeysMatch'
  <2>1. \A b \in Others(a) : tx'[b] = tx[b]
    BY <1>1 DEF Acts, Stops, Goes, Locks, Signs, Finds, Renews, Inserts, Commits, Moves
  <2> DEFINE d == tx'[a].device
  <2>2. tx'[a].pc \in {"reEnroll"} \cup Accepted => d # NoDevice
    BY <1>0, <1>1 DEF KeysMatch, Acts, Stops, Goes, Locks, Signs, Finds, Renews, Inserts, Commits, Moves
  <2>3. tx'[a].pc = "commit" /\ d \notin {a, NoDevice} => row[d] # NoDevice
    BY <1>1 DEF Acts, Stops, Goes, Locks, Signs, Finds, Renews, Inserts, Commits, Moves
  <2>4. ASSUME tx'[a].pc \in {"reEnroll", "commit"} \cup Accepted, d # NoDevice, row[d] # NoDevice
        PROVE  row[d].key = tx'[a].key
    <3>1. CASE Finds(a)
      BY <3>1 DEF Finds, Moves
    <3>2. CASE Inserts(a)
      <4>1. row[a] = NoDevice /\ d = a
        BY <1>0, <3>2 DEF Inserts, RowsAreCommitted, Moves
      <4> QED
        BY <2>4, <4>1
    <3>3. CASE Renews(a) \/ Commits(a) \/ Signs(a)
      <4>1. d = tx[a].device /\ tx'[a].key = tx[a].key
            /\ tx[a].pc \in {"reEnroll", "commit"} \cup Accepted
        BY <2>4, <3>3 DEF Renews, Commits, Signs, Goes, Moves
      <4> QED
        BY <1>0, <2>4, <4>1 DEF KeysMatch
    <3> QED
      BY <1>1, <2>4, <3>1, <3>2, <3>3 DEF Acts, Stops, Goes, Locks, Moves
  <2> QED
    BY <1>0, <1>1, <2>1, <2>2, <2>3, <2>4 DEF KeysMatch, Others
<1>2. ASSUME NEW a \in Attempts, Commits(a), Inserted(a)
      PROVE  KeysMatch'
  <2>1. /\ tx'[a].pc = "signing" /\ tx'[a].device = a /\ tx'[a].key = tx[a].key
        /\ \A b \in Others(a) : tx'[b] = tx[b]
    BY <1>2 DEF Commits, Moves, Inserted
  <2>2. /\ row'[a] # NoDevice /\ row'[a].key = tx[a].key
        /\ \A e \in Others(a) : row'[e] = row[e]
    <3>1. tx[a].pc = "commit"
      BY <1>2 DEF Commits
    <3>2. [android |-> tx[a].android, key |-> tx[a].key] \in Device
      BY <1>0, <3>1, CallType DEF Device
    <3>3. NoDevice \notin Device
      BY DEF Device, AndroidIds
    <3> QED
      BY <1>0, <1>2, <3>2, <3>3 DEF Commits, Others, TypeOK
  <2>3. ASSUME NEW b \in Others(a), tx[b].pc \in {"reEnroll", "commit"} \cup Accepted
        PROVE  tx[b].device # a
    <3>1. b \in Attempts /\ b # a /\ tx[a].pc = "commit"
      BY <1>2 DEF Others, Commits
    <3>2. SUFFICES ASSUME tx[b].device = a PROVE FALSE
      OBVIOUS
    <3>3. tx[a].pc \in Accepted
      BY <1>0, <2>3, <3>1, <3>2 DEF RowsAreCommitted, Inserted
    <3> QED
      BY <3>1, <3>3
  <2>4. ASSUME NEW b \in Others(a)
        PROVE  /\ tx[b].pc \in {"reEnroll"} \cup Accepted => tx[b].device # NoDevice
               /\ tx[b].pc = "commit" /\ tx[b].device \notin {b, NoDevice} => row'[tx[b].device] # NoDevice
               /\ tx[b].pc \in {"reEnroll", "commit"} \cup Accepted /\ tx[b].device # NoDevice
                    /\ row'[tx[b].device] # NoDevice => row'[tx[b].device].key = tx[b].key
    <3>1. b \in Attempts
      BY DEF Others
    <3>2. tx[b].pc \in {"reEnroll", "commit"} \cup Accepted /\ tx[b].device # NoDevice =>
            row'[tx[b].device] = row[tx[b].device]
      BY <1>0, <2>2, <2>3, <3>1, CallType DEF Others
    <3> QED
      BY <1>0, <3>1, <3>2 DEF KeysMatch
  <2> QED
    BY <2>1, <2>2, <2>4 DEF KeysMatch, Others
<1>3. ASSUME NEW a \in Attempts, Begins(a)
      PROVE  KeysMatch'
  BY <1>0, <1>3 DEF KeysMatch, Begins, Others
<1>4. CASE Still /\ row' = row
  BY <1>0, <1>4 DEF KeysMatch, Still
<1>5. ASSUME Still, NEW d \in Attempts, NEW x \in AndroidIds, UpdateAndroidId(d, x)
      PROVE  KeysMatch'
  <2>1. /\ row[d] # NoDevice /\ row'[d] # NoDevice /\ row'[d].key = row[d].key
        /\ \A e \in Others(d) : row'[e] = row[e]
    <3>1. row[d] \in Device /\ row[d] # NoDevice
      BY <1>0, <1>5 DEF UpdateAndroidId, TypeOK
    <3>2. [row[d] EXCEPT !.android = x] \in Device /\ [row[d] EXCEPT !.android = x].key = row[d].key
      BY <3>1 DEF Device
    <3>3. NoDevice \notin Device
      BY DEF Device, AndroidIds
    <3> QED
      BY <1>0, <1>5, <3>1, <3>2, <3>3 DEF UpdateAndroidId, TypeOK, Others
  <2>2. \A e \in Attempts : row'[e].key = row[e].key /\ (row'[e] = NoDevice <=> row[e] = NoDevice)
    BY <2>1 DEF Others
  <2>3. \A b \in Attempts : tx[b].pc \in {"reEnroll", "commit"} \cup Accepted =>
          tx[b].device \in Attempts \cup {NoDevice}
    BY <1>0, CallType
  <2> QED
    BY <1>0, <1>5, <2>2, <2>3 DEF KeysMatch, Still
<1>6. ASSUME Still, NEW d \in Attempts, RemoveDevice(d)
      PROVE  KeysMatch'
  <2>1. \A e \in Attempts : row'[e] = NoDevice \/ row'[e] = row[e]
    BY <1>0, <1>6 DEF RemoveDevice, TypeOK
  <2>2. \A b \in Attempts : tx[b].pc = "commit" /\ tx[b].device \notin {b, NoDevice} =>
          row'[tx[b].device] = row[tx[b].device]
    BY <1>0, <1>6, CallType DEF RemoveDevice, HoldsRow, TypeOK
  <2>3. \A b \in Attempts : tx[b].pc \in {"reEnroll", "commit"} \cup Accepted =>
          tx[b].device \in Attempts \cup {NoDevice}
    BY <1>0, CallType
  <2> QED
    BY <1>0, <1>6, <2>1, <2>2, <2>3 DEF KeysMatch, Still
<1>7. \A a \in Attempts : Acts(a) => row' = row \/ (Commits(a) /\ Inserted(a))
  BY DEF Acts, Stops, Goes, Locks, Signs, Finds, Renews, Inserts, Commits
<1> QED
  BY <1>1, <1>2, <1>3, <1>4, <1>5, <1>6, <1>7, StepKinds

-----------------------------------------------------------------------------
(* What the statements of concurrent enrollments keep true.                  *)

\* The inductive invariant, for any calls, challenges, androidIds and keys.
THEOREM Invariance == Spec => []Inv
<1>1. Init => Inv
  <2> SUFFICES ASSUME Init PROVE Inv
    OBVIOUS
  <2>1. TypeOK
    BY DEF Init, TypeOK, Idle
  <2>2. \A a \in Attempts : tx[a].pc = "idle" /\ row[a] = NoDevice
    BY DEF Init, Idle
  <2>3. LocksAreExclusive
    BY <2>2 DEF LocksAreExclusive, HoldsChallenge, HoldsRow, Others
  <2>4. AndroidsAreUnique
    BY <2>2 DEF AndroidsAreUnique, Inserted, Others
  <2>5. KeysMatch
    BY <2>2 DEF KeysMatch, Accepted
  <2>6. RowsAreCommitted
    BY <2>2 DEF RowsAreCommitted, Accepted
  <2> QED
    BY <2>1, <2>3, <2>4, <2>5, <2>6 DEF Inv
<1>2. Inv /\ [Next]_vars => Inv'
  BY TypeStep, LocksStep, UniqueStep, KeysStep, RowsStep DEF Inv
<1> QED
  BY <1>1, <1>2, PTL DEF Spec

\* Every value stays in its domain.
THEOREM TypeCorrect == Spec => []TypeOK
<1>1. Inv => TypeOK
  BY DEF Inv
<1> QED
  BY <1>1, Invariance, PTL

\* A call that is refused, or fails before its COMMIT, leaves its challenge
\* usable (the transaction of DeviceService.create).
THEOREM ChallengesAreKept == Spec => []RefusedKeepsChallenge
<1> USE DEF Accepted
<1>1. Init => RefusedKeepsChallenge
  BY DEF Init, RefusedKeepsChallenge
<1>2. Inv /\ RefusedKeepsChallenge /\ [Next]_vars => RefusedKeepsChallenge'
  <2> SUFFICES ASSUME Inv, RefusedKeepsChallenge, [Next]_vars PROVE RefusedKeepsChallenge'
    OBVIOUS
  <2>0. TypeOK /\ KeysMatch
    BY DEF Inv
  <2>1. ASSUME NEW b \in Attempts, tx[b].pc \in Accepted \cup {"gone"}
        PROVE  tx'[b].pc \in Accepted \cup {"gone"} /\ tx'[b].challenge = tx[b].challenge
    <3>1. CASE \E a \in Attempts : Acts(a)
      <4>1. PICK a \in Attempts : Acts(a)
        BY <3>1
      <4>2. CASE a = b
        BY <2>1, <4>1, <4>2
           DEF Acts, Stops, Goes, Locks, Signs, Finds, Renews, Inserts, Commits, Moves, Open
      <4>3. CASE a # b
        BY <2>1, <4>1, <4>3
           DEF Acts, Stops, Goes, Locks, Signs, Finds, Renews, Inserts, Commits, Moves, Others
      <4> QED
        BY <4>2, <4>3
    <3>2. CASE \E a \in Attempts : Begins(a)
      BY <2>1, <3>2 DEF Begins, Others
    <3>3. CASE Still
      BY <2>1, <3>3 DEF Still
    <3> QED
      BY <3>1, <3>2, <3>3, StepKinds
  <2>2. ASSUME NEW c \in consumed', c \notin consumed
        PROVE  \E a \in Attempts : tx'[a].pc \in Accepted \cup {"gone"} /\ tx'[a].challenge = c
    <3>1. PICK a \in Attempts : Commit(a) /\ c = tx[a].challenge
      BY <2>2 DEF Next, vars, Statement, AssertChallengeValid, ConsumeChallenge, FindByAndroidId, ReEnrollDevice,
        CreateDevice, Commit, SignToken, Abort, IssueChallenge, PassExpiry, Enroll, UpdateAndroidId, RemoveDevice
    <3>2. Acts(a) /\ tx[a].pc = "commit"
      BY <2>0, <3>1, Effects DEF Statement, Commit
    <3>3. PICK p \in {"gone", "signing"} : To(a, p)
      BY <3>1 DEF Commit
    <3>4. tx'[a].pc \in {"gone", "signing"}
      BY <2>0, <3>2, <3>3, MoveTo DEF Moves, Answers
    <3>5. tx'[a].challenge = c
      BY <3>1, <3>2 DEF Acts, Stops, Goes, Locks, Signs, Finds, Renews, Inserts, Commits, Moves
    <3> QED
      BY <3>4, <3>5
  <2> QED
    BY <2>1, <2>2 DEF RefusedKeepsChallenge
<1> QED
  BY <1>1, <1>2, Invariance, PTL DEF Spec

-----------------------------------------------------------------------------
(* Where a challenge is used once.                                           *)

\* The challenge of a call is used up when it is accepted and, unless another
\* call races with it, not before.
ChallengesInUse ==
  /\ \A a \in Attempts : tx[a].pc \in Checked => tx[a].challenge \notin consumed
  /\ \A a \in Attempts : tx[a].pc \in Accepted => tx[a].challenge \in consumed
  /\ ChallengeIsSingleUse

\* What a step does to the call b: it stays, or advances with its challenge, and
\* is accepted by its COMMIT only.
LEMMA CallAdvances ==
  ASSUME Inv, [Next]_vars, NEW b \in Attempts
  PROVE  /\ tx'[b].pc \in Checked \cup Accepted => tx'[b].challenge = tx[b].challenge
         /\ tx'[b].pc \in Accepted => tx[b].pc \in Accepted \/ (tx[b].pc = "commit" /\ tx'[b].pc = "signing")
         /\ tx'[b].pc \in Checked => tx[b].pc \in Checked \cup {"assert"}
<1> USE DEF Checked, Open, Accepted
<1>1. ASSUME NEW a \in Attempts, Acts(a), b = a
      PROVE  /\ tx'[b].challenge = tx[b].challenge
             /\ tx'[b].pc \in Accepted => tx[b].pc \in Accepted \/ (tx[b].pc = "commit" /\ tx'[b].pc = "signing")
             /\ tx'[b].pc \in Checked => tx[b].pc \in Checked \cup {"assert"}
  BY <1>1 DEF Acts, Stops, Goes, Locks, Signs, Finds, Renews, Inserts, Commits, Moves
<1>2. ASSUME NEW a \in Attempts, Acts(a) \/ Begins(a), b # a
      PROVE  tx'[b] = tx[b]
  BY <1>2 DEF Acts, Stops, Goes, Locks, Signs, Finds, Renews, Inserts, Commits, Moves, Begins, Others
<1>3. ASSUME Begins(b)
      PROVE  tx'[b].pc = "assert"
  BY <1>3 DEF Begins
<1>4. CASE Still
  BY <1>4 DEF Still
<1> QED
  BY <1>1, <1>2, <1>3, <1>4, StepKinds

\* What a step does to the challenges: a COMMIT uses up that of its call, and a
\* call passes the check with one that is not used up.
LEMMA ChallengesAdvance ==
  ASSUME Inv, [Next]_vars
  PROVE  /\ consumed \subseteq consumed'
         /\ \A c \in consumed' : c \notin consumed =>
              \E a \in Attempts : tx[a].pc = "commit" /\ tx[a].challenge = c /\ tx'[a].pc \notin Checked
         /\ \A a \in Attempts : tx[a].pc = "assert" /\ tx'[a].pc \in Checked =>
              tx[a].challenge \notin consumed /\ consumed' = consumed
         /\ \A a \in Attempts : tx[a].pc = "commit" /\ tx'[a].pc = "signing" => tx[a].challenge \in consumed'
<1> USE DEF Checked, Open, Accepted
<1>0. TypeOK /\ KeysMatch
  BY DEF Inv
<1>1. CASE \E a \in Attempts : Commit(a)
  <2>1. PICK a \in Attempts : Commit(a)
    BY <1>1
  <2>2. tx[a].pc = "commit" /\ consumed' = consumed \cup {tx[a].challenge}
    BY <2>1 DEF Commit
  <2>3. Acts(a)
    BY <1>0, <2>1, Effects DEF Statement
  <2>4. tx'[a].pc \in {"gone", "signing"} /\ \A b \in Others(a) : tx'[b] = tx[b]
    <3>1. PICK q \in {"gone", "signing"} : To(a, q)
      BY <2>1 DEF Commit
    <3>2. Moves(a, q, tx[a].device)
      BY <1>0, <2>2, <3>1, MoveTo DEF Answers
    <3> QED
      BY <3>2 DEF Moves
  <2> QED
    BY <2>2, <2>4 DEF Others
<1>2. CASE \E a \in Attempts : AssertChallengeValid(a)
  <2>1. PICK a \in Attempts : AssertChallengeValid(a)
    BY <1>2
  <2>2. tx[a].pc = "assert" /\ consumed' = consumed
    BY <2>1 DEF AssertChallengeValid
  <2>3. CASE To(a, "refused")
    <3>1. Moves(a, "refused", tx[a].device)
      BY <1>0, <2>2, <2>3, MoveTo DEF Answers
    <3> QED
      BY <2>2, <3>1 DEF Moves, Others
  <2>4. CASE tx[a].challenge \notin consumed /\ To(a, "consume")
    <3>1. Moves(a, "consume", tx[a].device)
      BY <1>0, <2>2, <2>4, MoveTo
    <3> QED
      BY <2>2, <2>4, <3>1 DEF Moves, Others
  <2> QED
    BY <2>1, <2>3, <2>4 DEF AssertChallengeValid
<1>3. ASSUME NEW a \in Attempts,
             \/ ConsumeChallenge(a) \/ FindByAndroidId(a) \/ ReEnrollDevice(a)
             \/ CreateDevice(a) \/ SignToken(a) \/ Abort(a)
      PROVE  /\ consumed' = consumed
             /\ \A b \in Attempts : tx[b].pc = "assert" => tx'[b].pc \notin Checked
             /\ \A b \in Attempts : tx[b].pc = "commit" => tx'[b].pc # "signing"
  <2>1. Acts(a) /\ consumed' = consumed /\ ~(tx[a].pc = "assert" /\ tx'[a].pc \in Checked)
        /\ ~(tx[a].pc = "commit" /\ tx'[a].pc = "signing")
    <3>1. Acts(a)
      BY <1>0, <1>3, Effects DEF Statement
    <3>2. CASE Abort(a)
      <4>1. tx[a].pc # "idle" /\ To(a, "aborted")
        BY <3>2 DEF Abort
      <4>2. Moves(a, "aborted", tx[a].device)
        BY <1>0, <4>1, MoveTo DEF Answers
      <4> QED
        BY <3>1, <3>2, <4>2 DEF Abort, Moves
    <3> QED
      BY <1>3, <3>1, <3>2 DEF ConsumeChallenge, FindByAndroidId, ReEnrollDevice, CreateDevice, SignToken
  <2> QED
    BY <2>1 DEF Acts, Stops, Goes, Locks, Signs, Finds, Renews, Inserts, Commits, Moves, Others
<1>4. CASE \E a \in Attempts, c \in Challenges, x \in AndroidIds, k \in Keys : Enroll(a, c, x, k)
  <2>1. PICK a \in Attempts, c \in Challenges, x \in AndroidIds, k \in Keys : Enroll(a, c, x, k)
    BY <1>4
  <2>2. /\ tx[a].pc = "idle" /\ tx'[a].pc = "assert" /\ consumed' = consumed
        /\ \A b \in Others(a) : tx'[b] = tx[b]
    BY <1>0, <2>1, EnrollEffect
  <2> QED
    BY <2>2 DEF Others
<1>5. CASE UNCHANGED <<tx, consumed>>
  BY <1>5
<1>6. CASE \/ \E c \in Challenges : IssueChallenge(c) \/ PassExpiry(c)
           \/ \E d \in Attempts, x \in AndroidIds : UpdateAndroidId(d, x)
           \/ \E d \in Attempts : RemoveDevice(d)
           \/ UNCHANGED vars
  BY <1>5, <1>6 DEF IssueChallenge, PassExpiry, UpdateAndroidId, RemoveDevice, vars
<1>7. ASSUME NEW a \in Attempts, Statement(a) \/ Abort(a)
      PROVE  \/ Commit(a) \/ AssertChallengeValid(a)
             \/ ConsumeChallenge(a) \/ FindByAndroidId(a) \/ ReEnrollDevice(a)
             \/ CreateDevice(a) \/ SignToken(a) \/ Abort(a)
  BY <1>7 DEF Statement
<1> QED
  BY <1>1, <1>2, <1>3, <1>4, <1>6, <1>7 DEF Next

LEMMA UseStep ==
  ASSUME Inv, NoRace, ChallengesInUse, [Next]_vars
  PROVE  ChallengesInUse'
<1>1. ASSUME NEW a \in Attempts, tx'[a].pc \in Checked
      PROVE  tx'[a].challenge \notin consumed'
  <2>1. tx'[a].challenge = tx[a].challenge /\ tx[a].pc \in Checked \cup {"assert"}
    BY <1>1, CallAdvances
  <2>2. CASE tx[a].pc = "assert"
    BY <1>1, <2>1, <2>2, ChallengesAdvance
  <2>3. CASE tx[a].pc \in Checked
    <3>1. ASSUME NEW b \in Attempts, tx[b].pc = "commit", tx[b].challenge = tx[a].challenge
          PROVE  b = a
      BY <2>3, <3>1 DEF NoRace, Others, Checked, Open
    <3> QED
      BY <1>1, <2>1, <2>3, <3>1, ChallengesAdvance DEF ChallengesInUse
  <2> QED
    BY <2>1, <2>2, <2>3
<1>2. ASSUME NEW a \in Attempts, tx'[a].pc \in Accepted
      PROVE  tx'[a].challenge \in consumed' /\ tx'[a].challenge = tx[a].challenge
  BY <1>2, CallAdvances, ChallengesAdvance DEF ChallengesInUse
<1>3. ASSUME NEW a \in Attempts, NEW b \in Others(a), tx'[a].pc \in Accepted, tx'[b].pc \in Accepted
      PROVE  tx'[a].challenge # tx'[b].challenge
  <2>1. b \in Attempts /\ a # b /\ a \in Others(b)
    BY DEF Others
  <2>2. /\ tx[a].pc \in Accepted \/ tx[a].pc = "commit"
        /\ tx[b].pc \in Accepted \/ tx[b].pc = "commit"
        /\ tx'[a].challenge = tx[a].challenge /\ tx'[b].challenge = tx[b].challenge
    BY <1>2, <1>3, <2>1, CallAdvances
  <2>3. "commit" \in Checked
    BY DEF Checked, Open
  <2> QED
    BY <2>1, <2>2, <2>3 DEF NoRace, ChallengesInUse, ChallengeIsSingleUse
<1> QED
  BY <1>1, <1>2, <1>3 DEF ChallengesInUse, ChallengeIsSingleUse

\* A challenge is used twice only where two calls race between its check and a
\* COMMIT (the SELECT and the unconditional UPDATE of create()).
THEOREM ReuseNeedsARace == Spec => OnlyRacesReuse
<1>1. Init => ChallengesInUse
  BY DEF Init, Idle, ChallengesInUse, ChallengeIsSingleUse, Checked, Open, Accepted
<1>2. Inv /\ NoRace /\ ChallengesInUse /\ [Next]_vars => ChallengesInUse'
  BY UseStep
<1>3. ChallengesInUse => ChallengeIsSingleUse
  BY DEF ChallengesInUse
<1> QED
  BY <1>1, <1>2, <1>3, Invariance, PTL DEF Spec, OnlyRacesReuse

-----------------------------------------------------------------------------
(* The refinement: COMMIT is the point where an enrollment is decided, and   *)
(* everything before and after it is a stutter of the registry.              *)

\* Calls that stay accepted, or stay not accepted, leave the registry alone.
LEMMA AcceptedStay ==
  ASSUME \A b \in Attempts :
           /\ tx'[b].pc \in Accepted <=> tx[b].pc \in Accepted
           /\ tx[b].pc \in Accepted => tx'[b].key = tx[b].key /\ tx'[b].device = tx[b].device
  PROVE  AcceptedCalls' = AcceptedCalls
BY DEF AcceptedCalls

\* A call that becomes accepted is added.
LEMMA AcceptedGrow ==
  ASSUME NEW a \in Attempts, tx[a].pc \notin Accepted, tx'[a].pc \in Accepted,
         \A b \in Others(a) : tx'[b] = tx[b]
  PROVE  /\ AcceptedCalls' = AcceptedCalls \cup {[by |-> a, key |-> tx'[a].key, device |-> tx'[a].device]}
         /\ \A e \in AcceptedCalls : e.by # a
BY DEF AcceptedCalls, Others

\* A row committed under an androidId nobody has, or a pinned key found again.
LEMMA CommitDecides ==
  ASSUME Inv, NEW a \in Attempts, Commits(a)
  PROVE  Registry!Next \/ UNCHANGED <<row, AcceptedCalls>>
<1>0. TypeOK /\ AndroidsAreUnique /\ KeysMatch
  BY DEF Inv
<1>1. tx[a].pc = "commit" /\ \A b \in Others(a) : tx'[b] = tx[b]
  BY DEF Commits, Moves
<1>2. tx[a].android \in AndroidIds /\ tx[a].key \in Keys /\ tx[a].device \in Attempts \cup {NoDevice}
  BY <1>0, <1>1, CallType
<1>3. CASE tx[a].device = NoDevice
  <2>1. tx'[a].pc = "gone" /\ row' = row
    BY <1>3, EnrollmentAssumption DEF Commits, Moves, Inserted
  <2>2. AcceptedCalls' = AcceptedCalls
    BY <1>1, <2>1, AcceptedStay DEF Others, Accepted
  <2> QED
    BY <2>1, <2>2
<1>4. CASE tx[a].device # NoDevice
  <2>1. tx'[a].pc = "signing" /\ tx'[a].key = tx[a].key /\ tx'[a].device = tx[a].device
    BY <1>4 DEF Commits, Moves
  <2>2. Registry!Accept(a, tx[a].key, tx[a].device)
    BY <1>1, <2>1, AcceptedGrow DEF Accepted, Registry!Accept
  <2>3. CASE Inserted(a)
    <3>1. row[a] = NoDevice /\ ~Taken(tx[a].android) /\ tx[a].device = a
      BY <1>0, <2>3 DEF AndroidsAreUnique, Inserted
    <3>2. Registry!Free(tx[a].android, a)
      BY <3>1 DEF Registry!Free, Taken, Matches
    <3>3. row' = [row EXCEPT ![a] = [android |-> tx[a].android, key |-> tx[a].key]]
      BY <2>3 DEF Commits
    <3>4. Registry!Register(a, tx[a].android, tx[a].key)
      BY <2>2, <3>1, <3>2, <3>3 DEF Registry!Register
    <3> QED
      BY <1>2, <3>4 DEF Registry!Next, AndroidIds
  <2>4. CASE ~Inserted(a)
    <3>1. tx[a].device \in Attempts /\ tx[a].device # a /\ row' = row
      BY <1>1, <1>2, <1>4, <2>4 DEF Commits, Inserted
    <3>2. row[tx[a].device] # NoDevice /\ row[tx[a].device].key = tx[a].key
      BY <1>0, <1>1, <1>4, <3>1 DEF KeysMatch
    <3>3. Registry!Renew(a, tx[a].device)
      BY <2>2, <3>1, <3>2 DEF Registry!Renew
    <3> QED
      BY <3>1, <3>3 DEF Registry!Next
  <2> QED
    BY <2>3, <2>4
<1> QED
  BY <1>3, <1>4

\* Concurrent enrollments, edits and removals, statement by statement at READ
\* COMMITTED, are atomic decisions of the registry.
THEOREM RegistryImplemented == Spec => ImplementsRegistry
<1>1. Init => Registry!Init
  <2> SUFFICES ASSUME Init PROVE Registry!Init
    OBVIOUS
  <2>1. \A b \in Attempts : tx[b].pc = "idle"
    BY DEF Init, Idle
  <2>2. AcceptedCalls = {}
    BY <2>1 DEF AcceptedCalls, Accepted
  <2> QED
    BY <2>2 DEF Init, Registry!Init
<1>2. Inv /\ [Next]_vars => [Registry!Next]_(<<row, AcceptedCalls>>)
  <2> SUFFICES ASSUME Inv, [Next]_vars
               PROVE  Registry!Next \/ UNCHANGED <<row, AcceptedCalls>>
    OBVIOUS
  <2>0. TypeOK
    BY DEF Inv
  <2>1. ASSUME NEW a \in Attempts, Acts(a), ~Commits(a)
        PROVE  UNCHANGED <<row, AcceptedCalls>>
    <3>1. row' = row /\ \A b \in Others(a) : tx'[b] = tx[b]
      BY <2>1 DEF Acts, Stops, Goes, Locks, Signs, Finds, Renews, Inserts, Moves
    <3>2. /\ tx'[a].pc \in Accepted <=> tx[a].pc \in Accepted
          /\ tx[a].pc \in Accepted => tx'[a].key = tx[a].key /\ tx'[a].device = tx[a].device
      BY <2>1 DEF Acts, Stops, Goes, Locks, Signs, Finds, Renews, Inserts, Moves, Accepted, Open
    <3>3. AcceptedCalls' = AcceptedCalls
      BY <3>1, <3>2, AcceptedStay DEF Others
    <3> QED
      BY <3>1, <3>3
  <2>2. ASSUME NEW a \in Attempts, Begins(a)
        PROVE  UNCHANGED <<row, AcceptedCalls>>
    <3>1. AcceptedCalls' = AcceptedCalls
      BY <2>2, AcceptedStay DEF Begins, Others, Accepted
    <3> QED
      BY <2>2, <3>1 DEF Begins
  <2>3. ASSUME Still
        PROVE  AcceptedCalls' = AcceptedCalls
    BY <2>3 DEF Still, AcceptedCalls
  <2>4. ASSUME Still, NEW d \in Attempts, NEW x \in AndroidIds, UpdateAndroidId(d, x)
        PROVE  Registry!Next
    <3>1. Registry!Free(x, d)
      BY <2>4 DEF UpdateAndroidId, Registry!Free, Matches, Others
    <3>2. Registry!Edit(d, x)
      BY <2>3, <2>4, <3>1 DEF UpdateAndroidId, Registry!Edit
    <3> QED
      BY <3>2 DEF Registry!Next, AndroidIds
  <2>5. ASSUME Still, NEW d \in Attempts, RemoveDevice(d)
        PROVE  Registry!Next
    <3>1. Registry!Remove(d)
      BY <2>3, <2>5 DEF RemoveDevice, Registry!Remove
    <3> QED
      BY <3>1 DEF Registry!Next
  <2>6. CASE \E a \in Attempts : Acts(a)
    BY <2>1, <2>6, CommitDecides
  <2>7. CASE Still /\ row' = row
    BY <2>3, <2>7
  <2> QED
    BY <2>2, <2>4, <2>5, <2>6, <2>7, StepKinds
<1> QED
  BY <1>1, <1>2, Invariance, PTL DEF Spec, ImplementsRegistry, Registry!Spec, Registry!registryVars

(***************************************************************************)
(* A pinned key is never replaced, and the id of a removed device is never *)
(* given to another one: whoever was answered a token for a device has the *)
(* key of that device, or of none (DeviceService.create, reEnrollDevice).  *)
(* The first is what the registry promises, the second needs the calls.    *)
(***************************************************************************)
KeyStays(d) ==
  row'[d] # NoDevice =>
    IF row[d] # NoDevice THEN row'[d].key = row[d].key ELSE \A e \in AcceptedCalls : e.device # d

PinnedKeysStay == [][\A d \in Attempts : KeyStays(d)]_row

LEMMA KeyStaysStep ==
  ASSUME Inv, [Registry!Next]_(<<row, AcceptedCalls>>), NEW d \in Attempts
  PROVE  KeyStays(d)
<1>0. row \in [Attempts -> Device \cup {NoDevice}]
  BY DEF Inv, TypeOK
<1>1. ASSUME NEW a \in Attempts, NEW x, NEW k, Registry!Register(a, x, k)
      PROVE  KeyStays(d)
  <2>1. CASE d # a
    BY <1>0, <1>1, <2>1 DEF Registry!Register, KeyStays
  <2>2. CASE d = a
    <3>1. row[a] = NoDevice /\ \A e \in AcceptedCalls : e.by # a
      BY <1>1 DEF Registry!Register, Registry!Accept
    <3>2. tx[a].pc \notin Accepted
      <4>1. tx[a].pc \in Accepted => [by |-> a, key |-> tx[a].key, device |-> tx[a].device] \in AcceptedCalls
        BY DEF AcceptedCalls
      <4> QED
        BY <3>1, <4>1
    <3>3. ASSUME NEW b \in Attempts, tx[b].pc \in Accepted, tx[b].device = a
          PROVE  FALSE
      BY <3>2, <3>3, EnrollmentAssumption DEF Inv, RowsAreCommitted, Inserted, Accepted
    <3> QED
      BY <2>2, <3>1, <3>3 DEF KeyStays, AcceptedCalls
  <2> QED
    BY <2>1, <2>2
<1>2. ASSUME NEW e \in Attempts, NEW x, Registry!Edit(e, x)
      PROVE  KeyStays(d)
  BY <1>0, <1>2 DEF Registry!Edit, KeyStays, Device
<1>3. ASSUME NEW e \in Attempts, Registry!Remove(e)
      PROVE  KeyStays(d)
  BY <1>0, <1>3 DEF Registry!Remove, KeyStays
<1>4. CASE row' = row
  BY <1>4 DEF KeyStays
<1> QED
  BY <1>1, <1>2, <1>3, <1>4 DEF Registry!Next, Registry!Renew

THEOREM KeysStayPinned == Spec => PinnedKeysStay
<1>1. Inv /\ [Registry!Next]_(<<row, AcceptedCalls>>) => [\A d \in Attempts : KeyStays(d)]_row
  BY KeyStaysStep
<1> QED
  BY <1>1, Invariance, RegistryImplemented, PTL
     DEF PinnedKeysStay, ImplementsRegistry, Registry!Spec, Registry!registryVars
=============================================================================
