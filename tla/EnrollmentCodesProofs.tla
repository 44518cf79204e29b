------------------------ MODULE EnrollmentCodesProofs ------------------------
(***************************************************************************)
(* A code works once and stays good until it is used or expires, for any   *)
(* number of issues, verifications and codes.                              *)
(***************************************************************************)
EXTENDS EnrollmentCodes, TLAPS

LEMMA InvInit == Init => Inv
<1> SUFFICES ASSUME Init PROVE Inv
  OBVIOUS
<1> USE EnrollmentCodesAssumption DEF Init
<1>1. NotIssued \in Generation /\ NotVerified \in Verification
  BY DEF NotIssued, NotVerified, Generation, Verification
<1>2. TypeOK
  BY <1>1 DEF TypeOK
<1>3. RowsAgree /\ DrawsAgree /\ VerificationsAgree /\ CodeWorksOnce /\ CodeStaysGood
  BY DEF RowsAgree, DrawsAgree, VerificationsAgree, CodeWorksOnce, CodeStaysGood, NotIssued, NotVerified
<1> QED BY <1>2, <1>3 DEF Inv

\* A generation that moves without answering a code.
LEMMA Draws ==
  ASSUME Inv, NEW i \in Issues, issue[i].pc \in {"idle", "drawing"},
         NEW n \in 0..MaxDraws, NEW pc \in {"drawing", "unavailable"}, pc = "drawing" => n < MaxDraws,
         issue' = [issue EXCEPT ![i].pc = pc, ![i].draws = n],
         UNCHANGED <<pending, lapsed, verify>>
  PROVE  Inv'
<1> USE EnrollmentCodesAssumption DEF Inv
<1>1. issue[i] \in Generation
  BY DEF TypeOK
<1>2. [issue[i] EXCEPT !.pc = pc, !.draws = n] \in Generation
  BY <1>1 DEF Generation
<1>3. issue' = [issue EXCEPT ![i] = [issue[i] EXCEPT !.pc = pc, !.draws = n]]
  BY DEF TypeOK
<1>4. TypeOK'
  BY <1>2, <1>3 DEF TypeOK
<1>5. /\ issue'[i].pc = pc /\ issue'[i].draws = n /\ issue'[i].code = issue[i].code
      /\ \A j \in Issues : j # i => issue'[j] = issue[j]
  BY <1>1, <1>3 DEF TypeOK, Generation
<1>6. \A j : Used(j)' = Used(j)
  BY DEF Used
<1>7. RowsAgree'
  <2>0. pending' = pending /\ verify' = verify
    OBVIOUS
  <2> SUFFICES ASSUME NEW c \in Codes, pending'[c] # NoIssue
               PROVE  /\ issue'[pending'[c]].pc = "issued" /\ issue'[pending'[c]].code = c
                      /\ \A v \in Verifiers : verify'[v].of # pending'[c]
    BY DEF RowsAgree
  <2>1. pending[c] \in Issues
    BY <2>0 DEF TypeOK
  <2>2. /\ issue[pending[c]].pc = "issued" /\ issue[pending[c]].code = c
        /\ \A v \in Verifiers : verify[v].of # pending[c]
    BY <2>0 DEF RowsAgree
  <2>3. pending[c] # i
    BY <2>2
  <2> QED BY <1>5, <2>0, <2>1, <2>2, <2>3
<1>8. DrawsAgree'
  <2>1. issue[i].code \notin Codes /\ pc # "issued"
    BY DEF DrawsAgree
  <2> QED BY <1>5, <2>1 DEF DrawsAgree
<1>9. VerificationsAgree'
  <2>1. ASSUME NEW v \in Verifiers, verify[v].of # NoIssue PROVE issue'[verify[v].of].pc = "issued"
    <3>1. verify[v].of \in Issues
      BY <2>1 DEF TypeOK, Verification
    <3>2. issue[verify[v].of].pc = "issued"
      BY <2>1 DEF VerificationsAgree
    <3> QED BY <1>5, <3>1, <3>2
  <2> QED BY <2>1 DEF VerificationsAgree
<1>10. CodeWorksOnce' /\ CodeStaysGood'
  BY <1>5, <1>6 DEF CodeWorksOnce, CodeStaysGood
<1> QED BY <1>4, <1>7, <1>8, <1>9, <1>10

\* The row of a code nobody can use anymore becomes that of the issue.
LEMMA Answers ==
  ASSUME Inv, NEW i \in Issues, NEW c \in Codes, issue[i].pc = "drawing", Recyclable(c),
         pending' = [pending EXCEPT ![c] = i],
         issue' = [issue EXCEPT ![i].pc = "issued", ![i].code = c, ![i].draws = @ + 1],
         UNCHANGED <<lapsed, verify>>
  PROVE  Inv'
<1> USE EnrollmentCodesAssumption DEF Inv
<1>1. issue[i] \in Generation /\ issue[i].draws < MaxDraws
  BY DEF TypeOK, DrawsAgree
<1> DEFINE new == [issue[i] EXCEPT !.pc = "issued", !.code = c, !.draws = issue[i].draws + 1]
<1>2. new \in Generation
  <2>1. issue[i].draws + 1 \in 0..MaxDraws
    BY <1>1 DEF Generation
  <2> QED BY <1>1, <2>1 DEF Generation
<1>3. issue' = [issue EXCEPT ![i] = new]
  BY DEF TypeOK
<1>4. TypeOK'
  BY <1>2, <1>3 DEF TypeOK
<1>5. /\ issue'[i].pc = "issued" /\ issue'[i].code = c
      /\ \A j \in Issues : j # i => issue'[j] = issue[j]
  BY <1>1, <1>3 DEF TypeOK, Generation
<1>6. pending'[c] = i /\ \A d \in Codes : d # c => pending'[d] = pending[d]
  BY DEF TypeOK
<1>7. \A v \in Verifiers : verify[v].of \in Issues \cup {NoIssue} /\ verify[v].of # i
  BY DEF TypeOK, Verification, VerificationsAgree
<1>8. \A j : Used(j)' = Used(j)
  BY DEF Used
<1>9. RowsAgree'
  <2> SUFFICES ASSUME NEW d \in Codes, pending'[d] # NoIssue
               PROVE  /\ issue'[pending'[d]].pc = "issued" /\ issue'[pending'[d]].code = d
                      /\ \A v \in Verifiers : verify'[v].of # pending'[d]
    BY Zenon DEF RowsAgree
  <2>0. verify' = verify
    OBVIOUS
  <2>1. CASE d = c
    BY <1>5, <1>6, <1>7, <2>0, <2>1
  <2>2. CASE d # c
    <3>1. pending'[d] = pending[d] /\ pending[d] \in Issues
      BY <1>6, <2>2 DEF TypeOK
    <3>2. /\ issue[pending[d]].pc = "issued" /\ issue[pending[d]].code = d
          /\ \A v \in Verifiers : verify[v].of # pending[d]
      BY <3>1 DEF RowsAgree
    <3> QED BY <1>5, <2>0, <3>1, <3>2
  <2> QED BY <2>1, <2>2
<1>10. DrawsAgree'
  BY <1>5 DEF DrawsAgree
<1>11. VerificationsAgree' /\ CodeWorksOnce'
  <2>1. verify' = verify
    OBVIOUS
  <2>2. ASSUME NEW v \in Verifiers, verify[v].of # NoIssue PROVE issue'[verify[v].of].pc = "issued"
    BY <1>5, <1>7, <2>2 DEF VerificationsAgree
  <2>3. VerificationsAgree'
    BY <2>1, <2>2 DEF VerificationsAgree
  <2>4. CodeWorksOnce'
    BY <2>1 DEF CodeWorksOnce
  <2> QED BY <2>3, <2>4
<1>12. CodeStaysGood'
  <2> SUFFICES ASSUME NEW j \in Issues, issue'[j].pc = "issued", j \notin lapsed, ~Used(j)
               PROVE  pending'[issue'[j].code] = j
    BY <1>8 DEF CodeStaysGood
  <2>1. CASE j = i
    BY <2>1, <1>5, <1>6
  <2>2. CASE j # i
    <3>1. pending[issue[j].code] = j /\ issue[j].code \in Codes
      BY <1>5, <2>2 DEF CodeStaysGood, DrawsAgree
    <3>2. issue[j].code # c
      BY <3>1 DEF Recyclable
    <3> QED BY <1>5, <1>6, <2>2, <3>1, <3>2
  <2> QED BY <2>1, <2>2
<1> QED BY <1>4, <1>9, <1>10, <1>11, <1>12

\* A verification that moves, with the issue it consumed or without one.
LEMMA Verifies ==
  ASSUME Inv, NEW v \in Verifiers, NEW pc \in {"consumed", "answered", "refused", "failed"},
         verify' = [verify EXCEPT ![v].pc = pc],
         pc \in {"consumed", "answered"} => verify[v].of # NoIssue,
         UNCHANGED <<pending, lapsed, issue>>
  PROVE  Inv'
<1> USE EnrollmentCodesAssumption DEF Inv
<1>1. verify[v] \in Verification
  BY DEF TypeOK
<1>2. [verify[v] EXCEPT !.pc = pc] \in Verification
  BY <1>1 DEF Verification
<1>3. verify' = [verify EXCEPT ![v] = [verify[v] EXCEPT !.pc = pc]]
  BY DEF TypeOK
<1>4. TypeOK'
  BY <1>2, <1>3 DEF TypeOK
<1>5. /\ verify'[v].pc = pc
      /\ \A w \in Verifiers : verify'[w].of = verify[w].of /\ verify'[w].code = verify[w].code
      /\ \A w \in Verifiers : w # v => verify'[w] = verify[w]
  BY <1>1, <1>3 DEF TypeOK, Verification
<1>6. \A j : Used(j)' = Used(j)
  BY <1>5 DEF Used
<1>7. RowsAgree' /\ DrawsAgree' /\ VerificationsAgree'
  BY <1>5 DEF RowsAgree, DrawsAgree, VerificationsAgree
<1>8. CodeWorksOnce' /\ CodeStaysGood'
  BY <1>5, <1>6 DEF CodeWorksOnce, CodeStaysGood
<1> QED BY <1>4, <1>7, <1>8

\* The UPDATE that finds a row usable takes it out of everybody's reach.
LEMMA Consumes ==
  ASSUME Inv, NEW v \in Verifiers, NEW i \in Issues, NEW c \in Codes,
         verify[v].pc = "sent", verify[v].code = c, pending[c] = i,
         pending' = [pending EXCEPT ![c] = NoIssue],
         verify' = [verify EXCEPT ![v].pc = "consumed", ![v].of = i],
         UNCHANGED <<lapsed, issue>>
  PROVE  Inv'
<1> USE EnrollmentCodesAssumption DEF Inv
<1>1. verify[v] \in Verification
  BY DEF TypeOK
<1>2. [verify[v] EXCEPT !.pc = "consumed", !.of = i] \in Verification
  BY <1>1 DEF Verification
<1>3. verify' = [verify EXCEPT ![v] = [verify[v] EXCEPT !.pc = "consumed", !.of = i]]
  BY DEF TypeOK
<1>4. TypeOK'
  BY <1>2, <1>3 DEF TypeOK
<1>5. /\ verify'[v].pc = "consumed" /\ verify'[v].of = i /\ verify'[v].code = c
      /\ \A w \in Verifiers : w # v => verify'[w] = verify[w]
  BY <1>1, <1>3 DEF TypeOK, Verification
<1>6. pending'[c] = NoIssue /\ \A d \in Codes : d # c => pending'[d] = pending[d]
  BY DEF TypeOK
<1>7. /\ issue[i].pc = "issued" /\ issue[i].code = c
      /\ \A w \in Verifiers : verify[w].of # i
      /\ verify[v].of = NoIssue /\ i # NoIssue
  BY DEF RowsAgree, VerificationsAgree
<1>8. RowsAgree'
  <2> SUFFICES ASSUME NEW d \in Codes, pending'[d] # NoIssue
               PROVE  /\ issue[pending'[d]].pc = "issued" /\ issue[pending'[d]].code = d
                      /\ \A w \in Verifiers : verify'[w].of # pending'[d]
    BY DEF RowsAgree
  <2>1. d # c /\ pending'[d] = pending[d]
    BY <1>6
  <2>2. /\ issue[pending[d]].pc = "issued" /\ issue[pending[d]].code = d
        /\ \A w \in Verifiers : verify[w].of # pending[d]
    BY <2>1 DEF RowsAgree
  <2>3. pending[d] # i
    BY <1>7, <2>1, <2>2
  <2> QED BY <1>5, <2>1, <2>2, <2>3
<1>9. DrawsAgree' /\ VerificationsAgree'
  <2>1. issue' = issue
    OBVIOUS
  <2>2. ASSUME NEW w \in Verifiers, w # v PROVE verify'[w] = verify[w]
    BY <1>5, <2>2
  <2>3. VerificationsAgree'
    <3> SUFFICES ASSUME NEW w \in Verifiers
                 PROVE  /\ verify'[w].pc \in {"consumed", "answered"} => verify'[w].of # NoIssue
                        /\ verify'[w].of # NoIssue => issue[verify'[w].of].pc = "issued"
                        /\ verify'[w].pc = "sent" => verify'[w].code \in Codes
                        /\ verify'[w].pc \in {"idle", "sent"} => verify'[w].of = NoIssue
                        /\ verify'[w].pc = "idle" => verify'[w].code = NoCode
      BY <2>1 DEF VerificationsAgree
    <3>1. CASE w = v
      BY <1>5, <1>7, <3>1
    <3>2. CASE w # v
      BY <2>2, <3>2 DEF VerificationsAgree
    <3> QED BY <3>1, <3>2
  <2> QED BY <2>1, <2>3 DEF DrawsAgree
<1>10. CodeWorksOnce'
  <2> SUFFICES ASSUME NEW w \in Verifiers, NEW u \in Verifiers, w # u, verify'[w].of = verify'[u].of
               PROVE  verify'[w].of = NoIssue
    BY DEF CodeWorksOnce
  <2>1. ASSUME NEW x \in Verifiers, x # v PROVE verify'[x].of # verify'[v].of
    <3>1. verify'[x] = verify[x]
      BY <1>5, <2>1
    <3> QED BY <1>5, <1>7, <3>1
  <2>2. w # v /\ u # v
    BY <2>1
  <2> QED BY <1>5, <2>2 DEF CodeWorksOnce
<1>11. CodeStaysGood'
  <2> SUFFICES ASSUME NEW j \in Issues, issue[j].pc = "issued", j \notin lapsed, ~Used(j)'
               PROVE  pending'[issue[j].code] = j
    BY DEF CodeStaysGood
  <2>1. j # i
    BY <1>5 DEF Used
  <2>2. ~Used(j)
    BY <1>5, <1>7 DEF Used
  <2>3. pending[issue[j].code] = j /\ issue[j].code \in Codes
    BY <2>2 DEF CodeStaysGood, DrawsAgree
  <2> QED BY <1>6, <2>1, <2>3
<1> QED BY <1>4, <1>8, <1>9, <1>10, <1>11

\* Somebody types a code.
LEMMA Sends ==
  ASSUME Inv, NEW v \in Verifiers, NEW c \in Codes, verify[v].pc = "idle",
         verify' = [verify EXCEPT ![v].pc = "sent", ![v].code = c],
         UNCHANGED <<pending, lapsed, issue>>
  PROVE  Inv'
<1> USE EnrollmentCodesAssumption DEF Inv
<1>1. verify[v] \in Verification
  BY DEF TypeOK
<1>2. [verify[v] EXCEPT !.pc = "sent", !.code = c] \in Verification
  BY <1>1 DEF Verification
<1>3. verify' = [verify EXCEPT ![v] = [verify[v] EXCEPT !.pc = "sent", !.code = c]]
  BY DEF TypeOK
<1>4. TypeOK'
  BY <1>2, <1>3 DEF TypeOK
<1>5. /\ verify'[v].pc = "sent" /\ verify'[v].code = c /\ verify'[v].of = verify[v].of
      /\ \A w \in Verifiers : w # v => verify'[w] = verify[w]
  BY <1>1, <1>3 DEF TypeOK, Verification
<1>6. \A w \in Verifiers : verify'[w].of = verify[w].of
  BY <1>5
<1>7. \A j : Used(j)' = Used(j)
  BY <1>6 DEF Used
<1>8. RowsAgree' /\ DrawsAgree'
  <2>0. pending' = pending /\ issue' = issue
    OBVIOUS
  <2>1. RowsAgree'
    <3> SUFFICES ASSUME NEW d \in Codes, pending'[d] # NoIssue
                 PROVE  /\ issue'[pending'[d]].pc = "issued" /\ issue'[pending'[d]].code = d
                        /\ \A w \in Verifiers : verify'[w].of # pending'[d]
      BY DEF RowsAgree
    <3>1. /\ issue[pending[d]].pc = "issued" /\ issue[pending[d]].code = d
          /\ \A w \in Verifiers : verify[w].of # pending[d]
      BY <2>0 DEF RowsAgree
    <3> QED BY <1>6, <2>0, <3>1
  <2>2. DrawsAgree'
    BY <2>0 DEF DrawsAgree
  <2> QED BY <2>1, <2>2
<1>9. VerificationsAgree'
  <2> SUFFICES ASSUME NEW w \in Verifiers
               PROVE  /\ verify'[w].pc \in {"consumed", "answered"} => verify'[w].of # NoIssue
                      /\ verify'[w].of # NoIssue => issue[verify'[w].of].pc = "issued"
                      /\ verify'[w].pc = "sent" => verify'[w].code \in Codes
                      /\ verify'[w].pc \in {"idle", "sent"} => verify'[w].of = NoIssue
                      /\ verify'[w].pc = "idle" => verify'[w].code = NoCode
    BY DEF VerificationsAgree
  <2> QED BY <1>5 DEF VerificationsAgree
<1>10. CodeWorksOnce' /\ CodeStaysGood'
  <2>1. CodeWorksOnce'
    BY <1>6 DEF CodeWorksOnce
  <2>2. CodeStaysGood'
    BY <1>6, <1>7 DEF CodeStaysGood
  <2> QED BY <2>1, <2>2
<1> QED BY <1>4, <1>8, <1>9, <1>10

LEMMA InvStep == Inv /\ [Next]_vars => Inv'
<1> SUFFICES ASSUME Inv, [Next]_vars PROVE Inv'
  OBVIOUS
<1> USE EnrollmentCodesAssumption
<1>1. \A i \in Issues : issue[i].draws \in 0..MaxDraws /\ (issue[i].pc = "drawing" => issue[i].draws < MaxDraws)
  BY DEF Inv, TypeOK, Generation, DrawsAgree
<1>2. ASSUME NEW i \in Issues, GenerateOTP(i) PROVE Inv'
  <2>1. issue[i].draws = 0 /\ issue[i] \in Generation
    BY <1>2 DEF GenerateOTP, Inv, DrawsAgree, TypeOK
  <2>2. issue' = [issue EXCEPT ![i].pc = "drawing", ![i].draws = 0]
    <3>1. [issue[i] EXCEPT !.pc = "drawing"] = [issue[i] EXCEPT !.pc = "drawing", !.draws = 0]
      BY <2>1 DEF Generation
    <3> QED BY <1>2, <3>1 DEF GenerateOTP, Inv, TypeOK
  <2>3. issue[i].pc \in {"idle", "drawing"} /\ UNCHANGED <<pending, lapsed, verify>>
    BY <1>2 DEF GenerateOTP
  <2>4. 0 \in 0..MaxDraws /\ 0 < MaxDraws
    OBVIOUS
  <2> QED BY <2>2, <2>3, <2>4, Draws
<1>3. ASSUME NEW i \in Issues, NEW c \in Codes, Issue(i, c) PROVE Inv'
  <2>1. CASE Recyclable(c)
    BY <1>3, <2>1, Answers DEF Issue
  <2>2. CASE ~Recyclable(c)
    <3> DEFINE n == issue[i].draws + 1
               pc == IF n = MaxDraws THEN "unavailable" ELSE "drawing"
    <3>1. n \in 0..MaxDraws /\ pc \in {"drawing", "unavailable"} /\ (pc = "drawing" => n < MaxDraws)
      BY <1>1, <1>3 DEF Issue
    <3>2. issue' = [issue EXCEPT ![i].pc = pc, ![i].draws = n]
      <4>1. issue \in [Issues -> Generation] /\ issue[i].pc = "drawing"
        BY <1>3 DEF Issue, Inv, TypeOK
      <4>2. issue' = [issue EXCEPT ![i].draws = n, ![i].pc = pc]
        BY <1>3, <2>2, <4>1 DEF Issue
      <4> HIDE DEF n, pc
      <4> QED BY <4>1, <4>2 DEF Generation
    <3>3. issue[i].pc = "drawing" /\ UNCHANGED <<pending, lapsed, verify>>
      BY <1>3, <2>2 DEF Issue
    <3> HIDE DEF n, pc
    <3> QED BY <3>1, <3>2, <3>3, Draws
  <2> QED BY <2>1, <2>2
<1>4. ASSUME NEW i \in Issues, PassExpiry(i) PROVE Inv'
  BY <1>4 DEF PassExpiry, Inv, TypeOK, RowsAgree, DrawsAgree, VerificationsAgree, CodeWorksOnce, CodeStaysGood, Used
<1>5. ASSUME NEW v \in Verifiers, NEW c \in Codes, VerifyOTP(v, c) PROVE Inv'
  BY <1>5, Sends DEF VerifyOTP
<1>6. ASSUME NEW v \in Verifiers, Consume(v) PROVE Inv'
  <2>1. verify[v].code \in Codes /\ verify[v].pc = "sent"
    BY <1>6 DEF Consume, Inv, VerificationsAgree
  <2>2. pending[verify[v].code] \in Issues \cup {NoIssue}
    BY <2>1 DEF Inv, TypeOK
  <2>3. CASE pending[verify[v].code] \notin lapsed \cup {NoIssue}
    BY <1>6, <2>1, <2>2, <2>3, Consumes DEF Consume
  <2>4. CASE pending[verify[v].code] \in lapsed \cup {NoIssue}
    BY <1>6, <2>4, Verifies DEF Consume
  <2> QED BY <2>3, <2>4
<1>7. ASSUME NEW v \in Verifiers, GenerateChallenge(v) \/ FailVerify(v) PROVE Inv'
  <2>1. verify[v].pc = "consumed" => verify[v].of # NoIssue
    BY DEF Inv, VerificationsAgree
  <2> QED BY <1>7, <2>1, Verifies DEF GenerateChallenge, FailVerify
<1>8. CASE UNCHANGED vars
  BY <1>8 DEF vars, Inv, TypeOK, RowsAgree, DrawsAgree, VerificationsAgree, CodeWorksOnce, CodeStaysGood, Used
<1> QED BY <1>2, <1>3, <1>4, <1>5, <1>6, <1>7, <1>8 DEF Next

\* The inductive invariant of the codes.
THEOREM Invariance == Spec => []Inv
BY InvInit, InvStep, PTL DEF Spec

\* No two verifications consume the same issue, whatever number it drew.
THEOREM CodesWorkOnce == Spec => []CodeWorksOnce
<1>1. Inv => CodeWorksOnce
  BY DEF Inv
<1> QED BY Invariance, <1>1, PTL

\* A code read out stays good until it is used or expires, whatever is drawn.
THEOREM CodesStayGood == Spec => []CodeStaysGood
<1>1. Inv => CodeStaysGood
  BY DEF Inv
<1> QED BY Invariance, <1>1, PTL

-----------------------------------------------------------------------------
(* The refinement: the INSERT that answers a number and the UPDATE that      *)
(* consumes or refuses it are the points where it is decided.                *)

\* A good code is the one in the table under its number.
LEMMA GoodCodes ==
  ASSUME Inv, NEW i \in Issues
  PROVE  /\ OneTime!Good(i) <=> issue[i].pc = "issued" /\ i \notin lapsed /\ ~Used(i)
         /\ OneTime!Good(i) => pending[issue[i].code] = i
<1>1. OneTime!Good(i) <=> issue[i].pc = "issued" /\ i \notin lapsed /\ ~Used(i)
  BY DEF OneTime!Good, Used, Inv, DrawsAgree
<1> QED BY <1>1 DEF Inv, CodeStaysGood

LEMMA InitCodes == Init => OneTime!Init
BY DEF Init, OneTime!Init, NotIssued, NotVerified

\* A new number is that of no good code.
LEMMA IssueReadsOut ==
  ASSUME Inv, NEW i \in Issues, NEW c \in Codes, Issue(i, c)
  PROVE  OneTime!ReadOut(i, c) \/ UNCHANGED OneTime!codeVars
<1> USE EnrollmentCodesAssumption
<1>1. issue[i].pc = "drawing" /\ issue[i] \in Generation /\ verify' = verify /\ lapsed' = lapsed
  BY DEF Issue, Inv, TypeOK
<1>2. CASE Recyclable(c)
  <2>1. issue[i].code = NoCode
    BY <1>1 DEF Inv, DrawsAgree, Generation
  <2>2. ASSUME NEW j \in Issues, OneTime!Good(j) PROVE issue[j].code # c
    <3>1. pending[issue[j].code] = j /\ j \notin lapsed /\ j # NoIssue
      BY <2>2, GoodCodes
    <3> QED BY <1>2, <3>1 DEF Recyclable
  <2>3. [j \in Issues |-> issue'[j].code] = [[j \in Issues |-> issue[j].code] EXCEPT ![i] = c]
    <3>1. issue'[i].code = c /\ \A j \in Issues : j # i => issue'[j] = issue[j]
      BY <1>1, <1>2 DEF Issue, Inv, TypeOK, Generation
    <3> QED BY <3>1
  <2> QED BY <1>1, <2>1, <2>2, <2>3 DEF OneTime!ReadOut
<1>3. CASE ~Recyclable(c)
  <2>1. \A j \in Issues : issue'[j].code = issue[j].code
    BY <1>1, <1>3 DEF Issue, Inv, TypeOK, Generation
  <2> QED BY <1>1, <2>1 DEF OneTime!codeVars
<1> QED BY <1>2, <1>3

\* A number is taken when it is that of a good code, and refused otherwise.
LEMMA ConsumeDecides ==
  ASSUME Inv, NEW v \in Verifiers, Consume(v)
  PROVE  OneTime!Refuse(v) \/ \E i \in Issues : OneTime!Take(v, i)
<1> USE EnrollmentCodesAssumption
<1> DEFINE c == verify[v].code
           i == pending[c]
<1>1. /\ verify[v].pc = "sent" /\ verify[v].of = NoIssue /\ c \in Codes
      /\ verify[v] \in Verification /\ issue' = issue /\ lapsed' = lapsed
  BY DEF Consume, Inv, VerificationsAgree, TypeOK
<1>2. OneTime!Waits(v)
  BY <1>1 DEF OneTime!Waits
<1>3. CASE i \notin lapsed \cup {NoIssue}
  <2>1. PICK j \in Issues : j = i
    BY <1>1, <1>3 DEF Inv, TypeOK
  <2>2. OneTime!Good(j) /\ issue[j].code = c
    BY <1>1, <1>3, <2>1, GoodCodes DEF Inv, RowsAgree, Used
  <2>3. /\ verify'[v].of = j /\ verify'[v].code = c /\ verify'[v].pc = "consumed"
        /\ \A w \in Verifiers : w # v => verify'[w] = verify[w]
    BY <1>1, <1>3, <2>1 DEF Consume, Inv, TypeOK, Verification
  <2>4. [w \in Verifiers |-> verify'[w].of] = [[w \in Verifiers |-> verify[w].of] EXCEPT ![v] = j]
    BY <2>3
  <2>5. [w \in Verifiers |-> verify'[w].code] = [w \in Verifiers |-> verify[w].code]
    BY <2>3
  <2>6. {w \in Verifiers : verify'[w].pc = "refused"} = {w \in Verifiers : verify[w].pc = "refused"}
    BY <1>1, <2>3
  <2>7. OneTime!Take(v, j)
    BY <1>1, <1>2, <2>2, <2>4, <2>5, <2>6 DEF OneTime!Take
  <2> QED BY <2>7
<1>4. CASE i \in lapsed \cup {NoIssue}
  <2>1. ASSUME NEW j \in Issues, OneTime!Good(j) PROVE issue[j].code # c
    <3>1. pending[issue[j].code] = j /\ j \notin lapsed /\ j # NoIssue
      BY <2>1, GoodCodes
    <3> QED BY <1>4, <3>1
  <2>2. /\ verify'[v].of = verify[v].of /\ verify'[v].code = c /\ verify'[v].pc = "refused"
        /\ \A w \in Verifiers : w # v => verify'[w] = verify[w]
    BY <1>1, <1>4 DEF Consume, Inv, TypeOK, Verification
  <2>3. [w \in Verifiers |-> verify'[w].of] = [w \in Verifiers |-> verify[w].of]
    BY <2>2
  <2>4. [w \in Verifiers |-> verify'[w].code] = [w \in Verifiers |-> verify[w].code]
    BY <2>2
  <2>5. {w \in Verifiers : verify'[w].pc = "refused"} = {w \in Verifiers : verify[w].pc = "refused"} \cup {v}
    BY <2>2
  <2> QED BY <1>1, <1>2, <2>1, <2>3, <2>4, <2>5 DEF OneTime!Refuse
<1> QED BY <1>3, <1>4

\* Steps of a verification that decide nothing.
LEMMA VerifyGoesOn ==
  ASSUME Inv, NEW v \in Verifiers, GenerateChallenge(v) \/ FailVerify(v)
  PROVE  UNCHANGED OneTime!codeVars
<1>1. /\ \A w \in Verifiers : verify'[w].of = verify[w].of /\ verify'[w].code = verify[w].code
      /\ \A w \in Verifiers : verify'[w].pc = "refused" <=> verify[w].pc = "refused"
      /\ issue' = issue /\ lapsed' = lapsed
  BY DEF GenerateChallenge, FailVerify, Inv, TypeOK, Verification
<1> QED BY <1>1 DEF OneTime!codeVars

LEMMA VerifyTypes ==
  ASSUME Inv, NEW v \in Verifiers, NEW c \in Codes, VerifyOTP(v, c)
  PROVE  OneTime!Type(v, c)
<1>1. verify[v].pc = "idle" /\ verify[v].code = NoCode /\ issue' = issue /\ lapsed' = lapsed
  BY DEF VerifyOTP, Inv, VerificationsAgree
<1>2. /\ verify'[v].of = verify[v].of /\ verify'[v].code = c /\ verify'[v].pc = "sent"
      /\ \A w \in Verifiers : w # v => verify'[w] = verify[w]
  BY DEF VerifyOTP, Inv, TypeOK, Verification
<1>3. [w \in Verifiers |-> verify'[w].code] = [[w \in Verifiers |-> verify[w].code] EXCEPT ![v] = c]
  BY <1>2
<1>4. [w \in Verifiers |-> verify'[w].of] = [w \in Verifiers |-> verify[w].of]
  BY <1>2
<1>5. {w \in Verifiers : verify'[w].pc = "refused"} = {w \in Verifiers : verify[w].pc = "refused"}
  BY <1>1, <1>2
<1> QED BY <1>1, <1>3, <1>4, <1>5 DEF OneTime!Type

\* generateOTP and verifyOTP, statement by statement, are the one-time codes of
\* OneTimeCodes, for any number of codes, issues and verifications.
THEOREM OneTimeCodesImplemented == Spec => ImplementsOneTimeCodes
<1>1. Inv /\ [Next]_vars => [OneTime!Next]_(OneTime!codeVars)
  <2> SUFFICES ASSUME Inv, [Next]_vars
               PROVE  OneTime!Next \/ UNCHANGED OneTime!codeVars
    OBVIOUS
  <2>1. ASSUME NEW i \in Issues, GenerateOTP(i) PROVE UNCHANGED OneTime!codeVars
    <3>1. \A j \in Issues : issue'[j].code = issue[j].code
      BY <2>1 DEF GenerateOTP, Inv, TypeOK, Generation
    <3> QED BY <2>1, <3>1 DEF GenerateOTP, OneTime!codeVars
  <2>2. ASSUME NEW i \in Issues, PassExpiry(i) PROVE OneTime!Lapse(i)
    BY <2>2 DEF PassExpiry, OneTime!Lapse
  <2>3. CASE UNCHANGED vars
    BY <2>3 DEF vars, OneTime!codeVars
  <2> QED
    BY <2>1, <2>2, <2>3, IssueReadsOut, ConsumeDecides, VerifyGoesOn, VerifyTypes DEF Next, OneTime!Next
<1> QED BY <1>1, InitCodes, Invariance, PTL DEF Spec, ImplementsOneTimeCodes, OneTime!Spec
=============================================================================
