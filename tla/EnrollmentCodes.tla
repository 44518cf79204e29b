--------------------------- MODULE EnrollmentCodes ---------------------------
(***************************************************************************)
(* The codes an administrator reads out: EnrollmentService.generateOTP and *)
(* verifyOTP over the table enrollment_otps.  Each action is one SQL       *)
(* statement, committed on its own.                                        *)
(*                                                                         *)
(* A consumed row is history; of the rows not consumed the partial unique  *)
(* index keeps one per code, so that row is all there is of a code.  The   *)
(* clock is that of the API: a code lapses, and what is asked next with it *)
(* is refused.                                                             *)
(***************************************************************************)
EXTENDS Naturals

CONSTANTS
  Issues,      \* calls of generateOTP
  Verifiers,   \* calls of verifyOTP
  Codes,       \* the numbers of OTP_DIGITS digits
  NoCode,      \* no code drawn
  NoIssue,     \* no row, or no issue
  MaxDraws     \* MAX_OTP_ISSUE_ATTEMPTS

ASSUME EnrollmentCodesAssumption ==
  /\ NoCode \notin Codes /\ NoIssue \notin Issues
  /\ MaxDraws \in Nat \ {0}

VARIABLES
  pending,     \* the unconsumed row of each code: the issue that wrote it last
  lapsed,      \* the issues whose expiresAt has passed
  issue,       \* each generateOTP: where it is, its draws, the code it answers
  verify       \* each verifyOTP: where it is, the code, the issue it consumed

vars == <<pending, lapsed, issue, verify>>

Generation   == [pc : {"idle", "drawing", "issued", "unavailable"},
                 draws : 0..MaxDraws, code : Codes \cup {NoCode}]
Verification == [pc : {"idle", "sent", "consumed", "answered", "refused", "failed"},
                 code : Codes \cup {NoCode}, of : Issues \cup {NoIssue}]

NotIssued   == [pc |-> "idle", draws |-> 0, code |-> NoCode]
NotVerified == [pc |-> "idle", code |-> NoCode, of |-> NoIssue]

TypeOK ==
  /\ pending \in [Codes -> Issues \cup {NoIssue}]
  /\ lapsed \subseteq Issues
  /\ issue \in [Issues -> Generation]
  /\ verify \in [Verifiers -> Verification]

Init ==
  /\ pending = [c \in Codes |-> NoIssue]
  /\ lapsed = {}
  /\ issue = [i \in Issues |-> NotIssued]
  /\ verify = [v \in Verifiers |-> NotVerified]

-----------------------------------------------------------------------------
(* generateOTP.                                                              *)

\* The expiry is computed once, before the first draw.
GenerateOTP(i) ==
  /\ issue[i].pc = "idle"
  /\ issue' = [issue EXCEPT ![i].pc = "drawing"]
  /\ UNCHANGED <<pending, lapsed, verify>>

\* A conflict that updates whatever the expiry of the row it meets.
BugRecyclable(c) == TRUE

\* INSERT: nobody holds the code, or its row expired without being used.
Recyclable(c) == pending[c] \in lapsed \cup {NoIssue}

\* A loop that goes on one draw too many.
BugIssue(i, c) ==
  /\ issue[i].pc = "drawing"
  /\ IF Recyclable(c)
     THEN /\ pending' = [pending EXCEPT ![c] = i]
          /\ issue' = [issue EXCEPT ![i].pc = "issued", ![i].code = c, ![i].draws = @ + 1]
     ELSE /\ issue' = [issue EXCEPT ![i].draws = @ + 1,
                                    ![i].pc = IF issue[i].draws = MaxDraws THEN "unavailable" ELSE @]
          /\ UNCHANGED pending
  /\ UNCHANGED <<lapsed, verify>>

\* INSERT ... ON CONFLICT DO UPDATE ... WHERE ... RETURNING, then the next draw.
Issue(i, c) ==
  /\ issue[i].pc = "drawing"
  /\ IF Recyclable(c)
     THEN /\ pending' = [pending EXCEPT ![c] = i]
          /\ issue' = [issue EXCEPT ![i].pc = "issued", ![i].code = c, ![i].draws = @ + 1]
     ELSE /\ issue' = [issue EXCEPT ![i].draws = @ + 1,
                                    ![i].pc = IF issue[i].draws + 1 = MaxDraws THEN "unavailable" ELSE @]
          /\ UNCHANGED pending
  /\ UNCHANGED <<lapsed, verify>>

\* expiresAt passes, possibly before the code is even drawn.
PassExpiry(i) ==
  /\ issue[i].pc # "idle" /\ i \notin lapsed
  /\ lapsed' = lapsed \cup {i}
  /\ UNCHANGED <<pending, issue, verify>>

-----------------------------------------------------------------------------
(* verifyOTP: someone types a code, right or wrong, maybe twice.             *)

VerifyOTP(v, c) ==
  /\ verify[v].pc = "idle"
  /\ verify' = [verify EXCEPT ![v].pc = "sent", ![v].code = c]
  /\ UNCHANGED <<pending, lapsed, issue>>

\* A SELECT of the pending row, consumed by a later UPDATE by id.
BugConsume(v) ==
  /\ verify[v].pc = "sent"
  /\ LET i == pending[verify[v].code] IN
       \/ i \notin lapsed \cup {NoIssue} /\ verify' = [verify EXCEPT ![v].pc = "consumed", ![v].of = i]
       \/ i \in lapsed \cup {NoIssue} /\ verify' = [verify EXCEPT ![v].pc = "refused"]
  /\ UNCHANGED <<pending, lapsed, issue>>

\* The UPDATE without its condition on the expiry.
BugConsumeExpired(v) ==
  /\ verify[v].pc = "sent"
  /\ LET c == verify[v].code  i == pending[c] IN
       \/ /\ i # NoIssue
          /\ pending' = [pending EXCEPT ![c] = NoIssue]
          /\ verify' = [verify EXCEPT ![v].pc = "consumed", ![v].of = i]
       \/ /\ i = NoIssue
          /\ verify' = [verify EXCEPT ![v].pc = "refused"]
          /\ UNCHANGED pending
  /\ UNCHANGED <<lapsed, issue>>

\* One UPDATE ... RETURNING of the row that is pending and not expired.
Consume(v) ==
  /\ verify[v].pc = "sent"
  /\ LET c == verify[v].code  i == pending[c] IN
       \/ /\ i \notin lapsed \cup {NoIssue}
          /\ pending' = [pending EXCEPT ![c] = NoIssue]
          /\ verify' = [verify EXCEPT ![v].pc = "consumed", ![v].of = i]
       \/ /\ i \in lapsed \cup {NoIssue}
          /\ verify' = [verify EXCEPT ![v].pc = "refused"]
          /\ UNCHANGED pending
  /\ UNCHANGED <<lapsed, issue>>

\* generateChallenge: a statement of its own, with nothing to undo the first.
GenerateChallenge(v) ==
  /\ verify[v].pc = "consumed"
  /\ verify' = [verify EXCEPT ![v].pc = "answered"]
  /\ UNCHANGED <<pending, lapsed, issue>>

\* A statement fails or the process dies: a consumed code stays consumed.
FailVerify(v) ==
  /\ verify[v].pc \in {"sent", "consumed"}
  /\ verify' = [verify EXCEPT ![v].pc = "failed"]
  /\ UNCHANGED <<pending, lapsed, issue>>

-----------------------------------------------------------------------------
Next ==
  \/ \E i \in Issues : GenerateOTP(i) \/ PassExpiry(i) \/ \E c \in Codes : Issue(i, c)
  \/ \E v \in Verifiers : Consume(v) \/ GenerateChallenge(v) \/ FailVerify(v)
  \/ \E v \in Verifiers, c \in Codes : VerifyOTP(v, c)

Spec == Init /\ [][Next]_vars

-----------------------------------------------------------------------------
(* What makes the codes correct.                                             *)

Used(i) == \E v \in Verifiers : verify[v].of = i

\* "The code is consumed on the way: it works once" (verifyOTP), whoever types it
\* at the same time, and even once the number is drawn again for another issue.
CodeWorksOnce ==
  \A v, w \in Verifiers : v # w /\ verify[v].of = verify[w].of => verify[v].of = NoIssue

\* A code that was read out stays good until it is used or expires: no other call
\* draws the same number meanwhile ("two concurrent generations can never both get
\* the same code", OtpRepository.issue).
CodeStaysGood ==
  \A i \in Issues :
    issue[i].pc = "issued" /\ i \notin lapsed /\ ~Used(i) => pending[issue[i].code] = i

\* A row is that of a call that answered its code, and that nobody has used.
RowsAgree ==
  \A c \in Codes : pending[c] # NoIssue =>
    /\ issue[pending[c]].pc = "issued" /\ issue[pending[c]].code = c
    /\ \A v \in Verifiers : verify[v].of # pending[c]

\* A call has drawn nothing yet, still has draws left, or has answered a code.
DrawsAgree ==
  \A i \in Issues : /\ issue[i].pc = "issued" <=> issue[i].code \in Codes
                    /\ issue[i].pc = "drawing" => issue[i].draws < MaxDraws
                    /\ issue[i].pc = "idle" => issue[i].draws = 0

\* A verification consumed an issue of the code it was given.
VerificationsAgree ==
  \A v \in Verifiers :
    /\ verify[v].pc \in {"consumed", "answered"} => verify[v].of # NoIssue
    /\ verify[v].of # NoIssue => issue[verify[v].of].pc = "issued"
    /\ verify[v].pc = "sent" => verify[v].code \in Codes
    /\ verify[v].pc \in {"idle", "sent"} => verify[v].of = NoIssue
    /\ verify[v].pc = "idle" => verify[v].code = NoCode

Inv == TypeOK /\ RowsAgree /\ DrawsAgree /\ VerificationsAgree /\ CodeWorksOnce /\ CodeStaysGood

\* Rows recycled, numbers drawn again and verifications interleaved add up to
\* codes that each have a number of their own while they are good, and that are
\* taken or refused at one point (issue and consume of OtpRepository).
OneTime == INSTANCE OneTimeCodes WITH
  code    <- [i \in Issues |-> issue[i].code],
  typed   <- [v \in Verifiers |-> verify[v].code],
  took    <- [v \in Verifiers |-> verify[v].of],
  refused <- {v \in Verifiers : verify[v].pc = "refused"}
ImplementsOneTimeCodes == OneTime!Spec
=============================================================================
