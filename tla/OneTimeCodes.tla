---------------------------- MODULE OneTimeCodes ----------------------------
(***************************************************************************)
(* What one-time codes promise to the person who types one: among the      *)
(* codes that are good at a time no number occurs twice; a number is taken *)
(* exactly when it is that of a good code, and by one person only; it is   *)
(* refused only when there is none.  How rows are recycled, numbers drawn  *)
(* again and verifications interleaved does not show.  EnrollmentCodes is  *)
(* shown to implement this specification.                                  *)
(***************************************************************************)
CONSTANTS Issues, Verifiers, Codes, NoCode, NoIssue

VARIABLES
  code,      \* the number read out for each issue, or NoCode
  lapsed,    \* the issues that are past their time
  typed,     \* the number each person typed, or NoCode
  took,      \* the issue whose code each of them took, or NoIssue
  refused    \* the people told that the number is no good

codeVars == <<code, lapsed, typed, took, refused>>

Good(i) == code[i] \in Codes /\ i \notin lapsed /\ \A v \in Verifiers : took[v] # i
Waits(v) == typed[v] \in Codes /\ took[v] = NoIssue /\ v \notin refused

Init ==
  /\ code = [i \in Issues |-> NoCode] /\ lapsed = {}
  /\ typed = [v \in Verifiers |-> NoCode] /\ took = [v \in Verifiers |-> NoIssue]
  /\ refused = {}

ReadOut(i, c) ==
  /\ code[i] = NoCode
  /\ \A j \in Issues : Good(j) => code[j] # c
  /\ code' = [code EXCEPT ![i] = c]
  /\ UNCHANGED <<lapsed, typed, took, refused>>

Lapse(i) ==
  /\ lapsed' = lapsed \cup {i}
  /\ UNCHANGED <<code, typed, took, refused>>

Type(v, c) ==
  /\ typed[v] = NoCode
  /\ typed' = [typed EXCEPT ![v] = c]
  /\ UNCHANGED <<code, lapsed, took, refused>>

Take(v, i) ==
  /\ Waits(v) /\ Good(i) /\ code[i] = typed[v]
  /\ took' = [took EXCEPT ![v] = i]
  /\ UNCHANGED <<code, lapsed, typed, refused>>

Refuse(v) ==
  /\ Waits(v)
  /\ \A i \in Issues : Good(i) => code[i] # typed[v]
  /\ refused' = refused \cup {v}
  /\ UNCHANGED <<code, lapsed, typed, took>>

Next ==
  \/ \E i \in Issues : Lapse(i) \/ \E c \in Codes : ReadOut(i, c)
  \/ \E v \in Verifiers : Refuse(v) \/ \E c \in Codes : Type(v, c)
  \/ \E v \in Verifiers, i \in Issues : Take(v, i)

Spec == Init /\ [][Next]_codeVars
=============================================================================
