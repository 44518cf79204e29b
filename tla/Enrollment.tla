----------------------------- MODULE Enrollment -----------------------------
(***************************************************************************)
(* Pinned-key enrollment: DeviceService.create, the challenges it uses up, *)
(* and the admin's edits and removals of devices next to it.               *)
(*                                                                         *)
(* Every action is one SQL statement, and create() runs its statements in  *)
(* one transaction at Postgres's default READ COMMITTED: a SELECT sees the *)
(* committed rows, an UPDATE waits for the row lock of another transaction *)
(* and an INSERT for another one's uncommitted row with the same unique    *)
(* key.  The locks are those of the statements done and not yet committed, *)
(* so they need no variable.                                               *)
(***************************************************************************)
CONSTANTS
  Attempts,    \* calls of create(); the id of a row is the call that inserted it
  Challenges,  \* the nonces GET /enrollment/challenge draws
  Androids,    \* values of devices.android_id
  NoAndroid,   \* its NULL: the agent could not read one
  Keys,        \* public keys
  NoDevice     \* no row

ASSUME EnrollmentAssumption ==
  /\ NoAndroid \notin Androids
  /\ NoDevice \notin Attempts
  /\ NoDevice \notin [android : Androids \cup {NoAndroid}, key : Keys]

VARIABLES
  issued,    \* enrollment_challenges: the challenges handed out,
  expired,   \* those whose expiresAt has passed,
  consumed,  \* those whose consumedAt is committed
  row,       \* devices: the committed row of each id, or NoDevice
  tx         \* each call: what it presents, where it is, the row it enrolls

vars == <<issued, expired, consumed, row, tx>>

AndroidIds == Androids \cup {NoAndroid}
Device     == [android : AndroidIds, key : Keys]

Open     == {"assert", "consume", "find", "reEnroll", "insert", "commit"}
\* "gone": committed without a row (the row was removed), create() then throws.
Accepted == {"signing", "answered", "unsigned"}
Answers  == {"refused", "aborted", "gone", "answered", "unsigned"}

\* A call not made yet, and one that was.
Idle == [pc |-> "idle"]
Call == [pc : Open \cup Accepted \cup Answers, challenge : Challenges,
         android : AndroidIds, key : Keys, device : Attempts \cup {NoDevice}]

TypeOK ==
  /\ issued \subseteq Challenges
  /\ expired \subseteq issued
  /\ consumed \subseteq issued
  /\ row \in [Attempts -> Device \cup {NoDevice}]
  /\ tx \in [Attempts -> Call \cup {Idle}]
  /\ \A a \in Attempts : tx[a].pc # "idle" => tx[a].challenge \in issued

Init ==
  /\ issued = {} /\ expired = {} /\ consumed = {}
  /\ row = [d \in Attempts |-> NoDevice]
  /\ tx = [a \in Attempts |-> Idle]

-----------------------------------------------------------------------------
(* What the transactions hold until they end.                                *)

HoldsChallenge(b, c) == tx[b].pc \in {"find", "reEnroll", "insert", "commit"} /\ tx[b].challenge = c
HoldsRow(b, d)       == tx[b].pc = "commit" /\ tx[b].device = d
\* b has inserted its row, which only b sees.
Inserted(b)          == tx[b].pc = "commit" /\ tx[b].device = b

Others(a) == Attempts \ {a}
To(a, pc) == tx' = [tx EXCEPT ![a].pc = pc]

Matches(d, x) == row[d] # NoDevice /\ row[d].android = x
Taken(x) == x # NoAndroid /\ \E d \in Attempts : Matches(d, x)

-----------------------------------------------------------------------------
(* create(), statement by statement.                                         *)

IssueChallenge(c) ==
  /\ c \notin issued
  /\ issued' = issued \cup {c}
  /\ UNCHANGED <<expired, consumed, row, tx>>

PassExpiry(c) ==
  /\ c \in issued \ expired
  /\ expired' = expired \cup {c}
  /\ UNCHANGED <<issued, consumed, row, tx>>

\* POST /devices/enroll, possibly sent twice with the same challenge.
Enroll(a, c, x, k) ==
  /\ tx[a].pc = "idle"
  /\ c \in issued
  /\ tx' = [tx EXCEPT ![a] =
              [pc |-> "assert", challenge |-> c, android |-> x, key |-> k, device |-> NoDevice]]
  /\ UNCHANGED <<issued, expired, consumed, row>>

\* A check of the expiry only.
BugAssertNotExpired(a) ==
  /\ tx[a].pc = "assert"
  /\ \/ To(a, "refused")
     \/ tx[a].challenge \in issued \ expired /\ To(a, "consume")
  /\ UNCHANGED <<issued, expired, consumed, row>>

\* assertChallengeValid, then the signature over the canonical message.
AssertChallengeValid(a) ==
  /\ tx[a].pc = "assert"
  /\ \/ To(a, "refused")
     \/ tx[a].challenge \in issued \ (consumed \cup expired) /\ To(a, "consume")
  /\ UNCHANGED <<issued, expired, consumed, row>>

\* UPDATE without a condition on consumedAt: of two calls, the second waits
\* for the first to end and then goes on.
ConsumeChallenge(a) ==
  /\ tx[a].pc = "consume"
  /\ \A b \in Others(a) : ~HoldsChallenge(b, tx[a].challenge)
  /\ To(a, "find")
  /\ UNCHANGED <<issued, expired, consumed, row>>

\* A lookup that trusts the androidId alone.
BugFindAnyKey(a) ==
  /\ tx[a].pc = "find"
  /\ IF Taken(tx[a].android)
     THEN \E d \in Attempts :
            /\ Matches(d, tx[a].android)
            /\ tx' = [tx EXCEPT ![a].pc = "reEnroll", ![a].device = d]
     ELSE To(a, "insert")
  /\ UNCHANGED <<issued, expired, consumed, row>>

\* A mismatch that leaves the transaction open.
BugFindWithoutRollback(a) ==
  /\ tx[a].pc = "find"
  /\ IF Taken(tx[a].android)
     THEN \E d \in Attempts :
            /\ Matches(d, tx[a].android)
            /\ row[d].key = tx[a].key
            /\ tx' = [tx EXCEPT ![a].pc = "reEnroll", ![a].device = d]
     ELSE To(a, "insert")
  /\ UNCHANGED <<issued, expired, consumed, row>>

FindByAndroidId(a) ==
  /\ tx[a].pc = "find"
  /\ IF Taken(tx[a].android)
     THEN \E d \in Attempts :
            /\ Matches(d, tx[a].android)
            /\ IF row[d].key = tx[a].key
               THEN tx' = [tx EXCEPT ![a].pc = "reEnroll", ![a].device = d]
               ELSE To(a, "refused")
     ELSE To(a, "insert")
  /\ UNCHANGED <<issued, expired, consumed, row>>

\* UPDATE by id: no row is left if it was removed since it was found.
ReEnrollDevice(a) ==
  /\ tx[a].pc = "reEnroll"
  /\ \A b \in Others(a) : ~HoldsRow(b, tx[a].device)
  /\ tx' = [tx EXCEPT ![a].pc = "commit",
                      ![a].device = IF row[@] = NoDevice THEN NoDevice ELSE @]
  /\ UNCHANGED <<issued, expired, consumed, row>>

\* An android_id without its unique constraint.
BugCreateDuplicate(a) ==
  /\ tx[a].pc = "insert"
  /\ tx' = [tx EXCEPT ![a].pc = "commit", ![a].device = a]
  /\ UNCHANGED <<issued, expired, consumed, row>>

\* INSERT: the unique violation of android_id is "Device already enrolled".
CreateDevice(a) ==
  /\ tx[a].pc = "insert"
  /\ \A b \in Others(a) : ~(Inserted(b) /\ tx[b].android = tx[a].android /\ tx[a].android # NoAndroid)
  /\ IF Taken(tx[a].android)
     THEN To(a, "refused")
     ELSE tx' = [tx EXCEPT ![a].pc = "commit", ![a].device = a]
  /\ UNCHANGED <<issued, expired, consumed, row>>

Commit(a) ==
  /\ tx[a].pc = "commit"
  /\ consumed' = consumed \cup {tx[a].challenge}
  /\ row' = IF Inserted(a)
            THEN [row EXCEPT ![a] = [android |-> tx[a].android, key |-> tx[a].key]]
            ELSE row
  /\ To(a, IF tx[a].device = NoDevice THEN "gone" ELSE "signing")
  /\ UNCHANGED <<issued, expired>>

\* signDeviceJWT, after the commit: it may fail, or the answer be lost.
SignToken(a) ==
  /\ tx[a].pc = "signing"
  /\ To(a, "answered") \/ To(a, "unsigned")
  /\ UNCHANGED <<issued, expired, consumed, row>>

\* A statement fails or the process dies: Postgres rolls back.
BugAbortConsumes(a) ==
  /\ tx[a].pc \in Open
  /\ To(a, "aborted")
  /\ consumed' = IF HoldsChallenge(a, tx[a].challenge) THEN consumed \cup {tx[a].challenge} ELSE consumed
  /\ UNCHANGED <<issued, expired, row>>

Abort(a) ==
  /\ tx[a].pc \in Open
  /\ To(a, "aborted")
  /\ UNCHANGED <<issued, expired, consumed, row>>

-----------------------------------------------------------------------------
(* The admin, one statement each.                                            *)

\* PATCH /devices/:id with an androidId; 409 when another device has it.
UpdateAndroidId(d, x) ==
  /\ row[d] # NoDevice
  /\ \A b \in Attempts : ~HoldsRow(b, d) /\ ~(Inserted(b) /\ tx[b].android = x /\ x # NoAndroid)
  /\ \A e \in Others(d) : x = NoAndroid \/ ~Matches(e, x)
  /\ row' = [row EXCEPT ![d].android = x]
  /\ UNCHANGED <<issued, expired, consumed, tx>>

RemoveDevice(d) ==
  /\ row[d] # NoDevice
  /\ \A b \in Attempts : ~HoldsRow(b, d)
  /\ row' = [row EXCEPT ![d] = NoDevice]
  /\ UNCHANGED <<issued, expired, consumed, tx>>

-----------------------------------------------------------------------------
Statement(a) ==
  \/ AssertChallengeValid(a) \/ ConsumeChallenge(a) \/ FindByAndroidId(a)
  \/ ReEnrollDevice(a) \/ CreateDevice(a) \/ Commit(a) \/ SignToken(a)

Next ==
  \/ \E c \in Challenges : IssueChallenge(c) \/ PassExpiry(c)
  \/ \E a \in Attempts, c \in Challenges, x \in AndroidIds, k \in Keys : Enroll(a, c, x, k)
  \/ \E a \in Attempts : Statement(a) \/ Abort(a)
  \/ \E d \in Attempts, x \in AndroidIds : UpdateAndroidId(d, x)
  \/ \E d \in Attempts : RemoveDevice(d)

Spec == Init /\ [][Next]_vars

\* Postgres runs the statement of a transaction that waits for no lock, and
\* signs what was committed.
FairSpec == Spec /\ \A a \in Attempts : WF_vars(Statement(a))

-----------------------------------------------------------------------------
(* What makes enrollment correct.                                            *)

AcceptedCalls ==
  {[by |-> a, key |-> tx[a].key, device |-> tx[a].device] : a \in {b \in Attempts : tx[b].pc \in Accepted}}

\* The statements of concurrent enrollments, edits and removals add up to one
\* atomic decision per enrollment: no androidId on two devices, no token for a
\* row that pinned another key (DeviceService.create).
Registry == INSTANCE DeviceRegistry WITH Ids <- Attempts, accepted <- AcceptedCalls
ImplementsRegistry == Registry!Spec

\* Two open transactions never hold the same lock, and what is committed,
\* together with what is inserted and not yet committed, has no androidId twice.
LocksAreExclusive ==
  \A a \in Attempts : \A b \in Others(a) :
    /\ \A c \in Challenges : ~(HoldsChallenge(a, c) /\ HoldsChallenge(b, c))
    /\ \A d \in Attempts : ~(HoldsRow(a, d) /\ HoldsRow(b, d))

AndroidsAreUnique ==
  /\ \A d \in Attempts : \A e \in Others(d) :
       row[d] # NoDevice /\ row[e] # NoDevice /\ row[d].android = row[e].android
         => row[d].android = NoAndroid
  /\ \A a \in Attempts : Inserted(a) => row[a] = NoDevice /\ ~Taken(tx[a].android)
  /\ \A a \in Attempts : \A b \in Others(a) :
       Inserted(a) /\ Inserted(b) /\ tx[a].android = tx[b].android => tx[a].android = NoAndroid

\* The row a call found or wrote has the key it presents, for as long as it
\* exists, and cannot be removed between its UPDATE and the COMMIT.
KeysMatch ==
  \A a \in Attempts :
    LET d == tx[a].device IN
    /\ tx[a].pc \in {"reEnroll"} \cup Accepted => d # NoDevice
    /\ tx[a].pc = "commit" /\ d \notin {a, NoDevice} => row[d] # NoDevice
    /\ tx[a].pc \in {"reEnroll", "commit"} \cup Accepted /\ d # NoDevice /\ row[d] # NoDevice
         => row[d].key = tx[a].key

\* A row is committed once the call that inserted it is, and a call renews only
\* the rows of such calls: the id of a row never comes back.
RowsAreCommitted ==
  /\ \A d \in Attempts : row[d] # NoDevice => tx[d].pc \in Accepted
  /\ \A a \in Attempts :
       /\ tx[a].pc \in {"reEnroll", "commit"} \cup Accepted
       /\ tx[a].device # NoDevice
       /\ ~Inserted(a)
       => tx[tx[a].device].pc \in Accepted

Inv == TypeOK /\ LocksAreExclusive /\ AndroidsAreUnique /\ KeysMatch /\ RowsAreCommitted

\* "a still-valid challenge shouldn't be burned": only a call that went through
\* (or whose device was removed under it) uses its challenge up, whatever the
\* point where the others stop (DeviceService.create, its transaction).
RefusedKeepsChallenge ==
  \A c \in consumed :
    \E a \in Attempts : tx[a].pc \in Accepted \cup {"gone"} /\ tx[a].challenge = c

\* Locks are taken in one order, so no set of enrollments waits for each other:
\* every call is answered (DeviceService.create).
EnrollmentsAreAnswered ==
  \A a \in Attempts : tx[a].pc # "idle" ~> tx[a].pc \in Answers

\* device-schema.ts calls the challenge a "single-use anti-replay nonce".
ChallengeIsSingleUse ==
  \A a \in Attempts : \A b \in Others(a) :
    tx[a].pc \in Accepted /\ tx[b].pc \in Accepted => tx[a].challenge # tx[b].challenge

\* Two calls race when both are between the check of a challenge and the end of
\* their transaction.
Checked == Open \ {"assert"}
NoRace ==
  \A a \in Attempts : \A b \in Others(a) :
    tx[a].pc \in Checked /\ tx[b].pc \in Checked => tx[a].challenge # tx[b].challenge

\* That race is the only way: while no two calls race, a challenge is used once,
\* whatever is retried, rolled back, refused or removed (create(), markConsumed).
OnlyRacesReuse == []NoRace => []ChallengeIsSingleUse
=============================================================================
