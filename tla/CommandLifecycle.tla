------------------------- MODULE CommandLifecycle -------------------------
(***************************************************************************)
(* What a remote command promises to the admin who reads its row, whatever *)
(* the transport does: the status column of device_commands (see           *)
(* command-schema.ts) only moves forward, a final status is never          *)
(* rewritten, nothing is done on a device for a row that was never         *)
(* inserted, and "succeeded" is never written before the device did the    *)
(* work.  CommandDelivery is shown to implement this specification.        *)
(***************************************************************************)
CONSTANTS Commands

VARIABLES
  status,   \* device_commands.status of each command, "none" before the insert
  done      \* the commands the device has carried out at least once

lifecycleVars == <<status, done>>

Undelivered == {"pending", "sent"}
Unfinished  == Undelivered \cup {"acknowledged"}
Final       == {"succeeded", "failed", "expired"}
Status      == {"none"} \cup Unfinished \cup Final

Init == status = [c \in Commands |-> "none"] /\ done = {}

Become(c, from, to) ==
  /\ status[c] \in from
  /\ status' = [status EXCEPT ![c] = to]
  /\ UNCHANGED done

Insert(c)      == Become(c, {"none"}, "pending")
Send(c)        == Become(c, {"pending"}, "sent")
Acknowledge(c) == Become(c, Undelivered, "acknowledged")
Fail(c)        == Become(c, Unfinished, "failed")

Succeed(c) == c \in done /\ Become(c, Unfinished, "succeeded")

\* A sweep expires several rows in one UPDATE.
Expire(S) ==
  /\ \A c \in S : status[c] \in Unfinished
  /\ status' = [c \in Commands |-> IF c \in S THEN "expired" ELSE status[c]]
  /\ UNCHANGED done

CarryOut(c) ==
  /\ status[c] # "none"
  /\ done' = done \cup {c}
  /\ UNCHANGED status

Next ==
  \/ \E c \in Commands :
       Insert(c) \/ Send(c) \/ Acknowledge(c) \/ Fail(c) \/ Succeed(c) \/ CarryOut(c)
  \/ \E S \in SUBSET Commands : Expire(S)

Spec == Init /\ [][Next]_lifecycleVars
===========================================================================
