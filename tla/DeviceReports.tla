---------------------------- MODULE DeviceReports ----------------------------
(***************************************************************************)
(* What devices report over HTTP (heartbeat, inventory, partial telemetry) *)
(* while administrators block, unblock and delete them: requireDeviceAuth, *)
(* DeviceService and DeviceRepository over the tables devices and          *)
(* device_telemetry.  Each action is one SQL statement, committed on its   *)
(* own; nothing is in a transaction.                                       *)
(*                                                                         *)
(* A stored fact is known by the report it comes from.  The id of a device *)
(* deleted is never given again: an enrollment makes a new one.            *)
(***************************************************************************)
CONSTANTS
  Devices,     \* the ids that exist or are still in a selection
  Talking,     \* those that report meanwhile
  NoDevice,    \* no device
  Reports,     \* requests of the devices
  Groups,      \* the JSON columns: network, memory, storage, battery, location
  Fields,      \* the fields of a group
  Default,     \* the default of a field, or what it was before these reports
  NoRow,       \* no telemetry row
  Removals     \* calls of remove()

ASSUME DeviceReportsAssumption ==
  /\ Talking \subseteq Devices /\ NoDevice \notin Devices
  /\ NoRow \notin [Groups \X Fields -> Reports \cup {Default}]

VARIABLES
  rows,        \* the devices that exist
  blocked,     \* those with a blockedAt
  contacted,   \* those with a lastHeartbeatAt
  telemetry,   \* the telemetry row of each device: the report each fact is from
  report,      \* each request of a device
  removal      \* each remove(): the ids, those left to delete, those that failed

vars == <<rows, blocked, contacted, telemetry, report, removal>>

Facts    == Groups \X Fields
Group(f) == f[1]
Snapshot == [Facts -> Reports \cup {Default}]
Defaults == [f \in Facts |-> Default]

\* A patch and an inventory differ in the facts they carry and in the way there;
\* a patch may also name groups without a field of theirs.
Request ==
  [pc : {"idle", "auth", "select", "write", "touch", "ok", "refused", "failed"},
   kind : {"patch", "inventory", "heartbeat"}, of : Devices \cup {NoDevice},
   facts : SUBSET Facts, empty : SUBSET Groups, read : Snapshot \cup {NoRow}]
Removal ==
  [pc : {"idle", "deleting", "again", "ok"}, ids : SUBSET Devices, left : SUBSET Devices,
   current : Devices \cup {NoDevice}, failed : SUBSET Devices]

Unsent    == [pc |-> "idle", kind |-> "heartbeat", of |-> NoDevice, facts |-> {}, empty |-> {}, read |-> NoRow]
Unremoved == [pc |-> "idle", ids |-> {}, left |-> {}, current |-> NoDevice, failed |-> {}]

TypeOK ==
  /\ rows \subseteq Devices /\ blocked \subseteq Devices /\ contacted \subseteq Devices
  /\ telemetry \in [Devices -> Snapshot \cup {NoRow}]
  /\ report \in [Reports -> Request]
  /\ removal \in [Removals -> Removal]

\* Devices that have just enrolled or have reported before, some already deleted.
Init ==
  /\ rows \in SUBSET Devices /\ blocked = {} /\ contacted = {}
  /\ telemetry \in [Devices -> {NoRow, Defaults}]
  /\ \A d \in Devices \ rows : telemetry[d] = NoRow
  /\ report = [r \in Reports |-> Unsent]
  /\ removal = [a \in Removals |-> Unremoved]

-----------------------------------------------------------------------------
(* The requests of a device.                                                 *)

GroupsOf(r) == report[r].empty \cup {Group(f) : f \in report[r].facts}

Send(r, d, kind, facts, empty) ==
  /\ report[r].pc = "idle"
  /\ report' = [report EXCEPT ![r] =
       [pc |-> "auth", kind |-> kind, of |-> d, facts |-> facts, empty |-> empty, read |-> NoRow]]
  /\ UNCHANGED <<rows, blocked, contacted, telemetry, removal>>

\* The groups a validated body names, one at least, each with some of its fields
\* or with none.
SendPatch(r, d) ==
  \E facts \in SUBSET Facts : \E empty \in SUBSET (Groups \ {Group(f) : f \in facts}) :
    (facts # {} \/ empty # {}) /\ Send(r, d, "patch", facts, empty)
SendInventory(r, d) == Send(r, d, "inventory", Facts, {})
SendHeartbeat(r, d) == Send(r, d, "heartbeat", {}, {})

\* requireDeviceAuth: the device is read once, before the handler.
RequireDeviceAuth(r) ==
  /\ report[r].pc = "auth"
  /\ report' = [report EXCEPT ![r].pc =
       IF report[r].of \notin rows \ blocked THEN "refused"
       ELSE CASE report[r].kind = "patch" -> "select"
              [] report[r].kind = "inventory" -> "write"
              [] report[r].kind = "heartbeat" -> "touch"]
  /\ UNCHANGED <<rows, blocked, contacted, telemetry, removal>>

\* A patch that is merged into the defaults, row or no row.
BugSelectTelemetry(r) ==
  /\ report[r].pc = "select"
  /\ report' = [report EXCEPT ![r].pc = "write",
       ![r].read = IF telemetry[report[r].of] = NoRow THEN NoRow ELSE Defaults]
  /\ UNCHANGED <<rows, blocked, contacted, telemetry, removal>>

\* patchTelemetry: the row the patch will be merged into.
SelectTelemetry(r) ==
  /\ report[r].pc = "select"
  /\ report' = [report EXCEPT ![r].read = telemetry[report[r].of], ![r].pc = "write"]
  /\ UNCHANGED <<rows, blocked, contacted, telemetry, removal>>

\* The row a report writes over "base", where its groups differ from "stored".
Merged(r, base, stored) ==
  [f \in Facts |-> IF f \in report[r].facts THEN r
                   ELSE IF Group(f) \in GroupsOf(r) THEN base[f] ELSE stored[f]]

Answer(r, pc) == report' = [report EXCEPT ![r].pc = pc]

\* An INSERT that no foreign key holds back.
BugInsertTelemetry(r) ==
  /\ report[r].pc = "write" /\ report[r].kind = "patch" /\ report[r].read = NoRow
  /\ IF telemetry[report[r].of] = NoRow
     THEN /\ telemetry' = [telemetry EXCEPT ![report[r].of] = Merged(r, Defaults, Defaults)]
          /\ Answer(r, "ok")
     ELSE Answer(r, "failed") /\ UNCHANGED telemetry
  /\ UNCHANGED <<rows, blocked, contacted, removal>>

\* The patch found no row: an INSERT, which the primary key refuses if another
\* report was first, and the foreign key if the device was deleted.
InsertTelemetry(r) ==
  /\ report[r].pc = "write" /\ report[r].kind = "patch" /\ report[r].read = NoRow
  /\ IF report[r].of \in rows /\ telemetry[report[r].of] = NoRow
     THEN /\ telemetry' = [telemetry EXCEPT ![report[r].of] = Merged(r, Defaults, Defaults)]
          /\ Answer(r, "ok")
     ELSE Answer(r, "failed") /\ UNCHANGED telemetry
  /\ UNCHANGED <<rows, blocked, contacted, removal>>

\* An UPDATE of every column, with the row that was read.
BugUpdateTelemetry(r) ==
  /\ report[r].pc = "write" /\ report[r].kind = "patch" /\ report[r].read # NoRow
  /\ LET d == report[r].of IN
       telemetry' = IF telemetry[d] = NoRow THEN telemetry
                    ELSE [telemetry EXCEPT ![d] = Merged(r, report[r].read, report[r].read)]
  /\ Answer(r, "ok")
  /\ UNCHANGED <<rows, blocked, contacted, removal>>

\* It found one: an UPDATE of its groups, each merged into what was read.  It
\* answers ok even if the row is gone.
UpdateTelemetry(r) ==
  /\ report[r].pc = "write" /\ report[r].kind = "patch" /\ report[r].read # NoRow
  /\ LET d == report[r].of IN
       telemetry' = IF telemetry[d] = NoRow THEN telemetry
                    ELSE [telemetry EXCEPT ![d] = Merged(r, report[r].read, @)]
  /\ Answer(r, "ok")
  /\ UNCHANGED <<rows, blocked, contacted, removal>>

\* recordInventory: one upsert of every group.
UpsertTelemetry(r) ==
  /\ report[r].pc = "write" /\ report[r].kind = "inventory"
  /\ IF report[r].of \in rows
     THEN /\ telemetry' = [telemetry EXCEPT ![report[r].of] = Merged(r, Defaults, Defaults)]
          /\ Answer(r, "touch")
     ELSE Answer(r, "failed") /\ UNCHANGED telemetry
  /\ UNCHANGED <<rows, blocked, contacted, removal>>

\* recordHeartbeat, and touchHeartbeat after an inventory.
TouchHeartbeat(r) ==
  /\ report[r].pc = "touch"
  /\ contacted' = contacted \cup ({report[r].of} \cap rows)
  /\ Answer(r, "ok")
  /\ UNCHANGED <<rows, blocked, telemetry, removal>>

\* A statement fails; requireDeviceAuth answers any error 401.
FailReport(r) ==
  /\ report[r].pc \in {"auth", "select", "write", "touch"}
  /\ Answer(r, IF report[r].pc = "auth" THEN "refused" ELSE "failed")
  /\ UNCHANGED <<rows, blocked, contacted, telemetry, removal>>

-----------------------------------------------------------------------------
(* The calls of an administrator.                                            *)

\* blockMany, and the UPDATE of block() between two reads of the row.
BlockMany(ids) ==
  /\ blocked' = blocked \cup (ids \cap rows)
  /\ UNCHANGED <<rows, contacted, telemetry, report, removal>>

UnblockMany(ids) ==
  /\ blocked' = blocked \ ids
  /\ UNCHANGED <<rows, contacted, telemetry, report, removal>>

\* remove(): ids that no longer exist are part of a stale selection.
RemoveMany(a, ids) ==
  /\ removal[a].pc = "idle" /\ ids # {}
  /\ removal' = [removal EXCEPT ![a] = [Unremoved EXCEPT !.pc = "deleting", !.ids = ids, !.left = ids]]
  /\ UNCHANGED <<rows, blocked, contacted, telemetry, report>>

\* The loop of deleteMany that the first missing device ends.
BugSkipMissing(a, d) ==
  /\ removal[a].pc = "deleting" /\ d \in removal[a].left /\ d \notin rows
  /\ removal' = [removal EXCEPT ![a].left = {}]
  /\ UNCHANGED <<rows, blocked, contacted, telemetry, report>>

\* No row: the 404 of delete() is caught, and the loop goes on.
SkipMissing(a, d) ==
  /\ removal[a].pc = "deleting" /\ d \in removal[a].left /\ d \notin rows
  /\ removal' = [removal EXCEPT ![a].left = @ \ {d}]
  /\ UNCHANGED <<rows, blocked, contacted, telemetry, report>>

\* Its row goes, and by cascade its telemetry.
DeleteRow(a, d) ==
  /\ removal[a].pc = "deleting" /\ d \in removal[a].left /\ d \in rows
  /\ rows' = rows \ {d} /\ blocked' = blocked \ {d} /\ contacted' = contacted \ {d}
  /\ telemetry' = [telemetry EXCEPT ![d] = NoRow]
  /\ removal' = [removal EXCEPT ![a].pc = "again", ![a].left = @ \ {d}, ![a].current = d]
  /\ UNCHANGED report

\* delete() runs its DELETE a second time, for a row that is gone.
DeleteAgain(a) ==
  /\ removal[a].pc = "again"
  /\ removal' = [removal EXCEPT ![a].pc = "deleting", ![a].current = NoDevice]
  /\ UNCHANGED <<rows, blocked, contacted, telemetry, report>>

\* Either DELETE fails: the device is kept in failures, and the loop goes on.
FailDelete(a, d) ==
  /\ \/ removal[a].pc = "deleting" /\ d \in removal[a].left
     \/ removal[a].pc = "again" /\ d = removal[a].current
  /\ removal' = [removal EXCEPT ![a].pc = "deleting", ![a].current = NoDevice,
                                ![a].left = @ \ {d}, ![a].failed = @ \cup {d}]
  /\ UNCHANGED <<rows, blocked, contacted, telemetry, report>>

\* 204, whatever failed.
AnswerRemoved(a) ==
  /\ removal[a].pc = "deleting" /\ removal[a].left = {}
  /\ removal' = [removal EXCEPT ![a].pc = "ok"]
  /\ UNCHANGED <<rows, blocked, contacted, telemetry, report>>

-----------------------------------------------------------------------------
Reporting(r) ==
  \/ \E d \in Talking : SendPatch(r, d) \/ SendInventory(r, d) \/ SendHeartbeat(r, d)
  \/ RequireDeviceAuth(r) \/ SelectTelemetry(r) \/ InsertTelemetry(r) \/ UpdateTelemetry(r)
  \/ UpsertTelemetry(r) \/ TouchHeartbeat(r) \/ FailReport(r)

Removing(a) ==
  \/ \E ids \in SUBSET Devices : RemoveMany(a, ids)
  \/ \E d \in Devices : SkipMissing(a, d) \/ DeleteRow(a, d) \/ FailDelete(a, d)
  \/ DeleteAgain(a) \/ AnswerRemoved(a)

Next ==
  \/ \E r \in Reports : Reporting(r)
  \/ \E a \in Removals : Removing(a)
  \/ \E ids \in SUBSET Devices : BlockMany(ids) \/ UnblockMany(ids)

Spec == Init /\ [][Next]_vars

-----------------------------------------------------------------------------
(* What makes the reports correct.                                           *)

\* Nothing of a deleted device comes back, whichever of its reports had been let
\* in before (remove() deletes a device "for good, with its telemetry"), and an
\* answered inventory "also counts as a check-in" (recordInventory).
NothingIsLeft ==
  /\ \A d \in Devices \ rows : telemetry[d] = NoRow /\ d \notin blocked /\ d \notin contacted
  /\ \A r \in Reports : report[r].pc = "ok" /\ report[r].kind # "patch" =>
       report[r].of \in contacted \/ report[r].of \notin rows

Patched(r) == report[r].pc = "ok" /\ report[r].kind = "patch"

\* A patch that read a row, or was answered, is of a device that still has one;
\* an inventory carries every fact; a patch is no check-in.
RowsAreKept ==
  \A r \in Reports :
    /\ report[r].pc # "idle" => report[r].of \in Devices
    /\ report[r].pc # "idle" /\ report[r].kind = "inventory" => report[r].facts = Facts
    /\ report[r].pc = "touch" => report[r].kind # "patch"
    /\ report[r].of \in rows /\ (report[r].read # NoRow \/ Patched(r)) => telemetry[report[r].of] # NoRow

\* What a removal has left to do, and what it gave up.
RemovalsAgree ==
  \A a \in Removals :
    /\ removal[a].ids \cap rows \subseteq removal[a].failed \cup removal[a].left
    /\ removal[a].pc \in {"idle", "ok"} => removal[a].left = {}

Inv == TypeOK /\ NothingIsLeft /\ RowsAreKept /\ RemovalsAgree

Acknowledged(r) == Patched(r) /\ report[r].of \in rows
Wrote(r)        == report[r].pc \in {"touch", "ok", "failed"}
Also(o, r)      == o # r /\ Wrote(o) /\ report[o].of = report[r].of

\* "only the groups present in patch are touched" (patchTelemetry): what a patch
\* was acknowledged for is stored until another report of the same group is
\* written, whatever reports of other groups do at the same time.
PatchIsKept ==
  \A r \in Reports : Acknowledged(r) =>
    \A f \in report[r].facts :
      \/ telemetry[report[r].of][f] = r
      \/ \E o \in Reports : Also(o, r) /\ Group(f) \in GroupsOf(o)

(***************************************************************************)
(* A field of a patched group is lost to a race only: what a patch has     *)
(* read of its groups stays what is stored until its UPDATE, unless another *)
(* report of one of these groups is written to the same device in between. *)
(* Patches of other groups, first reports, blocks and removals outdate no  *)
(* read (patchTelemetry, upsertTelemetry).                                 *)
(***************************************************************************)
ReadIsCurrent(r) ==
  report[r].pc = "write" /\ report[r].kind = "patch" /\ report[r].read # NoRow /\ report[r].of \in rows =>
    \A f \in Facts : Group(f) \in GroupsOf(r) => report[r].read[f] = telemetry[report[r].of][f]

OnlyRacesOutdate ==
  [][\A r \in Reports : ReadIsCurrent(r) /\ ~ReadIsCurrent(r)' =>
       \E o \in Reports \ {r} :
         /\ report[o].of = report[r].of /\ GroupsOf(o) \cap GroupsOf(r) # {}
         /\ UpdateTelemetry(o) \/ UpsertTelemetry(o)]_vars

\* A removal that was answered left none of its devices but those whose DELETE
\* failed: two removals of the same device, or a stale selection, do not stop it
\* (DeviceService.remove: "Idempotent").
RemovalIsComplete ==
  \A a \in Removals :
    removal[a].pc = "ok" => removal[a].ids \cap rows \subseteq removal[a].failed
=============================================================================
