------------------------- MODULE DeviceReportsProofs -------------------------
(***************************************************************************)
(* For any number of devices, reports, groups and removals: nothing of a   *)
(* deleted device comes back, an acknowledged patch is kept until another  *)
(* report of its group, and a removal leaves only what failed.             *)
(***************************************************************************)
EXTENDS DeviceReports, TLAPS

IInv == Inv /\ PatchIsKept

LEMMA RemovalFromInv == Inv => RemovalIsComplete
BY DEF Inv, RemovalsAgree, RemovalIsComplete

LEMMA IInvInit == Init => IInv
<1> SUFFICES ASSUME Init PROVE IInv
  OBVIOUS
<1> USE DEF Init
<1>1. Unsent \in Request /\ Unremoved \in Removal /\ Defaults \in Snapshot
  BY DEF Unsent, Unremoved, Request, Removal, Defaults, Snapshot
<1>2. TypeOK
  BY <1>1 DEF TypeOK
<1>3. \A r \in Reports : report[r] = Unsent
  OBVIOUS
<1>4. NothingIsLeft
  BY <1>3 DEF NothingIsLeft, Unsent
<1>5. RowsAreKept
  BY <1>3 DEF RowsAreKept, Patched, Unsent
<1>6. RemovalsAgree
  BY DEF RemovalsAgree, Unremoved
<1>7. PatchIsKept
  BY <1>3 DEF PatchIsKept, Acknowledged, Patched, Unsent
<1> QED BY <1>2, <1>4, <1>5, <1>6, <1>7 DEF IInv, Inv

\* A report moves on and stores no fact.
LEMMA Moves ==
  ASSUME IInv, NEW r \in Reports, NEW new \in Request,
         report' = [report EXCEPT ![r] = new],
         contacted \subseteq contacted', contacted' \subseteq rows,
         UNCHANGED <<rows, blocked, telemetry, removal>>,
         report[r].pc # "idle" => /\ new.of = report[r].of /\ new.kind = report[r].kind
                                  /\ new.facts = report[r].facts /\ new.empty = report[r].empty,
         new.pc # "idle" => new.of \in Devices,
         new.pc # "idle" /\ new.kind = "inventory" => new.facts = Facts,
         new.pc = "touch" => new.kind # "patch",
         Wrote(r) => new.pc \in {"touch", "ok", "failed"},
         new.pc = "ok" => new.of \in contacted' \/ new.of \notin rows,
         new.of \in rows /\ new.read # NoRow => telemetry[new.of] # NoRow,
         new.pc = "ok" /\ new.kind = "patch" => new.of \notin rows
  PROVE  IInv'
<1> USE DEF IInv, Inv
<1>1. TypeOK'
  BY DEF TypeOK
<1>2. report'[r] = new /\ \A o \in Reports : o # r => report'[o] = report[o]
  BY DEF TypeOK
<1>3. rows' = rows /\ blocked' = blocked /\ telemetry' = telemetry /\ removal' = removal
  OBVIOUS
<1>4. NothingIsLeft'
  <2>1. \A d \in Devices \ rows : telemetry[d] = NoRow /\ d \notin blocked /\ d \notin contacted'
    BY DEF NothingIsLeft
  <2>2. \A o \in Reports : report'[o].pc = "ok" /\ report'[o].kind # "patch" =>
          report'[o].of \in contacted' \/ report'[o].of \notin rows
    BY <1>2 DEF NothingIsLeft
  <2> QED BY <1>3, <2>1, <2>2 DEF NothingIsLeft
<1>5. RowsAreKept'
  BY <1>2, <1>3 DEF RowsAreKept, Patched
<1>6. RemovalsAgree'
  BY <1>3 DEF RemovalsAgree
<1>7. PatchIsKept'
  <2> SUFFICES ASSUME NEW c \in Reports, Acknowledged(c)', NEW f \in report'[c].facts
               PROVE  \/ telemetry[report'[c].of][f] = c
                      \/ \E o \in Reports : Also(o, c)' /\ Group(f) \in GroupsOf(o)'
    BY <1>3 DEF PatchIsKept
  <2>1. c # r /\ report'[c] = report[c] /\ Acknowledged(c)
    BY <1>2, <1>3 DEF Acknowledged, Patched
  <2>2. ASSUME NEW o \in Reports, Also(o, c), Group(f) \in GroupsOf(o)
        PROVE  Also(o, c)' /\ Group(f) \in GroupsOf(o)'
    <3>1. CASE o = r
      <4>1. report[r].pc # "idle" /\ Wrote(r)
        BY <2>2, <3>1 DEF Also, Wrote
      <4>2. new.of = report[r].of /\ new.facts = report[r].facts /\ new.empty = report[r].empty /\ Wrote(r)'
        BY <1>2, <4>1 DEF Wrote
      <4>3. GroupsOf(r)' = GroupsOf(r)
        BY <1>2, <4>2 DEF GroupsOf
      <4> QED BY <1>2, <2>1, <2>2, <3>1, <4>2, <4>3 DEF Also
    <3>2. CASE o # r
      <4>1. report'[o] = report[o]
        BY <1>2, <3>2
      <4> QED BY <2>1, <2>2, <4>1 DEF Also, Wrote, GroupsOf
    <3> QED BY <3>1, <3>2
  <2> QED BY <2>1, <2>2 DEF PatchIsKept
<1> QED BY <1>1, <1>4, <1>5, <1>6, <1>7

\* A report stores its facts, and changes no fact of another group.
LEMMA Stores ==
  ASSUME IInv, NEW r \in Reports, NEW d \in rows, NEW row \in Snapshot, NEW pc \in {"touch", "ok"},
         report[r].pc = "write", report[r].of = d, report[r].kind \in {"patch", "inventory"},
         pc = "touch" <=> report[r].kind = "inventory",
         telemetry' = [telemetry EXCEPT ![d] = row],
         report' = [report EXCEPT ![r].pc = pc],
         UNCHANGED <<rows, blocked, contacted, removal>>,
         \A f \in report[r].facts : row[f] = r,
         telemetry[d] # NoRow => \A f \in Facts : Group(f) \notin GroupsOf(r) => row[f] = telemetry[d][f]
  PROVE  IInv'
<1> USE DeviceReportsAssumption DEF IInv, Inv
<1>1. report[r] \in Request /\ d \in Devices
  BY DEF TypeOK
<1>2. [report[r] EXCEPT !.pc = pc] \in Request
  BY <1>1 DEF Request
<1>3. report' = [report EXCEPT ![r] = [report[r] EXCEPT !.pc = pc]]
  BY DEF TypeOK
<1>4. TypeOK'
  BY <1>1, <1>2, <1>3 DEF TypeOK
<1>5. /\ report'[r].pc = pc /\ report'[r].of = d /\ report'[r].facts = report[r].facts
      /\ report'[r].empty = report[r].empty
      /\ report'[r].kind = report[r].kind /\ report'[r].read = report[r].read
      /\ \A o \in Reports : o # r => report'[o] = report[o]
  BY <1>1, <1>3 DEF TypeOK, Request
<1>6. telemetry'[d] = row /\ \A e \in Devices : e # d => telemetry'[e] = telemetry[e]
  BY <1>1 DEF TypeOK
<1>7. row # NoRow
  BY DEF Snapshot, Facts
<1>8. rows' = rows /\ blocked' = blocked /\ contacted' = contacted /\ removal' = removal
  OBVIOUS
<1>9. NothingIsLeft'
  <2>1. \A e \in Devices \ rows : telemetry'[e] = NoRow /\ e \notin blocked /\ e \notin contacted
    BY <1>6 DEF NothingIsLeft
  <2>2. \A o \in Reports : report'[o].pc = "ok" /\ report'[o].kind # "patch" =>
          report'[o].of \in contacted \/ report'[o].of \notin rows
    BY <1>5 DEF NothingIsLeft
  <2> QED BY <1>8, <2>1, <2>2 DEF NothingIsLeft
<1>10. RowsAreKept'
  <2> SUFFICES ASSUME NEW o \in Reports
               PROVE  /\ report'[o].pc # "idle" => report'[o].of \in Devices
                      /\ report'[o].pc # "idle" /\ report'[o].kind = "inventory" => report'[o].facts = Facts
                      /\ report'[o].pc = "touch" => report'[o].kind # "patch"
                      /\ report'[o].of \in rows /\ (report'[o].read # NoRow \/ Patched(o)')
                           => telemetry'[report'[o].of] # NoRow
    BY <1>8 DEF RowsAreKept
  <2>1. CASE o = r
    BY <1>1, <1>5, <1>6, <1>7, <2>1 DEF RowsAreKept
  <2>2. CASE o # r
    <3>1. report'[o] = report[o] /\ (Patched(o)' <=> Patched(o))
      BY <1>5, <2>2 DEF Patched
    <3>2. report[o].of \in rows => report[o].of \in Devices
      BY DEF TypeOK
    <3> QED BY <1>6, <1>7, <3>1, <3>2 DEF RowsAreKept
  <2> QED BY <2>1, <2>2
<1>11. RemovalsAgree'
  BY <1>8 DEF RemovalsAgree
<1>12. PatchIsKept'
  <2> SUFFICES ASSUME NEW c \in Reports, Acknowledged(c)', NEW f \in report'[c].facts
               PROVE  \/ telemetry'[report'[c].of][f] = c
                      \/ \E o \in Reports : Also(o, c)' /\ Group(f) \in GroupsOf(o)'
    BY DEF PatchIsKept
  <2>1. GroupsOf(r)' = GroupsOf(r) /\ Wrote(r)'
    BY <1>5 DEF GroupsOf, Wrote
  <2>2. CASE c = r
    BY <1>5, <1>6, <2>2
  <2>3. CASE c # r
    <3>1. report'[c] = report[c] /\ Acknowledged(c) /\ f \in report[c].facts
      BY <1>5, <1>8, <2>3 DEF Acknowledged, Patched
    <3>2. ASSUME NEW o \in Reports, Also(o, c), Group(f) \in GroupsOf(o)
          PROVE  Also(o, c)' /\ Group(f) \in GroupsOf(o)'
      <4>1. o # r
        BY <3>2 DEF Also, Wrote
      <4>2. report'[o] = report[o]
        BY <1>5, <4>1
      <4> QED BY <3>1, <3>2, <4>2 DEF Also, Wrote, GroupsOf
    <3>3. CASE report[c].of = d /\ Group(f) \in GroupsOf(r)
      <4>1. Also(r, c)'
        BY <1>5, <2>1, <2>3, <3>1, <3>3 DEF Also
      <4> QED BY <2>1, <3>3, <4>1
    <3>4. CASE report[c].of = d /\ Group(f) \notin GroupsOf(r)
      <4>1. telemetry[d] # NoRow
        BY <3>1, <3>4 DEF RowsAreKept, Acknowledged
      <4>2. f \in Facts
        BY <3>1 DEF TypeOK, Request
      <4>3. telemetry'[d][f] = telemetry[d][f]
        BY <1>6, <3>4, <4>1, <4>2
      <4> QED BY <3>1, <3>2, <3>4, <4>3 DEF PatchIsKept
    <3>5. CASE report[c].of # d
      <4>1. telemetry'[report[c].of] = telemetry[report[c].of]
        BY <1>6, <3>1, <3>5 DEF Acknowledged, TypeOK
      <4> QED BY <3>1, <3>2, <4>1 DEF PatchIsKept
    <3> QED BY <3>3, <3>4, <3>5
  <2> QED BY <2>2, <2>3
<1> QED BY <1>4, <1>9, <1>10, <1>11, <1>12

\* A removal deletes a row, gives one up, or only moves on.
LEMMA Removes ==
  ASSUME IInv, NEW a \in Removals, NEW new \in Removal, NEW gone \in SUBSET rows,
         rows' = rows \ gone, blocked' = blocked \ gone, contacted' = contacted \ gone,
         telemetry' = [d \in Devices |-> IF d \in gone THEN NoRow ELSE telemetry[d]],
         removal' = [removal EXCEPT ![a] = new], UNCHANGED report,
         new.ids \cap rows' \subseteq new.failed \cup new.left,
         new.pc \in {"idle", "ok"} => new.left = {}
  PROVE  IInv'
<1> USE DEF IInv, Inv
<1>1. TypeOK'
  BY DEF TypeOK
<1>2. removal'[a] = new /\ \A b \in Removals : b # a => removal'[b] = removal[b]
  BY DEF TypeOK
<1>3. report' = report /\ rows' \subseteq rows /\ rows' \subseteq Devices /\ gone \subseteq Devices
  BY DEF TypeOK
<1>4. NothingIsLeft'
  <2>1. \A d \in Devices \ rows' : telemetry'[d] = NoRow /\ d \notin blocked' /\ d \notin contacted'
    BY DEF NothingIsLeft
  <2>2. \A o \in Reports : report[o].pc = "ok" /\ report[o].kind # "patch" =>
          report[o].of \in contacted' \/ report[o].of \notin rows'
    BY DEF NothingIsLeft
  <2> QED BY <1>3, <2>1, <2>2 DEF NothingIsLeft
<1>5. \A d \in rows' : telemetry'[d] = telemetry[d]
  BY <1>3
<1>6. RowsAreKept'
  <2>1. \A o : Patched(o)' <=> Patched(o)
    BY <1>3 DEF Patched
  <2> QED BY <1>3, <1>5, <2>1 DEF RowsAreKept
<1>7. RemovalsAgree'
  BY <1>2, <1>3 DEF RemovalsAgree
<1>8. PatchIsKept'
  <2> SUFFICES ASSUME NEW c \in Reports, Acknowledged(c)', NEW f \in report[c].facts
               PROVE  \/ telemetry'[report[c].of][f] = c
                      \/ \E o \in Reports : Also(o, c)' /\ Group(f) \in GroupsOf(o)'
    BY <1>3 DEF PatchIsKept
  <2>1. Acknowledged(c) /\ report[c].of \in rows'
    BY <1>3 DEF Acknowledged, Patched
  <2>2. \A o : (Also(o, c)' <=> Also(o, c)) /\ GroupsOf(o)' = GroupsOf(o)
    BY <1>3 DEF Also, Wrote, GroupsOf
  <2> QED BY <1>5, <2>1, <2>2 DEF PatchIsKept
<1> QED BY <1>1, <1>4, <1>6, <1>7, <1>8

LEMMA SendStep ==
  ASSUME IInv, NEW r \in Reports, NEW d \in Talking,
         SendPatch(r, d) \/ SendInventory(r, d) \/ SendHeartbeat(r, d)
  PROVE  IInv'
<1> USE DeviceReportsAssumption
<1>1. PICK kind \in {"patch", "inventory", "heartbeat"}, facts \in SUBSET Facts, empty \in SUBSET Groups :
        Send(r, d, kind, facts, empty) /\ (kind = "inventory" => facts = Facts)
  BY DEF SendPatch, SendInventory, SendHeartbeat
<1> DEFINE new == [pc |-> "auth", kind |-> kind, of |-> d, facts |-> facts, empty |-> empty, read |-> NoRow]
<1>2. new \in Request
  BY DEF Request
<1>3. report[r].pc = "idle" /\ report' = [report EXCEPT ![r] = new]
      /\ UNCHANGED <<rows, blocked, contacted, telemetry, removal>>
  BY <1>1 DEF Send
<1>4. ~Wrote(r)
  BY <1>3 DEF Wrote
<1>5. contacted \subseteq contacted' /\ contacted' \subseteq rows
  BY <1>3 DEF IInv, Inv, NothingIsLeft, TypeOK
<1>6. new.pc = "auth" /\ new.of = d /\ new.kind = kind /\ new.facts = facts /\ new.read = NoRow
  OBVIOUS
<1> HIDE DEF new
<1> QED BY <1>1, <1>2, <1>3, <1>4, <1>5, <1>6, Moves

\* A report is answered, or goes on, without a fact being stored.
LEMMA Answers ==
  ASSUME IInv, NEW r \in Reports, report[r].pc \in {"auth", "select", "write", "touch"},
         NEW pc \in {"select", "write", "touch", "ok", "refused", "failed"}, Answer(r, pc),
         contacted \subseteq contacted', contacted' \subseteq rows,
         UNCHANGED <<rows, blocked, telemetry, removal>>,
         report[r].pc = "touch" => pc \in {"ok", "failed"},
         pc = "touch" => report[r].kind # "patch",
         pc = "ok" => report[r].of \in contacted' \/ report[r].of \notin rows,
         pc = "ok" /\ report[r].kind = "patch" => report[r].of \notin rows
  PROVE  IInv'
<1> DEFINE new == [report[r] EXCEPT !.pc = pc]
<1>1. report[r] \in Request
  BY DEF IInv, Inv, TypeOK
<1>2. new \in Request
  BY <1>1 DEF Request
<1>3. new.pc = pc /\ new.read = report[r].read /\ new.of = report[r].of /\ new.kind = report[r].kind
      /\ new.facts = report[r].facts /\ new.empty = report[r].empty
  BY <1>1 DEF Request
<1>4. /\ report[r].of \in Devices
      /\ report[r].kind = "inventory" => report[r].facts = Facts
      /\ report[r].of \in rows /\ report[r].read # NoRow => telemetry[report[r].of] # NoRow
  BY DEF IInv, Inv, RowsAreKept
<1>5. Wrote(r) => pc \in {"ok", "failed"}
  BY DEF Wrote
<1>6. report' = [report EXCEPT ![r] = new]
  BY DEF Answer
<1> HIDE DEF new
<1>7. new.pc # "idle" => new.of \in Devices
  BY <1>3, <1>4
<1>8. new.pc # "idle" /\ new.kind = "inventory" => new.facts = Facts
  BY <1>3, <1>4
<1>9. Wrote(r) => new.pc \in {"touch", "ok", "failed"}
  BY <1>3, <1>5
<1>10. new.of \in rows /\ new.read # NoRow => telemetry[new.of] # NoRow
  BY <1>3, <1>4
<1> QED BY <1>2, <1>3, <1>6, <1>7, <1>8, <1>9, <1>10, Moves

\* What a report writes over a row.
LEMMA MergedFacts ==
  ASSUME NEW r \in Reports, report[r].facts \subseteq Facts,
         NEW base \in Snapshot, NEW stored \in Snapshot
  PROVE  /\ Merged(r, base, stored) \in Snapshot
         /\ \A f \in report[r].facts : Merged(r, base, stored)[f] = r
         /\ \A f \in Facts : Group(f) \notin GroupsOf(r) => Merged(r, base, stored)[f] = stored[f]
<1>1. \A f \in Facts : base[f] \in Reports \cup {Default} /\ stored[f] \in Reports \cup {Default}
  BY DEF Snapshot
<1>2. Merged(r, base, stored) \in Snapshot
  BY <1>1 DEF Merged, Snapshot
<1>3. \A f \in report[r].facts : Merged(r, base, stored)[f] = r
  BY DEF Merged
<1>4. ASSUME NEW f \in Facts, Group(f) \notin GroupsOf(r) PROVE Merged(r, base, stored)[f] = stored[f]
  <2>1. f \notin report[r].facts
    BY <1>4 DEF GroupsOf
  <2> QED BY <1>4, <2>1 DEF Merged
<1> QED BY <1>2, <1>3, <1>4

LEMMA InsertStep ==
  ASSUME IInv, NEW r \in Reports, InsertTelemetry(r) \/ UpsertTelemetry(r)
  PROVE  IInv'
<1> DEFINE pc == IF report[r].kind = "inventory" THEN "touch" ELSE "ok"
           row == Merged(r, Defaults, Defaults)
<1>1. report[r].pc = "write" /\ report[r].kind \in {"patch", "inventory"}
  BY DEF InsertTelemetry, UpsertTelemetry
<1>2. report[r].facts \subseteq Facts /\ contacted \subseteq rows
  BY DEF IInv, Inv, TypeOK, Request, NothingIsLeft
<1>3. Defaults \in Snapshot
  BY DEF Defaults, Snapshot
<1>4. /\ row \in Snapshot
      /\ \A f \in report[r].facts : row[f] = r
      /\ \A f \in Facts : Group(f) \notin GroupsOf(r) => row[f] = Defaults[f]
  BY <1>2, <1>3, MergedFacts
<1>5. rows' = rows /\ blocked' = blocked /\ contacted' = contacted /\ removal' = removal
  BY DEF InsertTelemetry, UpsertTelemetry
<1> HIDE DEF row
<1>6. CASE Answer(r, "failed") /\ telemetry' = telemetry
  BY <1>1, <1>2, <1>5, <1>6, Answers
<1>7. CASE /\ report[r].of \in rows /\ telemetry' = [telemetry EXCEPT ![report[r].of] = row] /\ Answer(r, pc)
           /\ report[r].kind = "patch" => telemetry[report[r].of] = NoRow
  <2>1. \A f \in Facts : Group(f) \notin GroupsOf(r) => telemetry[report[r].of] = NoRow
    <3>1. report[r].kind = "inventory" => report[r].facts = Facts
      BY <1>1 DEF IInv, Inv, RowsAreKept
    <3> QED BY <1>1, <1>7, <3>1 DEF GroupsOf
  <2>2. pc \in {"touch", "ok"} /\ (pc = "touch" <=> report[r].kind = "inventory")
    OBVIOUS
  <2>3. report' = [report EXCEPT ![r].pc = pc]
    BY <1>7 DEF Answer
  <2> HIDE DEF pc
  <2> QED BY <1>1, <1>4, <1>5, <1>7, <2>1, <2>2, <2>3, Stores
<1> QED BY <1>6, <1>7 DEF InsertTelemetry, UpsertTelemetry, row

LEMMA UpdateStep ==
  ASSUME IInv, NEW r \in Reports, UpdateTelemetry(r)
  PROVE  IInv'
<1> DEFINE d == report[r].of
           row == Merged(r, report[r].read, telemetry[d])
<1>1. report[r].pc = "write" /\ report[r].kind = "patch" /\ report[r].read # NoRow /\ Answer(r, "ok")
  BY DEF UpdateTelemetry
<1>2. rows' = rows /\ blocked' = blocked /\ contacted' = contacted /\ removal' = removal
  BY DEF UpdateTelemetry
<1>3. d \in Devices /\ (d \in rows <=> telemetry[d] # NoRow)
  BY <1>1 DEF IInv, Inv, RowsAreKept, NothingIsLeft
<1>4. contacted \subseteq rows /\ report[r].facts \subseteq Facts /\ report[r].read \in Snapshot
  BY <1>1 DEF IInv, Inv, TypeOK, Request, NothingIsLeft
<1>5. CASE telemetry[d] = NoRow
  <2>1. telemetry' = telemetry /\ d \notin rows
    BY <1>3, <1>5 DEF UpdateTelemetry
  <2> QED BY <1>1, <1>2, <1>4, <2>1, Answers
<1>6. CASE telemetry[d] # NoRow
  <2>1. telemetry[d] \in Snapshot /\ d \in rows
    BY <1>3, <1>6 DEF IInv, Inv, TypeOK
  <2>2. /\ row \in Snapshot
        /\ \A f \in report[r].facts : row[f] = r
        /\ \A f \in Facts : Group(f) \notin GroupsOf(r) => row[f] = telemetry[d][f]
    BY <1>4, <2>1, MergedFacts
  <2>3. telemetry' = [telemetry EXCEPT ![d] = row]
    BY <1>6 DEF UpdateTelemetry
  <2>4. report' = [report EXCEPT ![r].pc = "ok"]
    BY <1>1 DEF Answer
  <2> HIDE DEF row
  <2> QED BY <1>1, <1>2, <2>1, <2>2, <2>3, <2>4, Stores
<1> QED BY <1>5, <1>6

LEMMA SelectStep ==
  ASSUME IInv, NEW r \in Reports, SelectTelemetry(r)
  PROVE  IInv'
<1> DEFINE new == [report[r] EXCEPT !.pc = "write", !.read = telemetry[report[r].of]]
<1>1. report[r].pc = "select" /\ rows' = rows /\ blocked' = blocked /\ contacted' = contacted
      /\ telemetry' = telemetry /\ removal' = removal
  BY DEF SelectTelemetry
<1>2. report[r] \in Request /\ contacted \subseteq rows /\ report[r].of \in Devices
  BY <1>1 DEF IInv, Inv, TypeOK, NothingIsLeft, RowsAreKept
<1>3. telemetry[report[r].of] \in Snapshot \cup {NoRow}
  BY <1>2 DEF IInv, Inv, TypeOK
<1>4. new \in Request
  BY <1>2, <1>3 DEF Request
<1>5. new.pc = "write" /\ new.of = report[r].of /\ new.kind = report[r].kind
      /\ new.facts = report[r].facts /\ new.empty = report[r].empty /\ new.read = telemetry[report[r].of]
  BY <1>2 DEF Request
<1>6. report[r].kind = "inventory" => report[r].facts = Facts
  BY <1>1 DEF IInv, Inv, RowsAreKept
<1>7. report' = [report EXCEPT ![r] = new]
  BY <1>2 DEF SelectTelemetry, IInv, Inv, TypeOK, Request
<1>8. ~Wrote(r)
  BY <1>1 DEF Wrote
<1> HIDE DEF new
<1> QED BY <1>1, <1>2, <1>4, <1>5, <1>6, <1>7, <1>8, Moves

LEMMA ReportStep ==
  ASSUME IInv, NEW r \in Reports, Reporting(r)
  PROVE  IInv'
<1>1. contacted \subseteq rows /\ report[r].kind \in {"patch", "inventory", "heartbeat"}
  BY DEF IInv, Inv, TypeOK, NothingIsLeft, Request
<1>2. ASSUME NEW d \in Talking, SendPatch(r, d) \/ SendInventory(r, d) \/ SendHeartbeat(r, d) PROVE IInv'
  BY <1>2, SendStep
<1>3. CASE RequireDeviceAuth(r)
  <2>1. PICK pc \in {"select", "write", "touch", "refused"} :
          Answer(r, pc) /\ (pc = "touch" => report[r].kind # "patch")
    BY <1>1, <1>3 DEF RequireDeviceAuth, Answer
  <2>2. report[r].pc = "auth" /\ rows' = rows /\ blocked' = blocked /\ contacted' = contacted
        /\ telemetry' = telemetry /\ removal' = removal
    BY <1>3 DEF RequireDeviceAuth
  <2> QED BY <1>1, <2>1, <2>2, Answers
<1>4. CASE FailReport(r)
  <2>1. rows' = rows /\ blocked' = blocked /\ contacted' = contacted /\ telemetry' = telemetry /\ removal' = removal
    BY <1>4 DEF FailReport
  <2>2. CASE report[r].pc = "auth"
    <3>1. Answer(r, "refused")
      BY <1>4, <2>2 DEF FailReport
    <3> QED BY <1>1, <2>1, <2>2, <3>1, Answers
  <2>3. CASE report[r].pc # "auth"
    <3>1. Answer(r, "failed") /\ report[r].pc \in {"select", "write", "touch"}
      BY <1>4, <2>3 DEF FailReport
    <3> QED BY <1>1, <2>1, <3>1, Answers
  <2> QED BY <2>2, <2>3
<1>5. CASE TouchHeartbeat(r)
  <2>1. report[r].pc = "touch" /\ Answer(r, "ok") /\ rows' = rows /\ blocked' = blocked
        /\ telemetry' = telemetry /\ removal' = removal
    BY <1>5 DEF TouchHeartbeat
  <2>2. contacted' = contacted \cup ({report[r].of} \cap rows)
    BY <1>5 DEF TouchHeartbeat
  <2>3. report[r].kind # "patch"
    BY <2>1 DEF IInv, Inv, RowsAreKept
  <2>4. contacted \subseteq contacted' /\ contacted' \subseteq rows
        /\ (report[r].of \in contacted' \/ report[r].of \notin rows)
    BY <1>1, <2>2
  <2> QED BY <2>1, <2>3, <2>4, Answers
<1> QED BY <1>2, <1>3, <1>4, <1>5, SelectStep, InsertStep, UpdateStep DEF Reporting

LEMMA RemovalStep ==
  ASSUME IInv, NEW a \in Removals, Removing(a)
  PROVE  IInv'
<1>1. /\ removal[a] \in Removal /\ telemetry \in [Devices -> Snapshot \cup {NoRow}]
      /\ removal[a].ids \cap rows \subseteq removal[a].failed \cup removal[a].left
      /\ removal[a].pc \in {"idle", "ok"} => removal[a].left = {}
  BY DEF IInv, Inv, TypeOK, RemovalsAgree
\* Only DeleteRow changes more than the removal.
<1>2. ASSUME NEW new \in Removal, removal' = [removal EXCEPT ![a] = new],
             UNCHANGED <<rows, blocked, contacted, telemetry, report>>,
             new.ids \cap rows \subseteq new.failed \cup new.left,
             new.pc \in {"idle", "ok"} => new.left = {}
      PROVE  IInv'
  <2>1. {} \in SUBSET rows /\ rows' = rows \ {} /\ blocked' = blocked \ {} /\ contacted' = contacted \ {}
    BY <1>2
  <2>2. telemetry' = [d \in Devices |-> IF d \in {} THEN NoRow ELSE telemetry[d]]
    BY <1>1, <1>2
  <2>3. report' = report /\ new.ids \cap rows' \subseteq new.failed \cup new.left
    BY <1>2
  <2> QED BY <1>2, <2>1, <2>2, <2>3, Removes
<1>3. ASSUME NEW ids \in SUBSET Devices, RemoveMany(a, ids) PROVE IInv'
  <2> DEFINE new == [Unremoved EXCEPT !.pc = "deleting", !.ids = ids, !.left = ids]
  <2>1. new \in Removal /\ new.pc = "deleting" /\ new.ids = ids /\ new.left = ids
    BY DEF Removal, Unremoved
  <2>2. removal' = [removal EXCEPT ![a] = new] /\ UNCHANGED <<rows, blocked, contacted, telemetry, report>>
    BY <1>3 DEF RemoveMany
  <2> HIDE DEF new
  <2> QED BY <1>2, <2>1, <2>2
<1>4. ASSUME NEW d \in Devices, SkipMissing(a, d) PROVE IInv'
  <2> DEFINE new == [removal[a] EXCEPT !.left = @ \ {d}]
  <2>1. new \in Removal /\ new.pc = "deleting" /\ new.ids = removal[a].ids
        /\ new.left = removal[a].left \ {d} /\ new.failed = removal[a].failed
    BY <1>1, <1>4 DEF Removal, SkipMissing
  <2>2. removal' = [removal EXCEPT ![a] = new] /\ d \notin rows
        /\ UNCHANGED <<rows, blocked, contacted, telemetry, report>>
    BY <1>4 DEF SkipMissing
  <2> HIDE DEF new
  <2> QED BY <1>1, <1>2, <2>1, <2>2
<1>5. ASSUME NEW d \in Devices, DeleteRow(a, d) PROVE IInv'
  <2> DEFINE new == [removal[a] EXCEPT !.pc = "again", !.left = @ \ {d}, !.current = d]
  <2>1. new \in Removal /\ new.pc = "again" /\ new.ids = removal[a].ids
        /\ new.left = removal[a].left \ {d} /\ new.failed = removal[a].failed
    BY <1>1 DEF Removal
  <2>2. removal' = [removal EXCEPT ![a] = new]
    BY <1>5 DEF DeleteRow
  <2>3. /\ {d} \in SUBSET rows /\ report' = report
        /\ rows' = rows \ {d} /\ blocked' = blocked \ {d} /\ contacted' = contacted \ {d}
    BY <1>5 DEF DeleteRow
  <2>4. telemetry' = [e \in Devices |-> IF e \in {d} THEN NoRow ELSE telemetry[e]]
    BY <1>1, <1>5 DEF DeleteRow
  <2> HIDE DEF new
  <2>5. new.ids \cap rows' \subseteq new.failed \cup new.left
    BY <1>1, <2>1, <2>3
  <2> QED BY <2>1, <2>2, <2>3, <2>4, <2>5, Removes
<1>6. CASE DeleteAgain(a)
  <2> DEFINE new == [removal[a] EXCEPT !.pc = "deleting", !.current = NoDevice]
  <2>1. new \in Removal /\ new.pc = "deleting" /\ new.ids = removal[a].ids
        /\ new.left = removal[a].left /\ new.failed = removal[a].failed
    BY <1>1 DEF Removal
  <2>2. removal' = [removal EXCEPT ![a] = new] /\ UNCHANGED <<rows, blocked, contacted, telemetry, report>>
    BY <1>6 DEF DeleteAgain
  <2> HIDE DEF new
  <2> QED BY <1>1, <1>2, <2>1, <2>2
<1>7. ASSUME NEW d \in Devices, FailDelete(a, d) PROVE IInv'
  <2> DEFINE new == [removal[a] EXCEPT !.pc = "deleting", !.current = NoDevice,
                                       !.left = @ \ {d}, !.failed = @ \cup {d}]
  <2>1. new \in Removal /\ new.pc = "deleting" /\ new.ids = removal[a].ids
        /\ new.left = removal[a].left \ {d} /\ new.failed = removal[a].failed \cup {d}
    BY <1>1 DEF Removal
  <2>2. removal' = [removal EXCEPT ![a] = new] /\ UNCHANGED <<rows, blocked, contacted, telemetry, report>>
    BY <1>7 DEF FailDelete
  <2> HIDE DEF new
  <2> QED BY <1>1, <1>2, <2>1, <2>2
<1>8. CASE AnswerRemoved(a)
  <2> DEFINE new == [removal[a] EXCEPT !.pc = "ok"]
  <2>1. new \in Removal /\ new.ids = removal[a].ids /\ new.left = {} /\ new.failed = removal[a].failed
    BY <1>1, <1>8 DEF Removal, AnswerRemoved
  <2>2. removal' = [removal EXCEPT ![a] = new] /\ removal[a].left = {}
        /\ UNCHANGED <<rows, blocked, contacted, telemetry, report>>
    BY <1>8 DEF AnswerRemoved
  <2> HIDE DEF new
  <2> QED BY <1>1, <1>2, <2>1, <2>2
<1> QED BY <1>3, <1>4, <1>5, <1>6, <1>7, <1>8 DEF Removing

LEMMA BlockStep ==
  ASSUME IInv, NEW ids \in SUBSET Devices, BlockMany(ids) \/ UnblockMany(ids)
  PROVE  IInv'
<1> USE DEF IInv, Inv
<1>1. rows' = rows /\ contacted' = contacted /\ telemetry' = telemetry /\ report' = report /\ removal' = removal
  BY DEF BlockMany, UnblockMany
<1>2. blocked' \subseteq blocked \cup rows
  BY DEF BlockMany, UnblockMany
<1>3. TypeOK'
  BY <1>1, <1>2 DEF TypeOK
<1>4. NothingIsLeft'
  BY <1>1, <1>2 DEF NothingIsLeft
<1>5. RowsAreKept'
  BY <1>1 DEF RowsAreKept, Patched
<1>6. RemovalsAgree'
  BY <1>1 DEF RemovalsAgree
<1>7. PatchIsKept'
  BY <1>1 DEF PatchIsKept, Acknowledged, Patched, Also, Wrote, GroupsOf
<1> QED BY <1>3, <1>4, <1>5, <1>6, <1>7

LEMMA StutterStep ==
  ASSUME IInv, UNCHANGED vars
  PROVE  IInv'
BY DEF vars, IInv, Inv, TypeOK, NothingIsLeft, RowsAreKept, RemovalsAgree, PatchIsKept,
       Acknowledged, Patched, Also, Wrote, GroupsOf

LEMMA AlwaysIInv == Spec => []IInv
<1>1. IInv /\ [Next]_vars => IInv'
  BY ReportStep, RemovalStep, BlockStep, StutterStep DEF Next
<1> QED BY IInvInit, <1>1, PTL DEF Spec

\* Nothing of a deleted device comes back, and an answered check-in is recorded.
THEOREM Invariance == Spec => []Inv
<1>1. IInv => Inv
  BY DEF IInv
<1> QED BY <1>1, AlwaysIInv, PTL

\* "only the groups present in patch are touched" (patchTelemetry).
THEOREM PatchesAreKept == Spec => []PatchIsKept
<1>1. IInv => PatchIsKept
  BY DEF IInv
<1> QED BY <1>1, AlwaysIInv, PTL

\* A removal that was answered left only the devices whose DELETE failed.
THEOREM RemovalsAreComplete == Spec => []RemovalIsComplete
BY Invariance, RemovalFromInv, PTL

-----------------------------------------------------------------------------
(* What a patch has read, until it is merged.                                *)

\* A patch gets to its write by its SELECT, and no other report moves it.
LEMMA Reading ==
  ASSUME IInv, [Next]_vars, NEW r \in Reports, report'[r].pc = "write", report'[r].kind = "patch"
  PROVE  report'[r] = report[r] \/ SelectTelemetry(r)
<1>1. report \in [Reports -> Request]
  BY DEF IInv, Inv, TypeOK
<1>2. ASSUME NEW o \in Reports, Reporting(o), o # r
      PROVE  report'[r] = report[r]
  BY <1>1, <1>2 DEF Reporting, SendPatch, SendInventory, SendHeartbeat, Send, RequireDeviceAuth, SelectTelemetry,
     InsertTelemetry, UpdateTelemetry, UpsertTelemetry, TouchHeartbeat, FailReport, Answer
<1>3. CASE Reporting(r)
  <2>1. CASE \E d \in Talking : SendPatch(r, d) \/ SendInventory(r, d) \/ SendHeartbeat(r, d)
    BY <1>1, <2>1 DEF SendPatch, SendInventory, SendHeartbeat, Send
  <2>2. CASE RequireDeviceAuth(r)
    BY <1>1, <2>2 DEF RequireDeviceAuth, Request
  <2>3. CASE InsertTelemetry(r) \/ UpdateTelemetry(r) \/ UpsertTelemetry(r) \/ TouchHeartbeat(r) \/ FailReport(r)
    <3>1. \E pc \in {"ok", "failed", "touch", "refused"} : Answer(r, pc)
      BY <2>3 DEF InsertTelemetry, UpdateTelemetry, UpsertTelemetry, TouchHeartbeat, FailReport
    <3> QED BY <1>1, <3>1 DEF Answer, Request
  <2> QED BY <1>3, <2>1, <2>2, <2>3 DEF Reporting
<1>4. ASSUME NEW a \in Removals, Removing(a)
      PROVE  report' = report
  BY <1>4 DEF Removing, RemoveMany, SkipMissing, DeleteRow, FailDelete, DeleteAgain, AnswerRemoved
<1>5. ASSUME NEW ids \in SUBSET Devices, BlockMany(ids) \/ UnblockMany(ids)
      PROVE  report' = report
  BY <1>5 DEF BlockMany, UnblockMany
<1> QED BY <1>2, <1>3, <1>4, <1>5 DEF Next, vars

\* The row of a device that keeps one is written by an UPDATE or an upsert.
LEMMA Written ==
  ASSUME IInv, [Next]_vars, NEW d \in Devices, d \in rows', telemetry[d] # NoRow, telemetry'[d] # telemetry[d]
  PROVE  d \in rows /\ \E o \in Reports : report[o].of = d /\ (UpdateTelemetry(o) \/ UpsertTelemetry(o))
<1>1. telemetry \in [Devices -> Snapshot \cup {NoRow}]
  BY DEF IInv, Inv, TypeOK
<1>2. ASSUME NEW o \in Reports, Reporting(o)
      PROVE  rows' = rows /\ report[o].of = d /\ (UpdateTelemetry(o) \/ UpsertTelemetry(o))
  BY <1>1, <1>2 DEF Reporting, SendPatch, SendInventory, SendHeartbeat, Send, RequireDeviceAuth, SelectTelemetry,
     InsertTelemetry, UpdateTelemetry, UpsertTelemetry, TouchHeartbeat, FailReport
<1>3. ASSUME NEW a \in Removals, Removing(a)
      PROVE  FALSE
  BY <1>1, <1>3 DEF Removing, RemoveMany, SkipMissing, DeleteRow, FailDelete, DeleteAgain, AnswerRemoved
<1>4. ASSUME NEW ids \in SUBSET Devices, BlockMany(ids) \/ UnblockMany(ids)
      PROVE  FALSE
  BY <1>4 DEF BlockMany, UnblockMany
<1> QED BY <1>2, <1>3, <1>4 DEF Next, vars

LEMMA OutdatedBy ==
  ASSUME IInv, [Next]_vars, NEW r \in Reports, ReadIsCurrent(r), ~ReadIsCurrent(r)'
  PROVE  \E o \in Reports \ {r} :
           /\ report[o].of = report[r].of /\ GroupsOf(o) \cap GroupsOf(r) # {}
           /\ UpdateTelemetry(o) \/ UpsertTelemetry(o)
<1>1. /\ report \in [Reports -> Request] /\ telemetry \in [Devices -> Snapshot \cup {NoRow}] /\ rows \subseteq Devices
      /\ report[r].of \in rows /\ report[r].read # NoRow => telemetry[report[r].of] # NoRow
  BY DEF IInv, Inv, TypeOK, RowsAreKept
<1>2. /\ report'[r].pc = "write" /\ report'[r].kind = "patch" /\ report'[r].read # NoRow /\ report'[r].of \in rows'
      /\ \E f \in Facts : /\ f \in Facts /\ Group(f) \in report'[r].empty \cup {Group(g) : g \in report'[r].facts}
                         /\ report'[r].read[f] # telemetry'[report'[r].of][f]
  BY DEF ReadIsCurrent, GroupsOf
<1>3. CASE SelectTelemetry(r)
  BY <1>1, <1>2, <1>3 DEF SelectTelemetry, Request
<1>4. CASE report'[r] = report[r]
  <2> DEFINE d == report[r].of
  <2>1. PICK f \in Facts : Group(f) \in GroupsOf(r) /\ report[r].read[f] # telemetry'[d][f]
    BY <1>2, <1>4 DEF GroupsOf
  <2>2. d \in rows'
    BY <1>2, <1>4
  <2>3. rows' \subseteq rows
    <3>1. ASSUME NEW o \in Reports, Reporting(o) PROVE rows' = rows
      BY <3>1 DEF Reporting, SendPatch, SendInventory, SendHeartbeat, Send, RequireDeviceAuth, SelectTelemetry,
         InsertTelemetry, UpdateTelemetry, UpsertTelemetry, TouchHeartbeat, FailReport
    <3>2. ASSUME NEW a \in Removals, Removing(a) PROVE rows' \subseteq rows
      BY <3>2 DEF Removing, RemoveMany, SkipMissing, DeleteRow, FailDelete, DeleteAgain, AnswerRemoved
    <3>3. ASSUME NEW ids \in SUBSET Devices, BlockMany(ids) \/ UnblockMany(ids) PROVE rows' = rows
      BY <3>3 DEF BlockMany, UnblockMany
    <3> QED BY <3>1, <3>2, <3>3 DEF Next, vars
  <2>4. d \in Devices /\ telemetry[d] # NoRow /\ telemetry'[d][f] # telemetry[d][f]
    BY <1>1, <1>2, <1>4, <2>1, <2>2, <2>3 DEF ReadIsCurrent
  <2>5. PICK o \in Reports : report[o].of = d /\ (UpdateTelemetry(o) \/ UpsertTelemetry(o))
    BY <2>2, <2>4, Written
  <2>6. o # r
    BY <1>1, <1>4, <2>5 DEF UpdateTelemetry, UpsertTelemetry, Answer, Request
  <2>7. Group(f) \in GroupsOf(o)
    <3>1. CASE UpsertTelemetry(o)
      <4>1. report[o].facts = Facts
        BY <3>1 DEF UpsertTelemetry, IInv, Inv, RowsAreKept
      <4> QED BY <4>1 DEF GroupsOf
    <3>2. CASE UpdateTelemetry(o)
      <4>1. report[o].facts \subseteq Facts /\ report[o].read \in Snapshot /\ telemetry[d] \in Snapshot
        BY <1>1, <2>4, <3>2 DEF UpdateTelemetry, Request
      <4>2. telemetry'[d] = Merged(o, report[o].read, telemetry[d])
        BY <1>1, <2>4, <2>5, <3>2 DEF UpdateTelemetry
      <4> QED BY <2>4, <4>1, <4>2, MergedFacts
    <3> QED BY <2>5, <3>1, <3>2
  <2> QED BY <2>1, <2>5, <2>6, <2>7
<1> QED BY <1>2, <1>3, <1>4, Reading

(***************************************************************************)
(* The merge of patchTelemetry loses a field to a race only: for any       *)
(* number of requests, groups and removals.                                *)
(***************************************************************************)
THEOREM LostFieldsNeedARace == Spec => OnlyRacesOutdate
<1>1. IInv /\ [Next]_vars =>
        [\A r \in Reports : ReadIsCurrent(r) /\ ~ReadIsCurrent(r)' =>
           \E o \in Reports \ {r} :
             /\ report[o].of = report[r].of /\ GroupsOf(o) \cap GroupsOf(r) # {}
             /\ UpdateTelemetry(o) \/ UpsertTelemetry(o)]_vars
  BY OutdatedBy
<1> QED BY <1>1, AlwaysIInv, PTL DEF Spec, OnlyRacesOutdate
=============================================================================
