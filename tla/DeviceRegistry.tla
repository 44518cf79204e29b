--------------------------- MODULE DeviceRegistry ---------------------------
(***************************************************************************)
(* What the registry of devices promises: an enrollment is accepted or     *)
(* refused at one point, whatever runs next to it.  Accepted, it either    *)
(* adds a device whose androidId nobody has, with its public key pinned,   *)
(* or renews one that had pinned that very key.  A pinned key is never     *)
(* replaced.  Enrollment is shown to implement this specification.         *)
(***************************************************************************)
CONSTANTS Ids, Androids, NoAndroid, Keys, NoDevice

VARIABLES
  row,       \* the committed rows of devices: [android, key], or NoDevice
  accepted   \* the enrollments accepted so far: who, with which key, for which row

registryVars == <<row, accepted>>

Device == [android : Androids \cup {NoAndroid}, key : Keys]

\* The unique constraint of android_id, where NULLs are distinct.
Free(x, except) ==
  x = NoAndroid \/ \A d \in Ids \ {except} : row[d] = NoDevice \/ row[d].android # x

Accept(a, k, d) ==
  /\ \A e \in accepted : e.by # a
  /\ accepted' = accepted \cup {[by |-> a, key |-> k, device |-> d]}

Init == row = [d \in Ids |-> NoDevice] /\ accepted = {}

Register(a, x, k) ==
  /\ row[a] = NoDevice
  /\ Free(x, a)
  /\ row' = [row EXCEPT ![a] = [android |-> x, key |-> k]]
  /\ Accept(a, k, a)

Renew(a, d) ==
  /\ row[d] # NoDevice
  /\ Accept(a, row[d].key, d)
  /\ UNCHANGED row

Edit(d, x) ==
  /\ row[d] # NoDevice
  /\ Free(x, d)
  /\ row' = [row EXCEPT ![d].android = x]
  /\ UNCHANGED accepted

Remove(d) ==
  /\ row[d] # NoDevice
  /\ row' = [row EXCEPT ![d] = NoDevice]
  /\ UNCHANGED accepted

Next ==
  \/ \E a \in Ids, x \in Androids \cup {NoAndroid}, k \in Keys : Register(a, x, k)
  \/ \E a \in Ids, d \in Ids : Renew(a, d)
  \/ \E d \in Ids, x \in Androids \cup {NoAndroid} : Edit(d, x)
  \/ \E d \in Ids : Remove(d)

Spec == Init /\ [][Next]_registryVars
=============================================================================
