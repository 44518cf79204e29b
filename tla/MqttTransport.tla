--------------------------- MODULE MqttTransport ---------------------------
(***************************************************************************)
(* The messages in transit between the API and one enrolled device, and    *)
(* the two MQTT connections that carry them.  The broker (EMQX) and the    *)
(* client libraries (mqtt.js, HiveMQ) are not part of the sources: they    *)
(* are modelled from how lib/mqtt.ts and DeviceMqttGateway.kt use them -   *)
(* QoS 1 publishes, persistent sessions on both sides (clean: false,       *)
(* cleanStart(false)), a retained status with a Last Will.                 *)
(*                                                                         *)
(* QoS 1 keeps no order between a redelivered message and a new one, and   *)
(* the API handles messages concurrently, so a channel is a bag (commands) *)
(* or a set (acks, statuses) and not a queue.                              *)
(***************************************************************************)
EXTENDS Naturals

CONSTANTS
  Commands,    \* the ids of the rows of device_commands
  Refreshes,   \* those created by refresh(); the others come from create()
  NoCommand,
  MaxCopies,   \* bound: copies of one command in transit that are told apart
  FaultKinds,  \* bound: the kinds of fault that happen, among AllFaults
  MaxFaults    \* bound: how many of them

AllFaults == {"api drop", "api crash", "api subscribe", "sql error",
              "device drop", "device crash", "device subscribe", "loss", "duplicate"}

ASSUME TransportAssumption ==
  /\ FaultKinds \subseteq AllFaults
  /\ Refreshes \subseteq Commands /\ NoCommand \notin Commands
  /\ MaxCopies \in Nat \ {0} /\ MaxFaults \in Nat

VARIABLES
  commandsTopic,  \* mdm/devices/{id}/commands: copies sent and not yet delivered
  acksTopic,      \* mdm/devices/{id}/acks: acks sent and not yet applied
  statusTopic,    \* mdm/devices/{id}/status: presence not yet handled
  apiConnected,   \* mqttGateway.connected, in the API
  link,           \* the device's MQTT connection is up
  faults          \* faults that have happened so far, at most MaxFaults

transportVars == <<commandsTopic, acksTopic, statusTopic, apiConnected, link, faults>>

AckStatus == {"acknowledged", "succeeded", "failed"}
Ack       == [id : Commands, status : AckStatus]
Presence  == {"online", "offline"}

TransportTypeOK ==
  /\ commandsTopic \in [Commands -> 0..MaxCopies]
  /\ acksTopic \subseteq Ack
  /\ statusTopic \subseteq Presence
  /\ apiConnected \in BOOLEAN
  /\ link \in BOOLEAN
  /\ faults \in 0..MaxFaults

\* Both sides connected, nothing in transit: a fault is what takes them apart.
TransportInit ==
  /\ commandsTopic = [c \in Commands |-> 0]
  /\ acksTopic = {}
  /\ statusTopic = {}
  /\ apiConnected = TRUE
  /\ link = TRUE
  /\ faults = 0

Fault(kind) == kind \in FaultKinds /\ faults < MaxFaults /\ faults' = faults + 1

AddCopy(c)  == [commandsTopic EXCEPT ![c] = IF @ < MaxCopies THEN @ + 1 ELSE @]
TakeCopy(c) == [commandsTopic EXCEPT ![c] = @ - 1]

(***************************************************************************)
(* publishJson: FALSE at once while the client is not connected.  While it *)
(* is, mqtt.js keeps the QoS 1 message until its PUBACK and sends it again *)
(* after a reconnection, also when the 5 s timer wins the race and the     *)
(* caller is told FALSE.                                                   *)
(***************************************************************************)
PublishJson(c, published) ==
  \/ ~apiConnected /\ published = FALSE /\ UNCHANGED commandsTopic
  \/ apiConnected /\ published \in BOOLEAN /\ commandsTopic' = AddCopy(c)

\* The status the broker retains: the Last Will replaces it when the link falls.
RetainedStatus == IF link THEN "online" ELSE "offline"

\* Broker: the session of an absent device expired or its queue was full.
LoseQueued(c) ==
  /\ ~link
  /\ commandsTopic[c] > 0
  /\ Fault("loss")
  /\ commandsTopic' = TakeCopy(c)
  /\ UNCHANGED <<acksTopic, statusTopic, apiConnected, link>>
=============================================================================
