--------------------------- MODULE AgentEnrollment ---------------------------
(***************************************************************************)
(* Enrollment on the agent: the WorkManager job (EnrollWorker), the screen *)
(* (AgentViewModel) and the USB intent (UsbEnrollmentHandler), which run   *)
(* performEnrollment() in one process over one keystore and one store of   *)
(* preferences, and may be cancelled or killed at any point.               *)
(*                                                                         *)
(* An attempt is a coroutine: a cancellation only takes effect where it    *)
(* suspends, at its three HTTP calls.  apply() writes the preferences to   *)
(* memory at once and to disk later; the job is persisted by WorkManager.  *)
(* The server is the decision DeviceRegistry makes, for one androidId.     *)
(***************************************************************************)
EXTENDS Naturals

CONSTANTS
  Workers,     \* coroutines of EnrollWorker; more than one, a replaced one lingers
  Screens,     \* coroutines of runEnrollment
  NoWorker,    \* no worker runs the job
  MaxKeys,     \* bound on the key pairs generated
  MaxIntents,  \* bound on the USB intents received
  MaxFaults    \* bound on failed calls, kills of the process and closed screens

ASSUME AgentEnrollmentAssumption ==
  /\ Workers \cap Screens = {}
  /\ NoWorker \notin Workers \cup Screens
  /\ MaxKeys \in Nat /\ MaxIntents \in Nat /\ MaxFaults \in Nat

VARIABLES
  key,      \* the key under the alias: the key-th pair generated, 0 for none
  store,    \* SecureDeviceStore as the process sees it
  disk,     \* and as the disk has it
  work,     \* the unique work ENROLL_WORK: its state, its method, its worker
  at,       \* each attempt: where it is, the public key it read
  intent,   \* the USB intent the main thread handles, with its autoEnroll
  intents,  \* how many were received
  offered,  \* what the screen last saw: not enrolled, and the work not running
  armed,    \* the periodic heartbeat is scheduled, the MQTT service is up
  owner,    \* the agent is Device Owner: Android refuses it no foreground service
  pinned,   \* the server's row: the key it pinned, 0 for no row
  late,     \* POSTs given up by the agent that may still reach the server
  faults    \* the faults so far

vars == <<key, store, disk, work, at, intent, intents, offered, armed, owner, pinned, late, faults>>

Attempts == Workers \cup Screens
Points == {"ensure", "generate", "read", "challenge", "post", "save", "telemetry"}

Prefs   == [enrolled : BOOLEAN, auto : BOOLEAN]
Work    == [state : {"none", "enqueued", "running"}, usb : BOOLEAN, by : Workers \cup {NoWorker}]
Attempt == [pc : Points \cup {"idle"}, pub : 0..MaxKeys, cancelled : BOOLEAN]
Idle    == [pc |-> "idle", pub |-> 0, cancelled |-> FALSE]
NoWork  == [state |-> "none", usb |-> FALSE, by |-> NoWorker]
Active(a) == at[a].pc # "idle"

TypeOK ==
  /\ key \in 0..MaxKeys
  /\ store \in Prefs /\ disk \in Prefs
  /\ work \in Work
  /\ at \in [Attempts -> Attempt]
  /\ intent \in [pc : {"none", "write", "decide"}, auto : BOOLEAN]
  /\ intents \in 0..MaxIntents
  /\ offered \in BOOLEAN
  /\ armed \in [beat : BOOLEAN, service : BOOLEAN]
  /\ owner \in BOOLEAN
  /\ pinned \in 0..MaxKeys
  /\ late \subseteq 1..MaxKeys
  /\ faults \in 0..MaxFaults

\* A fresh install, to which a provisioning QR gave an enrollment or not: if it
\* did, the agent is Device Owner (MdmDeviceAdminReceiver).
Init ==
  /\ key = 0 /\ pinned = 0 /\ late = {}
  /\ store = [enrolled |-> FALSE, auto |-> FALSE] /\ disk = store
  /\ work \in {NoWork, [NoWork EXCEPT !.state = "enqueued"]}
  /\ owner \in BOOLEAN /\ (work # NoWork => owner)
  /\ at = [a \in Attempts |-> Idle]
  /\ intent = [pc |-> "none", auto |-> FALSE] /\ intents = 0
  /\ offered = TRUE
  /\ armed = [beat |-> FALSE, service |-> FALSE]
  /\ faults = 0

device == <<key, store, disk, owner>>
outside == <<pinned, late>>

Fault == faults < MaxFaults /\ faults' = faults + 1

-----------------------------------------------------------------------------
(* The work and its cancellation.                                            *)

To(a, pc) == [at EXCEPT ![a].pc = pc]

\* Job.cancel() on the coroutine that runs the work, if one does.
CancelWorker ==
  IF work.state = "running" THEN [at EXCEPT ![work.by].cancelled = TRUE] ELSE at

\* ExistingWorkPolicy.REPLACE without its cancellation.
BugEnqueueEnrollment(usb) ==
  /\ work' = [state |-> "enqueued", usb |-> usb, by |-> NoWorker]
  /\ at' = at

\* enqueueUniqueWork, REPLACE.
EnqueueEnrollment(usb) ==
  /\ work' = [state |-> "enqueued", usb |-> usb, by |-> NoWorker]
  /\ at' = CancelWorker

\* The periodic heartbeat (KEEP) and MqttConnectionService.start.
Up == [beat |-> TRUE, service |-> TRUE]

\* The start of the service may be refused to an app in the background; in doWork
\* nothing catches that, the heartbeat being scheduled by then.
Arm == armed' = Up \/ (~owner /\ armed' = [armed EXCEPT !.beat = TRUE])

\* An enrolled device of which doWork() only reports the success.
BugStartWork(w) ==
  /\ work.state = "enqueued" /\ ~Active(w)
  /\ IF store.enrolled
     THEN work' = NoWork /\ UNCHANGED <<at, armed>>
     ELSE work' = [work EXCEPT !.state = "running", !.by = w] /\ at' = To(w, "ensure") /\ UNCHANGED armed
  /\ UNCHANGED <<device, intent, intents, offered, outside, faults>>

\* WorkManager runs the work, on a coroutine that has ended its last one; on an
\* enrolled device doWork() only arms.
StartWork(w) ==
  /\ work.state = "enqueued" /\ ~Active(w)
  /\ IF store.enrolled
     THEN work' = NoWork /\ Arm /\ UNCHANGED at
     ELSE work' = [work EXCEPT !.state = "running", !.by = w] /\ at' = To(w, "ensure") /\ UNCHANGED armed
  /\ UNCHANGED <<device, intent, intents, offered, outside, faults>>

\* setForeground() throws out of doWork(): the work ends FAILED, nothing retries it.
RefuseForeground(w) ==
  /\ work.state = "enqueued" /\ ~Active(w)
  /\ ~owner
  /\ work' = NoWork
  /\ UNCHANGED <<device, at, intent, intents, offered, armed, outside, faults>>

\* onStopJob: the running work is cancelled and enqueued again.
StopWork ==
  /\ work.state = "running"
  /\ Fault
  /\ work' = [work EXCEPT !.state = "enqueued", !.by = NoWorker]
  /\ at' = CancelWorker
  /\ UNCHANGED <<device, intent, intents, offered, armed, outside>>

-----------------------------------------------------------------------------
(* performEnrollment(), for a worker and for the screen.                     *)

\* ensureKeyPair() that generates whatever the keystore holds.
BugEnsureKeyPair(a) ==
  /\ at[a].pc = "ensure" /\ key < MaxKeys
  /\ at' = To(a, "generate")
  /\ UNCHANGED <<device, work, intent, intents, offered, armed, outside, faults>>

\* containsAlias(): nothing keeps another attempt from asking it next.
EnsureKeyPair(a) ==
  /\ at[a].pc = "ensure"
  /\ at' = To(a, IF key = 0 THEN "generate" ELSE "read")
  /\ UNCHANGED <<device, work, intent, intents, offered, armed, outside, faults>>

\* generateKeyPair() replaces what the alias holds.
GenerateKeyPair(a) ==
  /\ at[a].pc = "generate" /\ key < MaxKeys
  /\ key' = key + 1
  /\ at' = To(a, "read")
  /\ UNCHANGED <<store, disk, owner, work, intent, intents, offered, armed, outside, faults>>

ReadPublicKey(a) ==
  /\ at[a].pc = "read"
  /\ at' = [at EXCEPT ![a].pc = "challenge", ![a].pub = key]
  /\ UNCHANGED <<device, work, intent, intents, offered, armed, outside, faults>>

\* The message is signed with the key of the moment as soon as the challenge is
\* there, so the POST only proves the key it names if that one is still the key.
ReceiveChallenge(a) ==
  /\ at[a].pc = "challenge" /\ ~at[a].cancelled
  /\ at' = [at EXCEPT ![a].pc = "post", ![a].pub = IF @ = key THEN @ ELSE 0]
  /\ UNCHANGED <<device, work, intent, intents, offered, armed, outside, faults>>

\* DeviceService.create: the first proven key is pinned, then no other passes.
Pins(pub)    == IF pinned = 0 THEN pub ELSE pinned
Accepts(pub) == pub # 0 /\ Pins(pub) = pub

ServerAccepts(a) ==
  /\ at[a].pc = "post" /\ ~at[a].cancelled
  /\ Accepts(at[a].pub)
  /\ pinned' = Pins(at[a].pub)
  /\ at' = To(a, "save")
  /\ UNCHANGED <<device, work, intent, intents, offered, armed, late, faults>>

\* saveEnrollment and the edits after it: no suspension, no cancellation.
SaveEnrollment(a) ==
  /\ at[a].pc = "save"
  /\ store' = [enrolled |-> TRUE, auto |-> FALSE]
  /\ at' = To(a, "telemetry")
  /\ UNCHANGED <<key, disk, owner, work, intent, intents, offered, armed, outside, faults>>

\* sendTelemetry(), whether it fails or not, then onSuccess; the screen catches a
\* refused start, the worker ends FAILED with it.
SendTelemetryAndArm(a) ==
  /\ at[a].pc = "telemetry" /\ ~at[a].cancelled
  /\ Arm
  /\ at' = [at EXCEPT ![a] = Idle]
  /\ work' = IF work.by = a THEN NoWork ELSE work
  /\ UNCHANGED <<device, intent, intents, offered, outside, faults>>

\* onFailure: a USB enrollment tells the person and stops, another is retried.
Fails(a) ==
  /\ at' = [at EXCEPT ![a] = Idle]
  /\ work' = IF work.by # a THEN work
             ELSE IF work.usb THEN NoWork ELSE [work EXCEPT !.state = "enqueued", !.by = NoWorker]

\* The challenge or the POST fails; the POST may have been applied, or will be.
CallFails(a) ==
  /\ at[a].pc \in {"challenge", "post"} /\ ~at[a].cancelled
  /\ Fault
  /\ Fails(a)
  /\ late' = IF at[a].pc = "post" THEN late \cup ({at[a].pub} \ {0}) ELSE late
  /\ UNCHANGED <<device, intent, intents, offered, armed, pinned>>

\* Another key is pinned, or the signature is not of the key the POST names.
ServerRefuses(a) ==
  /\ at[a].pc = "post" /\ ~at[a].cancelled
  /\ ~Accepts(at[a].pub)
  /\ Fails(a)
  /\ UNCHANGED <<device, intent, intents, offered, armed, outside, faults>>

\* CancellationException, rethrown through performEnrollment.
EndCancelled(a) ==
  /\ at[a].cancelled /\ at[a].pc \in {"challenge", "post", "telemetry"}
  /\ at' = [at EXCEPT ![a] = Idle]
  /\ late' = IF at[a].pc = "post" THEN late \cup ({at[a].pub} \ {0}) ELSE late
  /\ UNCHANGED <<device, work, intent, intents, offered, armed, pinned, faults>>

\* The server handles a POST nobody waits for anymore.
HandleLate(pub) ==
  /\ pub \in late
  /\ pinned' = Pins(pub)
  /\ late' = late \ {pub}
  /\ UNCHANGED <<device, work, at, intent, intents, offered, armed, faults>>

-----------------------------------------------------------------------------
(* The screen and the USB intent, both on the main thread.                   *)

Refresh ==
  /\ intent.pc = "none"
  /\ offered' = (~store.enrolled /\ work.state # "running")
  /\ offered' # offered
  /\ UNCHANGED <<device, work, at, intent, intents, armed, outside, faults>>

\* The button: with a code or without, unless the screen is busy.
RunEnrollment(s) ==
  /\ intent.pc = "none" /\ offered
  /\ \A t \in Screens : Active(t) => at[t].cancelled
  /\ ~Active(s)
  /\ at' = To(s, "ensure")
  /\ UNCHANGED <<device, work, intent, intents, offered, armed, outside, faults>>

\* viewModelScope ends with the screen.
CloseScreen(s) ==
  /\ intent.pc = "none" /\ Active(s) /\ ~at[s].cancelled
  /\ Fault
  /\ at' = [at EXCEPT ![s].cancelled = TRUE]
  /\ UNCHANGED <<device, work, intent, intents, offered, armed, outside>>

\* The switch, shown while autoEnroll is set and nothing is seen to run.
DisableAutoEnroll ==
  /\ intent.pc = "none" /\ offered /\ store.auto
  /\ \A t \in Screens : Active(t) => at[t].cancelled
  /\ store' = [store EXCEPT !.auto = FALSE]
  /\ work' = NoWork
  /\ at' = CancelWorker
  /\ UNCHANGED <<key, disk, owner, intent, intents, offered, armed, outside, faults>>

\* handle(): the first look at isEnrolled.
ReceiveIntent(auto) ==
  /\ intent.pc = "none" /\ intents < MaxIntents
  /\ intents' = intents + 1
  /\ intent' = [pc |-> IF store.enrolled THEN "decide" ELSE "write", auto |-> auto]
  /\ UNCHANGED <<device, work, at, offered, armed, outside, faults>>

WriteFlags ==
  /\ intent.pc = "write"
  /\ store' = [store EXCEPT !.auto = intent.auto]
  /\ intent' = [intent EXCEPT !.pc = "decide"]
  /\ UNCHANGED <<key, disk, owner, work, at, intents, offered, armed, outside, faults>>

\* The second look: an enrolled device is not enrolled again.
Decide ==
  /\ intent.pc = "decide"
  /\ intent' = [pc |-> "none", auto |-> FALSE]
  /\ IF intent.auto /\ ~store.enrolled THEN EnqueueEnrollment(TRUE) ELSE UNCHANGED <<work, at>>
  /\ UNCHANGED <<device, intents, offered, armed, outside, faults>>

-----------------------------------------------------------------------------
(* The process.                                                              *)

Flush ==
  /\ disk # store
  /\ disk' = store
  /\ UNCHANGED <<key, store, owner, work, at, intent, intents, offered, armed, outside, faults>>

\* Killed, then started again (by the work, the service, a person): memory is
\* lost, a running work is enqueued, MdmAgentApp.onCreate starts the service of
\* an enrolled device, or goes on without it if Android refuses.
KillProcess ==
  /\ Fault
  /\ store' = disk
  /\ at' = [a \in Attempts |-> Idle]
  /\ work' = IF work.state = "running" THEN [work EXCEPT !.state = "enqueued", !.by = NoWorker] ELSE work
  /\ intent' = [pc |-> "none", auto |-> FALSE]
  /\ offered' = FALSE
  /\ \E service \in {disk.enrolled, disk.enrolled /\ owner} : armed' = [armed EXCEPT !.service = service]
  /\ late' = late \cup ({at[a].pub : a \in {b \in Attempts : at[b].pc = "post"}} \ {0})
  /\ UNCHANGED <<key, disk, owner, intents, pinned>>

-----------------------------------------------------------------------------
Runs(a) ==
  \/ EnsureKeyPair(a) \/ GenerateKeyPair(a) \/ ReadPublicKey(a)
  \/ ReceiveChallenge(a) \/ ServerAccepts(a) \/ ServerRefuses(a) \/ SaveEnrollment(a)
  \/ SendTelemetryAndArm(a) \/ EndCancelled(a)

MainThread ==
  \/ Refresh \/ DisableAutoEnroll \/ WriteFlags \/ Decide
  \/ \E s \in Screens : RunEnrollment(s) \/ CloseScreen(s)
  \/ \E auto \in BOOLEAN : ReceiveIntent(auto)

Next ==
  \/ \E w \in Workers : StartWork(w) \/ RefuseForeground(w)
  \/ StopWork
  \/ \E a \in Attempts : Runs(a) \/ CallFails(a)
  \/ MainThread
  \/ \E pub \in late : HandleLate(pub)
  \/ Flush \/ KillProcess

Spec == Init /\ [][Next]_vars

\* WorkManager runs what is enqueued, a coroutine of its that suspended goes on,
\* and its HTTP calls end; nothing is asked of a screen.
FairSpec ==
  /\ Spec
  /\ WF_vars(\E w \in Workers : StartWork(w) \/ RefuseForeground(w))
  /\ \A w \in Workers : WF_vars(Runs(w))

-----------------------------------------------------------------------------
(* What makes enrollment on the agent correct.                               *)

\* One worker at most has not been cancelled, and it is the one WorkManager
\* believes to run: a replaced or stopped one can only come to its end.
WorkIsOwned ==
  /\ work.state = "running" <=> work.by # NoWorker
  /\ work.by # NoWorker => Active(work.by) /\ ~at[work.by].cancelled
  /\ \A w \in Workers : Active(w) /\ w # work.by => at[w].cancelled
  /\ \A a \in Attempts : at[a].cancelled => Active(a)

\* The agent believes it is enrolled only if the server pinned a key of its own,
\* whatever was killed, lost or handled late in between.
EnrolledIsRegistered ==
  /\ disk.enrolled => store.enrolled
  /\ store.enrolled => pinned # 0
  /\ pinned <= key /\ late \subseteq 1..key
  /\ \A a \in Attempts :
       /\ at[a].pub <= key
       /\ at[a].pc \in {"read", "challenge", "post"} => key # 0
       /\ at[a].pc = "challenge" => at[a].pub # 0
       /\ at[a].pc \in {"save", "telemetry"} => pinned # 0
       /\ at[a].pc = "telemetry" => store.enrolled

Inv == TypeOK /\ WorkIsOwned /\ EnrolledIsRegistered

\* "it only ever generates a key the first time" (DeviceKeyStore): once there is
\* a key, no retry, restart or other attempt sets out to generate one; only
\* those that had found none still may replace it.
RetriesKeepKey ==
  [][key # 0 => /\ \A a \in Attempts : at'[a].pc = "generate" => at[a].pc = "generate"
                /\ key' = key \/ \E a \in Attempts : at[a].pc = "generate"]_vars

LockedOut == pinned \notin {0, key}
\* Killed after the work ended and before apply() reached the disk.
Forgotten == pinned # 0 /\ ~store.enrolled /\ work.state = "none"
Reporting == store.enrolled /\ armed.beat
Armed     == Reporting /\ armed.service

\* The work does not leave a device half set up: it ends with the enrollment
\* saved, the heartbeat scheduled and the service up, unless a person enrolls by
\* USB and is told of the failure, or turns it off (doWork).  Off a Device Owner
\* two throws that nothing catches make it less: a refused service leaves a device
\* that reports and does not listen, a refused promotion whatever was there.
WorkEndsArmed ==
  [][work.state # "none" /\ work'.state = "none" =>
       \/ Armed'
       \/ ~owner /\ (Reporting' \/ \E w \in Workers : RefuseForeground(w))
       \/ work.usb /\ \E w \in Workers : CallFails(w) \/ ServerRefuses(w)
       \/ DisableAutoEnroll]_vars

\* A provisioning QR that no USB intent replaces ends with an enrolled device
\* that reports and listens, through failed calls, stops and kills: provisioning
\* makes the agent Device Owner, so nothing is refused to it (EnrollWorker).
QrEnrolls ==
  work.state # "none" /\ intents = 0 ~> Armed \/ intents # 0 \/ LockedOut \/ Forgotten
=============================================================================
