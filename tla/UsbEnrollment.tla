---------------------------- MODULE UsbEnrollment ----------------------------
(***************************************************************************)
(* The dashboard's "Connexion USB" card: it opens an ADB session with a    *)
(* plugged device, runs the steps of the enrollment on it, and closes the  *)
(* session.  The session lives in AdbProvider, the steps done and the      *)
(* pending calls in the card (useUsbEnrollment), which is unmounted by a   *)
(* change of tab or page; the asynchronous functions it started go on.     *)
(*                                                                         *)
(* WebUSB and the ADB library are external: a link may drop at any time.   *)
(* An update of the state and the effect it triggers are one step.         *)
(***************************************************************************)
EXTENDS Naturals, Sequences

CONSTANTS
  Devices,     \* the devices that can be plugged in
  NoDevice,    \* no device
  Sessions,    \* the ADB sessions that can be opened: a bound
  NoSession,   \* no session
  Closes,      \* the calls of closeAdbSession that can be pending at once: a bound
  NoClose,     \* no call
  Runs,        \* the enrollments that can be launched: a bound
  NoRun        \* no enrollment

ASSUME UsbAssumption ==
  NoDevice \notin Devices /\ NoSession \notin Sessions /\ NoClose \notin Closes /\ NoRun \notin Runs

VARIABLES
  link,          \* each session: its device, and how far its connection is
  watched,       \* the sessions whose "disconnected" has a callback
  session,       \* AdbProvider: the session of the dashboard
  strange,       \* the sessions of an AdbProvider that was unmounted
  card,          \* the card is mounted
  done,          \* doneSteps
  connecting,    \* the session the card is opening (connection.isPending)
  disconnecting, \* the call of closeAdbSession the card awaits (disconnection.isPending)
  closing,       \* each call of closeAdbSession: its session, how far it is
  enrolling,     \* the run the card follows (enrollment)
  run            \* each run of the steps

provider == <<link, watched, strange, closing>>
hook     == <<card, done, connecting, disconnecting, enrolling>>
vars     == <<provider, session, hook, run>>

\* The steps, in their order.
USB_STEPS == [install |-> 1, enroll |-> 2, deviceOwner |-> 3]
Steps     == {"install", "enroll", "deviceOwner"}

Link  == [of : Devices \cup {NoDevice}, state : {"none", "opening", "up", "down"}]
NotClosing == [of |-> NoSession, pc |-> "no"]
Close == {NotClosing} \cup [of : Sessions, pc : {"closing", "closed"}]
Run   == [pc : {"idle", "running", "ended"}, with : Sessions \cup {NoSession},
          left : SUBSET Steps, here : BOOLEAN]

TypeOK ==
  /\ link \in [Sessions -> Link]
  /\ watched \subseteq Sessions /\ strange \subseteq Sessions
  /\ session \in Sessions \cup {NoSession} /\ card \in BOOLEAN
  /\ done \in Seq(Steps)
  /\ connecting \in Sessions \cup {NoSession} /\ disconnecting \in Closes \cup {NoClose}
  /\ closing \in [Closes -> Close]
  /\ enrolling \in Runs \cup {NoRun} /\ run \in [Runs -> Run]

Init ==
  /\ link = [s \in Sessions |-> [of |-> NoDevice, state |-> "none"]]
  /\ watched = {} /\ strange = {} /\ session = NoSession /\ card = TRUE /\ done = <<>>
  /\ connecting = NoSession /\ disconnecting = NoClose
  /\ closing = [c \in Closes |-> NotClosing]
  /\ enrolling = NoRun
  /\ run = [r \in Runs |-> [pc |-> "idle", with |-> NoSession, left |-> {}, here |-> FALSE]]

-----------------------------------------------------------------------------
(* The session.                                                              *)

SetLink(s, state) == link' = [link EXCEPT ![s].state = state]

\* setSession(null), and the effect of the card that follows: it forgets the
\* steps done, and the pending run, which goes on.
SetNoSession ==
  /\ session' = NoSession
  /\ IF session = NoSession THEN UNCHANGED <<done, enrolling>>
     ELSE done' = <<>> /\ enrolling' = NoRun
  /\ UNCHANGED <<card, connecting>>

\* The next session, so that which one it is says nothing.
Unopened == {s \in Sessions : link[s].state = "none"}

\* A device is picked in the browser's window, and is free.
Connect(s, d) ==
  /\ card /\ session = NoSession /\ connecting = NoSession
  /\ s \in Unopened /\ s = CHOOSE next \in Unopened : TRUE
  /\ \A o \in Sessions : link[o].of = d => link[o].state = "down"
  /\ link' = [link EXCEPT ![s] = [of |-> d, state |-> "opening"]]
  /\ connecting' = s
  /\ UNCHANGED <<watched, strange, closing, session, card, done, disconnecting, enrolling, run>>

Connected(s) == connecting' = IF connecting = s THEN NoSession ELSE connecting

\* A session whose "disconnected" is not listened to.
BugOpened(s) ==
  /\ link[s].state = "opening"
  /\ SetLink(s, "up") /\ Connected(s)
  /\ session' = IF s \in strange THEN session ELSE s
  /\ UNCHANGED <<watched, strange, closing, card, done, disconnecting, enrolling, run>>

\* The device authorised this browser.  The callbacks of a mutation run even if
\* the card is gone; a provider that is gone takes no session.
Opened(s) ==
  /\ link[s].state = "opening"
  /\ SetLink(s, "up") /\ Connected(s)
  /\ IF s \in strange THEN UNCHANGED <<session, watched>>
     ELSE session' = s /\ watched' = watched \cup {s}
  /\ UNCHANGED <<strange, closing, card, done, disconnecting, enrolling, run>>

\* Refused or unplugged: the connection is closed.
OpenFails(s) ==
  /\ link[s].state = "opening"
  /\ SetLink(s, "down") /\ Connected(s)
  /\ UNCHANGED <<watched, strange, closing, session, card, done, disconnecting, enrolling, run>>

\* The session of the dashboard goes, whichever session dropped.
BugClear(s) ==
  /\ s \in watched /\ link[s].state = "down"
  /\ watched' = watched \ {s}
  /\ SetNoSession /\ UNCHANGED disconnecting
  /\ UNCHANGED <<link, strange, closing, run>>

\* The callback of "disconnected".
Clear(s) ==
  /\ s \in watched /\ link[s].state = "down"
  /\ watched' = watched \ {s}
  /\ IF session = s THEN SetNoSession /\ UNCHANGED disconnecting ELSE UNCHANGED <<session, hook>>
  /\ UNCHANGED <<link, strange, closing, run>>

-----------------------------------------------------------------------------
(* "Déconnecter": adb.close(), then forget() even if it failed.              *)

isEnrolled  == Len(done) = 3
isPending   == enrolling # NoRun /\ run[enrolling].pc = "running"
isEnrolling == isPending /\ ~isEnrolled

\* The next call, so that which one it is says nothing.
Free == {c \in Closes : closing[c].pc = "no"}

\* A card that was left and entered again knows nothing of a call that is
\* pending: its button closes the session a second time.
Disconnect(c) ==
  /\ card /\ session # NoSession /\ ~isEnrolling /\ disconnecting = NoClose
  /\ c \in Free /\ c = CHOOSE next \in Free : TRUE
  /\ closing' = [closing EXCEPT ![c] = [of |-> session, pc |-> "closing"]]
  /\ disconnecting' = c
  /\ UNCHANGED <<link, watched, strange, session, card, done, connecting, enrolling, run>>

AdbClosed(c) ==
  /\ closing[c].pc = "closing"
  /\ closing' = [closing EXCEPT ![c].pc = "closed"]
  /\ SetLink(closing[c].of, "down")
  /\ UNCHANGED <<watched, strange, session, hook, run>>

Ended(c)        == closing' = [closing EXCEPT ![c] = NotClosing]
Disconnected(c) == disconnecting' = IF disconnecting = c THEN NoClose ELSE disconnecting

\* onSuccess sets no session, whichever session is there by now.
Forgot(c) ==
  /\ closing[c].pc = "closed"
  /\ Ended(c)
  /\ IF closing[c].of \in strange THEN UNCHANGED <<session, hook>>
     ELSE SetNoSession /\ Disconnected(c)
  /\ UNCHANGED <<link, watched, strange, run>>

\* close() failed, and forget() was called all the same, or forget() did: the session stays, unless the callback took it.
ForgetFails(c) ==
  /\ closing[c].pc \in {"closing", "closed"}
  /\ Ended(c) /\ Disconnected(c)
  /\ UNCHANGED <<link, watched, strange, session, card, done, connecting, enrolling, run>>

-----------------------------------------------------------------------------
(* "Enrôler": the steps that are not done, one after the other.              *)

Unused   == {r \in Runs : run[r].pc = "idle"}
\* An enrollment that starts again from the first step.
BugLeftToDo == Steps

LeftToDo == Steps \ {done[i] : i \in DOMAIN done}
Launched == [pc |-> IF LeftToDo = {} THEN "ended" ELSE "running",
             with |-> session, left |-> LeftToDo, here |-> TRUE]

\* A button that a pending enrollment leaves enabled.
BugEnroll(r) ==
  /\ card /\ session # NoSession /\ ~isEnrolled /\ disconnecting = NoClose
  /\ r \in Unused /\ r = CHOOSE next \in Unused : TRUE
  /\ run' = [run EXCEPT ![r] = Launched]
  /\ enrolling' = r
  /\ UNCHANGED <<provider, session, card, done, connecting, disconnecting>>

Enroll(r) ==
  /\ card /\ session # NoSession /\ ~isEnrolled /\ ~isPending /\ disconnecting = NoClose
  /\ r \in Unused /\ r = CHOOSE next \in Unused : TRUE
  /\ run' = [run EXCEPT ![r] = Launched]
  /\ enrolling' = r
  /\ UNCHANGED <<provider, session, card, done, connecting, disconnecting>>

\* toCurrentUsbStep, for the steps the run was given.
Current(r, step) ==
  /\ run[r].pc = "running" /\ step \in run[r].left
  /\ \A other \in run[r].left : USB_STEPS[step] <= USB_STEPS[other]

\* runStep: only "deviceOwner", simulated for now, does without the device.
StepDone(r, step) ==
  /\ Current(r, step)
  /\ step # "deviceOwner" => link[run[r].with].state = "up"
  /\ done' = IF run[r].here THEN Append(done, step) ELSE done
  /\ run' = [run EXCEPT ![r].left = @ \ {step},
                            ![r].pc = IF run[r].left = {step} THEN "ended" ELSE "running"]
  /\ UNCHANGED <<provider, session, card, connecting, disconnecting, enrolling>>

\* The download, the installation or the launch of the agent fails.
StepFails(r, step) ==
  /\ Current(r, step) /\ step # "deviceOwner"
  /\ run' = [run EXCEPT ![r].pc = "ended"]
  /\ UNCHANGED <<provider, session, hook>>

-----------------------------------------------------------------------------
(* The cable, and the pages.                                                 *)

\* The cable is pulled, or the connection drops.
Drop(s) ==
  /\ link[s].state = "up"
  /\ SetLink(s, "down")
  /\ UNCHANGED <<watched, strange, closing, session, hook, run>>

Unmount ==
  /\ card' = FALSE /\ done' = <<>> /\ enrolling' = NoRun
  /\ connecting' = NoSession /\ disconnecting' = NoClose
  /\ run' = [r \in Runs |-> [run[r] EXCEPT !.here = FALSE]]

LeaveCard == card /\ Unmount /\ UNCHANGED <<provider, session>>
EnterCard ==
  /\ ~card /\ card' = TRUE
  /\ UNCHANGED <<provider, session, done, connecting, disconnecting, enrolling, run>>

\* Leaving the dashboard unmounts AdbProvider too, and closes its session.
LeaveDashboard ==
  /\ Unmount
  /\ session' = NoSession
  /\ strange' = {s \in Sessions : link[s].state # "none"}
  /\ IF session = NoSession THEN UNCHANGED link ELSE SetLink(session, "down")
  /\ watched' = {}
  /\ UNCHANGED <<closing>>

-----------------------------------------------------------------------------
Next ==
  \/ \E s \in Sessions : \/ \E d \in Devices : Connect(s, d)
                         \/ Opened(s) \/ OpenFails(s) \/ Clear(s) \/ Drop(s)
  \/ \E c \in Closes : Disconnect(c) \/ AdbClosed(c) \/ Forgot(c) \/ ForgetFails(c)
  \/ \E r \in Runs : Enroll(r) \/ \E step \in Steps : StepDone(r, step) \/ StepFails(r, step)
  \/ LeaveCard \/ EnterCard \/ LeaveDashboard

Spec == Init /\ [][Next]_vars

\* A promise that is settled runs its callbacks.
FairSpec == Spec /\ \A s \in Sessions : WF_vars(Clear(s))

-----------------------------------------------------------------------------
(* What makes the card correct.                                              *)

\* The session of the dashboard is open or has dropped, and its drop is heard.
SessionIsWatched == session # NoSession => session \in watched /\ link[session].state \in {"up", "down"}

Active(r) == run[r].pc = "running" /\ run[r].here

\* "Les étapes se font l'une après l'autre" (useUsbEnrollment): a mounted card
\* never has two runs on one session, though it may still have, on a session it
\* lost, a run it no longer follows.
StepsAreOneByOne ==
  \A r, o \in Runs : Active(r) /\ Active(o) /\ run[r].with = run[o].with => r = o

\* A run has a session that was opened, and the card follows the one of its own.
RunIsFollowed ==
  \A r \in Runs :
    /\ run[r].pc = "running" => run[r].with \in Sessions /\ link[run[r].with].state \in {"up", "down"}
    /\ Active(r) => card
    /\ Active(r) /\ run[r].with = session => enrolling = r

Inv == TypeOK /\ SessionIsWatched /\ StepsAreOneByOne /\ RunIsFollowed

\* No callback of a session that dropped takes another that is up ("current ===
\* session", AdbProvider): what takes it is the end of its provider, a
\* "Déconnecter" that succeeds, be it of an earlier session, or a connection that
\* opens after it and replaces it (useUsbEnrollment).
LiveSessionIsKept ==
  [][\A s \in Sessions : session = s /\ link[s].state = "up" /\ session' # s =>
       \/ s \in strange'
       \/ \E c \in Closes : Forgot(c)
       \/ session' \in Sessions \ {s} /\ Opened(session')]_vars

\* "chacune réussie est retenue, pour reprendre à celle qui a échoué": a mounted
\* card counts the steps once each, in their order and without a gap, through
\* failures, drops, sessions and pages, unless a run outlives the session it was
\* launched on and counts its steps for the next device.
NoStrayRun  == \A r \in Runs : Active(r) => run[r].with = session
InOrder     == \A i \in DOMAIN done : USB_STEPS[done[i]] = i
StepsResume == []NoStrayRun => []InOrder

\* "l'état ne doit pas garder une session morte" (AdbProvider).
DeadSessionsGo ==
  \A s \in Sessions : session = s /\ link[s].state = "down" ~> session # s
=============================================================================
