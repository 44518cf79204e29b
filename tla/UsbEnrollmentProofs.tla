------------------------ MODULE UsbEnrollmentProofs ------------------------
(***************************************************************************)
(* For any number of devices, sessions and runs: a mounted card runs the   *)
(* steps of a session one after the other, and a session that is up is not *)
(* lost to the drop of another.                                            *)
(***************************************************************************)
EXTENDS UsbEnrollment, SequenceTheorems, TLAPS

IsOpened(s) == link[s].state \in {"up", "down"}

\* The fields of a link that is moved, and that no opened link is closed for good.
LEMMA LinkMoves ==
  ASSUME TypeOK, NEW s \in Sessions, NEW state \in {"up", "down"}, SetLink(s, state)
  PROVE  /\ link' \in [Sessions -> Link]
         /\ link'[s].state = state /\ \A o \in Sessions : o # s => link'[o] = link[o]
         /\ \A o \in Sessions : IsOpened(o) => IsOpened(o)'
<1>1. link \in [Sessions -> Link] /\ link[s] \in Link
  BY DEF TypeOK
<1>2. [link[s] EXCEPT !.state = state] \in Link /\ [link[s] EXCEPT !.state = state].state = state
  BY <1>1 DEF Link
<1>3. link' = [link EXCEPT ![s] = [link[s] EXCEPT !.state = state]]
  BY DEF SetLink
<1> QED BY <1>1, <1>2, <1>3 DEF IsOpened

LEMMA InvInit == Init => Inv
BY UsbAssumption DEF Init, Inv, TypeOK, Link, Close, NotClosing, Run, SessionIsWatched, StepsAreOneByOne, RunIsFollowed, Active

\* A step of the provider or of the mutations: no run changes.
LEMMA Keeps ==
  ASSUME Inv, TypeOK', run' = run, card' = card, SessionIsWatched',
         \A s \in Sessions : IsOpened(s) => IsOpened(s)',
         \/ session' = NoSession
         \/ session' = session /\ enrolling' = enrolling
         \/ session' \in Sessions /\ ~IsOpened(session')
  PROVE  Inv'
<1> USE UsbAssumption DEF Inv
<1>1. \A r \in Runs : Active(r)' <=> Active(r)
  BY DEF Active
<1>2. StepsAreOneByOne'
  BY <1>1 DEF StepsAreOneByOne
<1>3. RunIsFollowed'
  <2> SUFFICES ASSUME NEW r \in Runs, run[r].pc = "running"
               PROVE  /\ run[r].with \in Sessions /\ link'[run[r].with].state \in {"up", "down"}
                      /\ Active(r) => card
                      /\ Active(r) /\ run[r].with = session' => enrolling' = r
    BY <1>1 DEF RunIsFollowed, Active
  <2>1. run[r].with \in Sessions /\ IsOpened(run[r].with) /\ (Active(r) => card)
    BY DEF RunIsFollowed, IsOpened
  <2>2. ASSUME Active(r), run[r].with = session' PROVE enrolling' = r
    BY <2>1, <2>2 DEF RunIsFollowed
  <2> QED BY <2>1, <2>2 DEF IsOpened
<1> QED BY <1>2, <1>3

LEMMA ConnectStep ==
  ASSUME Inv, NEW s \in Sessions, NEW d \in Devices, Connect(s, d)
  PROVE  Inv'
<1>1. /\ link \in [Sessions -> Link] /\ link[s].state = "none" /\ session = NoSession
      /\ link' = [link EXCEPT ![s] = [of |-> d, state |-> "opening"]] /\ connecting' = s
      /\ watched' = watched /\ strange' = strange /\ closing' = closing /\ session' = session /\ card' = card
      /\ done' = done /\ disconnecting' = disconnecting /\ enrolling' = enrolling /\ run' = run
  BY DEF Connect, Unopened, Inv, TypeOK
<1>2. [of |-> d, state |-> "opening"] \in Link
  BY DEF Link
<1>3. TypeOK'
  BY <1>1, <1>2 DEF Inv, TypeOK
<1>4. \A o \in Sessions : IsOpened(o) => IsOpened(o)'
  BY <1>1 DEF IsOpened
<1>5. SessionIsWatched'
  BY <1>1 DEF SessionIsWatched
<1> QED BY <1>1, <1>3, <1>4, <1>5, Keeps

LEMMA OpenedStep ==
  ASSUME Inv, NEW s \in Sessions, Opened(s)
  PROVE  Inv'
<1>1. TypeOK /\ link[s].state = "opening" /\ SetLink(s, "up") /\ Connected(s)
      /\ strange' = strange /\ closing' = closing /\ card' = card /\ done' = done
      /\ disconnecting' = disconnecting /\ enrolling' = enrolling /\ run' = run
  BY DEF Opened, Inv
<1>2. link' \in [Sessions -> Link] /\ link'[s].state = "up" /\ \A o \in Sessions : IsOpened(o) => IsOpened(o)'
  BY <1>1, LinkMoves
<1>3. \/ session' = session /\ watched' = watched
      \/ session' = s /\ watched' = watched \cup {s}
  BY DEF Opened
<1>4. TypeOK'
  BY <1>1, <1>2, <1>3 DEF TypeOK, Connected
<1>5. SessionIsWatched'
  BY <1>1, <1>2, <1>3 DEF Inv, TypeOK, SessionIsWatched, IsOpened
<1>6. ~IsOpened(s)
  BY <1>1 DEF IsOpened
<1> QED BY <1>1, <1>2, <1>3, <1>4, <1>5, <1>6, Keeps

\* The link of a session drops, is closed, or is refused.
LEMMA DownStep ==
  ASSUME Inv, NEW s \in Sessions,
         \/ OpenFails(s) \/ Drop(s)
         \/ \E c \in Closes : AdbClosed(c) /\ closing[c].of = s
  PROVE  Inv'
<1>1. /\ SetLink(s, "down")
      /\ connecting' \in {connecting, NoSession}
      /\ watched' = watched /\ strange' = strange /\ session' = session /\ card' = card
      /\ done' = done /\ disconnecting' = disconnecting /\ enrolling' = enrolling /\ run' = run
  BY DEF OpenFails, Drop, AdbClosed, Connected, hook
<1>2. link' \in [Sessions -> Link] /\ \A o \in Sessions : IsOpened(o) => IsOpened(o)'
  BY <1>1, LinkMoves DEF Inv
<1>3. TypeOK'
  <2>1. ASSUME NEW c \in Closes, AdbClosed(c) PROVE closing' \in [Closes -> Close]
    <3>1. closing \in [Closes -> Close]
      BY DEF Inv, TypeOK
    <3>2. closing[c] \in Close /\ closing[c].pc = "closing"
      BY <2>1, <3>1 DEF AdbClosed
    <3>3. [closing[c] EXCEPT !.pc = "closed"] \in Close
      BY <3>2 DEF Close, NotClosing
    <3>4. closing' = [closing EXCEPT ![c] = [closing[c] EXCEPT !.pc = "closed"]]
      BY <2>1, <3>1 DEF AdbClosed
    <3> QED BY <3>1, <3>3, <3>4
  <2>2. closing' = closing \/ \E c \in Closes : AdbClosed(c)
    BY DEF OpenFails, Drop
  <2> QED BY <1>1, <1>2, <2>1, <2>2 DEF Inv, TypeOK
<1>4. SessionIsWatched'
  BY <1>1, <1>2 DEF Inv, TypeOK, SessionIsWatched, IsOpened
<1> QED BY <1>1, <1>2, <1>3, <1>4, Keeps

\* A call that ended has no session, one that is pending has.
LEMMA CloseMoves ==
  ASSUME TypeOK, NEW c \in Closes
  PROVE  /\ Ended(c) => closing' \in [Closes -> Close]
         /\ Disconnect(c) => closing' \in [Closes -> Close] /\ disconnecting' = c
         /\ Disconnected(c) => disconnecting' \in Closes \cup {NoClose}
<1>1. NotClosing \in Close /\ (session \in Sessions => [of |-> session, pc |-> "closing"] \in Close)
  BY DEF Close
<1>2. Ended(c) => closing' \in [Closes -> Close]
  BY <1>1 DEF TypeOK, Ended
<1>3. Disconnect(c) => closing' \in [Closes -> Close] /\ disconnecting' = c
  BY <1>1 DEF TypeOK, Disconnect
<1> QED BY <1>2, <1>3 DEF TypeOK, Disconnected

\* A session is cleared, or kept, by a callback or by a "Déconnecter".
LEMMA ClearStep ==
  ASSUME Inv,
         \/ \E s \in Sessions : Clear(s)
         \/ \E c \in Closes : Forgot(c) \/ ForgetFails(c) \/ Disconnect(c)
  PROVE  Inv'
<1>1. /\ link' = link /\ strange' = strange /\ card' = card /\ connecting' = connecting /\ run' = run
  BY DEF Clear, Forgot, ForgetFails, Disconnect, SetNoSession, hook
<1>2. \/ session' = NoSession /\ watched' \subseteq watched /\ (done' = done \/ done' = <<>>)
         /\ (enrolling' = enrolling \/ enrolling' = NoRun)
      \/ session' = session /\ watched' = watched /\ done' = done /\ enrolling' = enrolling
      \/ /\ session' = session /\ done' = done /\ enrolling' = enrolling
         /\ \E s \in Sessions : session # s /\ watched' = watched \ {s}
  BY DEF Clear, Forgot, ForgetFails, Disconnect, SetNoSession, hook
<1>3. /\ disconnecting' \in Closes \cup {NoClose}
      /\ closing' \in [Closes -> Close]
  <2>1. TypeOK
    BY DEF Inv
  <2>2. ASSUME NEW s \in Sessions, Clear(s) PROVE disconnecting' = disconnecting /\ closing' = closing
    BY <2>2 DEF Clear, hook
  <2>3. ASSUME NEW c \in Closes, Disconnect(c) PROVE <1>3
    BY <2>1, <2>3, CloseMoves
  <2>4. ASSUME NEW c \in Closes, Forgot(c) \/ ForgetFails(c) PROVE <1>3
    <3>1. Ended(c) /\ (Disconnected(c) \/ disconnecting' = disconnecting)
      BY <2>4 DEF Forgot, ForgetFails, hook
    <3> QED BY <2>1, <3>1, CloseMoves DEF TypeOK
  <2> QED BY <2>1, <2>2, <2>3, <2>4 DEF TypeOK
<1>4. TypeOK'
  <2>1. <<>> \in Seq(Steps)
    OBVIOUS
  <2> QED BY <1>1, <1>2, <1>3, <2>1 DEF Inv, TypeOK
<1>5. SessionIsWatched'
  BY <1>1, <1>2 DEF Inv, SessionIsWatched
<1>6. \A o \in Sessions : IsOpened(o) => IsOpened(o)'
  BY <1>1 DEF IsOpened
<1> QED BY <1>1, <1>2, <1>4, <1>5, <1>6, Keeps

LEMMA EnrollStep ==
  ASSUME Inv, NEW r \in Runs, Enroll(r)
  PROVE  Inv'
<1> USE UsbAssumption
<1>1. /\ card /\ session \in Sessions /\ ~isPending /\ run' = [run EXCEPT ![r] = Launched] /\ enrolling' = r
      /\ link' = link /\ watched' = watched /\ strange' = strange /\ closing' = closing /\ session' = session
      /\ card' = card /\ done' = done /\ connecting' = connecting /\ disconnecting' = disconnecting
  BY DEF Enroll, Inv, TypeOK, provider
<1>2. Launched \in Run /\ Launched.with = session /\ Launched.here
  BY <1>1 DEF Launched, LeftToDo, Run
<1>3. run'[r] = Launched /\ \A o \in Runs : o # r => run'[o] = run[o]
  BY <1>1 DEF Inv, TypeOK
<1>4. TypeOK'
  BY <1>1, <1>2 DEF Inv, TypeOK
<1>5. SessionIsWatched' /\ link[session].state \in {"up", "down"}
  BY <1>1 DEF Inv, SessionIsWatched
\* No other run of the card is on its session.
<1>6. \A o \in Runs : Active(o) => run[o].with # session
  BY <1>1 DEF isPending, Inv, RunIsFollowed, Active
<1>7. \A o \in Runs : o # r => (Active(o)' <=> Active(o))
  BY <1>3 DEF Active
<1>8. StepsAreOneByOne'
  BY <1>2, <1>3, <1>6, <1>7 DEF Inv, StepsAreOneByOne
<1>9. RunIsFollowed'
  BY <1>1, <1>2, <1>3, <1>5, <1>6, <1>7 DEF Inv, RunIsFollowed, Active
<1> QED BY <1>4, <1>5, <1>8, <1>9 DEF Inv

\* A run does a step or ends, or every run loses its card.
LEMMA RunsGoOn ==
  ASSUME Inv, TypeOK', SessionIsWatched', card' = card,
         \A s \in Sessions : IsOpened(s) => IsOpened(s)',
         session' = session, enrolling' = enrolling,
         \A r \in Runs : /\ run'[r].with = run[r].with
                         /\ run'[r].pc = "running" => run[r].pc = "running"
                         /\ run'[r].here => run[r].here
  PROVE  Inv'
<1>1. \A r \in Runs : Active(r)' => Active(r)
  BY DEF Active
<1>2. StepsAreOneByOne'
  BY <1>1 DEF Inv, StepsAreOneByOne
<1>3. RunIsFollowed'
  BY <1>1 DEF Inv, RunIsFollowed, IsOpened
<1> QED BY <1>2, <1>3 DEF Inv

LEMMA RunStep ==
  ASSUME Inv, NEW r \in Runs, NEW step \in Steps, StepDone(r, step) \/ StepFails(r, step)
  PROVE  Inv'
<1>1. PICK new \in Run : /\ run' = [run EXCEPT ![r] = new] /\ new.with = run[r].with
                         /\ new.here = run[r].here /\ run[r].pc = "running"
  <2> DEFINE went == [run[r] EXCEPT !.left = @ \ {step}, !.pc = IF run[r].left = {step} THEN "ended" ELSE "running"]
             fell == [run[r] EXCEPT !.pc = "ended"]
  <2>1. run[r] \in Run
    BY DEF Inv, TypeOK
  <2>2. went \in Run /\ went.with = run[r].with /\ went.here = run[r].here
    BY <2>1 DEF Run
  <2>3. fell \in Run /\ fell.with = run[r].with /\ fell.here = run[r].here
    BY <2>1 DEF Run
  <2>4. run[r].pc = "running"
    BY DEF StepDone, StepFails, Current
  <2>5. run' = [run EXCEPT ![r] = went] \/ run' = [run EXCEPT ![r] = fell]
    BY DEF StepDone, StepFails
  <2> QED BY <2>2, <2>3, <2>4, <2>5
<1>2. /\ link' = link /\ watched' = watched /\ strange' = strange /\ closing' = closing /\ session' = session
      /\ card' = card /\ connecting' = connecting /\ disconnecting' = disconnecting /\ enrolling' = enrolling
  BY DEF StepDone, StepFails, provider, hook
<1>3. done' \in Seq(Steps)
  <2>1. done \in Seq(Steps)
    BY DEF Inv, TypeOK
  <2>2. done' = done \/ done' = Append(done, step)
    BY DEF StepDone, StepFails, hook
  <2> QED BY <2>1, <2>2, AppendProperties
<1>4. TypeOK'
  BY <1>1, <1>2, <1>3 DEF Inv, TypeOK
<1>5. SessionIsWatched'
  BY <1>2 DEF Inv, SessionIsWatched
<1>6. \A s \in Sessions : IsOpened(s) => IsOpened(s)'
  BY <1>2 DEF IsOpened
<1>7. \A o \in Runs : /\ run'[o].with = run[o].with
                      /\ run'[o].pc = "running" => run[o].pc = "running"
                      /\ run'[o].here => run[o].here
  BY <1>1 DEF Inv, TypeOK
<1> QED BY <1>2, <1>4, <1>5, <1>6, <1>7, RunsGoOn

LEMMA PageStep ==
  ASSUME Inv, LeaveCard \/ EnterCard \/ LeaveDashboard
  PROVE  Inv'
<1> USE UsbAssumption
<1>1. CASE EnterCard
  <2>1. /\ link' = link /\ watched' = watched /\ strange' = strange /\ closing' = closing /\ session' = session
        /\ done' = done /\ connecting' = connecting /\ disconnecting' = disconnecting
        /\ enrolling' = enrolling /\ run' = run /\ card' = TRUE
    BY <1>1 DEF EnterCard, provider
  <2>2. TypeOK'
    BY <2>1 DEF Inv, TypeOK
  <2>3. SessionIsWatched' /\ StepsAreOneByOne' /\ RunIsFollowed'
    BY <2>1 DEF Inv, SessionIsWatched, StepsAreOneByOne, RunIsFollowed, Active
  <2> QED BY <2>2, <2>3 DEF Inv
<1>2. CASE Unmount /\ (LeaveCard \/ LeaveDashboard)
  <2>1. /\ card' = FALSE /\ done' = <<>> /\ enrolling' = NoRun /\ connecting' = NoSession /\ disconnecting' = NoClose
        /\ run' = [r \in Runs |-> [run[r] EXCEPT !.here = FALSE]]
    BY <1>2 DEF Unmount
  <2>2. \A r \in Runs : run'[r] \in Run /\ run'[r].with = run[r].with /\ run'[r].pc = run[r].pc /\ ~run'[r].here
    BY <2>1 DEF Inv, TypeOK, Run
  <2>3. /\ closing' = closing /\ strange' \subseteq Sessions
        /\ \/ link' = link /\ session' = session /\ watched' = watched
           \/ link' = link /\ session' = NoSession /\ watched' = {}
           \/ session \in Sessions /\ SetLink(session, "down") /\ session' = NoSession /\ watched' = {}
    BY <1>2 DEF LeaveCard, LeaveDashboard, provider, Inv, TypeOK
  <2>4. link' \in [Sessions -> Link] /\ \A s \in Sessions : IsOpened(s) => IsOpened(s)'
    <3>1. TypeOK
      BY DEF Inv
    <3>2. CASE link' = link
      BY <3>1, <3>2 DEF TypeOK, IsOpened
    <3>3. CASE session \in Sessions /\ SetLink(session, "down")
      BY <3>1, <3>3, LinkMoves
    <3> QED BY <2>3, <3>2, <3>3
  <2>5. TypeOK'
    <3>1. <<>> \in Seq(Steps)
      OBVIOUS
    <3>2. run' \in [Runs -> Run]
      BY <2>1, <2>2
    <3> QED BY <2>1, <2>3, <2>4, <3>1, <3>2 DEF Inv, TypeOK
  <2>6. SessionIsWatched'
    BY <2>3 DEF Inv, SessionIsWatched
  <2>7. StepsAreOneByOne'
    BY <2>2 DEF StepsAreOneByOne, Active
  <2>8. RunIsFollowed'
    BY <2>2, <2>4 DEF Inv, RunIsFollowed, Active, IsOpened
  <2> QED BY <2>5, <2>6, <2>7, <2>8 DEF Inv
<1> QED BY <1>1, <1>2 DEF LeaveCard, LeaveDashboard

LEMMA InvStep == Inv /\ [Next]_vars => Inv'
<1>1. ASSUME Inv, UNCHANGED vars PROVE Inv'
  BY <1>1 DEF vars, provider, hook, Inv, TypeOK, SessionIsWatched, StepsAreOneByOne, RunIsFollowed, Active
<1>2. ASSUME Inv, NEW c \in Closes, AdbClosed(c) PROVE Inv'
  <2>1. closing[c].of \in Sessions
    BY <1>2 DEF AdbClosed, Inv, TypeOK, Close, NotClosing
  <2> QED BY <1>2, <2>1, DownStep
<1> QED BY <1>1, <1>2, ConnectStep, OpenedStep, DownStep, ClearStep, EnrollStep, RunStep, PageStep DEF Next

\* A mounted card never has two runs on one session ("Les étapes se font l'une
\* après l'autre"), and its session's drop is heard.
THEOREM Invariance == Spec => []Inv
BY InvInit, InvStep, PTL DEF Spec

LiveIsKept ==
  \A s \in Sessions : session = s /\ link[s].state = "up" /\ session' # s =>
    \/ s \in strange'
    \/ \E c \in Closes : Forgot(c)
    \/ session' \in Sessions \ {s} /\ Opened(session')

\* The drop of a session never takes another that is up: only the end of the
\* provider, a "Déconnecter" or a connection that opens later does.
THEOREM LiveSessionsAreKept == Spec => LiveSessionIsKept
<1>1. ASSUME Inv, [Next]_vars PROVE LiveIsKept
  <2> SUFFICES ASSUME NEW s \in Sessions, session = s, link[s].state = "up", session' # s
               PROVE  \/ s \in strange'
                      \/ \E c \in Closes : Forgot(c)
                      \/ session' \in Sessions \ {s} /\ Opened(session')
    BY DEF LiveIsKept
  <2>1. ASSUME NEW c \in Sessions, Clear(c) PROVE FALSE
    BY <2>1 DEF Clear, hook
  <2>2. ASSUME NEW c \in Sessions, Opened(c) PROVE session' \in Sessions \ {s} /\ Opened(session')
    <3>1. session' = c
      BY <2>2 DEF Opened
    <3> QED BY <2>2, <3>1
  <2>3. CASE LeaveDashboard
    BY <2>3 DEF LeaveDashboard
  <2>4. LeaveDashboard \/ (\E c \in Sessions : Clear(c) \/ Opened(c)) \/ \E c \in Closes : Forgot(c)
    BY <1>1 DEF Next, Connect, OpenFails, AdbClosed, ForgetFails, Drop, Enroll, StepDone, StepFails,
       Disconnect, LeaveCard, EnterCard, vars
  <2> QED BY <2>1, <2>2, <2>3, <2>4
<1>2. Inv /\ [Next]_vars => [LiveIsKept]_vars
  BY <1>1
<1> QED BY <1>2, Invariance, PTL DEF Spec, LiveSessionIsKept, LiveIsKept

-----------------------------------------------------------------------------
(* Where the steps are counted in order: a run of the present session has    *)
(* left what the card has not counted.                                       *)

Resumed ==
  /\ InOrder
  /\ \A r \in Runs : Active(r) /\ run[r].with = session => run[r].left = LeftToDo

LEMMA StepNumbers ==
  /\ \A step \in Steps : USB_STEPS[step] \in 1..3
  /\ \A n \in 1..3 : \E step \in Steps : USB_STEPS[step] = n
  /\ \A step, other \in Steps : USB_STEPS[step] = USB_STEPS[other] => step = other
<1>1. USB_STEPS["install"] = 1 /\ USB_STEPS["enroll"] = 2 /\ USB_STEPS["deviceOwner"] = 3
  BY DEF USB_STEPS
<1> QED BY <1>1 DEF Steps

\* Steps counted in order leave those that come after.
LEMMA InOrderLeaves ==
  ASSUME done \in Seq(Steps), InOrder
  PROVE  LeftToDo = {step \in Steps : USB_STEPS[step] > Len(done)} /\ Len(done) \in Nat
<1>1. Len(done) \in Nat /\ DOMAIN done = 1..Len(done) /\ \A i \in 1..Len(done) : done[i] \in Steps
  OBVIOUS
<1>2. ASSUME NEW step \in Steps, USB_STEPS[step] <= Len(done) PROVE step \notin LeftToDo
  <2>1. USB_STEPS[step] \in DOMAIN done
    BY <1>1, <1>2, StepNumbers
  <2>2. done[USB_STEPS[step]] = step
    BY <1>1, <2>1, StepNumbers DEF InOrder
  <2> QED BY <2>1, <2>2 DEF LeftToDo
<1>3. ASSUME NEW step \in Steps, USB_STEPS[step] > Len(done) PROVE step \in LeftToDo
  BY <1>1, <1>3, StepNumbers DEF LeftToDo, InOrder
<1>4. LeftToDo \subseteq Steps /\ \A step \in Steps : USB_STEPS[step] \in Nat
  BY StepNumbers DEF LeftToDo
<1> QED BY <1>1, <1>2, <1>3, <1>4

\* The first step that is left is the next to count.
LEMMA NextInOrder ==
  ASSUME Inv, InOrder, NEW r \in Runs, NEW step \in Steps, Current(r, step), run[r].left = LeftToDo,
         done' = Append(done, step)
  PROVE  InOrder' /\ LeftToDo' = LeftToDo \ {step}
<1>1. done \in Seq(Steps) /\ Len(done) \in Nat
  BY DEF Inv, TypeOK
<1>2. step \in LeftToDo /\ \A other \in LeftToDo : USB_STEPS[step] <= USB_STEPS[other]
  BY DEF Current
<1>3. USB_STEPS[step] = Len(done) + 1
  <2>1. USB_STEPS[step] \in 1..3 /\ USB_STEPS[step] > Len(done)
    BY <1>1, <1>2, InOrderLeaves, StepNumbers
  <2>2. PICK other \in Steps : USB_STEPS[other] = Len(done) + 1
    BY <1>1, <2>1, StepNumbers
  <2>3. other \in LeftToDo
    BY <1>1, <2>2, InOrderLeaves
  <2> QED BY <1>1, <1>2, <2>1, <2>2, <2>3
<1>4. /\ done' \in Seq(Steps) /\ Len(done') = Len(done) + 1 /\ done'[Len(done) + 1] = step
      /\ \A i \in 1..Len(done) : done'[i] = done[i]
  BY <1>1, AppendProperties
<1>5. InOrder'
  BY <1>1, <1>3, <1>4 DEF InOrder
<1>6. LeftToDo' = Steps \ {done'[i] : i \in 1..(Len(done) + 1)}
  BY <1>4 DEF LeftToDo
<1>7. {done'[i] : i \in 1..(Len(done) + 1)} = {done[i] : i \in 1..Len(done)} \cup {step}
  BY <1>1, <1>4
<1> QED BY <1>1, <1>5, <1>6, <1>7 DEF LeftToDo

\* Steps that count nothing and leave the runs alone, or that forget what was
\* counted along with the session.
LEMMA ResumedStays ==
  ASSUME Inv, Resumed, run' = run,
         \/ done' = done /\ session' = session
         \/ done' = done /\ session' \in Sessions /\ link[session'].state = "opening"
         \/ done' = <<>> /\ session' = NoSession
  PROVE  Resumed'
<1>1. \A r \in Runs : Active(r)' => Active(r) /\ run[r].with \in Sessions /\ link[run[r].with].state # "opening"
  BY DEF Active, Inv, RunIsFollowed
<1>2. CASE done' = done
  BY <1>1, <1>2, UsbAssumption DEF Resumed, InOrder, LeftToDo, Active
<1>3. CASE done' = <<>> /\ session' = NoSession
  BY <1>1, <1>3, UsbAssumption DEF Resumed, InOrder
<1> QED BY <1>2, <1>3

LEMMA EnrollResumes ==
  ASSUME Inv, Resumed, NEW r \in Runs, Enroll(r)
  PROVE  Resumed'
<1>1. /\ session \in Sessions /\ ~isPending /\ run' = [run EXCEPT ![r] = Launched]
      /\ session' = session /\ done' = done
  BY UsbAssumption DEF Enroll, Inv, TypeOK, provider
<1>2. run'[r] = Launched /\ \A o \in Runs : o # r => run'[o] = run[o]
  BY <1>1 DEF Inv, TypeOK
<1>3. Launched.left = LeftToDo /\ LeftToDo' = LeftToDo
  BY <1>1 DEF Launched, LeftToDo
<1> QED BY <1>1, <1>2, <1>3 DEF Resumed, InOrder, Active

LEMMA RunResumes ==
  ASSUME Inv, NoStrayRun, Resumed, NEW r \in Runs, NEW step \in Steps, StepDone(r, step) \/ StepFails(r, step)
  PROVE  Resumed'
<1> DEFINE went == [run[r] EXCEPT !.left = @ \ {step}, !.pc = IF run[r].left = {step} THEN "ended" ELSE "running"]
           fell == [run[r] EXCEPT !.pc = "ended"]
<1>1. run[r] \in Run /\ session' = session /\ Current(r, step) /\ run[r].pc = "running"
  BY DEF StepDone, StepFails, Current, provider, Inv, TypeOK
<1>2. CASE StepFails(r, step)
  <2>1. run' = [run EXCEPT ![r] = fell] /\ done' = done
    BY <1>2 DEF StepFails, hook
  <2>2. run'[r].pc = "ended" /\ \A o \in Runs : o # r => run'[o] = run[o]
    BY <1>1, <2>1 DEF Inv, TypeOK, Run
  <2> QED BY <1>1, <2>1, <2>2 DEF Resumed, InOrder, LeftToDo, Active
<1>3. CASE StepDone(r, step)
  <2>1. run' = [run EXCEPT ![r] = went]
    BY <1>3 DEF StepDone
  <2>2. /\ run'[r].left = run[r].left \ {step} /\ run'[r].with = run[r].with /\ run'[r].here = run[r].here
        /\ \A o \in Runs : o # r => run'[o] = run[o]
    BY <1>1, <2>1 DEF Inv, TypeOK, Run
  <2>3. CASE ~run[r].here
    <3>1. done' = done
      BY <1>3, <2>3 DEF StepDone
    <3> QED BY <1>1, <2>2, <2>3, <3>1 DEF Resumed, InOrder, LeftToDo, Active
  <2>4. CASE run[r].here
    <3>1. Active(r) /\ run[r].with = session /\ run[r].left = LeftToDo
      BY <1>1, <2>4 DEF Active, NoStrayRun, Resumed
    <3>2. InOrder' /\ LeftToDo' = LeftToDo \ {step}
      BY <1>1, <1>3, <2>4, <3>1, NextInOrder DEF StepDone, Resumed
    <3>3. \A o \in Runs : Active(o)' /\ run'[o].with = session' => o = r
      BY <1>1, <2>2, <3>1 DEF Inv, StepsAreOneByOne, Active
    <3> QED BY <2>2, <3>1, <3>2, <3>3 DEF Resumed
  <2> QED BY <2>3, <2>4
<1> QED BY <1>2, <1>3

LEMMA ResumedStep ==
  ASSUME Inv, NoStrayRun, Resumed, [Next]_vars
  PROVE  Resumed'
<1>1. ASSUME NEW s \in Sessions,
             \/ \E d \in Devices : Connect(s, d)
             \/ Opened(s) \/ OpenFails(s) \/ Clear(s) \/ Drop(s)
      PROVE  Resumed'
  <2>1. run' = run
    BY <1>1 DEF Connect, Opened, OpenFails, Clear, Drop
  <2>2. \/ done' = done /\ session' = session
        \/ done' = done /\ session' \in Sessions /\ link[session'].state = "opening"
        \/ done' = <<>> /\ session' = NoSession
    BY <1>1 DEF Connect, Opened, OpenFails, Clear, Drop, SetNoSession, hook
  <2> QED BY <2>1, <2>2, ResumedStays
<1>2. ASSUME NEW c \in Closes, Disconnect(c) \/ AdbClosed(c) \/ Forgot(c) \/ ForgetFails(c)
      PROVE  Resumed'
  <2>1. /\ run' = run
        /\ \/ done' = done /\ session' = session
           \/ done' = <<>> /\ session' = NoSession
    BY <1>2 DEF Disconnect, AdbClosed, Forgot, ForgetFails, SetNoSession, hook
  <2> QED BY <2>1, ResumedStays
<1>3. CASE EnterCard \/ UNCHANGED vars
  BY <1>3, ResumedStays DEF EnterCard, vars, hook
<1>4. CASE LeaveCard \/ LeaveDashboard
  <2>1. done' = <<>> /\ \A r \in Runs : ~run'[r].here
    BY <1>4 DEF LeaveCard, LeaveDashboard, Unmount, Inv, TypeOK, Run
  <2> QED BY <2>1 DEF Resumed, InOrder, Active
<1> QED BY <1>1, <1>2, <1>3, <1>4, EnrollResumes, RunResumes DEF Next

\* A mounted card counts each step once, in order and without a gap, as long as
\* no run outlives its session ("pour reprendre à celle qui a échoué").
THEOREM EnrollmentResumes == Spec => StepsResume
<1>1. Init => Resumed
  BY DEF Init, Resumed, InOrder, Active
<1>2. Inv /\ NoStrayRun /\ Resumed /\ [Next]_vars => Resumed'
  BY ResumedStep
<1>3. Resumed => InOrder
  BY DEF Resumed
<1> QED BY <1>1, <1>2, <1>3, Invariance, PTL DEF Spec, StepsResume
=============================================================================
