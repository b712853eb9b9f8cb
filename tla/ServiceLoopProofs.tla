-------------------------- MODULE ServiceLoopProofs --------------------------
(***************************************************************************)
(* Proofs about ServiceLoop, for every number of control sessions, failed  *)
(* dials and closing goroutines: the type invariant and OneSession; then   *)
(* what the hooks are told; that a handled mark ends reconnecting; that    *)
(* the loop never waits for a control that nobody can end.                 *)
(***************************************************************************)
EXTENDS ServiceLoop, TLAPS

\* The initial state satisfies the inductive invariant: nothing is dialled.
LEMMA InitService == Init => ServiceInv
<1> SUFFICES ASSUME Init PROVE ServiceInv
  OBVIOUS
<1>1. Flags
  BY DEF Init, Flags
<1>2. LoopOK /\ ControlOK
  BY ServiceAssumption DEF Init, LoopOK, ControlOK, Controls, LoopPCs
<1>3. HeldInv /\ DoneInv /\ WatchInv
  BY DEF Init, HeldInv, DoneInv, WatchInv, Held
<1> QED
  BY <1>1, <1>2, <1>3 DEF ServiceInv, SessionInv

\* The steps of loginWithBackoff and login preserve the invariant. Only
\* DialOk opens a session, and it finds none held.
LEMMA LoginInv ==
  ASSUME SessionInv, DialOk \/ DialFails \/ DialCancelled \/ DialRejected
                     \/ BackoffOver \/ NewControl \/ Install
  PROVE  SessionInv'
<1>1. CASE DialOk
  <2>1. LoopOK'
    BY <1>1, ServiceAssumption DEF SessionInv, LoopOK, LoopPCs, Controls, DialOk,
       svcVars, poolVars
  <2>2. ControlOK'
    BY <1>1, ServiceAssumption DEF SessionInv, LoopOK, ControlOK, Controls, DialOk,
       svcVars, poolVars
  <2>3. HeldInv'
    BY <1>1, ServiceAssumption DEF SessionInv, LoopOK, ControlOK, HeldInv, DoneInv,
       WatchInv, Held, Controls, DialOk, svcVars, poolVars
  <2>4. DoneInv'
    <3> SUFFICES ASSUME NEW c \in Controls
                 PROVE  /\ worker'[c] # "none" => c <= made'
                        /\ c \in ctlDone' => c <= made' /\ conn'[c] = "closed"
      BY DEF DoneInv
    <3>1. made \in Int /\ c \in Int /\ made' = made + 1
      BY <1>1 DEF SessionInv, LoopOK, Controls, DialOk
    <3>2. worker' = worker /\ ctlDone' = ctlDone
      BY <1>1 DEF DialOk
    <3>3. c <= made => c # made + 1 /\ c <= made'
      BY <3>1
    <3>4. c <= made => conn'[c] = conn[c]
      BY <1>1, <3>3 DEF SessionInv, ControlOK, DialOk
    <3> QED
      BY <3>2, <3>3, <3>4 DEF SessionInv, DoneInv
  <2>5. WatchInv'
    BY <1>1, ServiceAssumption DEF SessionInv, LoopOK, ControlOK, WatchInv,
       Controls, DialOk, svcVars, poolVars
  <2> QED
    BY <2>1, <2>2, <2>3, <2>4, <2>5 DEF SessionInv
<1>2. CASE DialFails
  <2>1. LoopOK'
    BY <1>2, ServiceAssumption DEF SessionInv, LoopOK, LoopPCs, Controls, DialFails,
       Reconnecting, svcVars, ctlVars, poolVars
  <2>2. ControlOK'
    BY <1>2, ServiceAssumption DEF SessionInv, LoopOK, ControlOK, Controls,
       DialFails, Reconnecting, svcVars, ctlVars, poolVars
  <2>3. HeldInv'
    BY <1>2, ServiceAssumption DEF SessionInv, LoopOK, ControlOK, HeldInv, DoneInv,
       WatchInv, Held, Controls, DialFails, Reconnecting, svcVars, ctlVars, poolVars
  <2>4. DoneInv'
    BY <1>2, ServiceAssumption DEF SessionInv, LoopOK, ControlOK, DoneInv, WatchInv,
       Controls, DialFails, Reconnecting, svcVars, ctlVars, poolVars
  <2>5. WatchInv'
    BY <1>2, ServiceAssumption DEF SessionInv, LoopOK, ControlOK, WatchInv,
       Controls, DialFails, Reconnecting, svcVars, ctlVars, poolVars
  <2> QED
    BY <2>1, <2>2, <2>3, <2>4, <2>5 DEF SessionInv
<1>3. CASE DialCancelled
  <2>1. LoopOK'
    BY <1>3, ServiceAssumption DEF SessionInv, LoopOK, LoopPCs, Controls,
       DialCancelled, LoginFails, End, SetErr, ctlVars, poolVars
  <2>2. ControlOK'
    BY <1>3, ServiceAssumption DEF SessionInv, LoopOK, ControlOK, Controls,
       DialCancelled, LoginFails, End, SetErr, ctlVars, poolVars
  <2>3. HeldInv'
    BY <1>3, ServiceAssumption DEF SessionInv, LoopOK, ControlOK, HeldInv, DoneInv,
       WatchInv, Held, Controls, DialCancelled, LoginFails, End, SetErr, ctlVars,
       poolVars
  <2>4. DoneInv'
    BY <1>3, ServiceAssumption DEF SessionInv, LoopOK, ControlOK, DoneInv, WatchInv,
       Controls, DialCancelled, LoginFails, End, SetErr, ctlVars, poolVars
  <2>5. WatchInv'
    BY <1>3, ServiceAssumption DEF SessionInv, LoopOK, ControlOK, WatchInv,
       Controls, DialCancelled, LoginFails, End, SetErr, ctlVars, poolVars
  <2> QED
    BY <2>1, <2>2, <2>3, <2>4, <2>5 DEF SessionInv
<1>4. CASE DialRejected
  <2>1. LoopOK'
    BY <1>4, ServiceAssumption DEF SessionInv, LoopOK, LoopPCs, Controls,
       DialRejected, LoginFails, End, SetErr, ctlVars, poolVars
  <2>2. ControlOK'
    BY <1>4, ServiceAssumption DEF SessionInv, LoopOK, ControlOK, Controls,
       DialRejected, LoginFails, End, SetErr, ctlVars, poolVars
  <2>3. HeldInv'
    BY <1>4, ServiceAssumption DEF SessionInv, LoopOK, ControlOK, HeldInv, DoneInv,
       WatchInv, Held, Controls, DialRejected, LoginFails, End, SetErr, ctlVars,
       poolVars
  <2>4. DoneInv'
    BY <1>4, ServiceAssumption DEF SessionInv, LoopOK, ControlOK, DoneInv, WatchInv,
       Controls, DialRejected, LoginFails, End, SetErr, ctlVars, poolVars
  <2>5. WatchInv'
    BY <1>4, ServiceAssumption DEF SessionInv, LoopOK, ControlOK, WatchInv,
       Controls, DialRejected, LoginFails, End, SetErr, ctlVars, poolVars
  <2> QED
    BY <2>1, <2>2, <2>3, <2>4, <2>5 DEF SessionInv
<1>5. CASE BackoffOver
  <2>1. LoopOK'
    BY <1>5, ServiceAssumption DEF SessionInv, LoopOK, LoopPCs, Controls,
       BackoffOver, svcVars, ctlVars, poolVars
  <2>2. ControlOK'
    BY <1>5, ServiceAssumption DEF SessionInv, LoopOK, ControlOK, Controls,
       BackoffOver, svcVars, ctlVars, poolVars
  <2>3. HeldInv'
    BY <1>5, ServiceAssumption DEF SessionInv, LoopOK, ControlOK, HeldInv, DoneInv,
       WatchInv, Held, Controls, BackoffOver, svcVars, ctlVars, poolVars
  <2>4. DoneInv'
    BY <1>5, ServiceAssumption DEF SessionInv, LoopOK, ControlOK, DoneInv, WatchInv,
       Controls, BackoffOver, svcVars, ctlVars, poolVars
  <2>5. WatchInv'
    BY <1>5, ServiceAssumption DEF SessionInv, LoopOK, ControlOK, WatchInv,
       Controls, BackoffOver, svcVars, ctlVars, poolVars
  <2> QED
    BY <2>1, <2>2, <2>3, <2>4, <2>5 DEF SessionInv
<1>6. CASE NewControl
  <2>1. LoopOK'
    BY <1>6, ServiceAssumption DEF SessionInv, LoopOK, LoopPCs, Controls,
       NewControl, svcVars, poolVars
  <2>2. ControlOK'
    <3>1. made \in Controls
      BY <1>6 DEF SessionInv, LoopOK, WatchInv, Controls, NewControl
    <3>2. ctl # 0 => ctl \in Controls
      BY ServiceAssumption DEF SessionInv, LoopOK, Controls
    <3>3. mgrOf' \in [Controls -> Controls]
      <4> DEFINE m == IF ctl = 0 THEN made ELSE mgrOf[ctl]
      <4>1. m \in Controls
        BY <3>1, <3>2 DEF SessionInv, ControlOK
      <4>2. mgrOf' = [mgrOf EXCEPT ![made] = m]
        BY <1>6 DEF NewControl
      <4> QED
        BY <3>1, <4>1, <4>2 DEF SessionInv, ControlOK
    <3>4. worker' \in [Controls -> {"none", "starting", "running", "ended"}]
      BY <1>6, <3>1 DEF SessionInv, ControlOK, NewControl
    <3> QED
      BY <1>6, <3>3, <3>4 DEF SessionInv, ControlOK, NewControl, poolVars
  <2>3. HeldInv'
    BY <1>6, ServiceAssumption DEF SessionInv, LoopOK, ControlOK, HeldInv, DoneInv,
       WatchInv, Held, Controls, NewControl, svcVars, poolVars
  <2>4. DoneInv'
    <3>1. made' = made /\ ctlDone' = ctlDone /\ conn' = conn
      BY <1>6 DEF NewControl
    <3>2. \A c \in Controls : c = made \/ worker'[c] = worker[c]
      BY <1>6 DEF SessionInv, ControlOK, NewControl
    <3>3. made \in Int /\ \A c \in Controls : c = made => c <= made
      BY DEF SessionInv, LoopOK, Controls
    <3> QED
      BY <3>1, <3>2, <3>3 DEF SessionInv, DoneInv
  <2>5. WatchInv'
    BY <1>6, ServiceAssumption DEF SessionInv, LoopOK, ControlOK, WatchInv,
       Controls, NewControl, svcVars, poolVars
  <2> QED
    BY <2>1, <2>2, <2>3, <2>4, <2>5 DEF SessionInv
<1>7. CASE Install
  <2>1. LoopOK'
    BY <1>7, ServiceAssumption DEF SessionInv, LoopOK, LoopPCs, Install,
       CloseSession, poolVars
  <2>2. ControlOK'
    BY <1>7, ServiceAssumption DEF SessionInv, LoopOK, ControlOK, Controls, Install,
       CloseSession, poolVars
  <2>3. HeldInv'
    BY <1>7, ServiceAssumption DEF SessionInv, LoopOK, ControlOK, HeldInv, DoneInv,
       WatchInv, Held, Controls, Install, CloseSession, poolVars
  <2>4. DoneInv'
    BY <1>7, ServiceAssumption DEF SessionInv, LoopOK, ControlOK, DoneInv, WatchInv,
       Controls, Install, CloseSession, poolVars
  <2>5. WatchInv'
    BY <1>7, ServiceAssumption DEF SessionInv, LoopOK, ControlOK, WatchInv,
       Controls, Install, CloseSession, poolVars
  <2> QED
    BY <2>1, <2>2, <2>3, <2>4, <2>5 DEF SessionInv
<1> QED
  BY <1>1, <1>2, <1>3, <1>4, <1>5, <1>6, <1>7

\* The steps of keepGatewayConnectionAlive preserve the invariant: leaving
\* the wait means that the session dialled last is closed.
LEMMA KeepAliveInv ==
  ASSUME SessionInv, Top \/ GetCtl \/ WaitCancelled \/ WaitDone \/ Check \/ Retry
  PROVE  SessionInv'
<1>1. CASE Top
  <2>1. LoopOK'
    BY <1>1, ServiceAssumption DEF SessionInv, LoopOK, LoopPCs, Controls, Top, End,
       SetErr, ctlVars, poolVars
  <2>2. ControlOK'
    BY <1>1, ServiceAssumption DEF SessionInv, LoopOK, ControlOK, Controls, Top,
       End, SetErr, ctlVars, poolVars
  <2>3. HeldInv'
    BY <1>1, ServiceAssumption DEF SessionInv, LoopOK, ControlOK, HeldInv, DoneInv,
       WatchInv, Held, Controls, Top, End, SetErr, ctlVars, poolVars
  <2>4. DoneInv'
    BY <1>1, ServiceAssumption DEF SessionInv, LoopOK, ControlOK, DoneInv, WatchInv,
       Controls, Top, End, SetErr, ctlVars, poolVars
  <2>5. WatchInv'
    BY <1>1, ServiceAssumption DEF SessionInv, LoopOK, ControlOK, WatchInv,
       Controls, Top, End, SetErr, ctlVars, poolVars
  <2> QED
    BY <2>1, <2>2, <2>3, <2>4, <2>5 DEF SessionInv
<1>2. CASE GetCtl
  <2>1. LoopOK'
    BY <1>2, ServiceAssumption DEF SessionInv, LoopOK, LoopPCs, Controls, GetCtl,
       End, SetErr, ctlVars, poolVars
  <2>2. ControlOK'
    BY <1>2, ServiceAssumption DEF SessionInv, LoopOK, ControlOK, Controls, GetCtl,
       End, SetErr, ctlVars, poolVars
  <2>3. HeldInv'
    BY <1>2, ServiceAssumption DEF SessionInv, LoopOK, ControlOK, HeldInv, DoneInv,
       WatchInv, Held, Controls, GetCtl, End, SetErr, ctlVars, poolVars
  <2>4. DoneInv'
    BY <1>2, ServiceAssumption DEF SessionInv, LoopOK, ControlOK, DoneInv, WatchInv,
       Controls, GetCtl, End, SetErr, ctlVars, poolVars
  <2>5. WatchInv'
    BY <1>2, ServiceAssumption DEF SessionInv, LoopOK, ControlOK, WatchInv,
       Controls, GetCtl, End, SetErr, ctlVars, poolVars
  <2> QED
    BY <2>1, <2>2, <2>3, <2>4, <2>5 DEF SessionInv
<1>3. CASE WaitCancelled
  <2>1. LoopOK'
    BY <1>3, ServiceAssumption DEF SessionInv, LoopOK, LoopPCs, Controls,
       WaitCancelled, End, SetErr, ctlVars, poolVars
  <2>2. ControlOK'
    BY <1>3, ServiceAssumption DEF SessionInv, LoopOK, ControlOK, Controls,
       WaitCancelled, End, SetErr, ctlVars, poolVars
  <2>3. HeldInv'
    BY <1>3, ServiceAssumption DEF SessionInv, LoopOK, ControlOK, HeldInv, DoneInv,
       WatchInv, Held, Controls, WaitCancelled, End, SetErr, ctlVars, poolVars
  <2>4. DoneInv'
    BY <1>3, ServiceAssumption DEF SessionInv, LoopOK, ControlOK, DoneInv, WatchInv,
       Controls, WaitCancelled, End, SetErr, ctlVars, poolVars
  <2>5. WatchInv'
    BY <1>3, ServiceAssumption DEF SessionInv, LoopOK, ControlOK, WatchInv,
       Controls, WaitCancelled, End, SetErr, ctlVars, poolVars
  <2> QED
    BY <2>1, <2>2, <2>3, <2>4, <2>5 DEF SessionInv
<1>4. CASE WaitDone
  <2>1. LoopOK'
    BY <1>4, ServiceAssumption DEF SessionInv, LoopOK, LoopPCs, Controls, WaitDone,
       svcVars, ctlVars, poolVars
  <2>2. ControlOK'
    BY <1>4, ServiceAssumption DEF SessionInv, LoopOK, ControlOK, Controls,
       WaitDone, svcVars, ctlVars, poolVars
  <2>3. HeldInv'
    BY <1>4, ServiceAssumption DEF SessionInv, LoopOK, ControlOK, HeldInv, DoneInv,
       WatchInv, Held, Controls, WaitDone, svcVars, ctlVars, poolVars
  <2>4. DoneInv'
    BY <1>4, ServiceAssumption DEF SessionInv, LoopOK, ControlOK, DoneInv, WatchInv,
       Controls, WaitDone, svcVars, ctlVars, poolVars
  <2>5. WatchInv'
    BY <1>4, ServiceAssumption DEF SessionInv, LoopOK, ControlOK, WatchInv,
       Controls, WaitDone, svcVars, ctlVars, poolVars
  <2> QED
    BY <2>1, <2>2, <2>3, <2>4, <2>5 DEF SessionInv
<1>5. CASE Check
  <2>1. LoopOK'
    BY <1>5, ServiceAssumption DEF SessionInv, LoopOK, LoopPCs, Controls, Check,
       End, SetErr, ctlVars, poolVars
  <2>2. ControlOK'
    BY <1>5, ServiceAssumption DEF SessionInv, LoopOK, ControlOK, Controls, Check,
       End, SetErr, ctlVars, poolVars
  <2>3. HeldInv'
    BY <1>5, ServiceAssumption DEF SessionInv, LoopOK, ControlOK, HeldInv, DoneInv,
       WatchInv, Held, Controls, Check, End, SetErr, ctlVars, poolVars
  <2>4. DoneInv'
    BY <1>5, ServiceAssumption DEF SessionInv, LoopOK, ControlOK, DoneInv, WatchInv,
       Controls, Check, End, SetErr, ctlVars, poolVars
  <2>5. WatchInv'
    BY <1>5, ServiceAssumption DEF SessionInv, LoopOK, ControlOK, WatchInv,
       Controls, Check, End, SetErr, ctlVars, poolVars
  <2> QED
    BY <2>1, <2>2, <2>3, <2>4, <2>5 DEF SessionInv
<1>6. CASE Retry
  <2>1. LoopOK'
    <3>1. attempt = 0 /\ fails \in Nat
      BY <1>6, ServiceAssumption DEF SessionInv, LoopOK, WatchInv, Retry
    <3>2. attempt' \in 0..(fails' + 1) /\ shown' \in Nat
      BY <1>6, <3>1 DEF SessionInv, LoopOK, Retry, Reconnecting, End
    <3> QED
      BY <1>6, <3>2, ServiceAssumption DEF SessionInv, LoopOK, LoopPCs, Retry, Reconnecting,
         End, SetErr
  <2>2. ControlOK'
    BY <1>6, ServiceAssumption DEF SessionInv, LoopOK, ControlOK, Controls, Retry,
       Reconnecting, End, SetErr, ctlVars, poolVars
  <2>3. HeldInv'
    BY <1>6, ServiceAssumption DEF SessionInv, LoopOK, ControlOK, HeldInv, DoneInv,
       WatchInv, Held, Controls, Retry, Reconnecting, End, SetErr, ctlVars, poolVars
  <2>4. DoneInv'
    BY <1>6, ServiceAssumption DEF SessionInv, LoopOK, ControlOK, DoneInv, WatchInv,
       Controls, Retry, Reconnecting, End, SetErr, ctlVars, poolVars
  <2>5. WatchInv'
    BY <1>6, ServiceAssumption DEF SessionInv, LoopOK, ControlOK, WatchInv,
       Controls, Retry, Reconnecting, End, SetErr, ctlVars, poolVars
  <2> QED
    BY <2>1, <2>2, <2>3, <2>4, <2>5 DEF SessionInv
<1> QED
  BY <1>1, <1>2, <1>3, <1>4, <1>5, <1>6

\* The steps of a control session preserve the invariant: they close
\* sessions and never open one.
LEMMA ControlInv ==
  ASSUME SessionInv, NEW c \in Controls, ControlStep(c) \/ EdgeStep(c)
  PROVE  SessionInv'
<1>1. CASE WorkerStarts(c)
  <2>1. LoopOK'
    BY <1>1, ServiceAssumption DEF SessionInv, LoopOK, LoopPCs, Controls,
       WorkerStarts, loopVars, svcVars, poolVars
  <2>2. ControlOK'
    BY <1>1, ServiceAssumption DEF SessionInv, LoopOK, ControlOK, Controls,
       WorkerStarts, loopVars, svcVars, poolVars
  <2>3. HeldInv'
    BY <1>1, ServiceAssumption DEF SessionInv, LoopOK, ControlOK, HeldInv, DoneInv,
       WatchInv, Held, Controls, WorkerStarts, loopVars, svcVars, poolVars
  <2>4. DoneInv'
    BY <1>1, ServiceAssumption DEF SessionInv, LoopOK, ControlOK, DoneInv, WatchInv,
       Controls, WorkerStarts, loopVars, svcVars, poolVars
  <2>5. WatchInv'
    BY <1>1, ServiceAssumption DEF SessionInv, LoopOK, ControlOK, WatchInv,
       Controls, WorkerStarts, loopVars, svcVars, poolVars
  <2> QED
    BY <2>1, <2>2, <2>3, <2>4, <2>5 DEF SessionInv
<1>2. CASE WorkerEnds(c)
  <2>1. LoopOK'
    BY <1>2, ServiceAssumption DEF SessionInv, LoopOK, LoopPCs, Controls,
       WorkerEnds, CloseSession, loopVars, svcVars, poolVars
  <2>2. ControlOK'
    BY <1>2, ServiceAssumption DEF SessionInv, LoopOK, ControlOK, Controls,
       WorkerEnds, CloseSession, loopVars, svcVars, poolVars
  <2>3. HeldInv'
    BY <1>2, ServiceAssumption DEF SessionInv, LoopOK, ControlOK, HeldInv, DoneInv,
       WatchInv, Held, Controls, WorkerEnds, CloseSession, loopVars, svcVars,
       poolVars
  <2>4. DoneInv'
    BY <1>2, ServiceAssumption DEF SessionInv, LoopOK, ControlOK, DoneInv, WatchInv,
       Controls, WorkerEnds, CloseSession, loopVars, svcVars, poolVars
  <2>5. WatchInv'
    BY <1>2, ServiceAssumption DEF SessionInv, LoopOK, ControlOK, WatchInv,
       Controls, WorkerEnds, CloseSession, loopVars, svcVars, poolVars
  <2> QED
    BY <2>1, <2>2, <2>3, <2>4, <2>5 DEF SessionInv
<1>3. CASE ReadFails(c)
  <2>1. LoopOK'
    BY <1>3, ServiceAssumption DEF SessionInv, LoopOK, LoopPCs, Controls, ReadFails,
       loopVars, svcVars, poolVars
  <2>2. ControlOK'
    BY <1>3, ServiceAssumption DEF SessionInv, LoopOK, ControlOK, Controls,
       ReadFails, loopVars, svcVars, poolVars
  <2>3. HeldInv'
    BY <1>3, ServiceAssumption DEF SessionInv, LoopOK, ControlOK, HeldInv, DoneInv,
       WatchInv, Held, Controls, ReadFails, loopVars, svcVars, poolVars
  <2>4. DoneInv'
    BY <1>3, ServiceAssumption DEF SessionInv, LoopOK, ControlOK, DoneInv, WatchInv,
       Controls, ReadFails, loopVars, svcVars, poolVars
  <2>5. WatchInv'
    BY <1>3, ServiceAssumption DEF SessionInv, LoopOK, ControlOK, WatchInv,
       Controls, ReadFails, loopVars, svcVars, poolVars
  <2> QED
    BY <2>1, <2>2, <2>3, <2>4, <2>5 DEF SessionInv
<1>4. CASE StopSlept(c)
  <2>1. LoopOK'
    BY <1>4, ServiceAssumption DEF SessionInv, LoopOK, LoopPCs, Controls, StopSlept,
       CloseSession, loopVars, svcVars, poolVars
  <2>2. ControlOK'
    BY <1>4, ServiceAssumption DEF SessionInv, LoopOK, ControlOK, Controls,
       StopSlept, CloseSession, loopVars, svcVars, poolVars
  <2>3. HeldInv'
    BY <1>4, ServiceAssumption DEF SessionInv, LoopOK, ControlOK, HeldInv, DoneInv,
       WatchInv, Held, Controls, StopSlept, CloseSession, loopVars, svcVars,
       poolVars
  <2>4. DoneInv'
    BY <1>4, ServiceAssumption DEF SessionInv, LoopOK, ControlOK, DoneInv, WatchInv,
       Controls, StopSlept, CloseSession, loopVars, svcVars, poolVars
  <2>5. WatchInv'
    BY <1>4, ServiceAssumption DEF SessionInv, LoopOK, ControlOK, WatchInv,
       Controls, StopSlept, CloseSession, loopVars, svcVars, poolVars
  <2> QED
    BY <2>1, <2>2, <2>3, <2>4, <2>5 DEF SessionInv
<1>5. CASE LinkDrops(c)
  <2>1. LoopOK'
    BY <1>5, ServiceAssumption DEF SessionInv, LoopOK, LoopPCs, Controls, LinkDrops,
       loopVars, svcVars, poolVars
  <2>2. ControlOK'
    BY <1>5, ServiceAssumption DEF SessionInv, LoopOK, ControlOK, Controls,
       LinkDrops, loopVars, svcVars, poolVars
  <2>3. HeldInv'
    BY <1>5, ServiceAssumption DEF SessionInv, LoopOK, ControlOK, HeldInv, DoneInv,
       WatchInv, Held, Controls, LinkDrops, loopVars, svcVars, poolVars
  <2>4. DoneInv'
    BY <1>5, ServiceAssumption DEF SessionInv, LoopOK, ControlOK, DoneInv, WatchInv,
       Controls, LinkDrops, loopVars, svcVars, poolVars
  <2>5. WatchInv'
    BY <1>5, ServiceAssumption DEF SessionInv, LoopOK, ControlOK, WatchInv,
       Controls, LinkDrops, loopVars, svcVars, poolVars
  <2> QED
    BY <2>1, <2>2, <2>3, <2>4, <2>5 DEF SessionInv
<1>6. CASE WriteFails(c)
  <2>1. LoopOK'
    BY <1>6, ServiceAssumption DEF SessionInv, LoopOK, LoopPCs, Controls,
       WriteFails, loopVars, svcVars, poolVars
  <2>2. ControlOK'
    BY <1>6, ServiceAssumption DEF SessionInv, LoopOK, ControlOK, Controls,
       WriteFails, loopVars, svcVars, poolVars
  <2>3. HeldInv'
    BY <1>6, ServiceAssumption DEF SessionInv, LoopOK, ControlOK, HeldInv, DoneInv,
       WatchInv, Held, Controls, WriteFails, loopVars, svcVars, poolVars
  <2>4. DoneInv'
    BY <1>6, ServiceAssumption DEF SessionInv, LoopOK, ControlOK, DoneInv, WatchInv,
       Controls, WriteFails, loopVars, svcVars, poolVars
  <2>5. WatchInv'
    BY <1>6, ServiceAssumption DEF SessionInv, LoopOK, ControlOK, WatchInv,
       Controls, WriteFails, loopVars, svcVars, poolVars
  <2> QED
    BY <2>1, <2>2, <2>3, <2>4, <2>5 DEF SessionInv
<1>7. CASE HandleDisconnect(c)
  <2>1. LoopOK'
    BY <1>7, ServiceAssumption DEF SessionInv, LoopOK, LoopPCs, Controls,
       HandleDisconnect, CloseSession, loopVars, svcVars, poolVars
  <2>2. ControlOK'
    BY <1>7, ServiceAssumption DEF SessionInv, LoopOK, ControlOK, Controls,
       HandleDisconnect, CloseSession, loopVars, svcVars, poolVars
  <2>3. HeldInv'
    BY <1>7, ServiceAssumption DEF SessionInv, LoopOK, ControlOK, HeldInv, DoneInv,
       WatchInv, Held, Controls, HandleDisconnect, CloseSession, loopVars, svcVars,
       poolVars
  <2>4. DoneInv'
    BY <1>7, ServiceAssumption DEF SessionInv, LoopOK, ControlOK, DoneInv, WatchInv,
       Controls, HandleDisconnect, CloseSession, loopVars, svcVars, poolVars
  <2>5. WatchInv'
    BY <1>7, ServiceAssumption DEF SessionInv, LoopOK, ControlOK, WatchInv,
       Controls, HandleDisconnect, CloseSession, loopVars, svcVars, poolVars
  <2> QED
    BY <2>1, <2>2, <2>3, <2>4, <2>5 DEF SessionInv
<1>8. CASE HandleStop(c)
  <2>1. LoopOK'
    BY <1>8, ServiceAssumption DEF SessionInv, LoopOK, LoopPCs, Controls,
       HandleStop, loopVars, svcVars, poolVars
  <2>2. ControlOK'
    BY <1>8, ServiceAssumption DEF SessionInv, LoopOK, ControlOK, Controls,
       HandleStop, loopVars, svcVars, poolVars
  <2>3. HeldInv'
    BY <1>8, ServiceAssumption DEF SessionInv, LoopOK, ControlOK, HeldInv, DoneInv,
       WatchInv, Held, Controls, HandleStop, loopVars, svcVars, poolVars
  <2>4. DoneInv'
    BY <1>8, ServiceAssumption DEF SessionInv, LoopOK, ControlOK, DoneInv, WatchInv,
       Controls, HandleStop, loopVars, svcVars, poolVars
  <2>5. WatchInv'
    BY <1>8, ServiceAssumption DEF SessionInv, LoopOK, ControlOK, WatchInv,
       Controls, HandleStop, loopVars, svcVars, poolVars
  <2> QED
    BY <2>1, <2>2, <2>3, <2>4, <2>5 DEF SessionInv
<1> QED
  BY <1>1, <1>2, <1>3, <1>4, <1>5, <1>6, <1>7, <1>8 DEF ControlStep, EdgeStep

\* Close and the cancelled context preserve the invariant.
LEMMA CloseInv ==
  ASSUME SessionInv, CancelContext \/ \E u \in Closers : CloseCancels(u) \/ CloseStep(u)
  PROVE  SessionInv'
<1>1. CASE CancelContext
  <2>1. LoopOK'
    BY <1>1, ServiceAssumption DEF SessionInv, LoopOK, LoopPCs, Controls,
       CancelContext, loopVars, ctlVars, poolVars
  <2>2. ControlOK'
    BY <1>1, ServiceAssumption DEF SessionInv, LoopOK, ControlOK, Controls,
       CancelContext, loopVars, ctlVars, poolVars
  <2>3. HeldInv'
    BY <1>1, ServiceAssumption DEF SessionInv, LoopOK, ControlOK, HeldInv, DoneInv,
       WatchInv, Held, Controls, CancelContext, loopVars, ctlVars, poolVars
  <2>4. DoneInv'
    BY <1>1, ServiceAssumption DEF SessionInv, LoopOK, ControlOK, DoneInv, WatchInv,
       Controls, CancelContext, loopVars, ctlVars, poolVars
  <2>5. WatchInv'
    BY <1>1, ServiceAssumption DEF SessionInv, LoopOK, ControlOK, WatchInv,
       Controls, CancelContext, loopVars, ctlVars, poolVars
  <2> QED
    BY <2>1, <2>2, <2>3, <2>4, <2>5 DEF SessionInv
<1>2. ASSUME NEW u \in Closers, CloseCancels(u) PROVE SessionInv'
  <2>1. LoopOK'
    BY <1>2, ServiceAssumption DEF SessionInv, LoopOK, LoopPCs, Controls,
       CloseCancels, loopVars, ctlVars, poolVars
  <2>2. ControlOK'
    BY <1>2, ServiceAssumption DEF SessionInv, LoopOK, ControlOK, Controls,
       CloseCancels, loopVars, ctlVars, poolVars
  <2>3. HeldInv'
    BY <1>2, ServiceAssumption DEF SessionInv, LoopOK, ControlOK, HeldInv, DoneInv,
       WatchInv, Held, Controls, CloseCancels, loopVars, ctlVars, poolVars
  <2>4. DoneInv'
    BY <1>2, ServiceAssumption DEF SessionInv, LoopOK, ControlOK, DoneInv, WatchInv,
       Controls, CloseCancels, loopVars, ctlVars, poolVars
  <2>5. WatchInv'
    BY <1>2, ServiceAssumption DEF SessionInv, LoopOK, ControlOK, WatchInv,
       Controls, CloseCancels, loopVars, ctlVars, poolVars
  <2> QED
    BY <2>1, <2>2, <2>3, <2>4, <2>5 DEF SessionInv
<1>3. ASSUME NEW u \in Closers, CloseStops(u) PROVE SessionInv'
  <2>1. LoopOK'
    BY <1>3, ServiceAssumption DEF SessionInv, LoopOK, LoopPCs, Controls,
       CloseStops, CloseSession, loopVars
  <2>2. ControlOK'
    <3>1. ctl # 0 => ctl \in Controls /\ mgrOf[ctl] \in Controls
      BY ServiceAssumption DEF SessionInv, LoopOK, ControlOK, Controls
    <3>2. conn' \in [Controls -> {"none", "open", "lost", "closed"}]
      BY <1>3, <3>1 DEF SessionInv, ControlOK, CloseStops, CloseSession
    <3>3. shutdowns' \in [Controls -> Nat]
      <4>1. shutdowns \in [Controls -> Nat]
        BY DEF SessionInv, ControlOK
      <4>2. \/ shutdowns' = shutdowns
            \/ /\ ctl # 0
               /\ shutdowns' = [shutdowns EXCEPT ![mgrOf[ctl]] = @ + 1]
        BY <1>3 DEF CloseStops
      <4> QED
        BY <3>1, <4>1, <4>2
    <3>4. closing' \in [Closers -> {"idle", "cancelled", "stopped", "returned"}]
      BY <1>3 DEF SessionInv, ControlOK, CloseStops
    <3> QED
      BY <1>3, <3>2, <3>3, <3>4 DEF SessionInv, ControlOK, CloseStops
  <2>3. HeldInv'
    BY <1>3, ServiceAssumption DEF SessionInv, LoopOK, ControlOK, HeldInv, DoneInv,
       WatchInv, Held, Controls, CloseStops, CloseSession, loopVars
  <2>4. DoneInv'
    BY <1>3, ServiceAssumption DEF SessionInv, LoopOK, ControlOK, DoneInv, WatchInv,
       Controls, CloseStops, CloseSession, loopVars
  <2>5. WatchInv'
    BY <1>3, ServiceAssumption DEF SessionInv, LoopOK, ControlOK, WatchInv,
       Controls, CloseStops, CloseSession, loopVars
  <2> QED
    BY <2>1, <2>2, <2>3, <2>4, <2>5 DEF SessionInv
<1>4. ASSUME NEW u \in Closers, CloseFinishes(u) PROVE SessionInv'
  <2>1. LoopOK'
    BY <1>4, ServiceAssumption DEF SessionInv, LoopOK, LoopPCs, Controls,
       CloseFinishes, loopVars, ctlVars, poolVars
  <2>2. ControlOK'
    BY <1>4, ServiceAssumption DEF SessionInv, LoopOK, ControlOK, Controls,
       CloseFinishes, loopVars, ctlVars, poolVars
  <2>3. HeldInv'
    BY <1>4, ServiceAssumption DEF SessionInv, LoopOK, ControlOK, HeldInv, DoneInv,
       WatchInv, Held, Controls, CloseFinishes, loopVars, ctlVars, poolVars
  <2>4. DoneInv'
    BY <1>4, ServiceAssumption DEF SessionInv, LoopOK, ControlOK, DoneInv, WatchInv,
       Controls, CloseFinishes, loopVars, ctlVars, poolVars
  <2>5. WatchInv'
    BY <1>4, ServiceAssumption DEF SessionInv, LoopOK, ControlOK, WatchInv,
       Controls, CloseFinishes, loopVars, ctlVars, poolVars
  <2> QED
    BY <2>1, <2>2, <2>3, <2>4, <2>5 DEF SessionInv
<1> QED
  BY <1>1, <1>2, <1>3, <1>4 DEF CloseStep

\* A Boolean flag stays one: it is set to TRUE or left alone.
LEMMA NextFlags ==
  ASSUME Flags, [Next]_vars
  PROVE  Flags'
<1> USE DEF Next, LoopStep, DialOk, DialFails, DialCancelled, DialRejected, LoginFails, End,
     BackoffOver, NewControl, Install, Top, GetCtl, WaitCancelled, WaitDone, Check, Retry,
     ControlStep, WorkerStarts, WorkerEnds, ReadFails, StopSlept, EdgeStep, LinkDrops,
     WriteFails, HandleDisconnect, HandleStop, CancelContext, CloseCancels, CloseStep,
     CloseStops, CloseFinishes, vars, loopVars, svcVars
<1>1. started' \in {started, TRUE}
  OBVIOUS
<1>2. ctxDone' \in {ctxDone, TRUE}
  OBVIOUS
<1>3. doneCh' \in {doneCh, TRUE}
  OBVIOUS
<1> QED
  BY <1>1, <1>2, <1>3 DEF Flags

\* Every step of the specification preserves the invariant.
LEMMA NextService == ServiceInv /\ [Next]_vars => ServiceInv'
<1> SUFFICES ASSUME ServiceInv, [Next]_vars PROVE ServiceInv'
  OBVIOUS
<1>1. Flags'
  BY NextFlags DEF ServiceInv
<1>2. SessionInv'
  <2>1. CASE UNCHANGED vars
    BY <2>1 DEF vars, loopVars, svcVars, ctlVars, poolVars, ServiceInv, SessionInv,
                LoopOK, ControlOK, HeldInv, DoneInv, WatchInv, Held
  <2>2. CASE Next
    BY <2>2, LoginInv, KeepAliveInv, ControlInv, CloseInv DEF Next, LoopStep, ServiceInv
  <2> QED
    BY <2>1, <2>2
<1> QED
  BY <1>1, <1>2 DEF ServiceInv

\* The inductive invariant holds in every reachable state.
THEOREM ServiceInvariant == Spec => []ServiceInv
  BY InitService, NextService, PTL DEF Spec

\* The type invariant holds for every value of the constants.
THEOREM ServiceTypeCorrect == Spec => []TypeOK
<1>1. ServiceInv => TypeOK
  BY DEF ServiceInv, SessionInv, TypeOK
<1> QED
  BY <1>1, ServiceInvariant, PTL

\* However drops, reconnects, edge requests and Close interleave, the client
\* never holds two control sessions (login dials the next one only after
\* Control.worker has closed the last).
THEOREM SingleSession == Spec => []OneSession
<1>1. ServiceInv => OneSession
  BY DEF ServiceInv, SessionInv, HeldInv, OneSession
<1> QED
  BY <1>1, ServiceInvariant, PTL

-----------------------------------------------------------------------------
(* The hooks.                                                              *)

\* OnDisconnected is called on the way out; from Start on, the attempt shown
\* is the counter, and the counter is 0 outside an outage.
HookInv ==
  /\ told = "disconnected" => loop = "ended"
  /\ started /\ told = "reconnecting" => shown = attempt
  /\ started /\ told # "reconnecting" => attempt = 0 \/ loop = "ended"

\* The steps of the goroutines around the loop call no hook.
LEMMA OthersCallNoHook ==
  ASSUME [Next]_vars, ~LoopStep, ~DialRejected
  PROVE  UNCHANGED loopVars
  BY DEF Next, ControlStep, WorkerStarts, WorkerEnds, ReadFails, StopSlept, EdgeStep, LinkDrops,
     WriteFails, HandleDisconnect, HandleStop, CancelContext, CloseCancels, CloseStep, CloseStops,
     CloseFinishes, vars

\* Every step preserves it: only the loop calls hooks and counts attempts.
LEMMA NextHook == ServiceInv /\ HookInv /\ [Next]_vars => HookInv'
<1> SUFFICES ASSUME ServiceInv, HookInv, [Next]_vars PROVE HookInv'
  OBVIOUS
<1>1. CASE ~LoopStep /\ ~DialRejected
  BY <1>1, OthersCallNoHook DEF loopVars, HookInv
<1>2. CASE DialOk \/ BackoffOver \/ NewControl \/ Top \/ GetCtl \/ WaitCancelled \/ WaitDone
  BY <1>2 DEF DialOk, BackoffOver, NewControl, Top, GetCtl, WaitCancelled, WaitDone, End, HookInv
<1>3. CASE DialFails \/ Retry
  BY <1>3 DEF DialFails, Retry, Reconnecting, End, HookInv
<1>4. CASE DialCancelled \/ DialRejected
  BY <1>4 DEF DialCancelled, DialRejected, LoginFails, End, HookInv
<1>5. CASE Install \/ Check
  BY <1>5 DEF Install, Check, End, HookInv
<1> QED
  BY <1>1, <1>2, <1>3, <1>4, <1>5 DEF LoopStep

\* The invariant of the hooks.
THEOREM HookInvariant == Spec => []HookInv
<1>1. Init => HookInv
  BY DEF Init, HookInv
<1> QED
  BY <1>1, NextHook, ServiceInvariant, PTL DEF Spec

\* Why the loop is where it is: only the way out sets Err or calls
\* OnDisconnected, Close comes after the context was cancelled, and the loop
\* that goes on has a control unless Close took it.
EndInv ==
  /\ loop # "ended" => err = "nil" /\ told # "disconnected"
  /\ loop = "ended" => doneCh
  /\ doneCh => loop = "ended" \/ ctxDone
  /\ loop = "ended" => ctxDone \/ told = "disconnected"
  /\ told = "disconnected" => err = "permanent"
  /\ ctxDone \/ \A u \in Closers : closing[u] = "idle"
  /\ loop \in {"top", "getctl"} => ctl # 0 \/ ctxDone

\* Only the steps of Close and CancelContext among the others touch it.
LEMMA NextEnd == ServiceInv /\ EndInv /\ [Next]_vars => EndInv'
<1> SUFFICES ASSUME ServiceInv, EndInv, [Next]_vars PROVE EndInv'
  OBVIOUS
<1>1. CASE \E c \in Controls : ControlStep(c) \/ EdgeStep(c)
  <2>1. UNCHANGED <<loopVars, svcVars, closing>>
    BY <1>1 DEF ControlStep, WorkerStarts, WorkerEnds, ReadFails, StopSlept, EdgeStep, LinkDrops,
       WriteFails, HandleDisconnect, HandleStop
  <2> QED
    BY <2>1 DEF loopVars, svcVars, EndInv
<1>2. CASE CancelContext
  BY <1>2 DEF CancelContext, EndInv, loopVars
<1>3. ASSUME NEW u \in Closers, CloseCancels(u) \/ CloseStep(u) PROVE EndInv'
  <2>1. ctxDone' /\ UNCHANGED <<loop, told, err>> /\ doneCh' \in {doneCh, TRUE}
    BY <1>3 DEF CloseCancels, CloseStep, CloseStops, CloseFinishes, EndInv, loopVars
  <2>2. doneCh => doneCh'
    BY <2>1
  <2> QED
    BY <2>1, <2>2 DEF EndInv
<1>4. CASE DialOk \/ DialFails \/ BackoffOver \/ NewControl
  BY <1>4 DEF DialOk, DialFails, BackoffOver, NewControl, Reconnecting, EndInv, svcVars
<1>5. CASE DialCancelled
  BY <1>5 DEF DialCancelled, LoginFails, End, SetErr, EndInv
<1>6. CASE DialRejected
  BY <1>6 DEF DialRejected, LoginFails, End, SetErr, EndInv
<1>7. CASE Install
  <2>1. made # 0
    BY <1>7 DEF Install, ServiceInv, SessionInv, WatchInv, LoopOK
  <2> QED
    BY <1>7, <2>1 DEF Install, EndInv
<1>8. CASE Top \/ GetCtl \/ WaitCancelled \/ WaitDone
  BY <1>8 DEF Top, GetCtl, WaitCancelled, WaitDone, End, SetErr, EndInv, svcVars
<1>9. CASE Check \/ Retry
  BY <1>9 DEF Check, Retry, End, SetErr, Reconnecting, EndInv
<1>10. CASE UNCHANGED vars
  BY <1>10 DEF vars, loopVars, svcVars, EndInv
<1> QED
  BY <1>1, <1>2, <1>3, <1>4, <1>5, <1>6, <1>7, <1>8, <1>9, <1>10 DEF Next, LoopStep

\* The loop ends with OnDisconnected and a permanent error, or because it was
\* cancelled; OnDisconnected is never followed by a reconnect
\* (keepGatewayConnectionAlive, setErr, finish, Close).
THEOREM EndTold == Spec => []EndIsTold
<1>1. Init => EndInv
  BY DEF Init, EndInv
<1>2. EndInv => EndIsTold
  BY DEF EndInv, EndIsTold
<1> QED
  BY <1>1, <1>2, NextEnd, ServiceInvariant, PTL DEF Spec

\* OnReconnecting counts every outage from 1 without a gap (loginWithBackoff,
\* keepGatewayConnectionAlive).
THEOREM AttemptsCounted == Spec => ReconnectCount
<1> DEFINE Counts == started /\ <<told', shown'>> # <<told, shown>> /\ told' = "reconnecting" =>
             shown' = IF told = "reconnecting" THEN shown + 1 ELSE 1
<1>1. ServiceInv /\ HookInv /\ [Next]_vars => [Counts]_vars
  <2> SUFFICES ASSUME ServiceInv, HookInv, Next, started, <<told', shown'>> # <<told, shown>>,
                      told' = "reconnecting"
               PROVE  shown' = IF told = "reconnecting" THEN shown + 1 ELSE 1
    OBVIOUS
  <2>1. DialFails \/ Retry
    BY OthersCallNoHook DEF loopVars, LoopStep, DialOk, DialCancelled, DialRejected, LoginFails,
       BackoffOver, NewControl, Install, Top, GetCtl, WaitCancelled, WaitDone, Check
  <2>2. shown' = attempt + 1 /\ loop # "ended"
    BY <2>1 DEF DialFails, Retry, Reconnecting
  <2> QED
    BY <2>2 DEF HookInv
<1> QED
  BY <1>1, HookInvariant, ServiceInvariant, PTL DEF Spec, ReconnectCount

-----------------------------------------------------------------------------
(* A marked session is the last one.                                       *)

\* Sessions before the last are done, and so is the last while the loop is on
\* its way to the next dial; nobody reads or stops a session not yet dialled.
PastInv ==
  /\ \A c \in Controls : c < made => c \in ctlDone
  /\ loop \in {"dial", "backoff", "check", "retry"} => made = 0 \/ made \in ctlDone
  /\ \A c \in Controls : c \in reader \/ c \in permanent \/ stop[c] # "none" => c <= made

\* The last session is marked and the loop has not passed its check.
MarkHolds(c) == c \in permanent /\ made = c /\ loop \notin {"dial", "backoff", "retry"}

\* Every step preserves PastInv: a session is made when the one before is done.
LEMMA NextPast == ServiceInv /\ PastInv /\ [Next]_vars => PastInv'
<1> SUFFICES ASSUME ServiceInv, PastInv, [Next]_vars PROVE PastInv'
  OBVIOUS
<1>0. made \in Nat /\ \A c \in Controls : c \in Nat
  BY DEF ServiceInv, SessionInv, LoopOK, Controls
<1>1. CASE DialOk
  <2>1. made' = made + 1 /\ loop' = "dialled" /\ UNCHANGED <<ctlDone, reader, permanent, stop>>
    BY <1>1 DEF DialOk
  <2>2. \A c \in Controls : c < made' => c < made \/ c = made
    BY <1>0, <2>1
  <2>3. \A c \in Controls : c <= made => c <= made'
    BY <1>0, <2>1
  <2>4. 0 \notin Controls /\ (made = 0 \/ made \in ctlDone)
    BY <1>1 DEF DialOk, PastInv, Controls
  <2> QED
    BY <2>1, <2>2, <2>3, <2>4 DEF PastInv
<1>2. CASE DialFails \/ DialCancelled \/ DialRejected \/ BackoffOver \/ NewControl \/ Install
  BY <1>2 DEF DialFails, DialCancelled, DialRejected, LoginFails, End, BackoffOver, NewControl, Install,
     svcVars, ctlVars, PastInv
<1>3. CASE Top \/ GetCtl \/ WaitCancelled \/ Check \/ Retry
  BY <1>3 DEF Top, GetCtl, WaitCancelled, Check, Retry, End, svcVars, ctlVars, PastInv
<1>4. CASE WaitDone
  BY <1>4 DEF WaitDone, ctlVars, PastInv, ServiceInv, SessionInv, WatchInv
<1>5. ASSUME NEW c \in Controls, ControlStep(c) \/ EdgeStep(c) PROVE PastInv'
  <2>1. /\ UNCHANGED loopVars /\ ctlDone \subseteq ctlDone'
        /\ c \in reader \/ worker[c] # "none" \/ stop[c] # "none"
        \/ UNCHANGED <<loopVars, ctlDone, reader, permanent, stop>>
    BY <1>5 DEF ControlStep, WorkerStarts, WorkerEnds, ReadFails, StopSlept, EdgeStep, LinkDrops,
       WriteFails, HandleDisconnect, HandleStop
  <2>2. \A d \in Controls : d # c =>
          (d \in reader' => d \in reader) /\ (d \in permanent' => d \in permanent) /\ stop'[d] = stop[d]
    BY <1>5 DEF ControlStep, WorkerStarts, WorkerEnds, ReadFails, StopSlept, EdgeStep, LinkDrops,
       WriteFails, HandleDisconnect, HandleStop, ServiceInv, SessionInv, ControlOK
  <2>3. CASE UNCHANGED <<loopVars, ctlDone, reader, permanent, stop>>
    BY <2>3 DEF loopVars, PastInv
  <2>4. CASE /\ UNCHANGED loopVars /\ ctlDone \subseteq ctlDone'
             /\ c \in reader \/ worker[c] # "none" \/ stop[c] # "none"
    <3>1. c <= made
      BY <2>4 DEF PastInv, ServiceInv, SessionInv, DoneInv
    <3> QED
      BY <2>2, <2>4, <3>1 DEF loopVars, PastInv
  <2> QED
    BY <2>1, <2>3, <2>4
<1>6. CASE CancelContext \/ \E u \in Closers : CloseCancels(u) \/ CloseStep(u)
  BY <1>6 DEF CancelContext, CloseCancels, CloseStep, CloseStops, CloseFinishes, loopVars, ctlVars, PastInv
<1>7. CASE UNCHANGED vars
  BY <1>7 DEF vars, loopVars, ctlVars, PastInv
<1> QED
  BY <1>1, <1>2, <1>3, <1>4, <1>5, <1>6, <1>7 DEF Next, LoopStep

\* The invariant of sessions gone by.
THEOREM PastInvariant == Spec => []PastInv
<1>1. Init => PastInv
  BY DEF Init, PastInv, Controls
<1> QED
  BY <1>1, NextPast, ServiceInvariant, PTL DEF Spec

\* A session that was marked before it ended is the last one ever dialled
\* (handleDisconnect, handleStop, the check of PermanentDisconnect).
THEOREM MarkIsFinal == Spec => NoDialAfterMark
<1> SUFFICES ASSUME NEW c \in Controls
             PROVE  Spec => [](c \in permanent /\ c \notin ctlDone => [](made = c))
  BY DEF NoDialAfterMark
<1>1. ServiceInv /\ PastInv /\ c \in permanent /\ c \notin ctlDone => MarkHolds(c)
  <2> SUFFICES ASSUME ServiceInv, PastInv, c \in permanent, c \notin ctlDone PROVE MarkHolds(c)
    OBVIOUS
  <2>1. made \in Nat /\ c \in Nat /\ c # 0 /\ c <= made /\ ~(c < made)
    BY DEF ServiceInv, SessionInv, LoopOK, Controls, PastInv
  <2>2. made = c
    BY <2>1
  <2> QED
    BY <2>1, <2>2 DEF PastInv, MarkHolds
<1>2. ServiceInv /\ MarkHolds(c) /\ [Next]_vars => MarkHolds(c)'
  <2> SUFFICES ASSUME ServiceInv, MarkHolds(c), [Next]_vars PROVE MarkHolds(c)'
    OBVIOUS
  <2>1. permanent \subseteq permanent'
    BY DEF Next, LoopStep, DialOk, DialFails, DialCancelled, DialRejected, BackoffOver, NewControl,
       Install, Top, GetCtl, WaitCancelled, WaitDone, Check, Retry, ControlStep, WorkerStarts,
       WorkerEnds, ReadFails, StopSlept, EdgeStep, LinkDrops, WriteFails, HandleDisconnect,
       HandleStop, CancelContext, CloseCancels, CloseStep, CloseStops, CloseFinishes, vars, ctlVars
  <2>2. CASE ~LoopStep /\ ~DialRejected
    BY <2>1, <2>2, OthersCallNoHook DEF loopVars, MarkHolds
  <2>3. CASE DialRejected \/ (LoopStep /\ loop # "check")
    BY <2>1, <2>3 DEF MarkHolds, LoopStep, DialOk, DialFails, DialCancelled, DialRejected, BackoffOver,
       NewControl, Install, Top, GetCtl, WaitCancelled, WaitDone, Check, Retry, LoginFails, End
  <2>4. CASE LoopStep /\ loop = "check"
    <3>1. Check /\ watched \in permanent
      BY <2>4 DEF MarkHolds, LoopStep, DialOk, DialFails, DialCancelled, BackoffOver, NewControl,
         Install, Top, GetCtl, WaitCancelled, WaitDone, Retry, ServiceInv, SessionInv, WatchInv
    <3> QED
      BY <2>1, <3>1 DEF MarkHolds, Check, End
  <2> QED
    BY <2>2, <2>3, <2>4
<1>3. MarkHolds(c) => made = c
  BY DEF MarkHolds
<1> QED
  BY <1>1, <1>2, <1>3, ServiceInvariant, PastInvariant, PTL DEF Spec

-----------------------------------------------------------------------------
(* What LossRepaired and CancelEnds need besides fairness.                 *)

\* A control that runs has its reader or a dispatcher that is done, and one
\* that ended is done; the session dialled last has a control from NewControl
\* until the loop is through with it.
RunInv ==
  /\ \A c \in Controls : /\ worker[c] = "running" => c \in reader \/ c \in dispDone
                         /\ worker[c] = "ended" => c \in ctlDone
  /\ loop \in {"install", "top", "getctl", "wait"} => made > 0 /\ worker[made] # "none"

\* The loop never waits for a control that cannot end: the one it waits for is
\* done, or its worker is about to see that its dispatcher is, or a reader is
\* there to notice when the link is lost (NewControl, Run, closeDone).
LossNoticed ==
  loop = "wait" =>
    \/ worker[watched] = "starting"
    \/ worker[watched] = "running" /\ (watched \in reader \/ watched \in dispDone)
    \/ watched \in ctlDone

\* Once the context is cancelled and the loop is not dialling, no session is
\* ever dialled again: at most one follows a cancellation (Retry, Top).
NoDialAfterCancel ==
  \A n \in Nat : [](ctxDone /\ made = n /\ loop \notin {"dial", "backoff"} => [](made = n))

\* Steps of the loop leave the controls alone, except NewControl; the others
\* leave the loop alone.
LEMMA NextRun == ServiceInv /\ RunInv /\ [Next]_vars => RunInv'
<1> SUFFICES ASSUME ServiceInv, RunInv, [Next]_vars PROVE RunInv'
  OBVIOUS
<1>1. CASE NewControl
  <2>1. worker' = [worker EXCEPT ![made] = "starting"] /\ made' = made
        /\ UNCHANGED <<reader, dispDone, ctlDone>>
    BY <1>1 DEF NewControl
  <2>2. made \in Controls /\ made > 0
    BY <1>1 DEF NewControl, ServiceInv, SessionInv, LoopOK, WatchInv, Controls
  <2> QED
    BY <2>1, <2>2 DEF RunInv, ServiceInv, SessionInv, ControlOK
<1>2. CASE DialRejected \/ (LoopStep /\ ~NewControl)
  <2>1. UNCHANGED <<worker, reader, dispDone, ctlDone>>
    BY <1>2 DEF DialRejected, LoopStep, DialOk, DialFails, DialCancelled, BackoffOver,
       Install, Top, GetCtl, WaitCancelled, WaitDone, Check, Retry, ctlVars
  <2>2. loop' \in {"install", "top", "getctl", "wait"} =>
           loop \in {"install", "top", "getctl", "wait"} /\ made' = made
    BY <1>2 DEF DialRejected, LoopStep, DialOk, DialFails, DialCancelled, BackoffOver,
       Install, Top, GetCtl, WaitCancelled, WaitDone, Check, Retry, LoginFails, End
  <2> QED
    BY <2>1, <2>2 DEF RunInv
<1>3. CASE \E c \in Controls : ControlStep(c) \/ EdgeStep(c)
  <2>1. PICK c \in Controls : ControlStep(c) \/ EdgeStep(c)
    BY <1>3
  <2>2. UNCHANGED <<loop, made>>
    BY <2>1 DEF ControlStep, WorkerStarts, WorkerEnds, ReadFails, StopSlept, EdgeStep, LinkDrops,
       WriteFails, HandleDisconnect, HandleStop, loopVars
  <2>3. worker \in [Controls -> {"none", "starting", "running", "ended"}]
    BY DEF ServiceInv, SessionInv, ControlOK
  <2>4. CASE WorkerStarts(c)
    BY <2>2, <2>3, <2>4 DEF WorkerStarts, RunInv
  <2>5. CASE WorkerEnds(c)
    BY <2>2, <2>3, <2>5 DEF WorkerEnds, RunInv
  <2>6. CASE ReadFails(c) \/ WriteFails(c)
    BY <2>2, <2>6 DEF ReadFails, WriteFails, RunInv
  <2>7. CASE StopSlept(c) \/ LinkDrops(c) \/ HandleDisconnect(c) \/ HandleStop(c)
    BY <2>2, <2>7 DEF StopSlept, LinkDrops, HandleDisconnect, HandleStop, RunInv
  <2> QED
    BY <2>1, <2>4, <2>5, <2>6, <2>7 DEF ControlStep, EdgeStep
<1>4. CASE CancelContext \/ \E u \in Closers : CloseCancels(u) \/ CloseStep(u)
  BY <1>4 DEF CancelContext, CloseCancels, CloseStep, CloseStops, CloseFinishes, loopVars, ctlVars, RunInv
<1>5. CASE UNCHANGED vars
  BY <1>5 DEF vars, loopVars, ctlVars, RunInv
<1> QED
  BY <1>1, <1>2, <1>3, <1>4, <1>5 DEF Next

\* Whatever link is lost, whichever loop of the dispatcher notices it and
\* whoever closes the control, somebody is left to tell the loop that waits.
THEOREM LossIsNoticed == Spec => []LossNoticed
<1>1. Init => RunInv
  BY DEF Init, RunInv
<1>2. ServiceInv /\ RunInv => LossNoticed
  <2> SUFFICES ASSUME ServiceInv, RunInv, loop = "wait"
               PROVE  \/ worker[watched] = "starting"
                      \/ worker[watched] = "running" /\ (watched \in reader \/ watched \in dispDone)
                      \/ watched \in ctlDone
    BY DEF LossNoticed
  <2>1. watched = made /\ made \in 0..MaxControls /\ made > 0 /\ worker[made] # "none"
    BY DEF ServiceInv, SessionInv, LoopOK, WatchInv, RunInv
  <2>2. watched \in Controls
    BY <2>1, ServiceAssumption DEF Controls
  <2>3. worker[watched] \in {"starting", "running", "ended"}
    BY <2>1, <2>2 DEF ServiceInv, SessionInv, ControlOK
  <2> QED
    BY <2>2, <2>3 DEF RunInv
<1> QED
  BY <1>1, <1>2, NextRun, ServiceInvariant, PTL DEF Spec

\* A cancelled service dials at most the session it was dialling, wherever the
\* loop was and whoever else calls Close.
THEOREM CancelIsFinal == Spec => NoDialAfterCancel
<1> SUFFICES ASSUME NEW n \in Nat
             PROVE  Spec => [](ctxDone /\ made = n /\ loop \notin {"dial", "backoff"} => [](made = n))
  BY DEF NoDialAfterCancel
<1> DEFINE Cancelled == ctxDone /\ made = n /\ loop \notin {"dial", "backoff"}
<1>1. ServiceInv /\ Cancelled /\ [Next]_vars => Cancelled'
  <2> SUFFICES ASSUME ServiceInv, Cancelled, [Next]_vars PROVE Cancelled'
    OBVIOUS
  <2>1. CASE LoopStep \/ DialRejected
    BY <2>1 DEF DialRejected, LoopStep, DialOk, DialFails, DialCancelled, BackoffOver, NewControl,
       Install, Top, GetCtl, WaitCancelled, WaitDone, Check, Retry, LoginFails, End, svcVars
  <2>2. CASE ~LoopStep /\ ~DialRejected
    <3>1. ctxDone'
      BY <2>2 DEF Next, ControlStep, WorkerStarts, WorkerEnds, ReadFails, StopSlept, EdgeStep, LinkDrops,
         WriteFails, HandleDisconnect, HandleStop, CancelContext, CloseCancels, CloseStep, CloseStops,
         CloseFinishes, vars, svcVars
    <3> QED
      BY <2>2, <3>1, OthersCallNoHook DEF loopVars
  <2> QED
    BY <2>1, <2>2
<1>2. Cancelled => made = n
  OBVIOUS
<1> QED
  BY <1>1, <1>2, ServiceInvariant, PTL DEF Spec
=============================================================================
