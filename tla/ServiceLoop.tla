----------------------------- MODULE ServiceLoop -----------------------------
(***************************************************************************)
(* The life of a Service (service/service.go): the first login, the loop   *)
(* that keeps the control connection to the edge alive, and Close; with    *)
(* the part of a control session they meet (internal/gateway_ctl: worker,  *)
(* handleDisconnect, handleStop, the dispatcher's two loops).              *)
(*                                                                         *)
(* Start's caller and the goroutine it leaves behind never overlap, so     *)
(* both are the process `loop'. Control sessions are numbered in the order *)
(* they are dialled. Dialling, sleeping and the edge are the environment.  *)
(***************************************************************************)
EXTENDS Integers, FiniteSets

CONSTANTS
  MaxControls,   \* bound: control sessions dialled in a behaviour
  MaxFails,      \* bound: failed dials in a behaviour
  Closers        \* goroutines that call Service.Close, once each

ASSUME ServiceAssumption == MaxControls \in Nat \ {0} /\ MaxFails \in Nat

Controls == 1..MaxControls

VARIABLES
  \* Service
  loop,        \* where the login/keep-alive goroutine is
  started,     \* Start returned: callers have the Service
  ctxDone,     \* svr.ctx is cancelled, by Close or by the context of Start
  ctl,         \* svr.ctl; 0 is nil
  watched,     \* the control the loop waits for
  made,        \* control sessions dialled so far
  fails,       \* failed dials so far
  attempt,     \* the attempt counter of the current outage
  doneCh, err, \* Done() and Err()
  told,        \* the last hook called by the loop (OnEndpoints: module Endpoints)
  shown,       \* the attempt OnReconnecting last showed
  \* Control
  conn,        \* its yamux session; "lost" when the link died under it
  worker,      \* Control.worker
  reader,      \* dispatcher.readLoop
  dispDone,    \* controls whose dispatcher is done
  ctlDone,     \* controls whose Done() is closed
  permanent,   \* controls with the permanentDisconnect flag
  asked,       \* controls whose edge asked for a Disconnect
  stop,        \* handleStop of a control
  mgrOf,       \* the control whose endpoint manager a control uses
  \* the exec pool of an endpoint manager
  pools, shutdowns,
  \* Close
  closing

loopVars == <<loop, started, watched, made, fails, attempt, told, shown>>
svcVars  == <<ctxDone, ctl, doneCh, err>>
ctlVars  == <<conn, worker, reader, dispDone, ctlDone, permanent, asked, stop, mgrOf>>
poolVars == <<pools, shutdowns>>
vars     == <<loopVars, svcVars, ctlVars, poolVars, closing>>

LoopPCs == {"dial", "backoff", "dialled", "install", "top", "getctl", "wait",
            "check", "retry", "ended"}

Init ==
  /\ loop = "dial" /\ started = FALSE
  /\ ctxDone = FALSE /\ ctl = 0 /\ watched = 0
  /\ made = 0 /\ fails = 0 /\ attempt = 0
  /\ doneCh = FALSE /\ err = "nil"
  /\ told = "none" /\ shown = 0
  /\ conn = [c \in Controls |-> "none"]
  /\ worker = [c \in Controls |-> "none"]
  /\ reader = {} /\ dispDone = {} /\ ctlDone = {} /\ permanent = {} /\ asked = {}
  /\ stop = [c \in Controls |-> "none"]
  /\ mgrOf = [c \in Controls |-> c]
  /\ pools = {} /\ shutdowns = [c \in Controls |-> 0]
  /\ closing = [u \in Closers |-> "idle"]

-----------------------------------------------------------------------------
(* Helpers. *)

SetErr(e) == err' = IF err = "nil" THEN e ELSE err

CloseSession(c) == conn' = [conn EXCEPT ![c] = "closed"]

\* keepGatewayConnectionAlive returns: setErr, then the deferred finish.
End(e) ==
  /\ loop' = "ended"
  /\ SetErr(e)
  /\ doneCh' = TRUE

\* emitReconnecting(attempt, ...)
Reconnecting(n) == told' = "reconnecting" /\ shown' = n

\* login failed for good. Start cancels the context and returns the error,
\* and its caller closes the Service, which has no control yet; the loop
\* reports it and ends.
LoginFails(e, tell) ==
  IF started
  THEN /\ End(e)
       /\ told' = IF tell THEN "disconnected" ELSE told
       /\ UNCHANGED <<ctxDone, shown>>
  ELSE /\ loop' = "ended" /\ ctxDone' = TRUE /\ doneCh' = TRUE
       /\ UNCHANGED <<err, told, shown>>

-----------------------------------------------------------------------------
(* loginWithBackoff and login. *)

\* dialGateway returns a session, also when the context was cancelled at the
\* moment the ServerHello arrived.
DialOk ==
  /\ loop = "dial" /\ made < MaxControls
  /\ made' = made + 1
  /\ conn' = [conn EXCEPT ![made + 1] = "open"]
  /\ loop' = "dialled"
  /\ UNCHANGED <<started, watched, fails, attempt, told, shown, svcVars, worker, reader,
                 dispDone, ctlDone, permanent, asked, stop, mgrOf, poolVars, closing>>

\* A failure worth retrying: backoff.Loop calls onError.
DialFails ==
  /\ loop = "dial" /\ fails < MaxFails
  /\ fails' = fails + 1
  /\ loop' = "backoff"
  /\ IF ctxDone
     THEN UNCHANGED <<attempt, told, shown>>
     ELSE /\ attempt' = attempt + 1
          /\ IF started \/ attempt + 1 > 1
             THEN Reconnecting(attempt + 1)
             ELSE UNCHANGED <<told, shown>>
  /\ UNCHANGED <<started, watched, made, svcVars, ctlVars, poolVars, closing>>

\* The cancelled context ends the dial or the backoff.
DialCancelled ==
  /\ loop \in {"dial", "backoff"} /\ ctxDone
  /\ LoginFails("context", FALSE)
  /\ UNCHANGED <<started, watched, made, fails, attempt, ctl, ctlVars, poolVars, closing>>

\* The edge answers the ClientHello with Disconnect.
DialRejected ==
  /\ loop = "dial"
  /\ LoginFails("permanent", TRUE)
  /\ UNCHANGED <<started, watched, made, fails, attempt, ctl, ctlVars, poolVars, closing>>

BackoffOver ==
  /\ loop = "backoff"
  /\ loop' = "dial"
  /\ UNCHANGED <<started, watched, made, fails, attempt, told, shown, svcVars, ctlVars,
                 poolVars, closing>>

\* login reads the previous control's endpoint manager, then NewControl and Run.
NewControl ==
  /\ loop = "dialled"
  /\ mgrOf' = [mgrOf EXCEPT ![made] = IF ctl = 0 THEN made ELSE mgrOf[ctl]]
  /\ worker' = [worker EXCEPT ![made] = "starting"]
  /\ loop' = "install"
  /\ UNCHANGED <<started, watched, made, fails, attempt, told, shown, svcVars, conn, reader,
                 dispDone, ctlDone, permanent, asked, stop, poolVars, closing>>

\* Fault: the attempt counter is not reset by a login.
InstallKeepsAttempt ==
  /\ loop = "install"
  /\ IF ctl = 0 THEN UNCHANGED conn ELSE CloseSession(ctl)
  /\ ctl' = made
  /\ told' = "connected" /\ shown' = 0
  /\ started' = TRUE
  /\ loop' = "top"
  /\ UNCHANGED <<attempt, watched, made, fails, ctxDone, doneCh, err, worker, reader,
                 dispDone, ctlDone, permanent, asked, stop, mgrOf, poolVars, closing>>

\* The critical section of login, then emitConnected. The context is not
\* looked at again.
Install ==
  /\ loop = "install"
  /\ IF ctl = 0 THEN UNCHANGED conn ELSE CloseSession(ctl)
  /\ ctl' = made
  /\ told' = "connected" /\ shown' = 0
  /\ attempt' = 0
  /\ started' = TRUE
  /\ loop' = "top"
  /\ UNCHANGED <<watched, made, fails, ctxDone, doneCh, err, worker, reader, dispDone,
                 ctlDone, permanent, asked, stop, mgrOf, poolVars, closing>>

-----------------------------------------------------------------------------
(* keepGatewayConnectionAlive. *)

Top ==
  /\ loop = "top"
  /\ IF ctxDone THEN End("context")
     ELSE loop' = "getctl" /\ UNCHANGED <<err, doneCh>>
  /\ UNCHANGED <<started, watched, made, fails, attempt, told, shown, ctxDone, ctl,
                 ctlVars, poolVars, closing>>

GetCtl ==
  /\ loop = "getctl"
  /\ watched' = ctl
  /\ IF ctl = 0 THEN End("nil")
     ELSE loop' = "wait" /\ UNCHANGED <<err, doneCh>>
  /\ UNCHANGED <<started, made, fails, attempt, told, shown, ctxDone, ctl, ctlVars,
                 poolVars, closing>>

\* Fault: the select waits for the control only.
WaitIgnoresContext ==
  /\ loop = "wait" /\ ctxDone /\ watched \in ctlDone
  /\ End("context")
  /\ UNCHANGED <<started, watched, made, fails, attempt, told, shown, ctxDone, ctl, ctlVars,
                 poolVars, closing>>

WaitCancelled ==
  /\ loop = "wait" /\ ctxDone
  /\ End("context")
  /\ UNCHANGED <<started, watched, made, fails, attempt, told, shown, ctxDone, ctl, ctlVars,
                 poolVars, closing>>

WaitDone ==
  /\ loop = "wait" /\ watched \in ctlDone
  /\ loop' = "check"
  /\ UNCHANGED <<started, watched, made, fails, attempt, told, shown, svcVars, ctlVars,
                 poolVars, closing>>

\* Fault: a permanent disconnect is reported, but the loop goes on.
CheckGoesOn ==
  /\ loop = "check"
  /\ told' = IF watched \in permanent THEN "disconnected" ELSE told
  /\ loop' = "retry"
  /\ UNCHANGED <<started, watched, made, fails, attempt, shown, svcVars, ctlVars, poolVars,
                 closing>>

\* Fault: the loop ends without OnDisconnected.
CheckEndsSilently ==
  /\ loop = "check"
  /\ IF watched \in permanent THEN End("permanent")
     ELSE loop' = "retry" /\ UNCHANGED <<err, doneCh>>
  /\ UNCHANGED <<started, watched, made, fails, attempt, told, shown, ctxDone, ctl, ctlVars,
                 poolVars, closing>>

Check ==
  /\ loop = "check"
  /\ IF watched \in permanent
     THEN End("permanent") /\ told' = "disconnected"
     ELSE loop' = "retry" /\ UNCHANGED <<err, doneCh, told>>
  /\ UNCHANGED <<started, watched, made, fails, attempt, shown, ctxDone, ctl, ctlVars,
                 poolVars, closing>>

Retry ==
  /\ loop = "retry"
  /\ IF ctxDone
     THEN End("context") /\ UNCHANGED <<attempt, told, shown>>
     ELSE /\ attempt' = attempt + 1
          /\ Reconnecting(attempt + 1)
          /\ loop' = "dial" /\ UNCHANGED <<err, doneCh>>
  /\ UNCHANGED <<started, watched, made, fails, ctxDone, ctl, ctlVars, poolVars, closing>>

-----------------------------------------------------------------------------
(* A control session. *)

\* worker, up to the start of the dispatcher: EnsureExecBridge makes the
\* manager's exec pool once.
WorkerStarts(c) ==
  /\ worker[c] = "starting"
  /\ worker' = [worker EXCEPT ![c] = "running"]
  /\ reader' = reader \cup {c}
  /\ pools' = pools \cup {mgrOf[c]}
  /\ UNCHANGED <<loopVars, svcVars, conn, dispDone, ctlDone, permanent, asked, stop, mgrOf,
                 shutdowns, closing>>

\* Fault: the worker finishes without closing the session.
WorkerLeavesOpen(c) ==
  /\ worker[c] = "running" /\ c \in dispDone
  /\ worker' = [worker EXCEPT ![c] = "ended"]
  /\ ctlDone' = ctlDone \cup {c}
  /\ UNCHANGED <<loopVars, svcVars, conn, reader, dispDone, permanent, asked, stop, mgrOf,
                 poolVars, closing>>

\* The dispatcher is done: the worker closes the session and finishes.
WorkerEnds(c) ==
  /\ worker[c] = "running" /\ c \in dispDone
  /\ worker' = [worker EXCEPT ![c] = "ended"]
  /\ CloseSession(c)
  /\ ctlDone' = ctlDone \cup {c}
  /\ UNCHANGED <<loopVars, svcVars, reader, dispDone, permanent, asked, stop, mgrOf,
                 poolVars, closing>>

\* The network or the edge drops the link. The last control of the bound
\* keeps its link, so that a lost one can always be replaced.
LinkDrops(c) ==
  /\ conn[c] = "open" /\ c < MaxControls
  /\ conn' = [conn EXCEPT ![c] = "lost"]
  /\ UNCHANGED <<loopVars, svcVars, worker, reader, dispDone, ctlDone, permanent, asked,
                 stop, mgrOf, poolVars, closing>>

\* Fault: readLoop returns without closeDone.
ReadFailsSilently(c) ==
  /\ c \in reader
  /\ reader' = reader \ {c}
  /\ UNCHANGED <<loopVars, svcVars, conn, worker, dispDone, ctlDone, permanent, asked, stop,
                 mgrOf, poolVars, closing>>

\* readLoop meets an error: the link is gone, or the session is open and the
\* control stream has ended or brings what ReadMsg cannot decode (type, length,
\* JSON). It is not stopped by doneCh.
ReadFails(c) ==
  /\ c \in reader
  /\ reader' = reader \ {c}
  /\ dispDone' = dispDone \cup {c}
  /\ UNCHANGED <<loopVars, svcVars, conn, worker, ctlDone, permanent, asked, stop, mgrOf,
                 poolVars, closing>>

\* sendLoop meets an error (one of the stream alone included), while readLoop
\* may still have bytes to read.
WriteFails(c) ==
  /\ worker[c] = "running" /\ c \notin dispDone
  /\ dispDone' = dispDone \cup {c}
  /\ UNCHANGED <<loopVars, svcVars, conn, worker, reader, ctlDone, permanent, asked, stop,
                 mgrOf, poolVars, closing>>

\* handleDisconnect, called by readLoop.
HandleDisconnect(c) ==
  /\ c \in reader /\ c \notin asked
  /\ asked' = asked \cup {c}
  /\ permanent' = permanent \cup {c}
  /\ CloseSession(c)
  /\ UNCHANGED <<loopVars, svcVars, worker, reader, dispDone, ctlDone, stop, mgrOf,
                 poolVars, closing>>

\* handleStop, on a goroutine of its own: it acknowledges, sleeps 300 ms, and
\* only then marks the control.
HandleStop(c) ==
  /\ c \in reader /\ stop[c] = "none"
  /\ stop' = [stop EXCEPT ![c] = "sleeping"]
  /\ UNCHANGED <<loopVars, svcVars, conn, worker, reader, dispDone, ctlDone, permanent,
                 asked, mgrOf, poolVars, closing>>

StopSlept(c) ==
  /\ stop[c] = "sleeping"
  /\ stop' = [stop EXCEPT ![c] = "over"]
  /\ permanent' = permanent \cup {c}
  /\ CloseSession(c)
  /\ UNCHANGED <<loopVars, svcVars, worker, reader, dispDone, ctlDone, asked, mgrOf,
                 poolVars, closing>>

-----------------------------------------------------------------------------
(* Service.Close and the caller's context. *)

CancelContext ==
  /\ ~ctxDone
  /\ ctxDone' = TRUE
  /\ UNCHANGED <<loopVars, ctl, doneCh, err, ctlVars, poolVars, closing>>

CloseCancels(u) ==
  /\ started /\ closing[u] = "idle"
  /\ ctxDone' = TRUE
  /\ closing' = [closing EXCEPT ![u] = "cancelled"]
  /\ UNCHANGED <<loopVars, ctl, doneCh, err, ctlVars, poolVars>>

\* stopCtl, under svr.mu: ShutdownExec closes the manager's pool if there is
\* one, then the control.
CloseStops(u) ==
  /\ closing[u] = "cancelled"
  /\ closing' = [closing EXCEPT ![u] = "stopped"]
  /\ ctl' = 0
  /\ IF ctl = 0
     THEN UNCHANGED <<conn, shutdowns>>
     ELSE /\ CloseSession(ctl)
          /\ shutdowns' = IF mgrOf[ctl] \in pools
                          THEN [shutdowns EXCEPT ![mgrOf[ctl]] = @ + 1] ELSE shutdowns
  /\ UNCHANGED <<loopVars, ctxDone, doneCh, err, worker, reader, dispDone, ctlDone,
                 permanent, asked, stop, mgrOf, pools>>

CloseFinishes(u) ==
  /\ closing[u] = "stopped"
  /\ closing' = [closing EXCEPT ![u] = "returned"]
  /\ doneCh' = TRUE
  /\ UNCHANGED <<loopVars, ctxDone, ctl, err, ctlVars, poolVars>>

-----------------------------------------------------------------------------
LoopStep ==
  \/ DialOk \/ DialFails \/ DialCancelled \/ BackoffOver \/ NewControl \/ Install
  \/ Top \/ GetCtl \/ WaitCancelled \/ WaitDone \/ Check \/ Retry

ControlStep(c) ==
  WorkerStarts(c) \/ WorkerEnds(c) \/ ReadFails(c) \/ StopSlept(c)

EdgeStep(c) == LinkDrops(c) \/ WriteFails(c) \/ HandleDisconnect(c) \/ HandleStop(c)

CloseStep(u) == CloseStops(u) \/ CloseFinishes(u)

Next ==
  \/ LoopStep \/ DialRejected
  \/ \E c \in Controls : ControlStep(c) \/ EdgeStep(c)
  \/ CancelContext
  \/ \E u \in Closers : CloseCancels(u) \/ CloseStep(u)

Spec == Init /\ [][Next]_vars

\* Goroutines that can run do run, timers fire, a dial ends. The edge, the
\* network and the users are never forced to do anything. That failures
\* are at most MaxFails stands for an edge that can be reached again.
Fairness ==
  /\ WF_vars(LoopStep)
  /\ \A c \in Controls : /\ WF_vars(WorkerStarts(c) \/ WorkerEnds(c) \/ StopSlept(c))
                         /\ WF_vars(conn[c] # "open" /\ ReadFails(c))
  /\ \A u \in Closers : WF_vars(CloseStep(u))

FairSpec == Spec /\ Fairness

-----------------------------------------------------------------------------
(* Properties. *)

Flags == started \in BOOLEAN /\ ctxDone \in BOOLEAN /\ doneCh \in BOOLEAN

LoopOK ==
  /\ loop \in LoopPCs
  /\ ctl \in 0..made /\ watched \in 0..made
  /\ made \in 0..MaxControls /\ fails \in 0..MaxFails
  /\ attempt \in 0..(fails + 1) /\ shown \in Nat
  /\ err \in {"nil", "context", "permanent"}
  /\ told \in {"none", "connected", "reconnecting", "disconnected"}

ControlOK ==
  /\ conn \in [Controls -> {"none", "open", "lost", "closed"}]
  /\ worker \in [Controls -> {"none", "starting", "running", "ended"}]
  /\ reader \in SUBSET Controls /\ dispDone \in SUBSET Controls
  /\ ctlDone \in SUBSET Controls
  /\ permanent \in SUBSET Controls /\ asked \in SUBSET Controls
  /\ stop \in [Controls -> {"none", "sleeping", "over"}]
  /\ mgrOf \in [Controls -> Controls]
  /\ pools \in SUBSET Controls /\ shutdowns \in [Controls -> Nat]
  /\ closing \in [Closers -> {"idle", "cancelled", "stopped", "returned"}]

\* The type invariant: among others, svr.ctl is a session that was dialled and
\* the attempt counter never runs ahead of the dials that failed.
TypeOK == Flags /\ LoopOK /\ ControlOK

Held(c) == conn[c] \in {"open", "lost"}

\* A client holds at most one control session to the edge, across reconnects,
\* crashes of the link and Close: a new one is dialled only after the worker
\* of the old one has closed its session.
OneSession == \A c, d \in Controls : Held(c) /\ Held(d) => c = d

(* The inductive invariant behind OneSession. *)

\* Only the session dialled last can be held, and none while the loop is on
\* its way to the next dial.
HeldInv ==
  /\ \A c \in Controls : Held(c) => c = made
  /\ loop \in {"dial", "backoff", "check", "retry"} => \A c \in Controls : ~Held(c)

\* A control that is done has closed its session.
DoneInv ==
  \A c \in Controls : /\ worker[c] # "none" => c <= made
                      /\ c \in ctlDone => c <= made /\ conn[c] = "closed"

\* The loop waits for the session dialled last.
WatchInv ==
  /\ loop \in {"dialled", "install"} => made > 0
  /\ loop \in {"top", "getctl", "wait"} => ctl \in {0, made}
  /\ loop \in {"wait", "check", "retry"} => watched = made
  /\ loop \in {"top", "getctl", "wait", "check", "retry"} => attempt = 0

SessionInv == LoopOK /\ ControlOK /\ HeldInv /\ DoneInv /\ WatchInv

ServiceInv == Flags /\ SessionInv

\* Once readLoop has handled a Disconnect (or a Stop has been carried out)
\* before the control session ended, no further session is ever dialled.
NoDialAfterMark ==
  \A c \in Controls :
     [](c \in permanent /\ c \notin ctlDone => [](made = c))

\* OnReconnecting counts 1, 2, 3, ... through an outage of a started Service.
ReconnectCount ==
  [][started /\ <<told', shown'>> # <<told, shown>> /\ told' = "reconnecting" =>
       shown' = IF told = "reconnecting" THEN shown + 1 ELSE 1]_vars

\* The loop never gives up in silence: unless the context was cancelled, Done
\* is closed only by a loop that has ended, called OnDisconnected and left a
\* permanent error in Err; and OnDisconnected is not called on the way to a
\* reconnect, nor with another error left in Err by Close or the context.
EndIsTold ==
  /\ doneCh /\ ~ctxDone => loop = "ended" /\ told = "disconnected"
  /\ told = "disconnected" => loop = "ended" /\ doneCh /\ err = "permanent"

\* A session whose link died is replaced, or the loop ends.
LossRepaired ==
  \A c \in Controls : conn[c] = "lost" ~> (ctl > c \/ loop = "ended")

\* Cancelling the context (Close does) ends the loop wherever it is.
CancelEnds == ctxDone ~> loop = "ended"

(* What the code says of itself and does not keep. *)

\* "Close stops reconnect and tears down the control session."
CloseTearsDown ==
  loop = "ended" /\ (\E u \in Closers : closing[u] = "returned") =>
    \A c \in Controls : conn[c] # "open"
=============================================================================
