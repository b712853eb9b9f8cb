---------------------------- MODULE HealthReport ----------------------------
(***************************************************************************)
(* The health of one endpoint as the edge sees it (internal/health and the *)
(* health part of internal/endpoint/runtime.go): NewEndpoint starts a      *)
(* monitor for the runtime and stops the one before, a monitor probes,     *)
(* counts and reports through whatever control session its runtime was     *)
(* last given, and sessions come and go underneath.                        *)
(*                                                                         *)
(* A monitor is stopped by cancelling its context, which it looks at only  *)
(* between its steps. The local service is the environment, and so is the  *)
(* edge, which keeps the last report of the session.                       *)
(***************************************************************************)
EXTENDS Integers, FiniteSets

CONSTANTS
  Configs,      \* endpoint configurations a NewEndpoint may carry
  MaxInstalls,  \* bound: how many NewEndpoint messages
  MaxSessions,  \* bound: how many control sessions
  MaxFailed     \* bound: how far failures are counted, past every threshold

Deliveries == {"forward", "in_process", "exec"}

ASSUME HealthAssumption ==
  /\ Configs \subseteq [enabled : BOOLEAN, delivery : Deliveries, addr : BOOLEAN, max : Int]
  /\ MaxInstalls \in Nat /\ MaxSessions \in Nat
  /\ MaxFailed \in Nat /\ MaxFailed > 1 /\ \A c \in Configs : c.max < MaxFailed

Installs == 1..MaxInstalls
None == 0

VARIABLES
  up,        \* the local service accepts connections
  session,   \* number of the control session; its Send works while sessionUp
  sessionUp,
  installs,  \* NewEndpoint messages so far
  cur,       \* the runtime installed now (named after its first message)
  rt,        \* the runtimes: configuration and the session of sendHealth
  live,      \* the monitor of the installed runtime
  mon,       \* the monitors, named after the message that started them
  view,      \* the last report the edge got in this session
  late       \* that report came from a monitor already stopped

rtVars == <<installs, cur, rt, live>>
vars == <<up, session, sessionUp, rtVars, mon, view, late>>

\* NewMonitor replaces a threshold that is not positive.
Threshold(c) == IF c.max <= 0 THEN 1 ELSE c.max

\* seen and missed are history: whether a probe ever succeeded, and how many
\* failed since one last turned the monitor healthy.
NoMonitor == [pc |-> "none", stopped |-> FALSE, ok |-> FALSE, seen |-> FALSE, missed |-> 0,
              failed |-> 0, max |-> 1, home |-> None, res |-> FALSE, via |-> None]

\* Every variable has its type; a monitor wants at least one failure
\* (NewMonitor).
TypeOK ==
  /\ {up, sessionUp, late} \subseteq BOOLEAN
  /\ session \in 0..MaxSessions /\ installs \in 0..MaxInstalls
  /\ {cur, live} \subseteq Installs \cup {None}
  /\ \A i \in Installs : rt[i].via \in 0..MaxSessions
  /\ \A k \in Installs :
       /\ mon[k].pc \in {"none", "probe", "checked", "report", "sending", "wait", "end"}
       /\ mon[k].max > 0 /\ {mon[k].failed, mon[k].missed} \subseteq 0..MaxFailed
  /\ view \in {"unknown", "healthy", "unhealthy"}

Init ==
  /\ up \in BOOLEAN /\ session = 0 /\ sessionUp = FALSE
  /\ installs = 0 /\ cur = None /\ live = None
  /\ rt = [i \in Installs |-> [cfg |-> CHOOSE c \in Configs : TRUE, via |-> 0]]
  /\ mon = [k \in Installs |-> NoMonitor]
  /\ view = "unknown" /\ late = FALSE

-----------------------------------------------------------------------------
(* The environment.                                                        *)

ServiceFlips == up' = ~up /\ UNCHANGED <<session, sessionUp, rtVars, mon, view, late>>

\* A new control session: Control.worker gives the manager its own Send. The
\* runtimes keep the one they have until their next NewEndpoint.
SessionStarts ==
  /\ ~sessionUp /\ session < MaxSessions
  /\ session' = session + 1 /\ sessionUp' = TRUE
  /\ view' = "unknown" /\ late' = FALSE
  /\ UNCHANGED <<up, rtVars, mon>>

SessionEnds ==
  /\ sessionUp
  /\ sessionUp' = FALSE
  /\ UNCHANGED <<up, session, rtVars, mon, view, late>>

-----------------------------------------------------------------------------
(* Runtime: NewRuntime, Update and Close, with restartMonitorLocked.       *)

\* selectProbeLocked and the early returns before it.
Probed(c) == c.enabled /\ c.delivery = "forward" /\ c.addr

\* Fault: a monitor takes the service for healthy until a probe fails.
HealthyAtStart == TRUE

\* NewMonitor starts out as not healthy.
StatusAtStart == FALSE

\* Fault: the monitor before is forgotten, not stopped.
KeepLive == mon

StopLive == IF live = None THEN mon ELSE [mon EXCEPT ![live].stopped = TRUE]

\* Start monitor n for runtime i, once the monitor before it is stopped.
RestartMonitor(n, i, c) ==
  IF Probed(c)
  THEN /\ live' = n
       /\ mon' = [StopLive EXCEPT ![n] =
            [NoMonitor EXCEPT !.pc = "probe", !.ok = StatusAtStart,
                              !.max = Threshold(c), !.home = i]]
  ELSE live' = None /\ mon' = StopLive

HandleNewEndpoint(c) ==
  /\ sessionUp /\ installs < MaxInstalls
  /\ installs' = installs + 1
  /\ LET i == IF cur = None THEN installs' ELSE cur IN
     /\ cur' = i
     /\ rt' = [rt EXCEPT ![i] = [cfg |-> c, via |-> session]]
     /\ RestartMonitor(installs', i, c)
  /\ UNCHANGED <<up, session, sessionUp, view, late>>

HandleCloseEndpoint ==
  /\ sessionUp /\ cur # None
  /\ cur' = None /\ live' = None /\ mon' = StopLive
  /\ UNCHANGED <<up, session, sessionUp, installs, rt, view, late>>

-----------------------------------------------------------------------------
(* Monitor.checkWorker.                                                    *)

Set(k, m) == mon' = [mon EXCEPT ![k] = m]
Elsewhere == UNCHANGED <<up, session, sessionUp, rtVars>>

\* The loop returns.
Over == [NoMonitor EXCEPT !.pc = "end"]

\* TCPProbe.Check: a cancelled context fails it too.
Probe(k) ==
  /\ mon[k].pc = "probe"
  /\ Set(k, [mon[k] EXCEPT !.pc = "checked", !.res = up /\ ~mon[k].stopped])
  /\ Elsewhere /\ UNCHANGED <<view, late>>

\* One more failure, up to the bound: failedTimes is only ever compared with
\* the threshold, which lies below it.
OneMore(n) == IF n < MaxFailed THEN n + 1 ELSE n

\* Fault: the failures counted before the service came up are kept.
AfterSuccessKeeps(m) ==
  IF m.ok THEN [m EXCEPT !.pc = "wait"]
  ELSE [m EXCEPT !.pc = "report", !.ok = TRUE, !.seen = TRUE]

\* The verdict on one probe: a change is reported. A success while healthy
\* leaves failedTimes as it is.
AfterSuccess(m) ==
  IF m.ok THEN [m EXCEPT !.pc = "wait"]
  ELSE [m EXCEPT !.pc = "report", !.ok = TRUE, !.seen = TRUE, !.failed = 0]

\* Fault: statusOK is cleared by the first failure.
AfterFailureForgets(m) ==
  LET n == OneMore(m.failed) IN
  IF m.ok /\ n >= m.max THEN [m EXCEPT !.pc = "report", !.ok = FALSE, !.failed = n]
  ELSE [m EXCEPT !.pc = "wait", !.ok = FALSE, !.failed = n]

AfterFailure(m) ==
  LET n == OneMore(m.failed) IN
  IF m.ok /\ n >= m.max THEN [m EXCEPT !.pc = "report", !.ok = FALSE, !.failed = n]
  ELSE [m EXCEPT !.pc = "wait", !.failed = n]

\* History: a success that turns the monitor healthy starts the count anew.
Missed(m) ==
  IF ~m.res THEN OneMore(m.missed) ELSE IF m.ok THEN m.missed ELSE 0

Judge(k) ==
  /\ mon[k].pc = "checked"
  /\ LET m == [mon[k] EXCEPT !.res = FALSE, !.missed = Missed(mon[k])] IN
     Set(k, IF m.stopped THEN Over
            ELSE IF mon[k].res THEN AfterSuccess(m) ELSE AfterFailure(m))
  /\ Elsewhere /\ UNCHANGED <<view, late>>

Wait(k) ==
  /\ mon[k].pc = "wait"
  /\ Set(k, IF mon[k].stopped THEN Over ELSE [mon[k] EXCEPT !.pc = "probe"])
  /\ Elsewhere /\ UNCHANGED <<view, late>>

-----------------------------------------------------------------------------
(* Runtime.reportHealth: read the configuration and sendHealth under the   *)
(* lock, then send.                                                        *)

\* A monitor reports with the sources "probe" and "tcp", which is what
\* probeHealthSource lets pass; nothing else in the program reports.
Reported(r) == r.cfg.enabled

ReportLooks(k) ==
  /\ mon[k].pc = "report"
  /\ LET r == rt[mon[k].home] IN
     Set(k, IF Reported(r)
            THEN [mon[k] EXCEPT !.pc = "sending", !.via = r.via]
            ELSE [mon[k] EXCEPT !.pc = "wait"])
  /\ Elsewhere /\ UNCHANGED <<view, late>>

\* Dispatcher.Send returns EOF for a session that has ended, and nobody
\* looks at what it returns.
Arrives(via) == sessionUp /\ via = session

ReportSends(k) ==
  /\ mon[k].pc = "sending"
  /\ Set(k, [mon[k] EXCEPT !.pc = "wait", !.via = None])
  /\ IF Arrives(mon[k].via)
     THEN view' = (IF mon[k].ok THEN "healthy" ELSE "unhealthy") /\ late' = mon[k].stopped
     ELSE UNCHANGED <<view, late>>
  /\ Elsewhere

Monitor(k) == Probe(k) \/ Judge(k) \/ Wait(k) \/ ReportLooks(k) \/ ReportSends(k)

Next ==
  \/ ServiceFlips \/ SessionStarts \/ SessionEnds
  \/ \E c \in Configs : HandleNewEndpoint(c)
  \/ HandleCloseEndpoint
  \/ \E k \in Installs : Monitor(k)

Spec == Init /\ [][Next]_vars /\ \A k \in Installs : WF_vars(Monitor(k))
-----------------------------------------------------------------------------
(* Properties.                                                             *)

\* At most one monitor goes on: however NewEndpoint, CloseEndpoint and
\* reconnects follow each other, every monitor but that of the installed
\* runtime has been stopped (restartMonitorLocked, Close).
OneMonitor == \A k \in Installs : mon[k].pc \notin {"none", "end"} /\ k # live => mon[k].stopped

\* The edge is told unhealthy only by a monitor that had found the service
\* up, and since it last turned healthy has had as many probes fail as its
\* configuration asks for: neither failures from before the service came up
\* nor those of another monitor count (checkWorker, NewMonitor).
UnhealthyEarned ==
  [][view # "unhealthy" /\ view' = "unhealthy" =>
       \E k \in Installs : mon[k].pc = "sending" /\ mon[k].seen /\ mon[k].missed >= mon[k].max]_vars

\* The installed runtime is monitored and reports to the session that is up.
Watched == sessionUp /\ live # None /\ rt[cur].via = session

\* A service that stays up is shown healthy, unless a stopped monitor had
\* the last word.
UpShown == <>[](up /\ Watched) => <>[](view = "healthy" \/ late)

\* A service that stays down stops being shown healthy, unless a stopped
\* monitor had the last word or the present one never found it up.
DownShown ==
  <>[](~up /\ Watched) => <>[](view # "healthy" \/ late \/ (live # None => ~mon[live].seen))
=============================================================================
