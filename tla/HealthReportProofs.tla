------------------------- MODULE HealthReportProofs -------------------------
(***************************************************************************)
(* Proofs about HealthReport: for any configurations and any number of     *)
(* messages and sessions, the state is well typed, at most one monitor     *)
(* goes on, the edge is told unhealthy only after enough failures, and    *)
(* what it shows is the verdict of the monitor that goes on.               *)
(***************************************************************************)
EXTENDS HealthReport, TLAPS

MonitorPCs == {"none", "probe", "checked", "report", "sending", "wait", "end"}
MonType ==
  [pc : MonitorPCs, stopped : BOOLEAN, ok : BOOLEAN, seen : BOOLEAN,
   missed : 0..MaxFailed,
   failed : 0..MaxFailed, max : Nat \ {0}, home : 0..MaxInstalls, res : BOOLEAN, via : 0..MaxSessions]

\* The service and the sessions.
SessionOK ==
  /\ up \in BOOLEAN /\ sessionUp \in BOOLEAN /\ late \in BOOLEAN
  /\ session \in 0..MaxSessions
  /\ view \in {"unknown", "healthy", "unhealthy"}

\* The runtimes; before the first message their configuration is anything.
RuntimeOK ==
  /\ installs \in 0..MaxInstalls
  /\ cur \in 0..MaxInstalls /\ live \in 0..MaxInstalls
  /\ DOMAIN rt = Installs
  /\ \A i \in Installs : rt[i].via \in 0..MaxSessions

\* One monitor by itself: its counter is the number of failures since it last
\* turned healthy, its runtime exists, and a verdict of unhealthy on its way
\* was earned after the service had been seen up.
MonitorOK(m) ==
  /\ m \in MonType
  /\ m.failed = m.missed
  /\ m.pc \notin {"none", "end"} => m.home \in Installs
  /\ m.ok => m.seen
  /\ m.pc \in {"report", "sending"} /\ ~m.ok => m.seen /\ m.failed >= m.max

MonitorsOK == DOMAIN mon = Installs /\ mon = [k \in Installs |-> mon[k]] /\ \A k \in Installs : MonitorOK(mon[k])

HealthInv == SessionOK /\ RuntimeOK /\ MonitorsOK /\ OneMonitor

-----------------------------------------------------------------------------
\* A monitor that has not been started satisfies its invariant.
LEMMA NoMonitorOK ==
  MonitorOK(NoMonitor) /\ ~NoMonitor.ok /\ ~NoMonitor.stopped /\ NoMonitor.failed = 0 /\ NoMonitor.missed = 0
  BY HealthAssumption DEF MonitorOK, NoMonitor, MonType, MonitorPCs, None

\* So does one that has returned.
LEMMA OverOK == MonitorOK(Over)
<1>1. NoMonitor \in MonType
  BY NoMonitorOK DEF MonitorOK
<1>2. Over = [NoMonitor EXCEPT !.pc = "end"]
  BY DEF Over
<1> QED
  BY <1>1, <1>2, NoMonitorOK DEF MonitorOK, MonType, MonitorPCs

\* Stopping the monitor of the installed runtime keeps the others as they are.
LEMMA StopLiveOK ==
  ASSUME MonitorsOK, RuntimeOK, OneMonitor
  PROVE  /\ DOMAIN StopLive = Installs /\ StopLive = [k \in Installs |-> StopLive[k]]
         /\ \A k \in Installs : /\ MonitorOK(StopLive[k])
                                /\ StopLive[k].pc \notin {"none", "end"} => StopLive[k].stopped
<1>1. DOMAIN StopLive = Installs /\ StopLive = [k \in Installs |-> StopLive[k]]
  BY DEF StopLive, MonitorsOK
<1>2. ASSUME NEW k \in Installs
      PROVE  /\ MonitorOK(StopLive[k])
             /\ StopLive[k].pc \notin {"none", "end"} => StopLive[k].stopped
  <2>1. CASE k = live
    <3>1. StopLive[k] = [mon[k] EXCEPT !.stopped = TRUE]
      BY <2>1, HealthAssumption DEF StopLive, MonitorsOK, None, Installs
    <3>2. mon[k] \in MonType /\ MonitorOK(mon[k])
      BY DEF MonitorsOK, MonitorOK
    <3> QED
      BY <3>1, <3>2 DEF MonitorOK, MonType
  <2>2. CASE k # live
    <3>1. StopLive[k] = mon[k]
      BY <2>2 DEF StopLive, MonitorsOK
    <3> QED
      BY <2>2, <3>1 DEF MonitorsOK, OneMonitor
  <2> QED
    BY <2>1, <2>2
<1> QED
  BY <1>1, <1>2

\* The initial state satisfies the invariant: nothing is installed.
LEMMA InitHealth == Init => HealthInv
<1> SUFFICES ASSUME Init PROVE HealthInv
  OBVIOUS
<1>1. SessionOK
  <2>1. up \in BOOLEAN
    BY DEF Init
  <2>2. session \in 0..MaxSessions
    BY HealthAssumption DEF Init
  <2> QED
    BY <2>1, <2>2 DEF Init, SessionOK
<1>2. RuntimeOK
  BY HealthAssumption DEF Init, RuntimeOK, None
<1>3. MonitorsOK
  BY NoMonitorOK DEF Init, MonitorsOK
<1>4. OneMonitor
  BY DEF Init, OneMonitor, NoMonitor
<1> QED
  BY <1>1, <1>2, <1>3, <1>4 DEF HealthInv

\* NewEndpoint stops the monitor before it and may start one.
LEMMA NewEndpointInv ==
  ASSUME HealthInv, NEW c \in Configs, HandleNewEndpoint(c)
  PROVE  HealthInv'
<1> USE HealthAssumption DEF None, Installs
<1> DEFINE n == installs + 1
           i == IF cur = None THEN installs' ELSE cur
           fresh == [NoMonitor EXCEPT !.pc = "probe", !.ok = StatusAtStart,
                                      !.max = Threshold(c), !.home = i]
<1>0. n \in Installs /\ installs' = n /\ i \in Installs /\ c.max \in Int
  BY DEF HandleNewEndpoint, HealthInv, RuntimeOK
<1>1. SessionOK'
  BY DEF HandleNewEndpoint, HealthInv, SessionOK
<1>2. RuntimeOK'
  <2>1. rt' = [rt EXCEPT ![i] = [cfg |-> c, via |-> session]] /\ cur' = i
    BY DEF HandleNewEndpoint
  <2>2. live' \in 0..MaxInstalls
    BY <1>0 DEF HandleNewEndpoint, RestartMonitor
  <2> QED
    BY <2>1, <2>2, <1>0 DEF HealthInv, RuntimeOK, SessionOK
<1>3. MonitorOK(fresh)
  <2>1. Threshold(c) \in Nat \ {0}
    BY <1>0 DEF Threshold
  <2>2. NoMonitor \in MonType /\ i \in 0..MaxInstalls
    BY <1>0, NoMonitorOK DEF MonitorOK
  <2> HIDE HealthAssumption DEF i, Installs
  <2>3. fresh \in MonType /\ fresh.max = Threshold(c) /\ fresh.home = i /\ fresh.failed = fresh.missed
    BY <2>1, <2>2, NoMonitorOK DEF MonType, MonitorPCs, StatusAtStart
  <2>4. fresh.pc = "probe" /\ ~fresh.ok
    BY <2>2 DEF MonType, StatusAtStart
  <2> HIDE DEF fresh
  <2> QED
    BY <2>1, <2>3, <2>4, <1>0 DEF MonitorOK
<1>4. fresh.pc = "probe"
  BY DEF NoMonitor
<1>5. MonitorsOK' /\ OneMonitor'
  <2> HIDE DEF fresh, n, i
  <2>1. CASE Probed(c)
    <3>1. live' = n /\ mon' = [StopLive EXCEPT ![n] = fresh]
      BY <2>1, <1>0 DEF HandleNewEndpoint, RestartMonitor, fresh, i
    <3>2. MonitorsOK'
      BY <3>1, <1>0, <1>3, StopLiveOK DEF MonitorsOK, HealthInv
    <3>3. OneMonitor'
      BY <3>1, <1>0, StopLiveOK DEF OneMonitor, HealthInv
    <3> QED
      BY <3>2, <3>3
  <2>2. CASE ~Probed(c)
    <3>1. live' = None /\ mon' = StopLive
      BY <2>2 DEF HandleNewEndpoint, RestartMonitor
    <3> QED
      BY <3>1, StopLiveOK DEF MonitorsOK, OneMonitor, HealthInv
  <2> QED
    BY <2>1, <2>2
<1> QED
  BY <1>1, <1>2, <1>5 DEF HealthInv

\* CloseEndpoint stops the monitor and installs none.
LEMMA CloseEndpointInv ==
  ASSUME HealthInv, HandleCloseEndpoint
  PROVE  HealthInv'
<1>1. SessionOK'
  BY DEF HandleCloseEndpoint, HealthInv, SessionOK
<1>2. RuntimeOK'
  BY HealthAssumption DEF HandleCloseEndpoint, HealthInv, RuntimeOK, None
<1>3. live' = None /\ mon' = StopLive
  BY DEF HandleCloseEndpoint
<1>4. MonitorsOK' /\ OneMonitor'
  BY <1>3, StopLiveOK DEF MonitorsOK, OneMonitor, HealthInv
<1> QED
  BY <1>1, <1>2, <1>4 DEF HealthInv

\* A step that changes one monitor into one that is sound, and is stopped if
\* it was, preserves the invariant.
LEMMA OneMonitorMoves ==
  ASSUME HealthInv, NEW k \in Installs, NEW m, MonitorOK(m), Set(k, m),
         m.pc = "end" \/ (mon[k].pc \notin {"none", "end"} /\ m.stopped = mon[k].stopped),
         Elsewhere, SessionOK'
  PROVE  HealthInv'
<1>1. RuntimeOK'
  BY DEF Elsewhere, rtVars, HealthInv, RuntimeOK
<1>2. MonitorsOK'
  BY DEF Set, HealthInv, MonitorsOK
<1>3. OneMonitor'
  BY DEF Set, Elsewhere, rtVars, HealthInv, MonitorsOK, OneMonitor
<1> QED
  BY <1>1, <1>2, <1>3 DEF HealthInv

\* The steps of checkWorker and reportHealth.
LEMMA MonitorInv ==
  ASSUME HealthInv, NEW k \in Installs, Monitor(k)
  PROVE  HealthInv'
<1> DEFINE m == mon[k]
<1>0. MonitorOK(m) /\ m \in MonType
  BY DEF HealthInv, MonitorsOK, MonitorOK
<1> HIDE DEF m
<1>1. CASE Probe(k)
  <2> DEFINE r == [m EXCEPT !.pc = "checked", !.res = up /\ ~mon[k].stopped]
  <2>1. Set(k, r) /\ m.pc = "probe" /\ Elsewhere /\ SessionOK'
    BY <1>1 DEF Probe, m, Elsewhere, HealthInv, SessionOK
  <2>2. (up /\ ~mon[k].stopped) \in BOOLEAN
    OBVIOUS
  <2>3. MonitorOK(r) /\ r.stopped = m.stopped
    BY <1>0, <2>1, <2>2 DEF MonitorOK, MonType, MonitorPCs
  <2> QED
    BY <2>1, <2>3, OneMonitorMoves DEF m
<1>2. CASE Judge(k)
  <2>0. PICK h : h = Missed(m)
    OBVIOUS
  <2>h. h \in 0..MaxFailed /\ h = IF ~m.res THEN OneMore(m.failed) ELSE IF m.ok THEN m.failed ELSE 0
    BY <1>0, <2>0, HealthAssumption DEF Missed, OneMore, MonitorOK, MonType
  <2> DEFINE q == [m EXCEPT !.res = FALSE, !.missed = h]
             r == IF q.stopped THEN Over ELSE IF m.res THEN AfterSuccess(q) ELSE AfterFailure(q)
  <2>1. Set(k, r) /\ m.pc = "checked" /\ Elsewhere /\ SessionOK'
    BY <1>2, <2>0 DEF Judge, m, Elsewhere, HealthInv, SessionOK
  <2>2. /\ q \in MonType /\ q.pc = "checked" /\ q.stopped = m.stopped
        /\ q.failed = m.failed /\ q.missed = h /\ q.max = m.max /\ q.home = m.home
    BY <1>0, <2>1, <2>h DEF MonType
  <2>q. (q.ok <=> m.ok) /\ (q.ok => q.seen) /\ q.home \in Installs
    BY <1>0, <2>1 DEF MonitorOK, MonType
  <2>3. ASSUME m.res PROVE MonitorOK(AfterSuccess(q)) /\ AfterSuccess(q).stopped = q.stopped
    <3> HIDE DEF q
    <3> DEFINE a == AfterSuccess(q)
    <3>1. CASE q.ok
      <4>1. a = [q EXCEPT !.pc = "wait"]
        BY <3>1 DEF AfterSuccess
      <4>2. q.failed = q.missed
        BY <2>2, <2>3, <2>h, <2>q, <3>1
      <4> HIDE DEF a
      <4>3. a \in MonType /\ a.failed = a.missed /\ a.home = q.home /\ a.pc = "wait"
        BY <4>1, <4>2, <2>2 DEF MonType, MonitorPCs
      <4>4. (a.ok <=> q.ok) /\ (a.seen <=> q.seen) /\ a.stopped = q.stopped
        BY <4>1, <2>2 DEF MonType
      <4> QED
        BY <4>3, <4>4, <2>q DEF MonitorOK, a
    <3>2. CASE ~q.ok
      <4>1. a = [q EXCEPT !.pc = "report", !.ok = TRUE, !.seen = TRUE, !.failed = 0]
        BY <3>2 DEF AfterSuccess
      <4>2. q.missed = 0
        BY <2>2, <2>3, <2>h, <2>q, <3>2
      <4> HIDE DEF a
      <4>z. 0 \in 0..MaxFailed
        BY HealthAssumption
      <4>3. a \in MonType
        BY <4>1, <4>z, <2>2 DEF MonType, MonitorPCs
      <4>4. a.failed = 0 /\ a.missed = 0 /\ a.home = q.home
        BY <4>1, <4>2, <2>2 DEF MonType
      <4>5. a.ok /\ a.seen /\ a.stopped = q.stopped
        BY <4>1, <2>2 DEF MonType
      <4> QED
        BY <4>3, <4>4, <4>5, <2>q DEF MonitorOK, a
    <3> QED
      BY <3>1, <3>2
  <2>4. ASSUME ~m.res PROVE MonitorOK(AfterFailure(q)) /\ AfterFailure(q).stopped = q.stopped
    <3>1. PICK j : j = OneMore(q.failed)
      OBVIOUS
    <3>2. j \in 0..MaxFailed /\ q.missed = j
      BY <3>1, <2>2, <2>4, <2>h
    <3> HIDE DEF q
    <3> DEFINE a == AfterFailure(q)
    <3>3. CASE q.ok /\ j >= q.max
      <4>1. a = [q EXCEPT !.pc = "report", !.ok = FALSE, !.failed = j]
        BY <3>1, <3>3 DEF AfterFailure
      <4> HIDE DEF a
      <4>2. a \in MonType
        BY <4>1, <3>2, <2>2 DEF MonType, MonitorPCs
      <4>3. a.failed = j /\ a.missed = j /\ a.max = q.max /\ a.home = q.home
        BY <4>1, <3>2, <2>2 DEF MonType
      <4>4. ~a.ok /\ (a.seen <=> q.seen) /\ a.stopped = q.stopped
        BY <4>1, <2>2 DEF MonType
      <4> QED
        BY <3>3, <4>2, <4>3, <4>4, <2>q DEF MonitorOK, a
    <3>4. CASE ~(q.ok /\ j >= q.max)
      <4>1. a = [q EXCEPT !.pc = "wait", !.failed = j]
        BY <3>1, <3>4 DEF AfterFailure
      <4> HIDE DEF a
      <4>2. a \in MonType
        BY <4>1, <3>2, <2>2 DEF MonType, MonitorPCs
      <4>3. a.failed = j /\ a.missed = j /\ a.home = q.home /\ a.pc = "wait"
        BY <4>1, <3>2, <2>2 DEF MonType
      <4>4. (a.ok <=> q.ok) /\ (a.seen <=> q.seen) /\ a.stopped = q.stopped
        BY <4>1, <2>2 DEF MonType
      <4> QED
        BY <4>2, <4>3, <4>4, <2>q DEF MonitorOK, a
    <3> QED
      BY <3>3, <3>4
  <2>5. Over.pc = "end"
    BY DEF Over, NoMonitor
  <2>6. MonitorOK(r) /\ (r.pc = "end" \/ r.stopped = m.stopped)
    BY <2>2, <2>3, <2>4, <2>5, OverOK
  <2> QED
    BY <2>1, <2>6, OneMonitorMoves DEF m
<1>3. CASE Wait(k)
  <2> DEFINE r == IF m.stopped THEN Over ELSE [m EXCEPT !.pc = "probe"]
  <2>1. Set(k, r) /\ m.pc = "wait" /\ Elsewhere /\ SessionOK'
    BY <1>3 DEF Wait, m, Elsewhere, HealthInv, SessionOK
  <2>2. LET p == [m EXCEPT !.pc = "probe"] IN MonitorOK(p) /\ p.stopped = m.stopped
    BY <1>0, <2>1 DEF MonitorOK, MonType, MonitorPCs
  <2>3. Over.pc = "end"
    BY DEF Over, NoMonitor
  <2>4. MonitorOK(r) /\ (r.pc = "end" \/ r.stopped = m.stopped)
    BY <2>2, <2>3, OverOK
  <2> QED
    BY <2>1, <2>4, OneMonitorMoves DEF m
<1>4. CASE ReportLooks(k)
  <2> DEFINE v == rt[m.home].via
  <2>1. /\ m.pc = "report" /\ Elsewhere /\ SessionOK'
        /\ \/ Set(k, [m EXCEPT !.pc = "sending", !.via = v])
           \/ Set(k, [m EXCEPT !.pc = "wait"])
    BY <1>4 DEF ReportLooks, m, Elsewhere, HealthInv, SessionOK
  <2>2. v \in 0..MaxSessions
    BY <1>0, <2>1 DEF MonitorOK, HealthInv, RuntimeOK
  <2>3. LET p == [m EXCEPT !.pc = "sending", !.via = v] IN MonitorOK(p) /\ p.stopped = m.stopped
    BY <1>0, <2>1, <2>2 DEF MonitorOK, MonType, MonitorPCs
  <2>4. LET p == [m EXCEPT !.pc = "wait"] IN MonitorOK(p) /\ p.stopped = m.stopped
    BY <1>0, <2>1 DEF MonitorOK, MonType, MonitorPCs
  <2> QED
    BY <2>1, <2>3, <2>4, OneMonitorMoves DEF m
<1>5. CASE ReportSends(k)
  <2> DEFINE r == [m EXCEPT !.pc = "wait", !.via = None]
  <2>1. Set(k, r) /\ m.pc = "sending" /\ Elsewhere
    BY <1>5 DEF ReportSends, m
  <2>2. SessionOK'
    <3>1. mon[k].stopped \in BOOLEAN
      BY <1>0 DEF MonType, m
    <3> QED
      BY <1>5, <3>1 DEF ReportSends, Elsewhere, HealthInv, SessionOK
  <2>3. None \in 0..MaxSessions
    BY HealthAssumption DEF None
  <2>4. MonitorOK(r) /\ r.stopped = m.stopped
    BY <1>0, <2>1, <2>3 DEF MonitorOK, MonType, MonitorPCs
  <2> QED
    BY <2>1, <2>2, <2>4, OneMonitorMoves DEF m
<1> QED
  BY <1>1, <1>2, <1>3, <1>4, <1>5 DEF Monitor

\* The steps that leave runtimes and monitors alone.
LEMMA OutsideInv ==
  ASSUME HealthInv, ServiceFlips \/ SessionStarts \/ SessionEnds \/ UNCHANGED vars
  PROVE  HealthInv'
<1>1. UNCHANGED rtVars /\ UNCHANGED mon
  BY DEF ServiceFlips, SessionStarts, SessionEnds, vars
<1>2. SessionOK'
  <2>1. CASE ServiceFlips
    BY <2>1 DEF ServiceFlips, HealthInv, SessionOK
  <2>2. CASE SessionStarts
    <3>1. session' \in 0..MaxSessions
      BY <2>2, HealthAssumption DEF SessionStarts, HealthInv, SessionOK
    <3> QED
      BY <2>2, <3>1 DEF SessionStarts, HealthInv, SessionOK
  <2>3. CASE SessionEnds
    BY <2>3 DEF SessionEnds, HealthInv, SessionOK
  <2>4. CASE UNCHANGED vars
    BY <2>4 DEF vars, HealthInv, SessionOK
  <2> QED
    BY <2>1, <2>2, <2>3, <2>4
<1>3. RuntimeOK' /\ MonitorsOK' /\ OneMonitor'
  BY <1>1 DEF rtVars, HealthInv, RuntimeOK, MonitorsOK, OneMonitor
<1> QED
  BY <1>2, <1>3 DEF HealthInv

\* Every step preserves the invariant.
LEMMA NextHealth == HealthInv /\ [Next]_vars => HealthInv'
  BY NewEndpointInv, CloseEndpointInv, MonitorInv, OutsideInv DEF Next

\* The inductive invariant holds in every reachable state.
THEOREM HealthInvariant == Spec => []HealthInv
  BY InitHealth, NextHealth, PTL DEF Spec

\* For any configurations the state is well typed: whatever threshold a
\* configuration carries, zero and negative ones included, a monitor asks for
\* at least one failure (NewMonitor).
THEOREM HealthTypeCorrect == Spec => []TypeOK
<1>1. HealthInv => TypeOK
  <2> SUFFICES ASSUME HealthInv PROVE TypeOK
    OBVIOUS
  <2>1. {up, sessionUp, late} \subseteq BOOLEAN
    BY DEF HealthInv, SessionOK
  <2>2. {cur, live} \subseteq Installs \cup {None}
    BY HealthAssumption DEF HealthInv, RuntimeOK, Installs, None
  <2>3. \A k \in Installs : /\ mon[k].pc \in MonitorPCs
                            /\ mon[k].max > 0 /\ {mon[k].failed, mon[k].missed} \subseteq 0..MaxFailed
    BY DEF HealthInv, MonitorsOK, MonitorOK, MonType
  <2> QED
    BY <2>1, <2>2, <2>3 DEF HealthInv, SessionOK, RuntimeOK, TypeOK, MonitorPCs
<1> QED
  BY <1>1, HealthInvariant, PTL

\* However installs, removals and reconnects follow each other, every monitor
\* but the installed runtime's has been stopped (restartMonitorLocked, Close).
THEOREM SingleMonitor == Spec => []OneMonitor
<1>1. HealthInv => OneMonitor
  BY DEF HealthInv
<1> QED
  BY <1>1, HealthInvariant, PTL

\* The edge is told unhealthy only by a monitor that had seen the service up
\* and, since it last turned healthy, has had as many probes fail as were asked
\* for (checkWorker, reportHealth).
THEOREM VerdictEarned == Spec => UnhealthyEarned
<1> DEFINE Earned == view # "unhealthy" /\ view' = "unhealthy" =>
             \E k \in Installs : mon[k].pc = "sending" /\ mon[k].seen /\ mon[k].missed >= mon[k].max
<1>1. HealthInv /\ [Next]_vars => [Earned]_vars
  <2> SUFFICES ASSUME HealthInv, Next, view # "unhealthy", view' = "unhealthy"
               PROVE  \E k \in Installs : mon[k].pc = "sending" /\ mon[k].seen /\ mon[k].missed >= mon[k].max
    OBVIOUS
  <2>1. ~(\E c \in Configs : HandleNewEndpoint(c)) /\ ~HandleCloseEndpoint
    BY DEF HandleNewEndpoint, HandleCloseEndpoint
  <2>2. ~ServiceFlips /\ ~SessionStarts /\ ~SessionEnds
    BY DEF ServiceFlips, SessionStarts, SessionEnds
  <2>4. PICK k \in Installs : Monitor(k)
    BY <2>1, <2>2 DEF Next
  <2>5. ReportSends(k) /\ ~mon[k].ok
    BY <2>4 DEF Monitor, Probe, Judge, Wait, ReportLooks, ReportSends
  <2>6. MonitorOK(mon[k]) /\ mon[k].pc = "sending"
    BY <2>5 DEF HealthInv, MonitorsOK, ReportSends
  <2> QED
    BY <2>5, <2>6 DEF MonitorOK
<1> QED
  BY <1>1, HealthInvariant, PTL DEF Spec, UnhealthyEarned
-----------------------------------------------------------------------------
(* What the edge shows is the verdict of the present monitor.              *)

\* The monitor of the installed runtime goes on, belongs to it, and sends
\* through the session that runtime was last given, which is no later than
\* the present one.
LiveOK ==
  /\ cur # None /\ live \in Installs
  /\ mon[live].home = cur /\ rt[cur].cfg.enabled
  /\ mon[live].pc \notin {"none", "end"}
  /\ mon[live].pc = "sending" => mon[live].via = rt[cur].via

LiveInv ==
  /\ \A i \in Installs : rt[i].via <= session
  /\ live # None => LiveOK

LiveGoesOn == live # None => ~mon[live].stopped

Verdict(m) == IF m.ok THEN "healthy" ELSE "unhealthy"

\* While the endpoint is watched, the edge shows the verdict of the present
\* monitor whenever that monitor has one and is not about to report, unless a
\* stopped monitor had the last word (Monitor.checkWorker, reportHealth).
ViewTrue ==
  Watched /\ ~late /\ mon[live].seen /\ mon[live].pc \notin {"report", "sending"}
    => view = Verdict(mon[live])

ShowInv == HealthInv /\ LiveInv /\ LiveGoesOn /\ ViewTrue

\* A step of a monitor that goes on, for an enabled runtime: it stays with its
\* runtime and goes on, it takes up the runtime's session before it sends, and
\* a verdict it does not report is the one it had.
Advances(m, n) ==
  /\ n.home = m.home
  /\ n.pc \notin {"none", "end"}
  /\ n.pc = "sending" => n.via = rt[m.home].via
  /\ m.pc # "sending" /\ n.pc \notin {"report", "sending"} => m.pc # "report"

SameVerdict(m, n) == (n.ok <=> m.ok) /\ (n.seen <=> m.seen)

\* How checkWorker judges a probe: no verdict changes without a report.
LEMMA JudgedOK ==
  ASSUME NEW q \in MonType, NEW a, a \in {AfterSuccess(q), AfterFailure(q)}
  PROVE  /\ a.home = q.home /\ a.pc \in {"report", "wait"}
         /\ a.stopped <=> q.stopped
         /\ a.pc = "wait" => SameVerdict(q, a)
<1>1. CASE a = AfterSuccess(q)
  <2>1. CASE q.ok
    <3>1. a = [q EXCEPT !.pc = "wait"]
      BY <1>1, <2>1 DEF AfterSuccess
    <3> QED
      BY <3>1 DEF MonType, SameVerdict
  <2>2. CASE ~q.ok
    <3>1. a = [q EXCEPT !.pc = "report", !.ok = TRUE, !.seen = TRUE, !.failed = 0]
      BY <1>1, <2>2 DEF AfterSuccess
    <3> QED
      BY <3>1 DEF MonType, SameVerdict
  <2> QED
    BY <2>1, <2>2
<1>2. CASE a = AfterFailure(q)
  <2>1. PICK j : j = OneMore(q.failed)
    OBVIOUS
  <2>2. CASE q.ok /\ j >= q.max
    <3>1. a = [q EXCEPT !.pc = "report", !.ok = FALSE, !.failed = j]
      BY <1>2, <2>1, <2>2 DEF AfterFailure
    <3> QED
      BY <3>1 DEF MonType, SameVerdict
  <2>3. CASE ~(q.ok /\ j >= q.max)
    <3>1. a = [q EXCEPT !.pc = "wait", !.failed = j]
      BY <1>2, <2>1, <2>3 DEF AfterFailure
    <3> QED
      BY <3>1 DEF MonType, SameVerdict
  <2> QED
    BY <2>2, <2>3
<1> QED
  BY <1>1, <1>2

\* The steps of a monitor that has not been stopped.
LEMMA MonitorAdvances ==
  ASSUME HealthInv, NEW k \in Installs, Monitor(k), ~mon[k].stopped,
         rt[mon[k].home].cfg.enabled
  PROVE  /\ Advances(mon[k], mon'[k])
         /\ ~mon'[k].stopped
         /\ mon'[k].pc \notin {"report", "sending"} => SameVerdict(mon[k], mon'[k])
         /\ Elsewhere
<1>0. PICK m : m = mon[k] /\ m \in MonType
  BY DEF HealthInv, MonitorsOK, MonitorOK
<1>a. \A n : Set(k, n) => mon'[k] = n
  BY DEF HealthInv, MonitorsOK, Set
<1>1. CASE Probe(k)
  <2>1. PICK b : b = (up /\ ~mon[k].stopped)
    OBVIOUS
  <2>2. mon'[k] = [m EXCEPT !.pc = "checked", !.res = b] /\ Elsewhere /\ m.pc = "probe"
    BY <1>0, <1>1, <1>a, <2>1 DEF Probe
  <2> QED
    BY <1>0, <2>2 DEF MonType, Advances, SameVerdict
<1>2. CASE Judge(k)
  <2>0. PICK h : h = Missed(m) /\ h \in 0..MaxFailed
    BY <1>0, HealthAssumption DEF Missed, OneMore, MonType
  <2>1. PICK q : q = [m EXCEPT !.res = FALSE, !.missed = h]
    OBVIOUS
  <2>2. /\ q \in MonType /\ q.home = m.home /\ (q.stopped <=> m.stopped)
        /\ SameVerdict(m, q)
    BY <1>0, <2>0, <2>1 DEF MonType, SameVerdict
  <2>3. mon'[k] \in {AfterSuccess(q), AfterFailure(q)} /\ Elsewhere /\ m.pc = "checked"
    BY <1>0, <1>2, <1>a, <2>0, <2>1, <2>2 DEF Judge
  <2>4. /\ mon'[k].home = q.home /\ mon'[k].pc \in {"report", "wait"}
        /\ mon'[k].stopped <=> q.stopped
        /\ mon'[k].pc = "wait" => SameVerdict(q, mon'[k])
    BY <2>2, <2>3, JudgedOK
  <2> QED
    BY <1>0, <2>2, <2>3, <2>4 DEF Advances, SameVerdict
<1>3. CASE Wait(k)
  <2>1. mon'[k] = [m EXCEPT !.pc = "probe"] /\ Elsewhere /\ m.pc = "wait"
    BY <1>0, <1>3, <1>a DEF Wait
  <2> QED
    BY <1>0, <2>1 DEF MonType, Advances, SameVerdict
<1>4. CASE ReportLooks(k)
  <2>1. PICK v : v = rt[m.home].via
    OBVIOUS
  <2>2. Reported(rt[m.home])
    BY <1>0 DEF Reported
  <2>3. mon'[k] = [m EXCEPT !.pc = "sending", !.via = v] /\ Elsewhere /\ m.pc = "report"
    BY <1>0, <1>4, <1>a, <2>1, <2>2 DEF ReportLooks
  <2> QED
    BY <1>0, <2>1, <2>3 DEF MonType, Advances
<1>5. CASE ReportSends(k)
  <2>1. mon'[k] = [m EXCEPT !.pc = "wait", !.via = None] /\ Elsewhere /\ m.pc = "sending"
    BY <1>0, <1>5, <1>a DEF ReportSends
  <2> QED
    BY <1>0, <2>1 DEF MonType, Advances, SameVerdict
<1> QED
  BY <1>1, <1>2, <1>3, <1>4, <1>5 DEF Monitor

\* The present monitor moves: what it has sent is what it thinks.
LEMMA LiveMonitorShows ==
  ASSUME ShowInv, live # None, Monitor(live)
  PROVE  LiveInv' /\ LiveGoesOn' /\ ViewTrue'
<1>0. LiveOK /\ ~mon[live].stopped /\ live \in Installs
  BY DEF ShowInv, LiveInv, LiveGoesOn, LiveOK
<1>1. /\ Advances(mon[live], mon'[live]) /\ ~mon'[live].stopped /\ Elsewhere
      /\ mon'[live].pc \notin {"report", "sending"} => SameVerdict(mon[live], mon'[live])
  BY <1>0, MonitorAdvances DEF ShowInv, LiveOK
<1>2. live' = live /\ cur' = cur /\ rt' = rt /\ session' = session /\ (sessionUp' <=> sessionUp)
  BY <1>1 DEF Elsewhere, rtVars
<1>3. LiveInv'
  BY <1>0, <1>1, <1>2 DEF ShowInv, LiveInv, LiveOK, Advances
<1>4. LiveGoesOn'
  BY <1>1, <1>2 DEF LiveGoesOn
<1>5. ViewTrue'
  <2> SUFFICES ASSUME Watched', ~late', mon'[live].seen, mon'[live].pc \notin {"report", "sending"}
               PROVE  view' = Verdict(mon'[live])
    BY <1>2 DEF ViewTrue
  <2>1. SameVerdict(mon[live], mon'[live]) /\ Watched
    BY <1>1, <1>2 DEF Watched
  <2>2. Verdict(mon'[live]) = Verdict(mon[live])
    BY <2>1 DEF SameVerdict, Verdict
  <2>3. CASE ReportSends(live)
    <3>1. Arrives(mon[live].via)
      BY <1>0, <2>1, <2>3 DEF ReportSends, LiveOK, Watched, Arrives
    <3> QED
      BY <2>2, <2>3, <3>1 DEF ReportSends, Verdict
  <2>4. CASE ~ReportSends(live)
    <3>1. mon[live].pc # "sending" /\ view' = view /\ (late' <=> late)
      BY <2>4 DEF Monitor, Probe, Judge, Wait, ReportLooks
    <3>2. mon[live].pc # "report"
      BY <1>1, <3>1 DEF Advances
    <3>3. mon[live].seen
      BY <2>1 DEF SameVerdict
    <3> QED
      BY <2>1, <2>2, <3>1, <3>2, <3>3 DEF ShowInv, ViewTrue
  <2> QED
    BY <2>3, <2>4
<1> QED
  BY <1>3, <1>4, <1>5

\* Another monitor moves: it has been stopped, so a report of it that arrives
\* is a late one.
LEMMA OtherMonitorShows ==
  ASSUME ShowInv, NEW k \in Installs, k # live, Monitor(k)
  PROVE  LiveInv' /\ LiveGoesOn' /\ ViewTrue'
<1>1. live' = live /\ cur' = cur /\ rt' = rt /\ session' = session /\ (sessionUp' <=> sessionUp)
  BY DEF Monitor, Probe, Judge, Wait, ReportLooks, ReportSends, Elsewhere, rtVars
<1>2. live # None => mon'[live] = mon[live]
  <2>1. PICK n : Set(k, n)
    BY DEF Monitor, Probe, Judge, Wait, ReportLooks, ReportSends
  <2> QED
    BY <2>1 DEF Set, ShowInv, LiveInv, LiveOK, HealthInv, MonitorsOK
<1>3. late' \/ (view' = view /\ (late' <=> late))
  <2>1. CASE ReportSends(k)
    <3>1. mon[k].stopped
      BY <2>1 DEF ReportSends, ShowInv, HealthInv, OneMonitor
    <3> QED
      BY <2>1, <3>1 DEF ReportSends
  <2>2. CASE ~ReportSends(k)
    BY <2>2 DEF Monitor, Probe, Judge, Wait, ReportLooks
  <2> QED
    BY <2>1, <2>2
<1>4. LiveInv' /\ LiveGoesOn'
  BY <1>1, <1>2 DEF ShowInv, LiveInv, LiveOK, LiveGoesOn
<1>5. ViewTrue'
  BY <1>1, <1>2, <1>3 DEF ShowInv, ViewTrue, Watched, Verdict
<1> QED
  BY <1>4, <1>5

\* A monitor just started has no verdict yet.
LEMMA NewEndpointShows ==
  ASSUME ShowInv, NEW c \in Configs, HandleNewEndpoint(c)
  PROVE  LiveInv' /\ LiveGoesOn' /\ ViewTrue'
<1>1. PICK i : i = IF cur = None THEN installs' ELSE cur
  OBVIOUS
<1>2. installs' \in Installs /\ i \in Installs /\ installs' # None /\ i # None
  BY <1>1, HealthAssumption DEF HandleNewEndpoint, ShowInv, HealthInv, RuntimeOK, Installs, None
<1>3. rt' = [rt EXCEPT ![i] = [cfg |-> c, via |-> session]] /\ cur' = i /\ session' = session
  BY <1>1 DEF HandleNewEndpoint
<1>4. session \in Int /\ DOMAIN rt = Installs
  BY DEF ShowInv, HealthInv, SessionOK, RuntimeOK
<1>5. \A j \in Installs : rt'[j].via <= session'
  BY <1>2, <1>3, <1>4 DEF ShowInv, LiveInv
<1>6. CASE Probed(c)
  <2>1. PICK f : f = [NoMonitor EXCEPT !.pc = "probe", !.ok = StatusAtStart,
                                       !.max = Threshold(c), !.home = i]
    OBVIOUS
  <2>2. f.pc = "probe" /\ f.home = i
    BY <2>1 DEF NoMonitor
  <2>3. ~f.seen /\ ~f.stopped
    BY <2>1 DEF NoMonitor
  <2>4. live' = installs' /\ mon' = [StopLive EXCEPT ![installs'] = f]
    BY <1>1, <1>6, <2>1 DEF HandleNewEndpoint, RestartMonitor
  <2>5. mon'[live'] = f
    BY <1>2, <2>4, StopLiveOK DEF ShowInv, HealthInv
  <2>6. rt'[i].cfg.enabled
    BY <1>2, <1>3, <1>4, <1>6 DEF Probed
  <2>7. LiveInv'
    BY <1>2, <1>3, <1>5, <2>2, <2>4, <2>5, <2>6 DEF LiveInv, LiveOK
  <2>8. LiveGoesOn' /\ ViewTrue'
    BY <2>3, <2>5 DEF LiveGoesOn, ViewTrue
  <2> QED
    BY <2>7, <2>8
<1>7. CASE ~Probed(c)
  <2>1. live' = None
    BY <1>7 DEF HandleNewEndpoint, RestartMonitor
  <2> QED
    BY <1>5, <2>1 DEF LiveInv, LiveGoesOn, ViewTrue, Watched
<1> QED
  BY <1>6, <1>7

\* The other steps: no runtime is watched through a session that begins.
LEMMA OutsideShows ==
  ASSUME ShowInv, ServiceFlips \/ SessionStarts \/ SessionEnds
                    \/ HandleCloseEndpoint \/ UNCHANGED vars
  PROVE  LiveInv' /\ LiveGoesOn' /\ ViewTrue'
<1>0. session \in Int /\ \A i \in Installs : rt[i].via \in Int /\ rt[i].via <= session
  BY DEF ShowInv, LiveInv, HealthInv, SessionOK, RuntimeOK
<1>1. CASE HandleCloseEndpoint
  BY <1>1 DEF HandleCloseEndpoint, ShowInv, LiveInv, LiveGoesOn, ViewTrue, Watched
<1>2. CASE SessionStarts
  <2>1. live' = live /\ cur' = cur /\ rt' = rt /\ mon' = mon /\ session' = session + 1
    BY <1>2 DEF SessionStarts, rtVars
  <2>2. \A i \in Installs : rt'[i].via <= session' /\ rt'[i].via # session'
    BY <1>0, <2>1
  <2>3. LiveInv' /\ LiveGoesOn'
    BY <2>1, <2>2 DEF ShowInv, LiveInv, LiveOK, LiveGoesOn
  <2>4. live # None => cur \in Installs
    BY HealthAssumption DEF ShowInv, LiveInv, LiveOK, HealthInv, RuntimeOK, Installs, None
  <2>5. ~Watched'
    BY <2>1, <2>2, <2>4 DEF Watched
  <2> QED
    BY <2>3, <2>5 DEF ViewTrue
<1>3. CASE SessionEnds
  <2>1. live' = live /\ cur' = cur /\ rt' = rt /\ mon' = mon /\ session' = session
    BY <1>3 DEF SessionEnds, rtVars
  <2>2. ~Watched'
    BY <1>3 DEF SessionEnds, Watched
  <2> QED
    BY <2>1, <2>2 DEF ShowInv, LiveInv, LiveOK, LiveGoesOn, ViewTrue
<1>4. CASE ServiceFlips \/ UNCHANGED vars
  <2>1. /\ live' = live /\ cur' = cur /\ rt' = rt /\ mon' = mon /\ session' = session
        /\ (sessionUp' <=> sessionUp) /\ (late' <=> late)
    BY <1>4 DEF ServiceFlips, vars, rtVars
  <2>2. view' = view
    BY <1>4 DEF ServiceFlips, vars
  <2> QED
    BY <2>1, <2>2 DEF ShowInv, LiveInv, LiveOK, LiveGoesOn, ViewTrue, Watched, Verdict
<1> QED
  BY <1>1, <1>2, <1>3, <1>4

\* While the endpoint is watched, a monitor that has seen the service up and
\* has nothing left to report is what the edge shows, unless a stopped monitor
\* had the last word: the safety part of UpShown and DownShown (checkWorker,
\* reportHealth, restartMonitorLocked).
THEOREM ViewIsVerdict == Spec => []ViewTrue
<1>1. Init => LiveInv /\ LiveGoesOn /\ ViewTrue
  BY HealthAssumption DEF Init, LiveInv, LiveGoesOn, ViewTrue, Watched
<1>2. ShowInv /\ [Next]_vars => LiveInv' /\ LiveGoesOn' /\ ViewTrue'
  <2> SUFFICES ASSUME ShowInv, [Next]_vars PROVE LiveInv' /\ LiveGoesOn' /\ ViewTrue'
    OBVIOUS
  <2>1. ASSUME NEW k \in Installs, Monitor(k) PROVE LiveInv' /\ LiveGoesOn' /\ ViewTrue'
    <3>1. k # None
      BY HealthAssumption DEF Installs, None
    <3> QED
      BY <2>1, <3>1, LiveMonitorShows, OtherMonitorShows
  <2> QED
    BY <2>1, NewEndpointShows, OutsideShows DEF Next
<1>3. Init => ShowInv
  BY <1>1, InitHealth DEF ShowInv
<1>4. ShowInv /\ [Next]_vars => ShowInv'
  BY <1>2, NextHealth DEF ShowInv
<1>5. ShowInv => ViewTrue
  BY DEF ShowInv
<1> QED
  BY <1>3, <1>4, <1>5, PTL DEF Spec
=============================================================================
