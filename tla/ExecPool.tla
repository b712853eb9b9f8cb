------------------------------ MODULE ExecPool ------------------------------
(***************************************************************************)
(* The pool of stdio MCP sessions behind exec endpoints                    *)
(* (internal/mcp/mcpstdio/pool.go), together with the part of a session's  *)
(* life the pool depends on (NewSession, Alive, Close in session.go) and   *)
(* its client, the HTTP bridge (HandleWorkConn in bridge.go).              *)
(*                                                                         *)
(* One step of the model is one critical section of Pool.mu, or one step   *)
(* taken outside it that other goroutines can observe: the start and the   *)
(* end of Session.Close, the phases of NewSession, the exit of a child.    *)
(* Time is abstracted: a timeout is a step that may be taken.              *)
(***************************************************************************)
EXTENDS Integers, FiniteSets

CONSTANTS
  Callers,                 \* goroutines running Bridge.HandleWorkConn
  Keys,                    \* session keys that are ever used
  Endpoints,               \* endpoint ids
  EndpointOf,              \* the endpoint a key is used with; the bridge uses
                           \* the endpoint id itself as key (deriveSessionKey)
  Sids,                    \* sessions (and flights) that may ever be created: a bound
  Spawns,                  \* values of command/args/env/workdir
  Extras,                  \* values of the fields configChanged does not compare
  MaxGlobalProcesses,
  MaxSessionsPerEndpoint,
  Nil                      \* no session, no configuration

ASSUME PoolAssumption ==
  /\ IsFiniteSet(Sids) /\ IsFiniteSet(Keys)
  /\ EndpointOf \in [Keys -> Endpoints]
  /\ MaxGlobalProcesses \in Nat \ {0}
  /\ MaxSessionsPerEndpoint \in Nat \ {0}
  /\ Nil \notin Sids

Configs == [spawn : Spawns, extra : Extras]

ASSUME ConfigAssumption == Nil \notin Configs

VARIABLES
  \* Pool
  sessions,     \* key -> installed session or Nil
  creating,     \* key -> session under construction (the createFlight) or Nil
  epCount,      \* endpoint -> counter; 0 stands for an absent entry
  configs,      \* endpoint -> latest configuration or Nil
  globalCount,  \* atomic counter of processes
  stopped,
  \* Session
  stage,        \* how far NewSession got; "failed" and "ready" are a finished flight
  proc,         \* the child process
  closed,       \* sessions whose closed flag is set
  cfgOf,        \* the configuration the session was created from
  closer,       \* who owes this session a Close
  \* Bridge goroutines
  pc, key, hold,
  \* idleReaper and CloseAll
  reaper, toClose,
  closeAll, closeKeys

poolVars == <<sessions, creating, epCount, configs, globalCount, stopped>>
sessVars == <<stage, proc, closed, cfgOf, closer>>
callVars == <<pc, key, hold>>
bgVars   == <<reaper, toClose, closeAll, closeKeys>>
vars     == <<poolVars, sessVars, callVars, bgVars>>

Stages  == {"unborn", "begun", "handshake", "settled", "failing", "failed", "ready"}
Closers == {"none", "remove", "detach", "reap", "closeAll"}
PCs     == {"idle", "get", "wait", "create", "got", "call", "invalidate"}

Init ==
  /\ sessions = [k \in Keys |-> Nil]
  /\ creating = [k \in Keys |-> Nil]
  /\ epCount = [e \in Endpoints |-> 0]
  /\ configs = [e \in Endpoints |-> Nil]
  /\ globalCount = 0
  /\ stopped = FALSE
  /\ stage = [s \in Sids |-> "unborn"]
  /\ proc = [s \in Sids |-> "none"]
  /\ closed = {}
  /\ cfgOf = [s \in Sids |-> Nil]
  /\ closer = [s \in Sids |-> "none"]
  /\ pc = [c \in Callers |-> "idle"]
  /\ key \in [Callers -> Keys]
  /\ hold = [c \in Callers |-> Nil]
  /\ reaper = "sleep" /\ toClose = {}
  /\ closeAll = "off" /\ closeKeys = {}

-----------------------------------------------------------------------------
(* Helpers. *)

Alive(s) == s \notin closed /\ proc[s] = "running"

\* A session of the map that GetOrCreate and reapIdle treat as dead.
Dead(k) == sessions[k] # Nil /\ ~Alive(sessions[k])

\* Fault: the counter of the endpoint is not decremented.
ClampedForgets(n) == n

\* epCount[e]-- followed by the delete of an entry that is <= 0.
Clamped(n) == IF n <= 1 THEN 0 ELSE n - 1

\* Faults of removeSessionLocked: the map entry stays, the process stays
\* counted, the session is dropped without a Close.
NoSessionStays(k)   == sessions
GlobalNotReduced(k) == globalCount
HandToNobody(k, who) == closer

\* removeSessionLocked: what the pool looks like once key k is removed (no
\* change when the key has no session).
NoSession(k)    == [sessions EXCEPT ![k] = Nil]
CountWithout(k) == IF sessions[k] = Nil THEN epCount
                   ELSE [epCount EXCEPT ![EndpointOf[k]] = Clamped(@)]
GlobalWithout(k) == IF sessions[k] = Nil THEN globalCount ELSE globalCount - 1
HandTo(k, who)   == IF sessions[k] = Nil THEN closer
                    ELSE [closer EXCEPT ![sessions[k]] = who]

RemoveSession(k, who) ==
  /\ sessions' = NoSession(k)
  /\ epCount' = CountWithout(k)
  /\ globalCount' = GlobalWithout(k)
  /\ closer' = HandTo(k, who)

\* Fault: the limits are off by one.
AtLimitOffByOne(k) ==
  \/ GlobalWithout(k) > MaxGlobalProcesses
  \/ CountWithout(k)[EndpointOf[k]] > MaxSessionsPerEndpoint

\* The limits as GetOrCreate tests them, after a dead session was removed.
AtLimit(k) ==
  \/ GlobalWithout(k) >= MaxGlobalProcesses
  \/ CountWithout(k)[EndpointOf[k]] >= MaxSessionsPerEndpoint

ConfigChanged(a, b) == a.spawn # b.spawn

\* closeEndpointSessionsLocked: the sessions of endpoint e leave the map at
\* once; their counter entry is deleted; a goroutine closes them and takes
\* each out of globalCount after its Close. That goroutine closes its
\* sessions one after the other; here they may overlap.
KeysOf(e) == {k \in Keys : EndpointOf[k] = e}

CloseEndpointSessions(e) ==
  /\ sessions' = [k \in Keys |-> IF k \in KeysOf(e) THEN Nil ELSE sessions[k]]
  /\ epCount' = [epCount EXCEPT ![e] = 0]
  /\ closer' = [s \in Sids |->
                  IF \E k \in KeysOf(e) : sessions[k] = s THEN "detach" ELSE closer[s]]

Goto(c, l) == pc' = [pc EXCEPT ![c] = l]

Leave(c, l) == Goto(c, l) /\ hold' = [hold EXCEPT ![c] = Nil]

Return(c) == Leave(c, "idle")

Fresh == {s \in Sids : stage[s] = "unborn"}

NextSid == CHOOSE s \in Fresh : TRUE

-----------------------------------------------------------------------------
(* Bridge.HandleWorkConn: GetOrCreate, then the call. *)

\* A work connection carrying a JSON-RPC message arrives. The bound on Sids
\* is kept here, so that a request that is let in never lacks a session.
Request(c, k) ==
  /\ pc[c] = "idle"
  /\ Cardinality(Fresh) > Cardinality({d \in Callers : pc[d] \in {"get", "wait"}})
  /\ Goto(c, "get")
  /\ key' = [key EXCEPT ![c] = k]
  /\ UNCHANGED <<poolVars, sessVars, hold, bgVars>>

GetStopped(c) ==
  /\ pc[c] = "get" /\ stopped
  /\ Return(c)
  /\ UNCHANGED <<poolVars, sessVars, key, bgVars>>

GetHit(c) ==
  /\ pc[c] = "get" /\ ~stopped
  /\ sessions[key[c]] # Nil /\ Alive(sessions[key[c]])
  /\ Goto(c, "got")
  /\ hold' = [hold EXCEPT ![c] = sessions[key[c]]]
  /\ UNCHANGED <<poolVars, sessVars, key, bgVars>>

\* No live session: the dead one, if any, is removed in the same critical
\* section, whatever comes next.
GetMiss(c) ==
  /\ pc[c] = "get" /\ ~stopped
  /\ sessions[key[c]] = Nil \/ Dead(key[c])
  /\ sessions' = NoSession(key[c])
  /\ closer' = HandTo(key[c], "remove")
  /\ UNCHANGED <<configs, stopped, proc, closed, key, bgVars>>

GetWait(c) ==
  /\ GetMiss(c)
  /\ creating[key[c]] # Nil
  /\ Goto(c, "wait")
  /\ hold' = [hold EXCEPT ![c] = creating[key[c]]]
  /\ epCount' = CountWithout(key[c])
  /\ globalCount' = GlobalWithout(key[c])
  /\ UNCHANGED <<creating, stage, cfgOf>>

GetRefused(c) ==
  /\ GetMiss(c)
  /\ creating[key[c]] = Nil
  /\ AtLimit(key[c]) \/ configs[EndpointOf[key[c]]] = Nil
  /\ Return(c)
  /\ epCount' = CountWithout(key[c])
  /\ globalCount' = GlobalWithout(key[c])
  /\ UNCHANGED <<creating, stage, cfgOf>>

\* Both counters are reserved before the lock is released; the configuration
\* is the copy read here, whatever is registered later.
GetCreate(c) ==
  LET k == key[c] e == EndpointOf[k] s == NextSid IN
  /\ GetMiss(c)
  /\ creating[k] = Nil
  /\ ~AtLimit(k) /\ configs[e] # Nil
  /\ Fresh # {}
  /\ Goto(c, "create")
  /\ hold' = [hold EXCEPT ![c] = s]
  /\ creating' = [creating EXCEPT ![k] = s]
  /\ epCount' = [CountWithout(k) EXCEPT ![e] = @ + 1]
  /\ globalCount' = GlobalWithout(k) + 1
  /\ stage' = [stage EXCEPT ![s] = "begun"]
  /\ cfgOf' = [cfgOf EXCEPT ![s] = configs[e]]

(* NewSession, outside the lock. *)

Building(c, st) == pc[c] = "create" /\ stage[hold[c]] = st

SetStage(c, st) == stage' = [stage EXCEPT ![hold[c]] = st]

\* Spawn fails, or the endpoint's env file is missing.
SpawnFails(c) ==
  /\ Building(c, "begun")
  /\ SetStage(c, "failing")
  /\ UNCHANGED <<poolVars, proc, closed, cfgOf, closer, callVars, bgVars>>

Spawn(c) ==
  /\ Building(c, "begun")
  /\ SetStage(c, "handshake")
  /\ proc' = [proc EXCEPT ![hold[c]] = "running"]
  /\ UNCHANGED <<poolVars, closed, cfgOf, closer, callVars, bgVars>>

\* The handshake fails, times out, or the child exits before waitSettled ends:
\* NewSession closes the session itself before it returns the error.
HandshakeFails(c) ==
  /\ Building(c, "handshake")
  /\ SetStage(c, "failing")
  /\ closed' = closed \cup {hold[c]}
  /\ UNCHANGED <<poolVars, proc, cfgOf, closer, callVars, bgVars>>

\* waitSettled's last check of Alive; the child may exit right after it.
Settle(c) ==
  /\ Building(c, "handshake")
  /\ Alive(hold[c])
  /\ SetStage(c, "settled")
  /\ UNCHANGED <<poolVars, proc, closed, cfgOf, closer, callVars, bgVars>>

(* The second critical section of GetOrCreate. *)

\* Here a counter that is not zero after the decrement stays, even a negative one.
CreateFailed(c) ==
  LET k == key[c] e == EndpointOf[k] IN
  /\ Building(c, "failing")
  /\ proc[hold[c]] # "running"
  /\ creating' = [creating EXCEPT ![k] = Nil]
  /\ epCount' = [epCount EXCEPT ![e] = @ - 1]
  /\ globalCount' = globalCount - 1
  /\ SetStage(c, "failed")
  /\ Return(c)
  /\ UNCHANGED <<sessions, configs, stopped, proc, closed, cfgOf, closer,
                 key, bgVars>>

Install(c) ==
  /\ Building(c, "settled")
  /\ creating' = [creating EXCEPT ![key[c]] = Nil]
  /\ sessions' = [sessions EXCEPT ![key[c]] = hold[c]]
  /\ SetStage(c, "ready")
  /\ Goto(c, "got")
  /\ UNCHANGED <<epCount, configs, globalCount, stopped, proc, closed, cfgOf,
                 closer, key, hold, bgVars>>

\* Fault: a failed flight does not wake its waiters.
FlightDoneOnlyReady(c) ==
  LET s == hold[c] IN
  /\ pc[c] = "wait" /\ stage[s] = "ready"
  /\ \/ Alive(s) /\ Goto(c, "got") /\ UNCHANGED hold
     \/ ~Alive(s) /\ Leave(c, "get")
  /\ UNCHANGED <<poolVars, sessVars, key, bgVars>>

\* <-flight.done: an error is returned, a live session is used, a dead one
\* sends the waiter round the loop again.
FlightDone(c) ==
  LET s == hold[c] IN
  /\ pc[c] = "wait"
  /\ \/ stage[s] = "failed" /\ Return(c)
     \/ stage[s] = "ready" /\ Alive(s) /\ Goto(c, "got") /\ UNCHANGED hold
     \/ stage[s] = "ready" /\ ~Alive(s) /\ Leave(c, "get")
  /\ UNCHANGED <<poolVars, sessVars, key, bgVars>>

\* Client initialize and initialized are answered without the child.
AnswerLocally(c) ==
  /\ pc[c] = "got"
  /\ Return(c)
  /\ UNCHANGED <<poolVars, sessVars, key, bgVars>>

\* The entry checks of Session.Call and SendNotification: "session closed" is
\* a plain error, an exited child makes the bridge invalidate the key.
StartCall(c) ==
  LET s == hold[c] IN
  /\ pc[c] = "got"
  /\ \/ s \in closed /\ Return(c)
     \/ s \notin closed /\ ~Alive(s) /\ Goto(c, "invalidate") /\ UNCHANGED hold
     \/ Alive(s) /\ Goto(c, "call") /\ UNCHANGED hold
  /\ UNCHANGED <<poolVars, sessVars, key, bgVars>>

\* A response, or the request timeout while the session is alive.
CallReturns(c) ==
  /\ pc[c] = "call"
  /\ Return(c)
  /\ UNCHANGED <<poolVars, sessVars, key, bgVars>>

\* The write fails, the exit of the child is noticed, or the wait channel is
\* closed by Session.Close: a process-exit error. A child may close its stdin
\* and go on running, so nothing is asked of the process here.
CallDies(c) ==
  /\ pc[c] = "call"
  /\ Goto(c, "invalidate")
  /\ UNCHANGED <<poolVars, sessVars, key, hold, bgVars>>

\* Pool.Invalidate(sessionKey): it goes by key, whatever session is there now.
Invalidate(c) ==
  /\ pc[c] = "invalidate"
  /\ RemoveSession(key[c], "remove")
  /\ Return(c)
  /\ UNCHANGED <<creating, configs, stopped, stage, proc, closed, cfgOf,
                 key, bgVars>>

-----------------------------------------------------------------------------
(* The endpoint manager. *)

RegisterEndpoint(e, cfg) ==
  /\ configs' = [configs EXCEPT ![e] = cfg]
  /\ IF configs[e] # Nil /\ ConfigChanged(configs[e], cfg)
     THEN CloseEndpointSessions(e)
     ELSE UNCHANGED <<sessions, epCount, closer>>
  /\ UNCHANGED <<creating, globalCount, stopped, stage, proc, closed, cfgOf,
                 callVars, bgVars>>

UnregisterEndpoint(e) ==
  /\ configs' = [configs EXCEPT ![e] = Nil]
  /\ CloseEndpointSessions(e)
  /\ UNCHANGED <<creating, globalCount, stopped, stage, proc, closed, cfgOf,
                 callVars, bgVars>>

-----------------------------------------------------------------------------
(* Session.Close, run by whoever the session was handed to. *)

\* Fault: Close does nothing for a child that has exited.
CloseSkipsDead(s) ==
  /\ closer[s] # "none" /\ Alive(s)
  /\ closed' = closed \cup {s}
  /\ UNCHANGED <<poolVars, stage, proc, cfgOf, closer, callVars, bgVars>>

CloseBegins(s) ==
  /\ closer[s] # "none" /\ s \notin closed
  /\ closed' = closed \cup {s}
  /\ UNCHANGED <<poolVars, stage, proc, cfgOf, closer, callVars, bgVars>>

\* Shutdown returned. The detaching goroutine and CloseAll count the process
\* out only now; the other removals did so when they removed it.
CountsAfterClose == {"detach", "closeAll"}

CloseEnds(s) ==
  /\ closer[s] # "none" /\ s \in closed /\ proc[s] # "running"
  /\ closer' = [closer EXCEPT ![s] = "none"]
  /\ globalCount' = IF closer[s] \in CountsAfterClose THEN globalCount - 1 ELSE globalCount
  /\ UNCHANGED <<sessions, creating, epCount, configs, stopped, stage, proc, closed,
                 cfgOf, callVars, bgVars>>

\* The child exits: on its own at any time, because of Shutdown once closed.
ProcExits(s) ==
  /\ proc[s] = "running"
  /\ proc' = [proc EXCEPT ![s] = "exited"]
  /\ UNCHANGED <<poolVars, stage, closed, cfgOf, closer, callVars, bgVars>>

-----------------------------------------------------------------------------
(* idleReaper. *)

\* A tick that finds something to do. How long ago a session was last used is
\* not kept: any session may turn out idle, one whose call is stuck in the
\* write to its child's stdin too. The select may prefer the tick to a stopCh
\* that is closed as well.
ReapScan ==
  /\ reaper = "sleep"
  /\ \E found \in SUBSET {k \in Keys : sessions[k] # Nil} :
       /\ found # {} /\ {k \in Keys : Dead(k)} \subseteq found
       /\ toClose' = found
  /\ reaper' = "reaping"
  /\ UNCHANGED <<poolVars, sessVars, callVars, closeAll, closeKeys>>

ReaperBusy == \E s \in Sids : closer[s] = "reap"

\* One key of the scan: looked up again, removed if still there, then closed
\* before the next key is taken (CloseBegins and CloseEnds of "reap").
ReapKey(k) ==
  /\ k \in toClose /\ ~ReaperBusy
  /\ RemoveSession(k, "reap")
  /\ toClose' = toClose \ {k}
  /\ UNCHANGED <<creating, configs, stopped, stage, proc, closed, cfgOf,
                 callVars, reaper, closeAll, closeKeys>>

ReapDone ==
  /\ reaper = "reaping" /\ toClose = {} /\ ~ReaperBusy
  /\ reaper' = "sleep"
  /\ UNCHANGED <<poolVars, sessVars, callVars, toClose, closeAll, closeKeys>>

ReaperStops ==
  /\ reaper = "sleep" /\ stopped
  /\ reaper' = "gone"
  /\ UNCHANGED <<poolVars, sessVars, callVars, toClose, closeAll, closeKeys>>

-----------------------------------------------------------------------------
(* CloseAll, called once when the machine shuts down. *)

CloseAllStops ==
  /\ closeAll = "off"
  /\ stopped' = TRUE
  /\ closeAll' = "snapshot"
  /\ UNCHANGED <<sessions, creating, epCount, configs, globalCount, sessVars,
                 callVars, reaper, toClose, closeKeys>>

CloseAllSnapshot ==
  /\ closeAll = "snapshot"
  /\ closeAll' = "closing"
  /\ closeKeys' = {k \in Keys : sessions[k] # Nil}
  /\ UNCHANGED <<poolVars, sessVars, callVars, reaper, toClose>>

CloseAllBusy == \E s \in Sids : closer[s] = "closeAll"

CloseAllKey(k) ==
  /\ k \in closeKeys /\ ~CloseAllBusy
  /\ sessions' = NoSession(k)
  /\ closer' = HandTo(k, "closeAll")
  /\ closeKeys' = closeKeys \ {k}
  /\ UNCHANGED <<creating, epCount, configs, globalCount, stopped, stage, proc,
                 closed, cfgOf, callVars, reaper, toClose, closeAll>>

CloseAllEnds ==
  /\ closeAll = "closing" /\ closeKeys = {} /\ ~CloseAllBusy
  /\ closeAll' = "done"
  /\ epCount' = [e \in Endpoints |-> 0]
  /\ UNCHANGED <<sessions, creating, configs, globalCount, stopped, sessVars,
                 callVars, reaper, toClose, closeKeys>>

-----------------------------------------------------------------------------
CallerStep(c) ==
  \/ GetStopped(c) \/ GetHit(c) \/ GetWait(c) \/ GetRefused(c) \/ GetCreate(c)
  \/ SpawnFails(c) \/ Spawn(c) \/ HandshakeFails(c) \/ Settle(c)
  \/ CreateFailed(c) \/ Install(c) \/ FlightDone(c)
  \/ AnswerLocally(c) \/ StartCall(c) \/ CallReturns(c) \/ CallDies(c)
  \/ Invalidate(c)

ReaperStep == ReapScan \/ ReapDone \/ ReaperStops \/ \E k \in Keys : ReapKey(k)

CloseAllStep == CloseAllSnapshot \/ CloseAllEnds \/ \E k \in Keys : CloseAllKey(k)

Next ==
  \/ \E c \in Callers, k \in Keys : Request(c, k)
  \/ \E c \in Callers : CallerStep(c)
  \/ \E e \in Endpoints, cfg \in Configs : RegisterEndpoint(e, cfg)
  \/ \E e \in Endpoints : UnregisterEndpoint(e)
  \/ \E s \in Sids : CloseBegins(s) \/ CloseEnds(s) \/ ProcExits(s)
  \/ ReaperStep
  \/ CloseAllStops \/ CloseAllStep

Spec == Init /\ [][Next]_vars

\* A call is not made to return: the write to stdin is bounded by no timer,
\* only Close and the exit of the child end it.
CallMayHang(c) == pc[c] = "call" /\ Alive(hold[c])

\* Goroutines that can run do run. Shutdown ends in SIGKILL, so a closed
\* child exits. Requests, configuration changes, spontaneous exits, idleness
\* (so the reaper's finds), answers of the child and the shutdown itself are
\* never forced.
Fairness ==
  /\ \A c \in Callers : WF_vars(~CallMayHang(c) /\ CallerStep(c))
  /\ \A s \in Sids : /\ WF_vars(CloseBegins(s)) /\ WF_vars(CloseEnds(s))
                     /\ WF_vars(s \in closed /\ ProcExits(s))
  /\ WF_vars(ReapDone \/ \E k \in Keys : ReapKey(k)) /\ WF_vars(CloseAllStep)

FairSpec == Spec /\ Fairness

-----------------------------------------------------------------------------
(* Properties. *)

Shape ==
  /\ sessions \in [Keys -> Sids \cup {Nil}]
  /\ creating \in [Keys -> Sids \cup {Nil}]
  /\ epCount \in [Endpoints -> Int]
  /\ configs \in [Endpoints -> Configs \cup {Nil}]
  /\ globalCount \in Int
  /\ stopped \in BOOLEAN
  /\ stage \in [Sids -> Stages]
  /\ proc \in [Sids -> {"none", "running", "exited"}]
  /\ closed \in SUBSET Sids
  /\ cfgOf \in [Sids -> Configs \cup {Nil}]
  /\ closer \in [Sids -> Closers]
  /\ pc \in [Callers -> PCs]
  /\ key \in [Callers -> Keys]
  /\ hold \in [Callers -> Sids \cup {Nil}]
  /\ reaper \in {"sleep", "reaping", "gone"} /\ toClose \in SUBSET Keys
  /\ closeAll \in {"off", "snapshot", "closing", "done"} /\ closeKeys \in SUBSET Keys

\* The type invariant; it includes the pool's own promise that globalCount
\* stays between 0 and MaxGlobalProcesses, however its reservations and
\* releases interleave.
TypeOK == Shape /\ globalCount \in 0..MaxGlobalProcesses

Mapped(s)     == \E k \in Keys : sessions[k] = s
InFlight(s)   == \E k \in Keys : creating[k] = s

\* The sessions that occupy a slot of MaxGlobalProcesses.
Counted == {s \in Sids : Mapped(s) \/ InFlight(s) \/ closer[s] \in CountsAfterClose}

\* globalCount is exactly the number of sessions holding a slot, although it
\* is changed by four kinds of goroutine, in and outside the lock.
GlobalCountExact == globalCount = Cardinality(Counted)

\* No child runs that nobody will stop: it is installed, being created, or
\* owed a Close by exactly the goroutine that removed it.
NoOrphanProcess ==
  \A s \in Sids : proc[s] = "running" => Mapped(s) \/ InFlight(s) \/ closer[s] # "none"

\* A session has one owner at a time: while it is in the map nobody has closed
\* it or is about to, it is there under one key, and its flight is over.
SingleOwner ==
  /\ \A k \in Keys : sessions[k] # Nil =>
        /\ closer[sessions[k]] = "none" /\ sessions[k] \notin closed
        /\ creating[k] = Nil /\ ~InFlight(sessions[k])
  /\ \A k, l \in Keys : k # l /\ sessions[k] = sessions[l] => sessions[k] = Nil

(* What a session's life looks like from outside the pool. *)

Life ==
  [s \in Sids |-> IF stage[s] = "unborn" THEN "new"
                  ELSE IF InFlight(s) THEN "starting"
                  ELSE IF Mapped(s) THEN "open"
                  ELSE IF closer[s] # "none" THEN "leaving" ELSE "over"]

Running == {s \in Sids : proc[s] = "running"}

SL == INSTANCE SessionLife WITH Limit <- MaxGlobalProcesses, life <- Life,
                                slots <- Counted, running <- Running

\* The pool keeps the promise of SessionLife: a session starts in a free slot,
\* is opened once, is never used again once it was removed, and is over only
\* when its child has ended, for all the goroutines that create, remove,
\* detach and close sessions of one another.
ImplementsSessionLife == SL!Spec

(* The inductive invariant behind the properties above. *)

StageInv ==
  \A s \in Sids :
     /\ stage[s] \in {"unborn", "begun"} => proc[s] = "none"
     /\ stage[s] \in {"unborn", "begun", "handshake", "settled"} => s \notin closed
     /\ closer[s] # "none" => stage[s] = "ready"

\* What is in the map was installed by a finished flight.
MapInv ==
  /\ \A k \in Keys : sessions[k] # Nil =>
        /\ stage[sessions[k]] = "ready" /\ closer[sessions[k]] = "none"
        /\ sessions[k] \notin closed /\ creating[k] = Nil
  /\ \A k, l \in Keys : k # l /\ sessions[k] = sessions[l] => sessions[k] = Nil

\* A flight belongs to one key and to one caller.
FlightInv ==
  /\ \A k \in Keys : creating[k] # Nil =>
        stage[creating[k]] \in {"begun", "handshake", "settled", "failing"}
  /\ \A k, l \in Keys : k # l /\ creating[k] = creating[l] => creating[k] = Nil
  /\ \A c \in Callers : pc[c] = "create" => hold[c] \in Sids /\ creating[key[c]] = hold[c]
  /\ \A c, d \in Callers : c # d /\ pc[c] = "create" /\ pc[d] = "create" => hold[c] # hold[d]

PoolInv ==
  /\ TypeOK /\ StageInv /\ MapInv /\ FlightInv
  /\ NoOrphanProcess /\ GlobalCountExact

\* The keys of an endpoint that have a session or are about to.
Busy(e) == {k \in KeysOf(e) : sessions[k] # Nil \/ creating[k] # Nil}

\* GetOrCreate never refuses a request for a per-endpoint limit that is not
\* reached: while the pool runs, epCount does not exceed the sessions there are.
EpCountNotOver == ~stopped => \A e \in Endpoints : epCount[e] <= Cardinality(Busy(e))

\* CloseAll removes sessions without counting them out, but only once the pool
\* has stopped.
StopInv ==
  /\ closeAll # "off" => stopped
  /\ closeKeys # {} => closeAll # "off"

\* A registered configuration is the one the installed session runs with
\* ("a changed command/args/env must use a new process", RegisterEndpoint).
FreshConfig ==
  \A k \in Keys : sessions[k] # Nil =>
     /\ configs[EndpointOf[k]] # Nil
     /\ ~ConfigChanged(cfgOf[sessions[k]], configs[EndpointOf[k]])

\* No request stays in GetOrCreate: a waiter of a flight is woken whether the
\* creation succeeds, fails or is overtaken by a shutdown. A request that went
\* on to a call comes back once its session is closed or its child has exited.
RequestReturns ==
  \A c \in Callers :
     /\ pc[c] \notin {"idle", "call"} ~> pc[c] \in {"idle", "call"}
     /\ pc[c] = "call" /\ ~Alive(hold[c]) ~> pc[c] # "call"

\* What has been removed from the pool is eventually closed and its process gone.
RemovedIsClosed ==
  \A s \in Sids : closer[s] # "none" ~> (s \in closed /\ proc[s] # "running")
=============================================================================
