--------------------------- MODULE ExecPoolProofs ---------------------------
(***************************************************************************)
(* Proofs about ExecPool: the slot accounting of the pool and the          *)
(* ownership of its child processes, for any numbers of callers, keys,     *)
(* endpoints, sessions and any limits.                                     *)
(***************************************************************************)
EXTENDS ExecPool, FiniteSetTheorems, TLAPS

\* The set of counted sessions is finite, so its cardinality is a number.
LEMMA CountedFinite ==
  /\ IsFiniteSet(Counted)
  /\ Cardinality(Counted) \in Nat
<1>1. Counted \in SUBSET Sids
  BY DEF Counted
<1>2. IsFiniteSet(Counted)
  BY <1>1, PoolAssumption, FS_Subset
<1> QED
  BY <1>2, FS_CardinalityType

\* The initial state satisfies the inductive invariant.
LEMMA InitInv == Init => PoolInv
<1> SUFFICES ASSUME Init PROVE PoolInv
  OBVIOUS
<1>1. Shape
  <2>1. stopped \in BOOLEAN
    BY DEF Init
  <2>2. /\ sessions \in [Keys -> Sids \cup {Nil}]
        /\ creating \in [Keys -> Sids \cup {Nil}]
        /\ hold \in [Callers -> Sids \cup {Nil}]
    BY DEF Init
  <2>3. /\ epCount \in [Endpoints -> Int] /\ globalCount \in Int
    BY DEF Init
  <2>4. /\ configs \in [Endpoints -> Configs \cup {Nil}]
        /\ cfgOf \in [Sids -> Configs \cup {Nil}]
    BY DEF Init
  <2>5. /\ stage \in [Sids -> Stages]
        /\ proc \in [Sids -> {"none", "running", "exited"}]
        /\ closed \in SUBSET Sids
        /\ closer \in [Sids -> Closers]
        /\ pc \in [Callers -> PCs]
        /\ key \in [Callers -> Keys]
    BY DEF Init, Stages, Closers, PCs
  <2> QED
    BY <2>1, <2>2, <2>3, <2>4, <2>5 DEF Init, Shape
<1>2. StageInv /\ MapInv /\ FlightInv /\ NoOrphanProcess
  BY DEF Init, StageInv, MapInv, FlightInv, NoOrphanProcess
<1>3. Counted = {}
  BY PoolAssumption DEF Init, Counted, Mapped, InFlight, CountsAfterClose
<1>4. GlobalCountExact
  BY <1>3, FS_EmptySet DEF Init, GlobalCountExact
<1>5. globalCount \in 0..MaxGlobalProcesses
  BY PoolAssumption DEF Init
<1> QED
  BY <1>1, <1>2, <1>4, <1>5 DEF PoolInv, TypeOK

\* Steps that leave the map, the flights, the counters and the closers alone
\* keep the accounting.
LEMMA SameCounted ==
  ASSUME UNCHANGED <<sessions, creating, closer, globalCount>>
  PROVE  /\ GlobalCountExact => GlobalCountExact'
         /\ TypeOK /\ Shape' => TypeOK'
<1>1. Counted' = Counted
  BY DEF Counted, Mapped, InFlight
<1> QED
  BY <1>1 DEF GlobalCountExact, TypeOK


\* Steps of the background goroutines and of a caller outside the pool that
\* change neither a session nor the pool.
LEMMA QuietInv ==
  ASSUME PoolInv, Shape',
         UNCHANGED <<sessions, creating, closer, globalCount, stage, proc, closed>>,
         FlightInv'
  PROVE  PoolInv'
<1>1. StageInv' /\ MapInv' /\ NoOrphanProcess'
  BY DEF PoolInv, StageInv, MapInv, NoOrphanProcess, Mapped, InFlight
<1> QED
  BY <1>1, SameCounted DEF PoolInv

\* A caller that is not creating, before and after its step, cannot disturb
\* the flights.
LEMMA CallerQuietInv ==
  ASSUME PoolInv, NEW c \in Callers, pc[c] # "create",
         NEW l \in PCs \ {"create"}, Goto(c, l),
         NEW h \in Sids \cup {Nil}, hold' = [hold EXCEPT ![c] = h],
         NEW k \in Keys, key' = [key EXCEPT ![c] = k],
         UNCHANGED <<poolVars, sessVars, bgVars>>
  PROVE  PoolInv'
<1> USE DEF Goto, poolVars, sessVars, bgVars
<1>1. Shape'
  <2>1. /\ pc' \in [Callers -> PCs]
        /\ hold' \in [Callers -> Sids \cup {Nil}]
        /\ key' \in [Callers -> Keys]
    BY DEF PoolInv, TypeOK, Shape
  <2> QED
    BY <2>1 DEF PoolInv, TypeOK, Shape
<1>2. FlightInv'
  BY DEF PoolInv, TypeOK, Shape, FlightInv
<1> QED
  BY <1>1, <1>2, QuietInv

\* The steps of a caller that only move it on.
LEMMA CallerMovesInv ==
  ASSUME PoolInv, NEW c \in Callers,
         \/ \E k \in Keys : Request(c, k)
         \/ GetStopped(c) \/ GetHit(c) \/ FlightDone(c) \/ AnswerLocally(c)
         \/ StartCall(c) \/ CallReturns(c) \/ CallDies(c)
  PROVE  PoolInv'
<1> USE DEF Leave, Return
<1>0. /\ key = [key EXCEPT ![c] = key[c]] /\ key[c] \in Keys
      /\ hold = [hold EXCEPT ![c] = hold[c]] /\ hold[c] \in Sids \cup {Nil}
      /\ sessions[key[c]] \in Sids \cup {Nil} /\ Nil \in Sids \cup {Nil}
      /\ \A l \in {"idle", "get", "wait", "got", "call", "invalidate"} : l \in PCs \ {"create"}
  BY DEF PoolInv, TypeOK, Shape, PCs
<1>1. ASSUME NEW k \in Keys, Request(c, k) PROVE PoolInv'
  BY <1>0, <1>1, CallerQuietInv DEF Request
<1>2. CASE GetStopped(c)
  BY <1>0, <1>2, CallerQuietInv DEF GetStopped
<1>3. CASE GetHit(c)
  BY <1>0, <1>3, CallerQuietInv DEF GetHit
<1>4. CASE FlightDone(c)
  BY <1>0, <1>4, CallerQuietInv DEF FlightDone
<1>5. CASE AnswerLocally(c)
  BY <1>0, <1>5, CallerQuietInv DEF AnswerLocally
<1>6. CASE StartCall(c)
  BY <1>0, <1>6, CallerQuietInv DEF StartCall
<1>7. CASE CallReturns(c)
  BY <1>0, <1>7, CallerQuietInv DEF CallReturns
<1>8. CASE CallDies(c)
  BY <1>0, <1>8, CallerQuietInv DEF CallDies
<1> QED
  BY <1>1, <1>2, <1>3, <1>4, <1>5, <1>6, <1>7, <1>8

\* NewSession: the stages of a session under construction.
LEMMA BuildInv ==
  ASSUME PoolInv, NEW c \in Callers,
         SpawnFails(c) \/ Spawn(c) \/ HandshakeFails(c) \/ Settle(c)
  PROVE  PoolInv'
<1> USE PoolAssumption DEF Building, SetStage
<1>0. /\ hold[c] \in Sids /\ creating[key[c]] = hold[c] /\ key[c] \in Keys
      /\ pc[c] = "create" /\ stage[hold[c]] \in {"begun", "handshake"}
      /\ UNCHANGED <<poolVars, cfgOf, closer, callVars, bgVars>>
      /\ \E st \in {"handshake", "settled", "failing"} : stage' = [stage EXCEPT ![hold[c]] = st]
  BY DEF PoolInv, TypeOK, Shape, FlightInv, SpawnFails, Spawn, HandshakeFails, Settle
<1>1. Shape'
  <2>1. stage' \in [Sids -> Stages]
    BY <1>0 DEF PoolInv, TypeOK, Shape, Stages
  <2>2. proc' \in [Sids -> {"none", "running", "exited"}] /\ closed' \in SUBSET Sids
    BY <1>0 DEF PoolInv, TypeOK, Shape, SpawnFails, Spawn, HandshakeFails, Settle
  <2> QED
    BY <1>0, <2>1, <2>2 DEF PoolInv, TypeOK, Shape, poolVars, callVars, bgVars
<1>2. StageInv'
  BY <1>0 DEF PoolInv, TypeOK, Shape, StageInv, SpawnFails, Spawn, HandshakeFails, Settle
<1>3. MapInv'
  BY <1>0 DEF PoolInv, TypeOK, Shape, MapInv, poolVars, SpawnFails, Spawn, HandshakeFails, Settle
<1>4. FlightInv'
  BY <1>0 DEF PoolInv, TypeOK, Shape, FlightInv, poolVars, callVars
<1>5. NoOrphanProcess'
  BY <1>0 DEF PoolInv, TypeOK, Shape, NoOrphanProcess, Mapped, InFlight, poolVars,
              SpawnFails, Spawn, HandshakeFails, Settle
<1> QED
  BY <1>0, <1>1, <1>2, <1>3, <1>4, <1>5, SameCounted DEF PoolInv, poolVars

\* Close begins, or a child exits.
LEMMA SessionInv ==
  ASSUME PoolInv, NEW s \in Sids, CloseBegins(s) \/ ProcExits(s)
  PROVE  PoolInv'
<1>0. /\ UNCHANGED <<poolVars, stage, cfgOf, closer, callVars, bgVars>>
      /\ \A r \in Sids : proc'[r] = "running" => proc[r] = "running"
  BY DEF PoolInv, TypeOK, Shape, CloseBegins, ProcExits
<1>1. Shape'
  <2>1. proc' \in [Sids -> {"none", "running", "exited"}] /\ closed' \in SUBSET Sids
    BY DEF PoolInv, TypeOK, Shape, CloseBegins, ProcExits
  <2> QED
    BY <1>0, <2>1 DEF PoolInv, TypeOK, Shape, poolVars, callVars, bgVars
<1>2. StageInv'
  BY DEF PoolInv, TypeOK, Shape, StageInv, CloseBegins, ProcExits
<1>3. MapInv'
  BY <1>0 DEF PoolInv, TypeOK, Shape, MapInv, poolVars, CloseBegins, ProcExits
<1>4. FlightInv'
  BY <1>0 DEF PoolInv, FlightInv, poolVars, callVars
<1>5. NoOrphanProcess'
  BY <1>0 DEF PoolInv, NoOrphanProcess, Mapped, InFlight, poolVars
<1> QED
  BY <1>0, <1>1, <1>2, <1>3, <1>4, <1>5, SameCounted DEF PoolInv, poolVars

\* Taking one counted session out decrements the cardinality.
LEMMA CountedMinus ==
  ASSUME NEW s \in Counted, Counted' = Counted \ {s},
         PoolInv, globalCount' = globalCount - 1
  PROVE  GlobalCountExact' /\ globalCount' \in 0..MaxGlobalProcesses
<1>1. Cardinality(Counted') = Cardinality(Counted) - 1
  BY CountedFinite, FS_RemoveElement
<1>2. Cardinality(Counted') \in Nat
  BY CountedFinite, FS_RemoveElement, FS_CardinalityType
<1> QED
  BY <1>1, <1>2, PoolAssumption DEF PoolInv, TypeOK, GlobalCountExact

\* A step that leaves the counted sessions alone keeps their number.
LEMMA CountedSame ==
  ASSUME Counted' = Counted, PoolInv, globalCount' = globalCount
  PROVE  GlobalCountExact' /\ globalCount' \in 0..MaxGlobalProcesses
BY DEF PoolInv, TypeOK, GlobalCountExact

\* removeSessionLocked and the removal in reapIdle: the session leaves the map
\* and its slot, and is handed to a goroutine that closes it.
LEMMA RemoveInv ==
  ASSUME PoolInv, NEW k \in Keys, NEW who \in {"remove", "reap"},
         sessions' = NoSession(k), closer' = HandTo(k, who),
         globalCount' = GlobalWithout(k), epCount' = CountWithout(k),
         UNCHANGED <<creating, stage, proc, closed>>
  PROVE  /\ sessions' \in [Keys -> Sids \cup {Nil}]
         /\ closer' \in [Sids -> Closers]
         /\ epCount' \in [Endpoints -> Int]
         /\ StageInv' /\ MapInv' /\ NoOrphanProcess'
         /\ GlobalCountExact' /\ globalCount' \in 0..MaxGlobalProcesses
<1> USE PoolAssumption
<1> USE DEF NoSession, HandTo, GlobalWithout
<1>1. CASE sessions[k] = Nil
  <2>1. sessions' = sessions /\ closer' = closer /\ globalCount' = globalCount /\ epCount' = epCount
    BY <1>1 DEF PoolInv, TypeOK, Shape, CountWithout
  <2>2. Counted' = Counted
    BY <2>1 DEF Counted, Mapped, InFlight
  <2>3. StageInv' /\ MapInv' /\ NoOrphanProcess'
    BY <2>1 DEF PoolInv, StageInv, MapInv, NoOrphanProcess, Mapped, InFlight
  <2> QED
    BY <2>1, <2>2, <2>3, CountedSame DEF PoolInv, TypeOK, Shape
<1>2. CASE sessions[k] # Nil
  <2> DEFINE s == sessions[k]
  <2>0. /\ s \in Sids /\ stage[s] = "ready" /\ closer[s] = "none" /\ s \notin closed
        /\ \A l \in Keys : creating[l] # s
        /\ \A l \in Keys \ {k} : sessions[l] # s
    BY <1>2 DEF PoolInv, TypeOK, Shape, MapInv, FlightInv
  <2>1. /\ sessions' = [sessions EXCEPT ![k] = Nil]
        /\ closer' = [closer EXCEPT ![s] = who]
        /\ globalCount' = globalCount - 1
    BY <1>2
  <2>2. /\ sessions' \in [Keys -> Sids \cup {Nil}]
        /\ closer' \in [Sids -> Closers]
    BY <2>0, <2>1 DEF PoolInv, TypeOK, Shape, Closers
  <2>3. epCount' \in [Endpoints -> Int]
    <3>1. epCount \in [Endpoints -> Int]
      BY DEF PoolInv, TypeOK, Shape
    <3>2. epCount' = [epCount EXCEPT ![EndpointOf[k]] = Clamped(epCount[EndpointOf[k]])]
      BY <1>2 DEF CountWithout
    <3>3. \A n \in Int : Clamped(n) \in Int
      BY DEF Clamped
    <3> QED
      BY <3>1, <3>2, <3>3
  <2>4. StageInv'
    BY <2>0, <2>1 DEF PoolInv, TypeOK, Shape, StageInv
  <2>5. MapInv'
    BY <2>0, <2>1 DEF PoolInv, TypeOK, Shape, MapInv
  <2>6. NoOrphanProcess'
    <3> SUFFICES ASSUME NEW r \in Sids, proc[r] = "running"
                 PROVE  (Mapped(r) \/ InFlight(r) \/ closer[r] # "none")'
      BY DEF NoOrphanProcess
    <3>1. CASE r = s
      BY <3>1, <2>1 DEF PoolInv, TypeOK, Shape
    <3>2. CASE r # s
      <4>1. Mapped(r) \/ InFlight(r) \/ closer[r] # "none"
        BY DEF PoolInv, NoOrphanProcess
      <4> QED
        BY <3>2, <4>1, <2>1 DEF PoolInv, TypeOK, Shape, Mapped, InFlight
    <3> QED
      BY <3>1, <3>2
  <2>7. s \in Counted
    BY <2>0 DEF Counted, Mapped
  <2>8. Counted' = Counted \ {s}
    <3>1. \A r \in Sids : Mapped(r)' <=> Mapped(r) /\ r # s
      BY <2>0, <2>1 DEF PoolInv, TypeOK, Shape, Mapped
    <3>2. \A r \in Sids : InFlight(r)' <=> InFlight(r)
      BY DEF InFlight
    <3>3. ~InFlight(s)
      BY <2>0 DEF InFlight
    <3>4. \A r \in Sids : closer'[r] \in CountsAfterClose <=> closer[r] \in CountsAfterClose
      BY <2>0, <2>1 DEF PoolInv, TypeOK, Shape, CountsAfterClose
    <3>5. closer[s] \notin CountsAfterClose
      BY <2>0 DEF CountsAfterClose
    <3> QED
      BY <3>1, <3>2, <3>3, <3>4, <3>5 DEF Counted
  <2>9. GlobalCountExact' /\ globalCount' \in 0..MaxGlobalProcesses
    BY <2>1, <2>7, <2>8, CountedMinus
  <2> QED
    BY <2>2, <2>3, <2>4, <2>5, <2>6, <2>9
<1> QED
  BY <1>1, <1>2

\* Invalidate, and the misses of GetOrCreate that do not create.
LEMMA CallerRemovesInv ==
  ASSUME PoolInv, NEW c \in Callers, GetWait(c) \/ GetRefused(c) \/ Invalidate(c)
  PROVE  PoolInv'
<1> USE DEF Goto, Leave, Return, GetMiss
<1>0. /\ key[c] \in Keys /\ pc[c] \in {"get", "invalidate"} /\ pc[c] # "create"
      /\ sessions' = NoSession(key[c]) /\ closer' = HandTo(key[c], "remove")
      /\ globalCount' = GlobalWithout(key[c]) /\ epCount' = CountWithout(key[c])
      /\ UNCHANGED <<creating, configs, stopped, stage, proc, closed, cfgOf, key, bgVars>>
  BY DEF PoolInv, TypeOK, Shape, GetWait, GetRefused, Invalidate, RemoveSession
<1>1. /\ sessions' \in [Keys -> Sids \cup {Nil}]
      /\ closer' \in [Sids -> Closers]
      /\ epCount' \in [Endpoints -> Int]
      /\ StageInv' /\ MapInv' /\ NoOrphanProcess'
      /\ GlobalCountExact' /\ globalCount' \in 0..MaxGlobalProcesses
  BY <1>0, RemoveInv
<1>2. /\ \E l \in {"wait", "idle"} : pc' = [pc EXCEPT ![c] = l]
      /\ \E h \in Sids \cup {Nil} : hold' = [hold EXCEPT ![c] = h]
  BY <1>0 DEF PoolInv, TypeOK, Shape, GetWait, GetRefused, Invalidate
<1>3. Shape'
  <2>1. pc' \in [Callers -> PCs] /\ hold' \in [Callers -> Sids \cup {Nil}]
    BY <1>2 DEF PoolInv, TypeOK, Shape, PCs
  <2>2. globalCount' \in Int
    BY <1>1
  <2> QED
    BY <1>0, <1>1, <2>1, <2>2 DEF PoolInv, TypeOK, Shape, bgVars
<1>4. FlightInv'
  BY <1>0, <1>2 DEF PoolInv, TypeOK, Shape, FlightInv
<1> QED
  BY <1>1, <1>3, <1>4 DEF PoolInv, TypeOK

\* reapIdle removes a key of its scan: removeSession on the reaper's behalf.
LEMMA ReapKeyInv ==
  ASSUME PoolInv, NEW k \in Keys, ReapKey(k)
  PROVE  PoolInv'
<1>0. /\ sessions' = NoSession(k) /\ closer' = HandTo(k, "reap")
      /\ globalCount' = GlobalWithout(k) /\ epCount' = CountWithout(k)
      /\ UNCHANGED <<creating, configs, stopped, stage, proc, closed, cfgOf, callVars,
                     reaper, closeAll, closeKeys>>
      /\ toClose' = toClose \ {k}
  BY DEF ReapKey, RemoveSession
<1>1. /\ sessions' \in [Keys -> Sids \cup {Nil}]
      /\ closer' \in [Sids -> Closers]
      /\ epCount' \in [Endpoints -> Int]
      /\ StageInv' /\ MapInv' /\ NoOrphanProcess'
      /\ GlobalCountExact' /\ globalCount' \in 0..MaxGlobalProcesses
  BY <1>0, RemoveInv
<1>2. Shape'
  BY <1>0, <1>1 DEF PoolInv, TypeOK, Shape, callVars
<1>3. FlightInv'
  BY <1>0 DEF PoolInv, FlightInv, callVars
<1> QED
  BY <1>1, <1>2, <1>3 DEF PoolInv, TypeOK

\* GetOrCreate starts a flight: a dead session gives up its slot, the new one
\* takes one, which the limit check left free.
LEMMA GetCreateInv ==
  ASSUME PoolInv, NEW c \in Callers, GetCreate(c)
  PROVE  PoolInv'
<1> USE PoolAssumption
<1> DEFINE k == key[c]
           s == NextSid
<1>0. /\ k \in Keys /\ EndpointOf[k] \in Endpoints /\ pc[c] = "get"
      /\ creating[k] = Nil /\ ~AtLimit(k) /\ configs[EndpointOf[k]] # Nil
      /\ sessions' = NoSession(k) /\ closer' = HandTo(k, "remove")
      /\ pc' = [pc EXCEPT ![c] = "create"] /\ hold' = [hold EXCEPT ![c] = s]
      /\ creating' = [creating EXCEPT ![k] = s]
      /\ epCount' = [CountWithout(k) EXCEPT ![EndpointOf[k]] = @ + 1]
      /\ globalCount' = GlobalWithout(k) + 1
      /\ stage' = [stage EXCEPT ![s] = "begun"]
      /\ cfgOf' = [cfgOf EXCEPT ![s] = configs[EndpointOf[k]]]
      /\ UNCHANGED <<configs, stopped, proc, closed, key, bgVars>>
  BY DEF GetCreate, GetMiss, Goto, PoolInv, TypeOK, Shape
<1>1. s \in Sids /\ stage[s] = "unborn"
  BY DEF GetCreate, NextSid, Fresh
<1>2. /\ closer[s] = "none" /\ proc[s] = "none" /\ s \notin closed
      /\ \A l \in Keys : sessions[l] # s /\ creating[l] # s
      /\ \A d \in Callers : pc[d] = "create" => hold[d] # s /\ key[d] # k
  <2>1. closer[s] = "none" /\ proc[s] = "none" /\ s \notin closed
    BY <1>1 DEF PoolInv, StageInv
  <2>2. s # Nil /\ \A l \in Keys : sessions[l] # s /\ creating[l] # s
    BY <1>1 DEF PoolInv, MapInv, FlightInv
  <2>3. ASSUME NEW d \in Callers, pc[d] = "create" PROVE hold[d] # s /\ key[d] # k
    <3>1. hold[d] \in Sids /\ creating[key[d]] = hold[d] /\ key[d] \in Keys
      BY <2>3 DEF PoolInv, TypeOK, Shape, FlightInv
    <3> QED
      BY <3>1, <2>2, <1>0
  <2> QED
    BY <2>1, <2>2, <2>3
<1>3. sessions[k] # Nil =>
        /\ sessions[k] \in Sids /\ sessions[k] # s /\ closer[sessions[k]] = "none"
        /\ stage[sessions[k]] = "ready"
        /\ \A l \in Keys : creating[l] # sessions[k]
        /\ \A l \in Keys \ {k} : sessions[l] # sessions[k]
  BY <1>0, <1>2 DEF PoolInv, TypeOK, Shape, MapInv, FlightInv
<1>4. Shape'
  <2>1. pc' \in [Callers -> PCs] /\ hold' \in [Callers -> Sids \cup {Nil}]
    BY <1>0, <1>1 DEF PoolInv, TypeOK, Shape, PCs
  <2>2. sessions' \in [Keys -> Sids \cup {Nil}] /\ creating' \in [Keys -> Sids \cup {Nil}]
    BY <1>0, <1>1 DEF PoolInv, TypeOK, Shape, NoSession
  <2>3. closer' \in [Sids -> Closers]
    BY <1>0, <1>1 DEF PoolInv, TypeOK, Shape, HandTo, Closers
  <2>4. stage' \in [Sids -> Stages] /\ cfgOf' \in [Sids -> Configs \cup {Nil}]
    BY <1>0, <1>1 DEF PoolInv, TypeOK, Shape, Stages
  <2>5. epCount' \in [Endpoints -> Int]
    <3>1. epCount \in [Endpoints -> Int]
      BY DEF PoolInv, TypeOK, Shape
    <3>2. \A n \in Int : Clamped(n) \in Int
      BY DEF Clamped
    <3>3. CountWithout(k) \in [Endpoints -> Int]
      BY <1>0, <3>1, <3>2 DEF CountWithout
    <3> QED
      BY <1>0, <3>3
  <2>6. globalCount' \in Int
    BY <1>0 DEF PoolInv, TypeOK, Shape, GlobalWithout
  <2> QED
    BY <1>0, <2>1, <2>2, <2>3, <2>4, <2>5, <2>6 DEF PoolInv, TypeOK, Shape, bgVars
<1>5. StageInv'
  BY <1>0, <1>1, <1>2, <1>3 DEF PoolInv, TypeOK, Shape, StageInv, HandTo
<1>6. MapInv'
  <2>1. \A l \in Keys : sessions'[l] = IF l = k THEN Nil ELSE sessions[l]
    BY <1>0 DEF PoolInv, TypeOK, Shape, NoSession
  <2>2. \A l \in Keys \ {k} : sessions[l] # Nil =>
          /\ sessions[l] \in Sids /\ sessions[l] # sessions[k] /\ sessions[l] # s
          /\ stage[sessions[l]] = "ready" /\ closer[sessions[l]] = "none"
          /\ sessions[l] \notin closed /\ creating[l] = Nil
    BY <1>0, <1>2 DEF PoolInv, TypeOK, Shape, MapInv
  <2>3. \A l \in Keys \ {k} : sessions[l] # Nil =>
          /\ stage'[sessions[l]] = "ready" /\ closer'[sessions[l]] = "none"
          /\ creating'[l] = Nil
    BY <1>0, <2>2 DEF PoolInv, TypeOK, Shape, HandTo
  <2> QED
    BY <1>0, <2>1, <2>2, <2>3 DEF PoolInv, MapInv
<1>7. FlightInv'
  BY <1>0, <1>1, <1>2 DEF PoolInv, TypeOK, Shape, FlightInv
<1>8. NoOrphanProcess'
  <2> SUFFICES ASSUME NEW r \in Sids, proc[r] = "running"
               PROVE  (Mapped(r) \/ InFlight(r) \/ closer[r] # "none")'
    BY <1>0 DEF NoOrphanProcess
  <2>1. r # s /\ (Mapped(r) \/ InFlight(r) \/ closer[r] # "none")
    BY <1>2 DEF PoolInv, NoOrphanProcess
  <2>2. CASE closer[r] # "none"
    BY <2>2, <1>0, <1>3 DEF PoolInv, TypeOK, Shape, HandTo
  <2>3. CASE InFlight(r)
    BY <2>3, <1>0 DEF PoolInv, TypeOK, Shape, InFlight
  <2>4. CASE Mapped(r) /\ r # sessions[k]
    BY <2>4, <1>0 DEF PoolInv, TypeOK, Shape, Mapped, NoSession
  <2>5. CASE r = sessions[k]
    BY <2>5, <1>0 DEF PoolInv, TypeOK, Shape, HandTo
  <2> QED
    BY <2>1, <2>2, <2>3, <2>4, <2>5
<1>9. Counted' = (Counted \ {sessions[k]}) \cup {s}
  <2>1. \A r \in Sids : Mapped(r)' <=> Mapped(r) /\ r # sessions[k]
    BY <1>0, <1>3 DEF PoolInv, TypeOK, Shape, Mapped, NoSession
  <2>2. \A r \in Sids : InFlight(r)' <=> InFlight(r) \/ r = s
    BY <1>0, <1>1 DEF PoolInv, TypeOK, Shape, InFlight
  <2>3. \A r \in Sids : closer'[r] \in CountsAfterClose <=> closer[r] \in CountsAfterClose
    BY <1>0, <1>3 DEF PoolInv, TypeOK, Shape, CountsAfterClose, HandTo
  <2>4. sessions[k] \in Sids => ~InFlight(sessions[k]) /\ closer[sessions[k]] \notin CountsAfterClose
    BY <1>3 DEF InFlight, CountsAfterClose
  <2> QED
    BY <1>1, <2>1, <2>2, <2>3, <2>4 DEF Counted
<1>10. GlobalCountExact' /\ globalCount' \in 0..MaxGlobalProcesses
  <2>1. s \notin Counted
    BY <1>2 DEF Counted, Mapped, InFlight, CountsAfterClose
  <2>2. sessions[k] \in Counted <=> sessions[k] # Nil
    BY <1>0, <1>3 DEF Counted, Mapped
  <2>3. /\ IsFiniteSet(Counted \ {sessions[k]})
        /\ Cardinality(Counted \ {sessions[k]}) = GlobalWithout(k)
    BY <2>2, CountedFinite, FS_RemoveElement DEF GlobalWithout, PoolInv, GlobalCountExact
  <2>4. Cardinality(Counted') = GlobalWithout(k) + 1
    BY <2>1, <2>3, <1>9, FS_AddElement
  <2>5. GlobalWithout(k) \in Nat
    BY <2>3, FS_CardinalityType
  <2>6. GlobalWithout(k) < MaxGlobalProcesses
    BY <1>0, <2>5 DEF AtLimit
  <2> QED
    BY <1>0, <2>4, <2>5, <2>6 DEF GlobalCountExact
<1> QED
  BY <1>4, <1>5, <1>6, <1>7, <1>8, <1>10 DEF PoolInv, TypeOK

\* The end of a flight: its slot is freed on error, and becomes the installed
\* session's on success.
LEMMA CreateFailedInv ==
  ASSUME PoolInv, NEW c \in Callers, CreateFailed(c)
  PROVE  PoolInv'
<1> USE PoolAssumption DEF Building, SetStage, Goto, Leave, Return
<1> DEFINE s == hold[c]
           k == key[c]
<1>0. /\ k \in Keys /\ EndpointOf[k] \in Endpoints /\ pc[c] = "create"
      /\ s \in Sids /\ creating[k] = s /\ stage[s] = "failing" /\ proc[s] # "running"
      /\ creating' = [creating EXCEPT ![k] = Nil]
      /\ epCount' = [epCount EXCEPT ![EndpointOf[k]] = @ - 1]
      /\ globalCount' = globalCount - 1
      /\ stage' = [stage EXCEPT ![s] = "failed"]
      /\ pc' = [pc EXCEPT ![c] = "idle"] /\ hold' = [hold EXCEPT ![c] = Nil]
      /\ UNCHANGED <<sessions, configs, stopped, proc, closed, cfgOf, closer, key, bgVars>>
  BY DEF PoolInv, TypeOK, Shape, FlightInv, CreateFailed
<1>1. /\ closer[s] = "none"
      /\ \A l \in Keys : sessions[l] # s
      /\ \A l \in Keys \ {k} : creating[l] # s
      /\ \A d \in Callers \ {c} : pc[d] = "create" => hold[d] # s /\ key[d] # k
  BY <1>0 DEF PoolInv, TypeOK, Shape, StageInv, MapInv, FlightInv
<1>2. Shape'
  <2>1. creating' \in [Keys -> Sids \cup {Nil}] /\ epCount' \in [Endpoints -> Int]
    BY <1>0 DEF PoolInv, TypeOK, Shape
  <2>2. stage' \in [Sids -> Stages] /\ pc' \in [Callers -> PCs]
    BY <1>0 DEF PoolInv, TypeOK, Shape, Stages, PCs
  <2>3. hold' \in [Callers -> Sids \cup {Nil}] /\ globalCount' \in Int
    BY <1>0 DEF PoolInv, TypeOK, Shape
  <2> QED
    BY <1>0, <2>1, <2>2, <2>3 DEF PoolInv, TypeOK, Shape, bgVars
<1>3. StageInv'
  BY <1>0, <1>1 DEF PoolInv, TypeOK, Shape, StageInv
<1>4. MapInv'
  BY <1>0, <1>1 DEF PoolInv, TypeOK, Shape, MapInv
<1>5. FlightInv'
  BY <1>0, <1>1 DEF PoolInv, TypeOK, Shape, FlightInv
<1>6. NoOrphanProcess'
  BY <1>0, <1>1 DEF PoolInv, TypeOK, Shape, NoOrphanProcess, Mapped, InFlight
<1>7. s \in Counted
  BY <1>0 DEF Counted, InFlight
<1>8. Counted' = Counted \ {s}
  <2>1. \A r \in Sids : Mapped(r)' <=> Mapped(r)
    BY <1>0 DEF Mapped
  <2>2. \A r \in Sids : InFlight(r)' <=> InFlight(r) /\ r # s
    BY <1>0, <1>1 DEF PoolInv, TypeOK, Shape, InFlight
  <2>3. ~Mapped(s) /\ closer[s] \notin CountsAfterClose
    BY <1>1 DEF Mapped, CountsAfterClose
  <2> QED
    BY <1>0, <2>1, <2>2, <2>3 DEF Counted
<1> QED
  BY <1>0, <1>2, <1>3, <1>4, <1>5, <1>6, <1>7, <1>8, CountedMinus DEF PoolInv, TypeOK

\* GetOrCreate installs the session: its slot passes from the flight to the
\* map.
LEMMA InstallInv ==
  ASSUME PoolInv, NEW c \in Callers, Install(c)
  PROVE  PoolInv'
<1> USE PoolAssumption DEF Building, SetStage, Goto
<1> DEFINE s == hold[c]
           k == key[c]
<1>0. /\ k \in Keys /\ pc[c] = "create"
      /\ s \in Sids /\ creating[k] = s /\ stage[s] = "settled" /\ s \notin closed
      /\ creating' = [creating EXCEPT ![k] = Nil]
      /\ sessions' = [sessions EXCEPT ![k] = s]
      /\ stage' = [stage EXCEPT ![s] = "ready"]
      /\ pc' = [pc EXCEPT ![c] = "got"]
      /\ UNCHANGED <<epCount, configs, globalCount, stopped, proc, closed, cfgOf, closer,
                     key, hold, bgVars>>
  BY DEF PoolInv, TypeOK, Shape, StageInv, FlightInv, Install
<1>1. /\ closer[s] = "none" /\ sessions[k] = Nil
      /\ \A l \in Keys : sessions[l] # s
      /\ \A l \in Keys \ {k} : creating[l] # s
      /\ \A d \in Callers \ {c} : pc[d] = "create" => hold[d] # s /\ key[d] # k
  BY <1>0 DEF PoolInv, TypeOK, Shape, StageInv, MapInv, FlightInv
<1>2. Shape'
  <2>1. /\ creating' \in [Keys -> Sids \cup {Nil}]
        /\ sessions' \in [Keys -> Sids \cup {Nil}]
    BY <1>0 DEF PoolInv, TypeOK, Shape
  <2>2. stage' \in [Sids -> Stages] /\ pc' \in [Callers -> PCs]
    BY <1>0 DEF PoolInv, TypeOK, Shape, Stages, PCs
  <2> QED
    BY <1>0, <2>1, <2>2 DEF PoolInv, TypeOK, Shape, bgVars
<1>3. StageInv'
  BY <1>0, <1>1 DEF PoolInv, TypeOK, Shape, StageInv
<1>4. MapInv'
  BY <1>0, <1>1 DEF PoolInv, TypeOK, Shape, MapInv
<1>5. FlightInv'
  BY <1>0, <1>1 DEF PoolInv, TypeOK, Shape, FlightInv
<1>6. \A r \in Sids : (Mapped(r) \/ InFlight(r))' <=> Mapped(r) \/ InFlight(r)
  <2>1. \A r \in Sids : Mapped(r)' <=> Mapped(r) \/ r = s
    BY <1>0, <1>1 DEF PoolInv, TypeOK, Shape, Mapped
  <2>2. \A r \in Sids : InFlight(r)' <=> InFlight(r) /\ r # s
    BY <1>0, <1>1 DEF PoolInv, TypeOK, Shape, InFlight
  <2>3. InFlight(s)
    BY <1>0 DEF InFlight
  <2> QED
    BY <2>1, <2>2, <2>3
<1>7. NoOrphanProcess'
  BY <1>0, <1>6 DEF PoolInv, NoOrphanProcess
<1>8. Counted' = Counted
  BY <1>0, <1>6 DEF Counted
<1> QED
  BY <1>0, <1>2, <1>3, <1>4, <1>5, <1>7, <1>8, CountedSame DEF PoolInv, TypeOK

\* A Close is over: the slot of a detached session is freed only now.
LEMMA CloseEndsInv ==
  ASSUME PoolInv, NEW s \in Sids, CloseEnds(s)
  PROVE  PoolInv'
<1> USE PoolAssumption
<1>0. /\ closer[s] # "none" /\ s \in closed /\ proc[s] # "running"
      /\ closer' = [closer EXCEPT ![s] = "none"]
      /\ UNCHANGED <<sessions, creating, epCount, configs, stopped, stage, proc, closed,
                     cfgOf, callVars, bgVars>>
  BY DEF CloseEnds
<1>1. ~Mapped(s) /\ ~InFlight(s)
  BY <1>0 DEF PoolInv, StageInv, MapInv, FlightInv, Mapped, InFlight
<1>2. closer' \in [Sids -> Closers] /\ globalCount' \in Int
  BY DEF CloseEnds, PoolInv, TypeOK, Shape, Closers
<1>3. Shape'
  BY <1>0, <1>2 DEF PoolInv, TypeOK, Shape, callVars, bgVars
<1>4. StageInv' /\ MapInv'
  BY <1>0, <1>1 DEF PoolInv, TypeOK, Shape, StageInv, MapInv, Mapped
<1>5. FlightInv'
  BY <1>0 DEF PoolInv, FlightInv, callVars
<1>6. \A r \in Sids : (Mapped(r)' <=> Mapped(r)) /\ (InFlight(r)' <=> InFlight(r))
  BY <1>0 DEF Mapped, InFlight
<1>7. NoOrphanProcess'
  BY <1>0, <1>6 DEF PoolInv, TypeOK, Shape, NoOrphanProcess
<1>8. CASE closer[s] \in CountsAfterClose
  <2>1. s \in Counted /\ Counted' = Counted \ {s}
    BY <1>0, <1>1, <1>6, <1>8 DEF Counted, CountsAfterClose, PoolInv, TypeOK, Shape
  <2>2. globalCount' = globalCount - 1
    BY <1>8 DEF CloseEnds
  <2> QED
    BY <2>1, <2>2, <1>3, <1>4, <1>5, <1>7, CountedMinus DEF PoolInv, TypeOK
<1>9. CASE closer[s] \notin CountsAfterClose
  <2>1. Counted' = Counted
    BY <1>0, <1>1, <1>6, <1>9 DEF Counted, CountsAfterClose, PoolInv, TypeOK, Shape
  <2>2. globalCount' = globalCount
    BY <1>9 DEF CloseEnds
  <2> QED
    BY <2>1, <2>2, <1>3, <1>4, <1>5, <1>7, CountedSame DEF PoolInv, TypeOK
<1> QED
  BY <1>8, <1>9

\* Sessions that leave the map but keep their slot until they are closed:
\* detached ones and those CloseAll has taken.
LEMMA HandOverInv ==
  ASSUME PoolInv, NEW K \in SUBSET Keys, NEW who \in CountsAfterClose,
         sessions' = [k \in Keys |-> IF k \in K THEN Nil ELSE sessions[k]],
         closer' = [s \in Sids |-> IF \E k \in K : sessions[k] = s THEN who ELSE closer[s]],
         UNCHANGED <<creating, globalCount, stage, proc, closed, callVars>>
  PROVE  /\ sessions' \in [Keys -> Sids \cup {Nil}]
         /\ closer' \in [Sids -> Closers]
         /\ StageInv' /\ MapInv' /\ FlightInv' /\ NoOrphanProcess'
         /\ GlobalCountExact' /\ globalCount' \in 0..MaxGlobalProcesses
<1> USE PoolAssumption
<1> DEFINE Taken(s) == \E k \in K : sessions[k] = s
<1>1. /\ sessions' \in [Keys -> Sids \cup {Nil}]
      /\ closer' \in [Sids -> Closers]
  BY DEF PoolInv, TypeOK, Shape, Closers, CountsAfterClose
<1>2. \A s \in Sids : Taken(s) => stage[s] = "ready" /\ ~InFlight(s)
  <2> SUFFICES ASSUME NEW s \in Sids, NEW k \in K, sessions[k] = s
               PROVE  stage[s] = "ready" /\ ~InFlight(s)
    OBVIOUS
  <2>1. k \in Keys /\ s # Nil
    OBVIOUS
  <2>2. stage[s] = "ready"
    BY <2>1 DEF PoolInv, MapInv
  <2> QED
    BY <2>1, <2>2 DEF PoolInv, FlightInv, InFlight
<1>3. \A k \in Keys : sessions'[k] # Nil =>
        sessions[k] = sessions'[k] /\ k \notin K /\ sessions[k] \in Sids /\ ~Taken(sessions[k])
  BY DEF PoolInv, TypeOK, Shape, MapInv
<1>4. StageInv'
  BY <1>2 DEF PoolInv, StageInv
<1>5. MapInv'
  BY <1>3 DEF PoolInv, MapInv
<1>6. FlightInv'
  BY DEF PoolInv, FlightInv, callVars
<1>7. \A s \in Sids : Mapped(s)' <=> Mapped(s) /\ ~Taken(s)
  <2> TAKE s \in Sids
  <2>1. Mapped(s)' => Mapped(s) /\ ~Taken(s)
    BY <1>3 DEF Mapped
  <2>2. Mapped(s) /\ ~Taken(s) => Mapped(s)'
    BY DEF Mapped
  <2> QED
    BY <2>1, <2>2
<1>8. \A s \in Sids : Taken(s) => Mapped(s)
  BY DEF Mapped
<1>9. \A s \in Sids : closer'[s] = IF Taken(s) THEN who ELSE closer[s]
  OBVIOUS
<1>10. \A s \in Sids : InFlight(s)' <=> InFlight(s)
  BY DEF InFlight
<1> HIDE DEF Taken
<1>11. NoOrphanProcess'
  BY <1>7, <1>9, <1>10 DEF PoolInv, NoOrphanProcess, CountsAfterClose
<1>12. Counted' = Counted
  BY <1>7, <1>8, <1>9, <1>10 DEF Counted
<1> QED
  BY <1>1, <1>4, <1>5, <1>6, <1>11, <1>12, CountedSame

\* CloseAll becomes the closer of the session it takes.
LEMMA CloseAllHandsOver ==
  ASSUME PoolInv, NEW k \in Keys, CloseAllKey(k)
  PROVE  closer' = [s \in Sids |-> IF \E l \in {k} : sessions[l] = s THEN "closeAll" ELSE closer[s]]
<1>1. closer \in [Sids -> Closers] /\ sessions[k] \in Sids \cup {Nil}
  BY DEF PoolInv, TypeOK, Shape
<1>2. CASE sessions[k] = Nil
  BY <1>1, <1>2, PoolAssumption DEF CloseAllKey, HandTo
<1>3. CASE sessions[k] # Nil
  BY <1>1, <1>3 DEF CloseAllKey, HandTo
<1> QED
  BY <1>2, <1>3

\* CloseAll takes a session out of the map: it keeps its slot until closed.
LEMMA CloseAllKeyInv ==
  ASSUME PoolInv, NEW k \in Keys, CloseAllKey(k)
  PROVE  PoolInv'
<1>0. /\ UNCHANGED <<creating, epCount, configs, globalCount, stopped, stage, proc,
                     closed, cfgOf, callVars, reaper, toClose, closeAll>>
      /\ closeKeys' = closeKeys \ {k}
  BY DEF CloseAllKey
<1>1. sessions' = [l \in Keys |-> IF l \in {k} THEN Nil ELSE sessions[l]]
  BY DEF CloseAllKey, NoSession, PoolInv, TypeOK, Shape
<1>2. closer' = [s \in Sids |-> IF \E l \in {k} : sessions[l] = s THEN "closeAll" ELSE closer[s]]
  BY CloseAllHandsOver
<1>3. /\ sessions' \in [Keys -> Sids \cup {Nil}]
      /\ closer' \in [Sids -> Closers]
      /\ StageInv' /\ MapInv' /\ FlightInv' /\ NoOrphanProcess'
      /\ GlobalCountExact' /\ globalCount' \in 0..MaxGlobalProcesses
  <2>1. {k} \in SUBSET Keys /\ "closeAll" \in CountsAfterClose
    BY DEF CountsAfterClose
  <2> QED
    BY <1>0, <1>1, <1>2, <2>1, HandOverInv
<1>4. Shape'
  BY <1>0, <1>3 DEF PoolInv, TypeOK, Shape, callVars
<1> QED
  BY <1>3, <1>4 DEF PoolInv, TypeOK

\* RegisterEndpoint and UnregisterEndpoint: detached sessions keep their slots.
LEMMA EndpointInv ==
  ASSUME PoolInv, NEW e \in Endpoints,
         UnregisterEndpoint(e) \/ \E cfg \in Configs : RegisterEndpoint(e, cfg)
  PROVE  PoolInv'
<1>0. /\ UNCHANGED <<creating, globalCount, stopped, stage, proc, closed, cfgOf, callVars, bgVars>>
      /\ configs' \in [Endpoints -> Configs \cup {Nil}]
  BY DEF UnregisterEndpoint, RegisterEndpoint, PoolInv, TypeOK, Shape
<1>1. CASE CloseEndpointSessions(e)
  <2>1. /\ sessions' \in [Keys -> Sids \cup {Nil}]
        /\ closer' \in [Sids -> Closers]
        /\ StageInv' /\ MapInv' /\ FlightInv' /\ NoOrphanProcess'
        /\ GlobalCountExact' /\ globalCount' \in 0..MaxGlobalProcesses
    <3>1. KeysOf(e) \in SUBSET Keys /\ "detach" \in CountsAfterClose
      BY DEF KeysOf, CountsAfterClose
    <3>2. /\ sessions' = [k \in Keys |-> IF k \in KeysOf(e) THEN Nil ELSE sessions[k]]
          /\ closer' = [s \in Sids |-> IF \E k \in KeysOf(e) : sessions[k] = s
                                       THEN "detach" ELSE closer[s]]
      BY <1>1 DEF CloseEndpointSessions
    <3> QED
      BY <1>0, <3>1, <3>2, HandOverInv
  <2>2. epCount' \in [Endpoints -> Int]
    BY <1>1 DEF CloseEndpointSessions, PoolInv, TypeOK, Shape
  <2>3. Shape'
    BY <1>0, <2>1, <2>2 DEF PoolInv, TypeOK, Shape, callVars, bgVars
  <2> QED
    BY <2>1, <2>3 DEF PoolInv, TypeOK
<1>2. CASE UNCHANGED <<sessions, epCount, closer>>
  <2>1. Shape'
    BY <1>0, <1>2 DEF PoolInv, TypeOK, Shape, callVars, bgVars
  <2>2. FlightInv'
    BY <1>0, <1>2 DEF PoolInv, FlightInv, callVars
  <2> QED
    BY <1>0, <1>2, <2>1, <2>2, QuietInv
<1> QED
  BY <1>1, <1>2 DEF UnregisterEndpoint, RegisterEndpoint

\* The reaper's and CloseAll's steps that only move them on.
LEMMA BackgroundInv ==
  ASSUME PoolInv,
         \/ ReapScan \/ ReapDone \/ ReaperStops
         \/ CloseAllStops \/ CloseAllSnapshot \/ CloseAllEnds
  PROVE  PoolInv'
<1>0. UNCHANGED <<sessions, creating, configs, globalCount, sessVars, callVars>>
  BY DEF ReapScan, ReapDone, ReaperStops, CloseAllStops, CloseAllSnapshot, CloseAllEnds, poolVars
<1>1. epCount' \in [Endpoints -> Int] /\ stopped' \in BOOLEAN
  <2>1. epCount' \in [Endpoints -> Int]
    BY DEF ReapScan, ReapDone, ReaperStops, CloseAllStops, CloseAllSnapshot, CloseAllEnds,
           poolVars, PoolInv, TypeOK, Shape
  <2>2. stopped' = TRUE \/ stopped' = stopped
    BY DEF ReapScan, ReapDone, ReaperStops, CloseAllStops, CloseAllSnapshot, CloseAllEnds,
           poolVars
  <2>3. stopped \in BOOLEAN
    BY DEF PoolInv, TypeOK, Shape
  <2> QED
    BY <2>1, <2>2, <2>3
<1>2. /\ reaper' \in {"sleep", "reaping", "gone"}
      /\ closeAll' \in {"off", "snapshot", "closing", "done"}
  BY DEF ReapScan, ReapDone, ReaperStops, CloseAllStops, CloseAllSnapshot, CloseAllEnds,
         PoolInv, TypeOK, Shape
<1>3. toClose' \in SUBSET Keys /\ closeKeys' \in SUBSET Keys
  BY DEF ReapScan, ReapDone, ReaperStops, CloseAllStops, CloseAllSnapshot, CloseAllEnds,
         PoolInv, TypeOK, Shape
<1>4. Shape'
  BY <1>0, <1>1, <1>2, <1>3 DEF PoolInv, TypeOK, Shape, sessVars, callVars
<1>5. FlightInv'
  BY <1>0 DEF PoolInv, FlightInv, sessVars, callVars
<1> QED
  BY <1>0, <1>4, <1>5, QuietInv DEF sessVars

\* PoolInv is inductive.
LEMMA NextInv == PoolInv /\ [Next]_vars => PoolInv'
<1> SUFFICES ASSUME PoolInv, [Next]_vars PROVE PoolInv'
  OBVIOUS
<1>1. CASE UNCHANGED vars
  <2>1. Shape' /\ FlightInv'
    BY <1>1 DEF vars, poolVars, sessVars, callVars, bgVars, PoolInv, TypeOK, Shape, FlightInv
  <2> QED
    BY <1>1, <2>1, QuietInv DEF vars, poolVars, sessVars
<1>2. ASSUME NEW c \in Callers, CallerStep(c) PROVE PoolInv'
  BY <1>2, CallerMovesInv, BuildInv, CallerRemovesInv, GetCreateInv, CreateFailedInv, InstallInv
     DEF CallerStep
<1>3. ASSUME NEW c \in Callers, NEW k \in Keys, Request(c, k) PROVE PoolInv'
  BY <1>3, CallerMovesInv
<1>4. ASSUME NEW s \in Sids, CloseBegins(s) \/ CloseEnds(s) \/ ProcExits(s) PROVE PoolInv'
  BY <1>4, SessionInv, CloseEndsInv
<1>5. CASE ReaperStep
  BY <1>5, BackgroundInv, ReapKeyInv DEF ReaperStep
<1>6. CASE CloseAllStops \/ CloseAllStep
  BY <1>6, BackgroundInv, CloseAllKeyInv DEF CloseAllStep
<1>7. ASSUME NEW e \in Endpoints,
             UnregisterEndpoint(e) \/ \E cfg \in Configs : RegisterEndpoint(e, cfg)
      PROVE  PoolInv'
  BY <1>7, EndpointInv
<1> QED
  BY <1>1, <1>2, <1>3, <1>4, <1>5, <1>6, <1>7 DEF Next

\* The inductive invariant holds in every reachable state of the pool.
THEOREM PoolInvariant == Spec => []PoolInv
BY InitInv, NextInv, PTL DEF Spec

\* Types, and the limit: globalCount stays within 0..MaxGlobalProcesses
\* whatever GetOrCreate, the reaper, Invalidate, configuration changes and
\* CloseAll do concurrently.
THEOREM TypeCorrect == Spec => []TypeOK
<1>1. PoolInv => TypeOK
  BY DEF PoolInv
<1> QED
  BY <1>1, PoolInvariant, PTL

\* globalCount is exactly the number of sessions that hold a slot.
THEOREM Accounting == Spec => []GlobalCountExact
<1>1. PoolInv => GlobalCountExact
  BY DEF PoolInv
<1> QED
  BY <1>1, PoolInvariant, PTL

\* No child process is ever left without an owner that will close it.
THEOREM NoOrphans == Spec => []NoOrphanProcess
<1>1. PoolInv => NoOrphanProcess
  BY DEF PoolInv
<1> QED
  BY <1>1, PoolInvariant, PTL

\* An installed session is open, owned by the map alone and under one key.
THEOREM Ownership == Spec => []SingleOwner
<1>1. PoolInv => SingleOwner
  BY PoolAssumption DEF PoolInv, TypeOK, Shape, MapInv, FlightInv, SingleOwner, InFlight
<1> QED
  BY <1>1, PoolInvariant, PTL

-----------------------------------------------------------------------------
(* The counter of an endpoint.                                             *)

\* An endpoint has finitely many keys with a session.
LEMMA BusyFinite ==
  ASSUME NEW e
  PROVE  IsFiniteSet(Busy(e)) /\ Cardinality(Busy(e)) \in Nat
<1>1. Busy(e) \in SUBSET Keys
  BY DEF Busy, KeysOf
<1>2. IsFiniteSet(Busy(e))
  BY <1>1, PoolAssumption, FS_Subset
<1> QED
  BY <1>2, FS_CardinalityType

\* A step that leaves the busy keys and the counters alone, as most do.
LEMMA EpSame ==
  ASSUME EpCountNotOver, UNCHANGED epCount, stopped' = stopped \/ stopped',
         \A e \in Endpoints : Busy(e)' = Busy(e)
  PROVE  EpCountNotOver'
BY DEF EpCountNotOver

\* removeSession: the key is busy no longer, and its endpoint counts one less
\* or nothing.
LEMMA EpRemove ==
  ASSUME PoolInv, EpCountNotOver, NEW k \in Keys,
         sessions' = NoSession(k), epCount' = CountWithout(k),
         UNCHANGED <<creating, stopped>>
  PROVE  EpCountNotOver'
<1> SUFFICES ASSUME ~stopped, NEW e \in Endpoints
             PROVE  epCount'[e] <= Cardinality(Busy(e)')
  BY DEF EpCountNotOver
<1>1. epCount[e] \in Int /\ epCount[e] <= Cardinality(Busy(e)) /\ EndpointOf[k] \in Endpoints
  BY PoolAssumption DEF EpCountNotOver, PoolInv, TypeOK, Shape
<1>2. CASE sessions[k] = Nil
  <2>1. Busy(e)' = Busy(e)
    BY <1>2 DEF Busy, KeysOf, NoSession, PoolInv, TypeOK, Shape
  <2> QED
    BY <1>1, <1>2, <2>1 DEF CountWithout
<1>3. CASE sessions[k] # Nil /\ EndpointOf[k] = e
  <2>1. k \in Busy(e) /\ Busy(e)' = Busy(e) \ {k}
    BY <1>3 DEF Busy, KeysOf, NoSession, PoolInv, TypeOK, Shape, MapInv
  <2>2. Cardinality(Busy(e)') = Cardinality(Busy(e)) - 1 /\ Cardinality(Busy(e)) - 1 \in Nat
    <3>1. Cardinality(Busy(e) \ {k}) = Cardinality(Busy(e)) - 1
      BY <2>1, BusyFinite, FS_RemoveElement
    <3>2. Cardinality(Busy(e) \ {k}) \in Nat
      BY BusyFinite, FS_RemoveElement, FS_CardinalityType
    <3> QED
      BY <2>1, <3>1, <3>2
  <2>3. epCount'[e] = Clamped(epCount[e])
    BY <1>3 DEF CountWithout, PoolInv, TypeOK, Shape
  <2> QED
    BY <1>1, <2>2, <2>3, BusyFinite DEF Clamped
<1>4. CASE sessions[k] # Nil /\ EndpointOf[k] # e
  <2>1. Busy(e)' = Busy(e)
    BY <1>4 DEF Busy, KeysOf, NoSession, PoolInv, TypeOK, Shape
  <2>2. epCount'[e] = epCount[e]
    BY <1>1, <1>4 DEF CountWithout, PoolInv, TypeOK, Shape
  <2> QED
    BY <1>1, <2>1, <2>2
<1> QED
  BY <1>2, <1>3, <1>4

\* A flight begins: its key is busy and counted.
LEMMA EpCreate ==
  ASSUME PoolInv, EpCountNotOver, NEW c \in Callers, GetCreate(c)
  PROVE  EpCountNotOver'
<1> DEFINE k == key[c]
           s == NextSid
<1> SUFFICES ASSUME ~stopped, NEW e \in Endpoints
             PROVE  epCount'[e] <= Cardinality(Busy(e)')
  BY DEF EpCountNotOver, GetCreate, GetMiss
<1>1. /\ epCount[e] \in Int /\ epCount[e] <= Cardinality(Busy(e))
      /\ k \in Keys /\ EndpointOf[k] \in Endpoints
  BY PoolAssumption DEF EpCountNotOver, PoolInv, TypeOK, Shape
<1>2. s \in Sids /\ s # Nil
  BY PoolAssumption DEF GetCreate, NextSid, Fresh
<1>3. /\ sessions' = NoSession(k) /\ creating' = [creating EXCEPT ![k] = s]
      /\ epCount' = [CountWithout(k) EXCEPT ![EndpointOf[k]] = @ + 1]
      /\ creating[k] = Nil
  BY DEF GetCreate, GetMiss
<1>4. CASE EndpointOf[k] # e
  <2>1. Busy(e)' = Busy(e)
    BY <1>1, <1>3, <1>4 DEF Busy, KeysOf, NoSession, PoolInv, TypeOK, Shape
  <2>2. epCount'[e] = epCount[e]
    BY <1>1, <1>3, <1>4 DEF CountWithout, PoolInv, TypeOK, Shape
  <2> QED
    BY <1>1, <2>1, <2>2
<1>5. CASE EndpointOf[k] = e
  <2>1. Busy(e)' = Busy(e) \cup {k}
    BY <1>1, <1>2, <1>3, <1>5 DEF Busy, KeysOf, NoSession, PoolInv, TypeOK, Shape
  <2>2. Cardinality(Busy(e) \cup {k}) =
          IF k \in Busy(e) THEN Cardinality(Busy(e)) ELSE Cardinality(Busy(e)) + 1
    BY BusyFinite, FS_AddElement
  <2>3. CASE sessions[k] = Nil
    <3>1. k \notin Busy(e)
      BY <1>3, <2>3 DEF Busy
    <3>2. epCount'[e] = epCount[e] + 1
      BY <1>1, <1>3, <1>5, <2>3 DEF CountWithout, PoolInv, TypeOK, Shape
    <3> QED
      BY <1>1, <2>1, <2>2, <3>1, <3>2, BusyFinite
  <2>4. CASE sessions[k] # Nil
    <3>1. k \in Busy(e)
      BY <1>1, <1>5, <2>4 DEF Busy, KeysOf
    <3>2. Cardinality(Busy(e)) >= 1
      <4>1. Cardinality(Busy(e)) # 0
        BY <3>1, BusyFinite, FS_EmptySet
      <4> QED
        BY <4>1, BusyFinite
    <3>3. epCount'[e] = Clamped(epCount[e]) + 1
      BY <1>1, <1>3, <1>5, <2>4 DEF CountWithout, PoolInv, TypeOK, Shape
    <3> QED
      BY <1>1, <2>1, <2>2, <3>1, <3>2, <3>3, BusyFinite DEF Clamped
  <2> QED
    BY <2>3, <2>4
<1> QED
  BY <1>4, <1>5

\* A flight fails: its key was busy with nothing else.
LEMMA EpCreateFailed ==
  ASSUME PoolInv, EpCountNotOver, NEW c \in Callers, CreateFailed(c)
  PROVE  EpCountNotOver'
<1> DEFINE k == key[c]
<1> SUFFICES ASSUME ~stopped, NEW e \in Endpoints
             PROVE  epCount'[e] <= Cardinality(Busy(e)')
  BY DEF EpCountNotOver, CreateFailed
<1>1. /\ epCount[e] \in Int /\ epCount[e] <= Cardinality(Busy(e))
      /\ k \in Keys /\ EndpointOf[k] \in Endpoints
  BY PoolAssumption DEF EpCountNotOver, PoolInv, TypeOK, Shape
<1>2. /\ sessions' = sessions /\ creating' = [creating EXCEPT ![k] = Nil]
      /\ epCount' = [epCount EXCEPT ![EndpointOf[k]] = @ - 1]
  BY DEF CreateFailed
<1>3. creating[k] # Nil /\ sessions[k] = Nil
  <2>1. creating[k] \in Sids
    BY DEF CreateFailed, Building, PoolInv, FlightInv
  <2> QED
    BY <1>1, <2>1, PoolAssumption DEF PoolInv, MapInv
<1>4. CASE EndpointOf[k] # e
  <2>1. Busy(e)' = Busy(e)
    BY <1>1, <1>2, <1>4 DEF Busy, KeysOf, PoolInv, TypeOK, Shape
  <2> QED
    BY <1>1, <1>2, <1>4, <2>1 DEF PoolInv, TypeOK, Shape
<1>5. CASE EndpointOf[k] = e
  <2>1. k \in Busy(e) /\ Busy(e)' = Busy(e) \ {k}
    BY <1>1, <1>2, <1>3, <1>5 DEF Busy, KeysOf, PoolInv, TypeOK, Shape
  <2>2. Cardinality(Busy(e) \ {k}) = Cardinality(Busy(e)) - 1
    BY <2>1, BusyFinite, FS_RemoveElement
  <2>3. epCount'[e] = epCount[e] - 1
    BY <1>1, <1>2, <1>5 DEF PoolInv, TypeOK, Shape
  <2> QED
    BY <1>1, <2>1, <2>2, <2>3, BusyFinite
<1> QED
  BY <1>4, <1>5

\* A flight becomes a session of the same key.
LEMMA EpInstall ==
  ASSUME PoolInv, EpCountNotOver, NEW c \in Callers, Install(c)
  PROVE  EpCountNotOver'
<1>1. /\ key[c] \in Keys /\ hold[c] \in Sids /\ creating[key[c]] = hold[c]
  BY DEF Install, Building, PoolInv, FlightInv, TypeOK, Shape
<1>2. \A e \in Endpoints : Busy(e)' = Busy(e)
  BY <1>1, PoolAssumption DEF Install, Busy, KeysOf, PoolInv, TypeOK, Shape
<1> QED
  BY <1>2, EpSame DEF Install

\* The sessions of an endpoint are detached and its counter is deleted.
LEMMA EpDetach ==
  ASSUME PoolInv, EpCountNotOver, NEW d \in Endpoints,
         CloseEndpointSessions(d), UNCHANGED <<creating, stopped>>
  PROVE  EpCountNotOver'
<1> SUFFICES ASSUME ~stopped, NEW e \in Endpoints
             PROVE  epCount'[e] <= Cardinality(Busy(e)')
  BY DEF EpCountNotOver
<1>1. CASE e = d
  <2>1. Busy(e)' \in SUBSET Keys
    BY DEF Busy, KeysOf
  <2>2. Cardinality(Busy(e)') \in Nat
    BY <2>1, PoolAssumption, FS_Subset, FS_CardinalityType
  <2> QED
    BY <1>1, <2>2 DEF CloseEndpointSessions, PoolInv, TypeOK, Shape
<1>2. CASE e # d
  <2>1. Busy(e)' = Busy(e)
    BY <1>2 DEF CloseEndpointSessions, Busy, KeysOf
  <2>2. epCount'[e] = epCount[e]
    BY <1>2 DEF CloseEndpointSessions, PoolInv, TypeOK, Shape
  <2> QED
    BY <2>1, <2>2 DEF EpCountNotOver
<1> QED
  BY <1>1, <1>2

\* The counter's bound is kept by every step.
LEMMA EpNext == PoolInv /\ StopInv /\ EpCountNotOver /\ [Next]_vars => EpCountNotOver'
<1> SUFFICES ASSUME PoolInv, StopInv, EpCountNotOver, [Next]_vars PROVE EpCountNotOver'
  OBVIOUS
<1>0. ASSUME UNCHANGED <<sessions, creating, epCount>>, stopped' = stopped \/ stopped'
      PROVE  EpCountNotOver'
  BY <1>0, EpSame DEF Busy
<1>1. CASE UNCHANGED vars
  BY <1>0, <1>1 DEF vars, poolVars
<1>2. ASSUME NEW c \in Callers, CallerStep(c) PROVE EpCountNotOver'
  <2>1. CASE GetWait(c) \/ GetRefused(c) \/ Invalidate(c)
    <3>1. /\ key[c] \in Keys /\ sessions' = NoSession(key[c])
          /\ epCount' = CountWithout(key[c]) /\ UNCHANGED <<creating, stopped>>
      BY <2>1 DEF PoolInv, TypeOK, Shape, GetMiss, GetWait, GetRefused, Invalidate, RemoveSession
    <3> QED
      BY <3>1, EpRemove
  <2>2. CASE GetCreate(c) \/ CreateFailed(c) \/ Install(c)
    BY <2>2, EpCreate, EpCreateFailed, EpInstall
  <2>3. CASE \/ GetStopped(c) \/ GetHit(c) \/ FlightDone(c) \/ AnswerLocally(c)
             \/ StartCall(c) \/ CallReturns(c) \/ CallDies(c)
    BY <1>0, <2>3 DEF GetStopped, GetHit, FlightDone, AnswerLocally, StartCall, CallReturns,
                      CallDies, poolVars
  <2>4. CASE SpawnFails(c) \/ Spawn(c) \/ HandshakeFails(c) \/ Settle(c)
    BY <1>0, <2>4 DEF SpawnFails, Spawn, HandshakeFails, Settle, poolVars
  <2> QED
    BY <1>2, <2>1, <2>2, <2>3, <2>4 DEF CallerStep
<1>3. ASSUME NEW c \in Callers, NEW k \in Keys, Request(c, k) PROVE EpCountNotOver'
  BY <1>0, <1>3 DEF Request, poolVars
<1>4. ASSUME NEW s \in Sids, CloseBegins(s) \/ CloseEnds(s) \/ ProcExits(s)
      PROVE  EpCountNotOver'
  BY <1>0, <1>4 DEF CloseBegins, CloseEnds, ProcExits, poolVars
<1>5. CASE ReaperStep
  <2>1. ASSUME NEW k \in Keys, ReapKey(k) PROVE EpCountNotOver'
    BY <2>1, EpRemove DEF ReapKey, RemoveSession
  <2> QED
    BY <1>0, <1>5, <2>1 DEF ReaperStep, ReapScan, ReapDone, ReaperStops, poolVars
<1>6. CASE CloseAllStops \/ CloseAllSnapshot
  BY <1>0, <1>6 DEF CloseAllStops, CloseAllSnapshot, poolVars
<1>7. ASSUME CloseAllEnds \/ \E k \in Keys : CloseAllKey(k) PROVE EpCountNotOver'
  <2>1. stopped /\ stopped' = stopped
    BY <1>7 DEF CloseAllEnds, CloseAllKey, StopInv
  <2> QED
    BY <2>1 DEF EpCountNotOver
<1>8. ASSUME NEW e \in Endpoints,
             UnregisterEndpoint(e) \/ \E cfg \in Configs : RegisterEndpoint(e, cfg)
      PROVE  EpCountNotOver'
  <2>1. UNCHANGED <<creating, stopped>>
    BY <1>8 DEF UnregisterEndpoint, RegisterEndpoint
  <2>2. CloseEndpointSessions(e) \/ UNCHANGED <<sessions, epCount>>
    BY <1>8 DEF UnregisterEndpoint, RegisterEndpoint
  <2> QED
    BY <1>0, <2>1, <2>2, EpDetach
<1> QED
  BY <1>1, <1>2, <1>3, <1>4, <1>5, <1>6, <1>7, <1>8 DEF Next, CloseAllStep

\* Once CloseAll has begun, the pool is stopped for good.
LEMMA StopNext == StopInv /\ [Next]_vars => StopInv'
<1> SUFFICES ASSUME StopInv, [Next]_vars PROVE StopInv'
  OBVIOUS
<1>1. CASE UNCHANGED <<stopped, bgVars>>
  BY <1>1 DEF StopInv, bgVars
<1>2. CASE ReaperStep
  BY <1>2 DEF StopInv, ReaperStep, ReapScan, ReapDone, ReaperStops, ReapKey, poolVars
<1>3. CASE CloseAllStops \/ CloseAllStep
  BY <1>3 DEF StopInv, CloseAllStops, CloseAllStep, CloseAllSnapshot, CloseAllEnds,
              CloseAllKey, poolVars
<1>4. ASSUME NEW c \in Callers, CallerStep(c) PROVE UNCHANGED <<stopped, bgVars>>
  BY <1>4 DEF CallerStep, GetStopped, GetHit, GetWait, GetRefused, GetCreate, GetMiss, SpawnFails,
              Spawn, HandshakeFails, Settle, CreateFailed, Install, FlightDone, AnswerLocally,
              StartCall, CallReturns, CallDies, Invalidate, poolVars
<1>5. ASSUME NEW s \in Sids, CloseBegins(s) \/ CloseEnds(s) \/ ProcExits(s)
      PROVE  UNCHANGED <<stopped, bgVars>>
  BY <1>5 DEF CloseBegins, CloseEnds, ProcExits, poolVars
<1>6. ASSUME NEW e \in Endpoints,
             UnregisterEndpoint(e) \/ \E cfg \in Configs : RegisterEndpoint(e, cfg)
      PROVE  UNCHANGED <<stopped, bgVars>>
  BY <1>6 DEF UnregisterEndpoint, RegisterEndpoint
<1>7. ASSUME NEW c \in Callers, NEW k \in Keys, Request(c, k) PROVE UNCHANGED <<stopped, bgVars>>
  BY <1>7 DEF Request, poolVars
<1> QED
  BY <1>1, <1>2, <1>3, <1>4, <1>5, <1>6, <1>7 DEF Next, vars, poolVars

\* While the pool runs, no endpoint's counter exceeds the sessions it has or
\* is creating, so GetOrCreate's limit refuses nobody without a reason.
THEOREM EpCounting == Spec => []EpCountNotOver
<1>1. Init => StopInv /\ EpCountNotOver
  <2>1. ASSUME Init, NEW e \in Endpoints PROVE epCount[e] <= Cardinality(Busy(e))
    BY <2>1, BusyFinite DEF Init
  <2> QED
    BY <2>1 DEF Init, StopInv, EpCountNotOver
<1> QED
  BY <1>1, PoolInvariant, EpNext, StopNext, PTL DEF Spec

-----------------------------------------------------------------------------
(* The promise of SessionLife.                                             *)

\* Where a session is says what its life looks like from outside.
LEMMA LifeOf ==
  ASSUME PoolInv, NEW s \in Sids
  PROVE  /\ stage[s] = "unborn" => Life[s] = "new" /\ s \notin Counted
         /\ InFlight(s) => Life[s] = "starting" /\ stage[s] # "unborn" /\ ~Mapped(s) /\ closer[s] = "none"
         /\ Mapped(s) => Life[s] = "open" /\ stage[s] # "unborn" /\ ~InFlight(s) /\ closer[s] = "none"
         /\ closer[s] # "none" => Life[s] = "leaving"
<1> USE PoolAssumption
<1>1. Life[s] = IF stage[s] = "unborn" THEN "new"
                ELSE IF InFlight(s) THEN "starting"
                ELSE IF Mapped(s) THEN "open"
                ELSE IF closer[s] # "none" THEN "leaving" ELSE "over"
  BY DEF Life
<1>2. InFlight(s) => stage[s] \in {"begun", "handshake", "settled", "failing"}
  BY DEF PoolInv, FlightInv, InFlight
<1>3. Mapped(s) => stage[s] = "ready" /\ closer[s] = "none"
  BY DEF PoolInv, MapInv, Mapped
<1>4. closer[s] # "none" => stage[s] = "ready"
  BY DEF PoolInv, StageInv
<1>5. stage[s] = "unborn" => s \notin Counted
  BY <1>2, <1>3, <1>4 DEF Counted, CountsAfterClose
<1> QED
  BY <1>1, <1>2, <1>3, <1>4, <1>5

\* A step that moves no session between flights, map and closers changes
\* neither its life nor its slot.
LEMMA LifeSame ==
  ASSUME UNCHANGED <<sessions, creating, closer>>,
         \A s \in Sids : stage'[s] = "unborn" <=> stage[s] = "unborn"
  PROVE  Life' = Life /\ Counted' = Counted
<1>1. \A s \in Sids : (Mapped(s)' <=> Mapped(s)) /\ (InFlight(s)' <=> InFlight(s))
  BY DEF Mapped, InFlight
<1> QED
  BY <1>1 DEF Life, Counted

\* A session that does not move keeps its life.
LEMMA LifeStays ==
  ASSUME NEW r \in Sids, stage'[r] = "unborn" <=> stage[r] = "unborn",
         Mapped(r)' <=> Mapped(r), InFlight(r)' <=> InFlight(r), closer'[r] = closer[r]
  PROVE  Life'[r] = Life[r]
BY DEF Life

\* A step that changes the life of one session.
LEMMA OneLife ==
  ASSUME NEW s \in Sids, NEW v, Life'[s] = v,
         \A r \in Sids \ {s} : Life'[r] = Life[r]
  PROVE  Life' = [Life EXCEPT ![s] = v]
<1> DEFINE N == Life'
           L == Life
<1>1. N = [r \in Sids |-> N[r]] /\ L = [r \in Sids |-> L[r]]
  BY DEF Life
<1>2. N[s] = v /\ \A r \in Sids \ {s} : N[r] = L[r]
  OBVIOUS
<1> HIDE DEF N, L
<1>3. N = [L EXCEPT ![s] = v]
  BY <1>1, <1>2
<1> QED
  BY <1>3 DEF N, L

\* removeSessionLocked drops the session it finds, if any.
LEMMA RemoveRefines ==
  ASSUME PoolInv, NEW k \in Keys, NEW who \in {"remove", "reap"},
         sessions' = NoSession(k), closer' = HandTo(k, who),
         UNCHANGED <<creating, stage, proc>>
  PROVE  SL!Next \/ UNCHANGED SL!vars
<1> USE PoolAssumption
<1> USE DEF NoSession, HandTo
<1>0. Running' = Running
  BY DEF Running
<1>1. CASE sessions[k] = Nil
  <2>1. sessions' = sessions /\ closer' = closer
    BY <1>1 DEF PoolInv, TypeOK, Shape
  <2> QED
    BY <1>0, <2>1, LifeSame DEF SL!vars
<1>2. CASE sessions[k] # Nil
  <2>1. PICK s \in Sids : s = sessions[k]
    BY <1>2 DEF PoolInv, TypeOK, Shape
  <2>2. Mapped(s) /\ stage[s] # "unborn" /\ ~InFlight(s) /\ closer[s] = "none" /\ Life[s] = "open"
    BY <2>1, LifeOf DEF Mapped
  <2>3. \A r \in Sids : Mapped(r)' <=> Mapped(r) /\ r # s
    <3>1. \A l \in Keys \ {k} : sessions[l] # s
      BY <2>1 DEF PoolInv, MapInv
    <3> QED
      BY <2>1, <3>1 DEF PoolInv, TypeOK, Shape, Mapped
  <2>4. \A r \in Sids : InFlight(r)' <=> InFlight(r)
    BY DEF InFlight
  <2>5. \A r \in Sids : closer'[r] = IF r = s THEN who ELSE closer[r]
    BY <1>2, <2>1 DEF PoolInv, TypeOK, Shape
  <2>6. Life'[s] = "leaving"
    BY <2>2, <2>3, <2>4, <2>5 DEF Life
  <2>7. Life' = [Life EXCEPT ![s] = "leaving"]
    <3>1. \A r \in Sids \ {s} : Life'[r] = Life[r]
      BY <2>3, <2>4, <2>5, LifeStays
    <3> QED
      BY <2>6, <3>1, OneLife
  <2>8. Counted' = Counted \ {s}
    BY <2>2, <2>3, <2>4, <2>5 DEF Counted, CountsAfterClose
  <2>9. SL!Drop(s)
    BY <1>0, <2>2, <2>7, <2>8 DEF SL!Drop
  <2> QED
    BY <2>9 DEF SL!Next
<1> QED
  BY <1>1, <1>2

\* GetOrCreate begins a session in a free slot, or in the slot of the dead
\* session it has removed.
LEMMA CreateRefines ==
  ASSUME PoolInv, NEW c \in Callers, GetCreate(c)
  PROVE  SL!Next
<1> USE PoolAssumption
<1> DEFINE k == key[c]
<1>0. /\ k \in Keys /\ ~AtLimit(k) /\ creating[k] = Nil
      /\ sessions' = NoSession(k) /\ closer' = HandTo(k, "remove")
      /\ creating' = [creating EXCEPT ![k] = NextSid]
      /\ stage' = [stage EXCEPT ![NextSid] = "begun"]
      /\ UNCHANGED proc
  BY DEF GetCreate, GetMiss, PoolInv, TypeOK, Shape
<1>1. PICK s \in Sids : s = NextSid /\ stage[s] = "unborn"
  BY DEF GetCreate, NextSid, Fresh
<1>2. Life[s] = "new" /\ s \notin Counted /\ ~Mapped(s) /\ ~InFlight(s) /\ closer[s] = "none"
  BY <1>1, LifeOf
<1>3. \A r \in Sids : InFlight(r)' <=> InFlight(r) \/ r = s
  BY <1>0, <1>1 DEF PoolInv, TypeOK, Shape, InFlight
<1>4. \A r \in Sids : stage'[r] = IF r = s THEN "begun" ELSE stage[r]
  BY <1>0, <1>1 DEF PoolInv, TypeOK, Shape
<1>5. Life'[s] = "starting"
  BY <1>3, <1>4 DEF Life
<1>6. Running' = Running
  BY <1>0 DEF Running
<1>7. GlobalWithout(k) < MaxGlobalProcesses
  BY <1>0 DEF AtLimit, GlobalWithout, PoolInv, TypeOK
<1>8. CASE sessions[k] = Nil
  <2>1. sessions' = sessions /\ closer' = closer
    BY <1>0, <1>8 DEF PoolInv, TypeOK, Shape, NoSession, HandTo
  <2>2. \A r \in Sids : Mapped(r)' <=> Mapped(r)
    BY <2>1 DEF Mapped
  <2>3. Life' = [Life EXCEPT ![s] = "starting"]
    <3>1. \A r \in Sids \ {s} : Life'[r] = Life[r]
      BY <1>3, <1>4, <2>1, <2>2, LifeStays
    <3> QED
      BY <1>5, <3>1, OneLife
  <2>4. Counted' = Counted \cup {s}
    BY <1>3, <2>1, <2>2 DEF Counted
  <2>5. Cardinality(Counted) < MaxGlobalProcesses
    BY <1>7, <1>8 DEF GlobalWithout, PoolInv, GlobalCountExact
  <2>6. SL!Create(s)
    BY <1>2, <1>6, <2>3, <2>4, <2>5 DEF SL!Create, SL!Cardinality, Cardinality
  <2> QED
    BY <2>6 DEF SL!Next
<1>9. CASE sessions[k] # Nil
  <2>1. PICK d \in Sids : d = sessions[k]
    BY <1>0, <1>9 DEF PoolInv, TypeOK, Shape
  <2>2. /\ Mapped(d) /\ stage[d] # "unborn" /\ ~InFlight(d) /\ closer[d] = "none"
        /\ Life[d] = "open" /\ d # s
    BY <1>0, <1>2, <2>1, LifeOf DEF Mapped
  <2>3. \A r \in Sids : Mapped(r)' <=> Mapped(r) /\ r # d
    <3>1. \A l \in Keys \ {k} : sessions[l] # d
      BY <1>0, <2>1 DEF PoolInv, MapInv
    <3> QED
      BY <1>0, <2>1, <3>1 DEF PoolInv, TypeOK, Shape, Mapped, NoSession
  <2>4. \A r \in Sids : closer'[r] = IF r = d THEN "remove" ELSE closer[r]
    BY <1>0, <1>9, <2>1 DEF PoolInv, TypeOK, Shape, HandTo
  <2>5. Life'[d] = "leaving"
    BY <1>3, <1>4, <2>2, <2>3, <2>4 DEF Life
  <2>6. \A r \in Sids \ {d, s} : Life'[r] = Life[r]
    BY <1>3, <1>4, <2>3, <2>4, LifeStays
  <2>7. Life' = [Life EXCEPT ![d] = "leaving", ![s] = "starting"]
    BY <1>5, <2>2, <2>5, <2>6 DEF Life
  <2>8. Counted' = (Counted \ {d}) \cup {s}
    BY <1>2, <1>3, <2>2, <2>3, <2>4 DEF Counted, CountsAfterClose
  <2>9. Cardinality(Counted \ {d}) < MaxGlobalProcesses
    <3>1. d \in Counted
      BY <2>2 DEF Counted
    <3>2. Cardinality(Counted \ {d}) = Cardinality(Counted) - 1
      BY <3>1, CountedFinite, FS_RemoveElement
    <3> QED
      BY <1>7, <1>9, <3>2 DEF GlobalWithout, PoolInv, GlobalCountExact
  <2>10. SL!Replace(d, s)
    BY <1>2, <1>6, <2>2, <2>7, <2>8, <2>9 DEF SL!Replace, SL!Cardinality, Cardinality
  <2> QED
    BY <2>10 DEF SL!Next
<1> QED
  BY <1>8, <1>9

\* A flight ends: the session is abandoned, or it is open.
LEMMA FlightEndsRefines ==
  ASSUME PoolInv, NEW c \in Callers, CreateFailed(c) \/ Install(c)
  PROVE  SL!Next
<1> USE PoolAssumption DEF Building, SetStage
<1>0. PICK s \in Sids, k \in Keys :
        /\ s = hold[c] /\ k = key[c] /\ creating[k] = s
        /\ creating' = [creating EXCEPT ![k] = Nil]
        /\ UNCHANGED <<proc, closer>>
  BY DEF PoolInv, TypeOK, Shape, FlightInv, CreateFailed, Install
<1>1. InFlight(s) /\ stage[s] # "unborn" /\ ~Mapped(s) /\ closer[s] = "none" /\ Life[s] = "starting"
  BY <1>0, LifeOf DEF InFlight
<1>2. \A r \in Sids : InFlight(r)' <=> InFlight(r) /\ r # s
  <2>1. \A l \in Keys \ {k} : creating[l] # s
    BY <1>0 DEF PoolInv, FlightInv
  <2> QED
    BY <1>0, <2>1 DEF PoolInv, TypeOK, Shape, InFlight
<1>3. Running' = Running
  BY <1>0 DEF Running
<1>4. CASE CreateFailed(c)
  <2>1. sessions' = sessions /\ stage' = [stage EXCEPT ![s] = "failed"] /\ s \notin Running
    BY <1>0, <1>4 DEF CreateFailed, Running
  <2>2. \A r \in Sids : Mapped(r)' <=> Mapped(r)
    BY <2>1 DEF Mapped
  <2>3. \A r \in Sids : stage'[r] = IF r = s THEN "failed" ELSE stage[r]
    BY <2>1 DEF PoolInv, TypeOK, Shape
  <2>4. Life'[s] = "over"
    BY <1>0, <1>1, <1>2, <2>2, <2>3 DEF Life
  <2>5. Life' = [Life EXCEPT ![s] = "over"]
    <3>1. \A r \in Sids \ {s} : Life'[r] = Life[r]
      BY <1>0, <1>2, <2>2, <2>3, LifeStays
    <3> QED
      BY <2>4, <3>1, OneLife
  <2>6. Counted' = Counted \ {s}
    BY <1>0, <1>1, <1>2, <2>2 DEF Counted, CountsAfterClose
  <2>7. SL!Abandon(s)
    BY <1>1, <1>3, <2>1, <2>5, <2>6 DEF SL!Abandon
  <2> QED
    BY <2>7 DEF SL!Next
<1>5. CASE Install(c)
  <2>1. sessions' = [sessions EXCEPT ![k] = s] /\ stage' = [stage EXCEPT ![s] = "ready"]
    BY <1>0, <1>5 DEF Install
  <2>2. \A r \in Sids : Mapped(r)' <=> Mapped(r) \/ r = s
    <3>1. sessions[k] = Nil
      BY <1>0 DEF PoolInv, MapInv
    <3> QED
      BY <2>1, <3>1 DEF PoolInv, TypeOK, Shape, Mapped
  <2>3. \A r \in Sids : stage'[r] = IF r = s THEN "ready" ELSE stage[r]
    BY <2>1 DEF PoolInv, TypeOK, Shape
  <2>4. Life'[s] = "open"
    BY <1>2, <2>2, <2>3 DEF Life
  <2>5. Life' = [Life EXCEPT ![s] = "open"]
    <3>1. \A r \in Sids \ {s} : Life'[r] = Life[r]
      BY <1>0, <1>2, <2>2, <2>3, LifeStays
    <3> QED
      BY <2>4, <3>1, OneLife
  <2>6. Counted' = Counted
    BY <1>0, <1>1, <1>2, <2>2 DEF Counted
  <2>7. SL!Establish(s)
    BY <1>1, <1>3, <2>5, <2>6 DEF SL!Establish
  <2> QED
    BY <2>7 DEF SL!Next
<1> QED
  BY <1>4, <1>5

\* A Close that is over ends the session's life; its child has ended before.
LEMMA CloseEndsRefines ==
  ASSUME PoolInv, NEW s \in Sids, CloseEnds(s)
  PROVE  SL!Next
<1>0. /\ closer[s] # "none" /\ proc[s] # "running"
      /\ closer' = [closer EXCEPT ![s] = "none"]
      /\ UNCHANGED <<sessions, creating, stage, proc>>
  BY DEF CloseEnds
<1>1. ~Mapped(s) /\ ~InFlight(s) /\ stage[s] # "unborn" /\ Life[s] = "leaving"
  BY <1>0, LifeOf DEF PoolInv, StageInv
<1>2. \A r \in Sids : (Mapped(r)' <=> Mapped(r)) /\ (InFlight(r)' <=> InFlight(r))
  BY <1>0 DEF Mapped, InFlight
<1>3. \A r \in Sids : closer'[r] = IF r = s THEN "none" ELSE closer[r]
  BY <1>0 DEF PoolInv, TypeOK, Shape
<1>4. Life'[s] = "over"
  BY <1>0, <1>1, <1>2, <1>3 DEF Life
<1>5. Life' = [Life EXCEPT ![s] = "over"]
  <2>1. \A r \in Sids \ {s} : Life'[r] = Life[r]
    BY <1>0, <1>2, <1>3, LifeStays
  <2> QED
    BY <1>4, <2>1, OneLife
<1>6. Counted' = Counted \ {s}
  BY <1>1, <1>2, <1>3 DEF Counted, CountsAfterClose
<1>7. s \notin Running /\ Running' = Running
  BY <1>0 DEF Running
<1>8. SL!Close(s)
  BY <1>1, <1>5, <1>6, <1>7 DEF SL!Close
<1> QED
  BY <1>8 DEF SL!Next

\* Sessions that are handed over with their slots are detached.
LEMMA HandOverRefines ==
  ASSUME PoolInv, NEW K \in SUBSET Keys, NEW who \in CountsAfterClose,
         sessions' = [k \in Keys |-> IF k \in K THEN Nil ELSE sessions[k]],
         closer' = [s \in Sids |-> IF \E k \in K : sessions[k] = s THEN who ELSE closer[s]],
         UNCHANGED <<creating, stage, proc>>
  PROVE  SL!Next
<1> USE PoolAssumption
<1>0. PICK D \in SUBSET Sids : \A s \in Sids : s \in D <=> \E k \in K : sessions[k] = s
  <2>1. {s \in Sids : \E k \in K : sessions[k] = s} \in SUBSET Sids
    OBVIOUS
  <2> QED
    BY <2>1
<1>1. \A s \in D : Mapped(s)
  BY <1>0 DEF Mapped
<1>2. \A s \in Sids : Mapped(s)' <=> Mapped(s) /\ s \notin D
  <2> TAKE s \in Sids
  <2>1. ASSUME Mapped(s)' PROVE Mapped(s) /\ s \notin D
    <3>1. PICK k \in Keys : sessions'[k] = s
      BY <2>1 DEF Mapped
    <3>2. k \notin K /\ sessions[k] = s /\ s # Nil
      BY <3>1
    <3>3. \A l \in Keys : l # k => sessions[l] # s
      BY <3>2 DEF PoolInv, MapInv
    <3> QED
      BY <1>0, <3>2, <3>3 DEF Mapped
  <2>2. ASSUME Mapped(s), s \notin D PROVE Mapped(s)'
    BY <1>0, <2>2 DEF Mapped
  <2> QED
    BY <2>1, <2>2
<1>3. \A s \in Sids : closer'[s] = IF s \in D THEN who ELSE closer[s]
  BY <1>0
<1>4. \A s \in Sids : InFlight(s)' <=> InFlight(s)
  BY DEF InFlight
<1>5. \A s \in D : Life[s] = "open" /\ stage[s] # "unborn" /\ ~InFlight(s)
  BY <1>1, LifeOf
<1>6. \A s \in D : Life'[s] = "leaving"
  BY <1>2, <1>3, <1>4, <1>5 DEF Life, CountsAfterClose
<1>7. \A s \in Sids \ D : Life'[s] = Life[s]
  BY <1>2, <1>3, <1>4, LifeStays
<1>8. Life' = [s \in Sids |-> IF s \in D THEN "leaving" ELSE Life[s]]
  <2>1. Life' = [s \in Sids |-> Life'[s]]
    BY DEF Life
  <2> QED
    BY <1>6, <1>7, <2>1
<1>9. Counted' = Counted
  BY <1>1, <1>2, <1>3, <1>4 DEF Counted
<1>10. Running' = Running
  BY DEF Running
<1>11. SL!Detach(D)
  BY <1>5, <1>8, <1>9, <1>10 DEF SL!Detach
<1> QED
  BY <1>11 DEF SL!Next

\* The life of a child process.
LEMMA ChildRefines ==
  ASSUME PoolInv
  PROVE  /\ \A c \in Callers : Spawn(c) => SL!Next
         /\ \A s \in Sids : ProcExits(s) => SL!Next
<1>1. ASSUME NEW c \in Callers, Spawn(c) PROVE SL!Next
  <2>1. PICK s \in Sids : s = hold[c] /\ InFlight(s) /\ stage[s] = "begun"
    BY <1>1 DEF Spawn, Building, PoolInv, TypeOK, Shape, FlightInv, InFlight
  <2>2. /\ stage' = [stage EXCEPT ![s] = "handshake"] /\ proc' = [proc EXCEPT ![s] = "running"]
        /\ UNCHANGED <<sessions, creating, closer>>
    BY <1>1, <2>1 DEF Spawn, SetStage, poolVars
  <2>3. Life' = Life /\ Counted' = Counted
    BY <2>1, <2>2, LifeSame DEF PoolInv, TypeOK, Shape
  <2>4. Running' = Running \cup {s}
    BY <2>2 DEF Running, PoolInv, TypeOK, Shape
  <2>5. SL!Spawn(s)
    BY <2>1, <2>3, <2>4, LifeOf DEF SL!Spawn
  <2> QED
    BY <2>5 DEF SL!Next
<1>2. ASSUME NEW s \in Sids, ProcExits(s) PROVE SL!Next
  <2>1. Life' = Life /\ Counted' = Counted
    BY <1>2, LifeSame DEF ProcExits, poolVars
  <2>2. s \in Running /\ Running' = Running \ {s}
    BY <1>2 DEF ProcExits, Running, PoolInv, TypeOK, Shape
  <2>3. SL!Exit(s)
    BY <2>1, <2>2 DEF SL!Exit
  <2> QED
    BY <2>3 DEF SL!Next
<1> QED
  BY <1>1, <1>2

\* The steps of a caller.
LEMMA CallerRefines ==
  ASSUME PoolInv, NEW c \in Callers, CallerStep(c)
  PROVE  SL!Next \/ UNCHANGED SL!vars
<1>1. CASE GetWait(c) \/ GetRefused(c) \/ Invalidate(c)
  <2>1. /\ key[c] \in Keys /\ sessions' = NoSession(key[c]) /\ closer' = HandTo(key[c], "remove")
        /\ UNCHANGED <<creating, stage, proc>>
    BY <1>1 DEF PoolInv, TypeOK, Shape, GetMiss, GetWait, GetRefused, Invalidate, RemoveSession
  <2> QED
    BY <2>1, RemoveRefines
<1>2. CASE GetCreate(c)
  BY <1>2, CreateRefines
<1>3. CASE CreateFailed(c) \/ Install(c)
  BY <1>3, FlightEndsRefines
<1>4. CASE Spawn(c)
  BY <1>4, ChildRefines
<1>5. CASE SpawnFails(c) \/ HandshakeFails(c) \/ Settle(c)
  <2>1. /\ UNCHANGED <<sessions, creating, closer, proc>>
        /\ stage[hold[c]] \in {"begun", "handshake"}
        /\ \E st \in {"failing", "settled"} : stage' = [stage EXCEPT ![hold[c]] = st]
    BY <1>5 DEF SpawnFails, HandshakeFails, Settle, Building, SetStage, poolVars
  <2>2. \A s \in Sids : stage'[s] = "unborn" <=> stage[s] = "unborn"
    BY <2>1 DEF PoolInv, TypeOK, Shape
  <2> QED
    BY <2>1, <2>2, LifeSame DEF SL!vars, Running
<1>6. CASE \/ GetStopped(c) \/ GetHit(c) \/ FlightDone(c) \/ AnswerLocally(c)
           \/ StartCall(c) \/ CallReturns(c) \/ CallDies(c)
  <2>1. UNCHANGED <<poolVars, sessVars>>
    BY <1>6 DEF GetStopped, GetHit, FlightDone, AnswerLocally, StartCall, CallReturns, CallDies
  <2> QED
    BY <2>1, LifeSame DEF SL!vars, Running, poolVars, sessVars
<1> QED
  BY <1>1, <1>2, <1>3, <1>4, <1>5, <1>6 DEF CallerStep

\* Every step of the pool is one of SessionLife or changes no session's life.
LEMMA PoolRefines == PoolInv /\ [Next]_vars => [SL!Next]_(SL!vars)
<1> SUFFICES ASSUME PoolInv, [Next]_vars PROVE SL!Next \/ UNCHANGED SL!vars
  OBVIOUS
<1>0. ASSUME UNCHANGED <<sessions, creating, closer, stage, proc>> PROVE UNCHANGED SL!vars
  BY <1>0, LifeSame DEF SL!vars, Running
<1>1. CASE UNCHANGED vars
  BY <1>0, <1>1 DEF vars, poolVars, sessVars
<1>2. ASSUME NEW c \in Callers, CallerStep(c) PROVE SL!Next \/ UNCHANGED SL!vars
  BY <1>2, CallerRefines
<1>3. ASSUME NEW c \in Callers, NEW k \in Keys, Request(c, k) PROVE UNCHANGED SL!vars
  BY <1>0, <1>3 DEF Request, poolVars, sessVars
<1>4. ASSUME NEW s \in Sids, CloseBegins(s) \/ CloseEnds(s) \/ ProcExits(s)
      PROVE  SL!Next \/ UNCHANGED SL!vars
  <2>1. CASE CloseBegins(s)
    BY <1>0, <2>1 DEF CloseBegins, poolVars
  <2> QED
    BY <1>4, <2>1, CloseEndsRefines, ChildRefines
<1>5. CASE ReaperStep
  <2>1. ASSUME NEW k \in Keys, ReapKey(k) PROVE SL!Next \/ UNCHANGED SL!vars
    BY <2>1, RemoveRefines DEF ReapKey, RemoveSession
  <2>2. CASE ReapScan \/ ReapDone \/ ReaperStops
    BY <1>0, <2>2 DEF ReapScan, ReapDone, ReaperStops, poolVars, sessVars
  <2> QED
    BY <1>5, <2>1, <2>2 DEF ReaperStep
<1>6. CASE CloseAllStops \/ CloseAllSnapshot \/ CloseAllEnds
  BY <1>0, <1>6 DEF CloseAllStops, CloseAllSnapshot, CloseAllEnds, poolVars, sessVars
<1>7. ASSUME NEW k \in Keys, CloseAllKey(k) PROVE SL!Next
  <2>1. /\ sessions' = [l \in Keys |-> IF l \in {k} THEN Nil ELSE sessions[l]]
        /\ UNCHANGED <<creating, stage, proc>>
    BY <1>7 DEF CloseAllKey, NoSession, PoolInv, TypeOK, Shape
  <2>2. closer' = [s \in Sids |-> IF \E l \in {k} : sessions[l] = s THEN "closeAll" ELSE closer[s]]
    BY <1>7, CloseAllHandsOver
  <2>3. {k} \in SUBSET Keys /\ "closeAll" \in CountsAfterClose
    BY DEF CountsAfterClose
  <2> QED
    BY <2>1, <2>2, <2>3, HandOverRefines
<1>8. ASSUME NEW e \in Endpoints,
             UnregisterEndpoint(e) \/ \E cfg \in Configs : RegisterEndpoint(e, cfg)
      PROVE  SL!Next \/ UNCHANGED SL!vars
  <2>1. UNCHANGED <<creating, stage, proc>>
    BY <1>8 DEF UnregisterEndpoint, RegisterEndpoint
  <2>2. CASE CloseEndpointSessions(e)
    <3>1. KeysOf(e) \in SUBSET Keys /\ "detach" \in CountsAfterClose
      BY DEF KeysOf, CountsAfterClose
    <3> QED
      BY <2>1, <2>2, <3>1, HandOverRefines DEF CloseEndpointSessions
  <2>3. CASE UNCHANGED <<sessions, epCount, closer>>
    BY <1>0, <2>1, <2>3
  <2> QED
    BY <1>8, <2>2, <2>3 DEF UnregisterEndpoint, RegisterEndpoint
<1> QED
  BY <1>1, <1>2, <1>3, <1>4, <1>5, <1>6, <1>7, <1>8 DEF Next, CloseAllStep

\* For any numbers of callers, keys, endpoints and sessions and any limits, the
\* pool keeps the promise of SessionLife: a session starts in a free slot,
\* opens once, never comes back, and ends without a child (GetOrCreate,
\* Invalidate, reapIdle, RegisterEndpoint, CloseAll, Session.Close).
THEOREM PoolRefinement == Spec => ImplementsSessionLife
<1>1. Init => SL!Init
  <2> SUFFICES ASSUME Init PROVE SL!Init
    OBVIOUS
  <2>1. Life = [s \in Sids |-> "new"]
    BY DEF Init, Life
  <2>2. Counted = {}
    BY PoolAssumption DEF Init, Counted, Mapped, InFlight, CountsAfterClose
  <2>3. Running = {}
    BY DEF Init, Running
  <2> QED
    BY <2>1, <2>2, <2>3 DEF SL!Init
<1> QED
  BY <1>1, PoolRefines, PoolInvariant, PTL DEF Spec, ImplementsSessionLife, SL!Spec

-----------------------------------------------------------------------------
(* The waiters of a flight.                                                *)

Serving == {"got", "call", "invalidate"}
Finished == {"failed", "ready"}

\* Every flight has the caller that runs it, every waiter a flight that goes on
\* or is done, and the bridge serves a request with an established session.
WaitInv ==
  /\ \A k \in Keys : creating[k] # Nil => \E c \in Callers : pc[c] = "create" /\ key[c] = k
  /\ \A c \in Callers : pc[c] = "wait" =>
       hold[c] \in Sids /\ (stage[hold[c]] \in Finished \/ InFlight(hold[c]))
  /\ \A c \in Callers : pc[c] \in Serving => hold[c] \in Sids /\ stage[hold[c]] = "ready"

\* No waiter is left behind: its flight is done, or a caller is at work on it.
WaiterHasFlight ==
  \A c \in Callers : pc[c] = "wait" =>
    \/ stage[hold[c]] \in Finished
    \/ \E d \in Callers : pc[d] = "create" /\ hold[d] = hold[c]

\* A caller that builds nothing, before and after its step.
LEMMA CallerWait ==
  ASSUME PoolInv, WaitInv, UNCHANGED <<creating, stage>>,
         NEW c \in Callers, pc[c] # "create",
         NEW l \in PCs \ {"create"}, Goto(c, l),
         NEW h \in Sids \cup {Nil}, hold' = [hold EXCEPT ![c] = h],
         NEW k \in Keys, key' = [key EXCEPT ![c] = k],
         l = "wait" => h \in Sids /\ (stage[h] \in Finished \/ InFlight(h)),
         l \in Serving => h \in Sids /\ stage[h] = "ready"
  PROVE  WaitInv'
<1>1. \A d \in Callers : /\ pc'[d] = (IF d = c THEN l ELSE pc[d])
                         /\ hold'[d] = (IF d = c THEN h ELSE hold[d])
                         /\ d # c => key'[d] = key[d]
  BY DEF Goto, PoolInv, TypeOK, Shape
<1>2. \A s : InFlight(s)' <=> InFlight(s)
  BY DEF InFlight
<1>3. \A m \in Keys : creating'[m] # Nil => \E d \in Callers : pc'[d] = "create" /\ key'[d] = m
  BY <1>1 DEF WaitInv
<1> QED
  BY <1>1, <1>2, <1>3 DEF WaitInv

\* GetOrCreate up to a hit, a wait or a refusal, and the requests it serves.
LEMMA RequestWait ==
  ASSUME PoolInv, WaitInv, NEW c \in Callers,
         \/ \E k \in Keys : Request(c, k)
         \/ GetStopped(c) \/ GetHit(c) \/ GetWait(c) \/ GetRefused(c) \/ FlightDone(c)
         \/ AnswerLocally(c) \/ StartCall(c) \/ CallReturns(c) \/ CallDies(c) \/ Invalidate(c)
  PROVE  WaitInv'
<1> USE DEF Leave, Return
<1>0. /\ pc[c] \in PCs /\ key[c] \in Keys /\ hold[c] \in Sids \cup {Nil} /\ Nil \notin Sids
      /\ key = [key EXCEPT ![c] = key[c]] /\ hold = [hold EXCEPT ![c] = hold[c]]
  BY PoolAssumption DEF PoolInv, TypeOK, Shape
<1>1. UNCHANGED <<creating, stage>> /\ pc[c] # "create"
  BY DEF Request, GetStopped, GetHit, GetWait, GetRefused, GetMiss, FlightDone, AnswerLocally, StartCall,
     CallReturns, CallDies, Invalidate, poolVars, sessVars
<1>2. ASSUME NEW l \in {"get", "idle"}, Goto(c, l), hold' = [hold EXCEPT ![c] = Nil], key' = key
      PROVE  WaitInv'
  <2>1. l \in PCs \ {"create"} /\ l # "wait" /\ l \notin Serving
    BY DEF PCs, Serving
  <2> QED
    BY <1>0, <1>1, <1>2, <2>1, CallerWait
<1>3. ASSUME NEW l \in Serving, Goto(c, l), NEW h \in Sids, stage[h] = "ready",
             hold' = [hold EXCEPT ![c] = h], key' = key
      PROVE  WaitInv'
  <2>1. l \in PCs \ {"create"} /\ l # "wait"
    BY DEF PCs, Serving
  <2> QED
    BY <1>0, <1>1, <1>3, <2>1, CallerWait
<1>4. CASE \E k \in Keys : Request(c, k)
  <2>0. PICK l, h : l = "get" /\ h = hold[c]
    OBVIOUS
  <2>1. l \in PCs \ {"create"} /\ l # "wait" /\ l \notin Serving
    BY <2>0 DEF PCs, Serving
  <2>2. PICK k \in Keys : key' = [key EXCEPT ![c] = k]
    BY <1>4 DEF Request
  <2>3. Goto(c, l) /\ hold' = [hold EXCEPT ![c] = h] /\ h \in Sids \cup {Nil}
    BY <1>0, <1>4, <2>0 DEF Request
  <2> QED
    BY <1>1, <2>1, <2>2, <2>3, CallerWait
<1>5. CASE GetStopped(c) \/ GetRefused(c) \/ AnswerLocally(c) \/ CallReturns(c) \/ Invalidate(c)
  BY <1>2, <1>5 DEF GetStopped, GetRefused, GetMiss, AnswerLocally, CallReturns, Invalidate
<1>6. CASE GetHit(c)
  <2>0. PICK h : h = sessions[key[c]]
    OBVIOUS
  <2>1. h \in Sids /\ stage[h] = "ready"
    BY <1>0, <1>6, <2>0 DEF GetHit, PoolInv, MapInv, TypeOK, Shape
  <2> QED
    BY <1>3, <1>6, <2>0, <2>1 DEF GetHit, Serving
<1>7. CASE GetWait(c)
  <2>0. PICK l, h : l = "wait" /\ h = creating[key[c]]
    OBVIOUS
  <2>1. h \in Sids /\ InFlight(h)
    BY <1>0, <1>7, <2>0 DEF GetWait, InFlight, PoolInv, TypeOK, Shape
  <2>2. l \in PCs \ {"create"} /\ l \notin Serving
    BY <2>0 DEF PCs, Serving
  <2>3. Goto(c, l) /\ hold' = [hold EXCEPT ![c] = h] /\ key' = key
    BY <1>7, <2>0 DEF GetWait, GetMiss
  <2> QED
    BY <1>0, <1>1, <2>1, <2>2, <2>3, CallerWait
<1>8. CASE FlightDone(c)
  <2>1. pc[c] = "wait" /\ key' = key /\ hold[c] \in Sids
    BY <1>8 DEF FlightDone, WaitInv
  <2>2. \/ Return(c) \/ Leave(c, "get")
        \/ stage[hold[c]] = "ready" /\ Goto(c, "got") /\ hold' = hold
    BY <1>8 DEF FlightDone
  <2> QED
    BY <1>0, <1>2, <1>3, <2>1, <2>2 DEF Serving
<1>9. CASE StartCall(c) \/ CallDies(c)
  <2>1. hold[c] \in Sids /\ stage[hold[c]] = "ready" /\ key' = key
    BY <1>9 DEF StartCall, CallDies, WaitInv, Serving
  <2>2. \/ Return(c)
        \/ \E l \in {"invalidate", "call"} : Goto(c, l) /\ hold' = hold
    BY <1>9 DEF StartCall, CallDies
  <2> QED
    BY <1>0, <1>2, <1>3, <2>1, <2>2 DEF Serving
<1> QED
  BY <1>4, <1>5, <1>6, <1>7, <1>8, <1>9

\* NewSession goes on: the flight is not done, so nobody is served with it.
LEMMA BuildWait ==
  ASSUME PoolInv, WaitInv, NEW c \in Callers,
         SpawnFails(c) \/ Spawn(c) \/ HandshakeFails(c) \/ Settle(c)
  PROVE  WaitInv'
<1>0. PICK s : s = hold[c]
  OBVIOUS
<1>1. /\ UNCHANGED <<creating, callVars>> /\ pc[c] = "create"
      /\ \E st \in Stages : stage' = [stage EXCEPT ![s] = st]
  BY <1>0 DEF SpawnFails, Spawn, HandshakeFails, Settle, Building, SetStage, poolVars, Stages
<1>2. s \in Sids /\ InFlight(s) /\ stage[s] \notin Finished
  BY <1>0, <1>1, PoolAssumption DEF PoolInv, TypeOK, Shape, FlightInv, InFlight, Finished
<1>3. \A t \in Sids : t # s => stage'[t] = stage[t]
  BY <1>1 DEF PoolInv, TypeOK, Shape
<1>4. \A t : InFlight(t)' <=> InFlight(t)
  BY <1>1 DEF InFlight
<1>5. \A d \in Callers : pc'[d] = pc[d] /\ hold'[d] = hold[d] /\ key'[d] = key[d]
  BY <1>1 DEF callVars
<1>6. \A d \in Callers : pc[d] \in Serving => hold[d] # s
  BY <1>2 DEF WaitInv, Finished
<1> QED
  BY <1>1, <1>2, <1>3, <1>4, <1>5, <1>6 DEF WaitInv

\* A new flight, and its builder.
LEMMA CreateWait ==
  ASSUME PoolInv, WaitInv, NEW c \in Callers, GetCreate(c)
  PROVE  WaitInv'
<1>0. PICK s, k : s = NextSid /\ k = key[c]
  OBVIOUS
<1>1. s \in Sids /\ stage[s] = "unborn" /\ k \in Keys
  BY <1>0 DEF GetCreate, NextSid, Fresh, PoolInv, TypeOK, Shape
<1>2. /\ pc[c] = "get" /\ creating[k] = Nil /\ key' = key /\ Goto(c, "create")
      /\ hold' = [hold EXCEPT ![c] = s] /\ creating' = [creating EXCEPT ![k] = s]
      /\ stage' = [stage EXCEPT ![s] = "begun"]
  BY <1>0 DEF GetCreate, GetMiss
<1>3. \A d \in Callers : /\ pc'[d] = (IF d = c THEN "create" ELSE pc[d])
                         /\ d # c => hold'[d] = hold[d]
  BY <1>2 DEF Goto, PoolInv, TypeOK, Shape
<1>4. \A l \in Keys : creating'[l] = (IF l = k THEN s ELSE creating[l])
  BY <1>1, <1>2 DEF PoolInv, TypeOK, Shape
<1>5. \A t \in Sids : t # s => stage'[t] = stage[t]
  BY <1>1, <1>2 DEF PoolInv, TypeOK, Shape
<1>6. \A t \in Sids : InFlight(t) => InFlight(t)'
  BY <1>2, <1>4, PoolAssumption DEF InFlight
<1>7. ~InFlight(s)
  BY <1>1, PoolAssumption DEF InFlight, PoolInv, FlightInv
<1>8. \A d \in Callers : pc[d] = "wait" \/ pc[d] \in Serving => hold[d] \in Sids /\ hold[d] # s
  BY <1>1, <1>7 DEF WaitInv, Finished
<1>9. \A l \in Keys : creating'[l] # Nil => \E d \in Callers : pc'[d] = "create" /\ key'[d] = l
  <2> SUFFICES ASSUME NEW l \in Keys, creating'[l] # Nil
               PROVE  \E d \in Callers : pc'[d] = "create" /\ key'[d] = l
    OBVIOUS
  <2>1. CASE l = k
    BY <1>0, <1>2, <1>3, <2>1
  <2>2. CASE l # k
    BY <1>2, <1>3, <1>4, <2>2 DEF WaitInv
  <2> QED
    BY <2>1, <2>2
<1>10. "create" # "wait" /\ "create" \notin Serving
  BY DEF Serving
<1> QED
  BY <1>3, <1>5, <1>6, <1>8, <1>9, <1>10 DEF WaitInv

\* A flight ends, and is done for all its waiters.
LEMMA FlightEndsWait ==
  ASSUME PoolInv, WaitInv, NEW c \in Callers, CreateFailed(c) \/ Install(c)
  PROVE  WaitInv'
<1>0. PICK s, k : s = hold[c] /\ k = key[c]
  OBVIOUS
<1>1. pc[c] = "create" /\ s \in Sids /\ k \in Keys /\ creating[k] = s /\ stage[s] \notin Finished
  <2>1. pc[c] = "create"
    BY DEF CreateFailed, Install, Building
  <2>2. s \in Sids /\ creating[k] = s /\ k \in Keys
    BY <1>0, <2>1 DEF PoolInv, FlightInv, TypeOK, Shape
  <2> QED
    BY <2>1, <2>2, PoolAssumption DEF PoolInv, FlightInv, Finished
<1>2. PICK st \in Finished, l \in {"idle", "got"} :
        /\ stage' = [stage EXCEPT ![s] = st] /\ Goto(c, l) /\ (l = "got" => st = "ready" /\ hold' = hold)
  BY <1>0 DEF CreateFailed, Install, SetStage, Return, Leave, Finished
<1>3. creating' = [creating EXCEPT ![k] = Nil] /\ key' = key
      /\ (hold' = hold \/ hold' = [hold EXCEPT ![c] = Nil])
  BY <1>0 DEF CreateFailed, Install, Return, Leave
<1>4. \A d \in Callers : /\ pc'[d] = (IF d = c THEN l ELSE pc[d])
                         /\ d # c => hold'[d] = hold[d]
  BY <1>2, <1>3 DEF Goto, PoolInv, TypeOK, Shape
<1>5. \A m \in Keys : creating'[m] = (IF m = k THEN Nil ELSE creating[m])
  BY <1>1, <1>3 DEF PoolInv, TypeOK, Shape
<1>6. \A t \in Sids : stage'[t] = (IF t = s THEN st ELSE stage[t])
  BY <1>2 DEF PoolInv, TypeOK, Shape
<1>7. \A t \in Sids : InFlight(t) /\ t # s => InFlight(t)'
  <2> SUFFICES ASSUME NEW t \in Sids, InFlight(t), t # s PROVE InFlight(t)'
    OBVIOUS
  <2>1. PICK m \in Keys : creating[m] = t
    BY DEF InFlight
  <2>2. creating'[m] = t
    BY <1>1, <1>5, <2>1
  <2> QED
    BY <2>2 DEF InFlight
<1>8. \A m \in Keys : creating'[m] # Nil => \E d \in Callers : pc'[d] = "create" /\ key'[d] = m
  <2> SUFFICES ASSUME NEW m \in Keys, creating'[m] # Nil
               PROVE  \E d \in Callers : pc'[d] = "create" /\ key'[d] = m
    OBVIOUS
  <2>1. m # k /\ creating[m] # Nil
    BY <1>5
  <2>2. PICK d \in Callers : pc[d] = "create" /\ key[d] = m
    BY <2>1 DEF WaitInv
  <2> QED
    BY <1>0, <1>3, <1>4, <2>1, <2>2
<1>9. \A d \in Callers : pc'[d] = "wait" =>
        hold'[d] \in Sids /\ (stage'[hold'[d]] \in Finished \/ InFlight(hold[d])')
  <2> SUFFICES ASSUME NEW d \in Callers, pc'[d] = "wait"
               PROVE  hold'[d] \in Sids /\ (stage'[hold'[d]] \in Finished \/ InFlight(hold[d])')
    OBVIOUS
  <2>1. d # c /\ pc[d] = "wait" /\ hold'[d] = hold[d] /\ hold[d] \in Sids
    BY <1>2, <1>4 DEF WaitInv
  <2>2. CASE hold[d] = s
    BY <1>6, <2>1, <2>2
  <2>3. CASE hold[d] # s
    <3>1. stage[hold[d]] \in Finished \/ InFlight(hold[d])
      BY <2>1 DEF WaitInv
    <3>2. CASE stage[hold[d]] \in Finished
      BY <1>6, <2>1, <2>3, <3>2
    <3>3. CASE InFlight(hold[d])
      <4>1. PICK m \in Keys : creating[m] = hold[d]
        BY <3>3 DEF InFlight
      <4>2. creating'[m] = hold'[d]
        BY <1>1, <1>5, <2>1, <2>3, <4>1
      <4>3. InFlight(hold[d])'
        BY <4>2 DEF InFlight
      <4> QED
        BY <2>1, <4>3
    <3> QED
      BY <3>1, <3>2, <3>3
  <2> QED
    BY <2>2, <2>3
<1>10. \A d \in Callers : pc'[d] \in Serving => hold'[d] \in Sids /\ stage'[hold'[d]] = "ready"
  <2> SUFFICES ASSUME NEW d \in Callers, pc'[d] \in Serving
               PROVE  hold'[d] \in Sids /\ stage'[hold'[d]] = "ready"
    OBVIOUS
  <2>1. CASE d = c
    BY <1>0, <1>1, <1>2, <1>4, <1>6, <2>1 DEF Serving
  <2>2. CASE d # c
    BY <1>1, <1>4, <1>6, <2>2 DEF WaitInv, Finished
  <2> QED
    BY <2>1, <2>2
<1> QED
  BY <1>8, <1>9, <1>10 DEF WaitInv

\* Every step preserves it.
LEMMA NextWait == PoolInv /\ WaitInv /\ [Next]_vars => WaitInv'
<1> SUFFICES ASSUME PoolInv, WaitInv, [Next]_vars PROVE WaitInv'
  OBVIOUS
<1>0. ASSUME UNCHANGED <<creating, stage, callVars>> PROVE WaitInv'
  <2>1. \A t : InFlight(t)' <=> InFlight(t)
    BY <1>0 DEF InFlight
  <2> QED
    BY <1>0, <2>1 DEF WaitInv, callVars
<1>1. ASSUME NEW c \in Callers, CallerStep(c) \/ \E k \in Keys : Request(c, k) PROVE WaitInv'
  BY <1>1, RequestWait, BuildWait, CreateWait, FlightEndsWait DEF CallerStep
<1>2. ASSUME NEW e \in Endpoints,
             UnregisterEndpoint(e) \/ \E cfg \in Configs : RegisterEndpoint(e, cfg)
      PROVE  WaitInv'
  BY <1>0, <1>2 DEF UnregisterEndpoint, RegisterEndpoint
<1>3. ASSUME NEW s \in Sids, CloseBegins(s) \/ CloseEnds(s) \/ ProcExits(s) PROVE WaitInv'
  BY <1>0, <1>3 DEF CloseBegins, CloseEnds, ProcExits, poolVars
<1>4. CASE ReaperStep \/ CloseAllStops \/ CloseAllStep \/ UNCHANGED vars
  BY <1>0, <1>4 DEF ReaperStep, ReapScan, ReapDone, ReaperStops, ReapKey, CloseAllStops, CloseAllStep,
     CloseAllSnapshot, CloseAllEnds, CloseAllKey, vars, poolVars, sessVars
<1> QED
  BY <1>1, <1>2, <1>3, <1>4 DEF Next

\* A waiter of GetOrCreate always has a flight that some caller is at work on
\* or that is done, whatever removals, re-registrations and shutdowns go on
\* beside it: the safety half of RequestReturns.
THEOREM WaitersHaveFlights == Spec => []WaiterHasFlight
<1>1. Init => WaitInv
  BY DEF Init, WaitInv, Serving
<1>2. PoolInv /\ WaitInv => WaiterHasFlight
  <2> SUFFICES ASSUME PoolInv, WaitInv, NEW c \in Callers, pc[c] = "wait", stage[hold[c]] \notin Finished
               PROVE  \E d \in Callers : pc[d] = "create" /\ hold[d] = hold[c]
    BY DEF WaiterHasFlight
  <2>1. PICK k \in Keys : creating[k] = hold[c] /\ creating[k] # Nil
    BY PoolAssumption DEF WaitInv, InFlight
  <2>2. PICK d \in Callers : pc[d] = "create" /\ key[d] = k
    BY <2>1 DEF WaitInv
  <2> QED
    BY <2>1, <2>2 DEF PoolInv, FlightInv
<1> QED
  BY <1>1, <1>2, NextWait, PoolInvariant, PTL DEF Spec
=============================================================================
