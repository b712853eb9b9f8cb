--------------------------- MODULE EndpointsProofs ---------------------------
(***************************************************************************)
(* Proofs about Endpoints, for any endpoints, payloads, work connections,  *)
(* Listen calls and sizes of the accept buffer: the exec pool and the      *)
(* bridges follow the installed endpoints, a connection has one owner,     *)
(* Close drains, a removal is not stuck, and no change is lost on the way  *)
(* to the hook.                                                            *)
(***************************************************************************)
EXTENDS Endpoints, FiniteSetTheorems, TLAPS

-----------------------------------------------------------------------------
(* The accept buffer of a listener as a queue.                             *)

\* What is in a queue without repetitions after a send and after a receive.
InSeq(x, s) == \E i \in 1..Len(s) : s[i] = x
Distinct(s) == \A i, j \in 1..Len(s) : s[i] = s[j] => i = j

\* Sending what is not in the queue.
LEMMA AppendPlaces ==
  ASSUME NEW S, NEW s \in Seq(S), NEW x \in S, Distinct(s), ~InSeq(x, s)
  PROVE  /\ Append(s, x) \in Seq(S) /\ Len(Append(s, x)) = Len(s) + 1
         /\ Distinct(Append(s, x))
         /\ \A q : InSeq(q, Append(s, x)) <=> InSeq(q, s) \/ q = x
<1>1. /\ Append(s, x) \in Seq(S) /\ Len(Append(s, x)) = Len(s) + 1 /\ Len(s) \in Nat
      /\ Append(s, x)[Len(s) + 1] = x /\ \A i \in 1..Len(s) : Append(s, x)[i] = s[i]
  OBVIOUS
<1>2. Distinct(Append(s, x))
  BY <1>1 DEF Distinct, InSeq
<1>3. ASSUME NEW q PROVE InSeq(q, Append(s, x)) <=> InSeq(q, s) \/ q = x
  BY <1>1 DEF InSeq
<1> QED
  BY <1>1, <1>2, <1>3

\* Receiving the oldest.
LEMMA TailPlaces ==
  ASSUME NEW S, NEW s \in Seq(S), s # <<>>, Distinct(s)
  PROVE  /\ Tail(s) \in Seq(S) /\ Len(Tail(s)) = Len(s) - 1
         /\ Distinct(Tail(s)) /\ Head(s) \in S
         /\ \A q : InSeq(q, s) <=> InSeq(q, Tail(s)) \/ q = Head(s)
         /\ ~InSeq(Head(s), Tail(s))
<1>1. /\ Tail(s) \in Seq(S) /\ Len(Tail(s)) = Len(s) - 1 /\ Len(s) \in Nat /\ Len(s) # 0
      /\ Head(s) = s[1] /\ \A i \in 1..Len(Tail(s)) : Tail(s)[i] = s[i + 1]
  OBVIOUS
<1>2. Head(s) \in S
  BY <1>1
<1>3. Distinct(Tail(s)) /\ ~InSeq(Head(s), Tail(s))
  BY <1>1 DEF Distinct, InSeq
<1>4. ASSUME NEW q PROVE InSeq(q, s) <=> InSeq(q, Tail(s)) \/ q = Head(s)
  <2>1. ASSUME InSeq(q, s) PROVE InSeq(q, Tail(s)) \/ q = Head(s)
    <3>1. PICK i \in 1..Len(s) : s[i] = q
      BY <2>1 DEF InSeq
    <3>2. CASE i = 1
      BY <1>1, <3>1, <3>2
    <3>3. CASE i # 1
      <4>1. i - 1 \in 1..Len(Tail(s)) /\ (i - 1) + 1 = i
        BY <1>1, <3>3
      <4>2. Tail(s)[i - 1] = q
        BY <1>1, <3>1, <4>1
      <4> QED
        BY <4>1, <4>2 DEF InSeq
    <3> QED
      BY <3>2, <3>3
  <2>2. ASSUME InSeq(q, Tail(s)) \/ q = Head(s) PROVE InSeq(q, s)
    BY <1>1, <2>2 DEF InSeq
  <2> QED
    BY <2>1, <2>2
<1> QED
  BY <1>1, <1>2, <1>3, <1>4

-----------------------------------------------------------------------------
(* The manager and the exec pool.                                          *)

ReaderOps == {"idle", "sync", "unregistered", "closing", "remove", "signal"}

\* A runtime is made once, for one endpoint; the endpoint the reader works on
\* is installed.
MgrInv ==
  /\ msgs \in 0..MaxMsgs /\ made \in 0..msgs
  /\ byID \in [EndpointIDs -> Nat] /\ \A e \in EndpointIDs : byID[e] <= made
  /\ \A e, f \in EndpointIDs : byID[e] = byID[f] /\ byID[e] # 0 => e = f
  /\ reader \in [op : ReaderOps, id : EndpointIDs \cup {NoID}]
  /\ Locked => reader.id \in EndpointIDs /\ Installed(reader.id)
  /\ cfg \in [Runtimes -> Payloads]

\* The reader is at work on the registration of e.
Busy(e) == Locked /\ reader.id = e

WantsExec(e) == Installed(e) /\ Delivery(byID[e]) = "exec" /\ ParsesExec(cfg[byID[e]])

\* Registration and bridge of every other endpoint are in order, and an
\* endpoint that is being removed has neither.
PoolInv ==
  /\ pool \subseteq EndpointIDs
  /\ \A r \in bridge : \E e \in EndpointIDs : byID[e] = r /\ Installed(e)
  /\ \A e \in EndpointIDs : ~Busy(e) => (e \in pool <=> WantsExec(e))
  /\ \A e \in EndpointIDs : ~Busy(e) /\ Installed(e) => (byID[e] \in bridge <=> WantsExec(e))
  /\ reader.op \in {"unregistered", "closing", "remove"} =>
       reader.id \notin pool /\ byID[reader.id] \notin bridge

ExecInv == MgrInv /\ PoolInv

\* Nothing is installed at first.
LEMMA InitExec == Init => ExecInv
<1> SUFFICES ASSUME Init PROVE ExecInv
  OBVIOUS
<1>1. MgrInv
  <2>1. (CHOOSE p \in Payloads : TRUE) \in Payloads
    BY EndpointsAssumption
  <2> QED
    BY <2>1, EndpointsAssumption DEF Init, MgrInv, ReaderOps, Idle, Locked
<1>2. PoolInv
  BY DEF Init, PoolInv, WantsExec, Installed, Idle
<1> QED
  BY <1>1, <1>2 DEF ExecInv

\* NewEndpoint installs or changes an endpoint under m.mu.
LEMMA UpsertExec ==
  ASSUME ExecInv, NEW e \in EndpointIDs, NEW p \in Payloads, Upsert(e, p)
  PROVE  ExecInv'
<1> USE DEF ExecInv
<1>1. ~Locked /\ reader' = [op |-> "sync", id |-> e] /\ UNCHANGED <<pool, bridge>>
      /\ msgs' = msgs + 1 /\ msgs < MaxMsgs
  BY DEF Upsert, Idle, Locked
<1>2. Locked' /\ reader'.id = e /\ reader'.op = "sync"
  BY <1>1 DEF Locked
<1>3. CASE Installed(e)
  <2>1. byID' = byID /\ made' = made /\ cfg' = [cfg EXCEPT ![byID[e]] = p]
    BY <1>3 DEF Upsert
  <2>2. MgrInv'
    <3>1. msgs' \in 0..MaxMsgs /\ made' \in 0..msgs'
      BY <1>1, <2>1, EndpointsAssumption DEF MgrInv
    <3>2. reader' \in [op : ReaderOps, id : EndpointIDs \cup {NoID}]
      BY <1>1 DEF ReaderOps
    <3>3. cfg' \in [Runtimes -> Payloads] /\ Installed(e)'
      BY <1>3, <2>1 DEF MgrInv, Installed
    <3> QED
      BY <1>2, <2>1, <3>1, <3>2, <3>3 DEF MgrInv
  <2>3. \A f \in EndpointIDs : f # e /\ Installed(f) => cfg'[byID[f]] = cfg[byID[f]]
    BY <2>1 DEF MgrInv, Installed
  <2>4. \A f \in EndpointIDs : f # e => (WantsExec(f)' <=> WantsExec(f)) /\ ~Busy(f)' /\ ~Busy(f)
    BY <1>1, <1>2, <2>1, <2>3 DEF WantsExec, Busy, Installed, Delivery
  <2>5. PoolInv'
    BY <1>1, <1>2, <2>1, <2>4 DEF PoolInv, Installed, Busy
  <2> QED
    BY <2>2, <2>5
<1>4. CASE ~Installed(e)
  <2>1. /\ byID' = [byID EXCEPT ![e] = made + 1] /\ made' = made + 1
        /\ cfg' = [cfg EXCEPT ![made + 1] = p]
    BY <1>4 DEF Upsert
  <2>2. made \in Nat /\ made + 1 # 0 /\ made + 1 \in Runtimes /\ made + 1 <= msgs + 1
    BY <1>1, EndpointsAssumption DEF MgrInv, Runtimes
  <2>3. \A f \in EndpointIDs : (f # e => byID'[f] = byID[f]) /\ byID[f] # made + 1 /\ byID'[e] = made + 1
    BY <2>1, <2>2 DEF MgrInv
  <2>4. MgrInv'
    <3>1. \A f \in EndpointIDs : byID'[f] \in Nat /\ byID'[f] <= made'
      BY <2>1, <2>2, <2>3 DEF MgrInv
    <3>2. \A f, g \in EndpointIDs : byID'[f] = byID'[g] /\ byID'[f] # 0 => f = g
      BY <2>3 DEF MgrInv
    <3>3. byID' \in [EndpointIDs -> Nat] /\ cfg' \in [Runtimes -> Payloads]
      BY <2>1, <2>2 DEF MgrInv
    <3>4. msgs' \in 0..MaxMsgs /\ made' \in 0..msgs'
      BY <1>1, <2>1, <2>2, EndpointsAssumption DEF MgrInv
    <3>5. reader' \in [op : ReaderOps, id : EndpointIDs \cup {NoID}]
      BY <1>1 DEF ReaderOps
    <3>6. Installed(e)'
      BY <2>2, <2>3 DEF Installed
    <3> QED
      BY <1>2, <3>1, <3>2, <3>3, <3>4, <3>5, <3>6 DEF MgrInv
  <2>5. \A f \in EndpointIDs : f # e => cfg'[byID[f]] = cfg[byID[f]] \/ byID[f] = 0
    BY <2>1, <2>2, <2>3 DEF MgrInv, Runtimes
  <2>6. \A f \in EndpointIDs : f # e => (WantsExec(f)' <=> WantsExec(f)) /\ ~Busy(f)' /\ ~Busy(f)
                                        /\ (Installed(f)' <=> Installed(f)) /\ byID'[f] = byID[f]
    BY <1>1, <1>2, <2>3, <2>5 DEF WantsExec, Busy, Installed, Delivery
  <2>7. \A r \in bridge' : \E f \in EndpointIDs : byID'[f] = r /\ Installed(f)'
    BY <1>1, <1>4, <2>6 DEF PoolInv
  <2>8. PoolInv'
    BY <1>1, <1>2, <2>6, <2>7 DEF PoolInv, Busy
  <2> QED
    BY <2>4, <2>8
<1> QED
  BY <1>3, <1>4

\* syncExecLocked brings registration and bridge in order.
LEMMA SyncExecInv ==
  ASSUME ExecInv, SyncExec
  PROVE  ExecInv'
<1> USE DEF ExecInv
<1> DEFINE e == reader.id
<1>1. /\ reader.op = "sync" /\ UNCHANGED <<byID, made, msgs, cfg>>
      /\ reader' = [reader EXCEPT !.op = "signal"]
      /\ IF WantsExec(e) THEN pool' = pool \cup {e} /\ bridge' = bridge \cup {byID[e]}
                         ELSE pool' = pool \ {e} /\ bridge' = bridge \ {byID[e]}
  BY DEF SyncExec, WantsExec, MgrInv, Locked
<1>2. Locked /\ e \in EndpointIDs /\ Installed(e)
  BY <1>1 DEF MgrInv, Locked
<1>3. reader'.op = "signal" /\ reader' \in [op : ReaderOps, id : EndpointIDs \cup {NoID}] /\ ~Locked'
  BY <1>1 DEF MgrInv, ReaderOps, Locked
<1>4. MgrInv'
  BY <1>1, <1>3 DEF MgrInv
<1>5. \A f \in EndpointIDs : (WantsExec(f)' <=> WantsExec(f)) /\ (Installed(f)' <=> Installed(f))
  BY <1>1 DEF WantsExec, Installed, Delivery
<1>6. \A f \in EndpointIDs : (f # e => ~Busy(f)) /\ (f # e /\ Installed(f) => byID[f] # byID[e])
  BY <1>2 DEF Busy, MgrInv, Installed
<1>7. pool' \subseteq EndpointIDs /\ \A r \in bridge' : \E f \in EndpointIDs : byID'[f] = r /\ Installed(f)'
  BY <1>1, <1>2, <1>5 DEF PoolInv
<1>8. \A f \in EndpointIDs : f \in pool' <=> WantsExec(f)'
  BY <1>1, <1>5, <1>6 DEF PoolInv
<1>9. \A f \in EndpointIDs : Installed(f)' => (byID'[f] \in bridge' <=> WantsExec(f)')
  BY <1>1, <1>5, <1>6 DEF PoolInv
<1> QED
  BY <1>3, <1>4, <1>7, <1>8, <1>9 DEF PoolInv

\* The removal of an endpoint, from its registration to the table.
LEMMA RemovalExec ==
  ASSUME ExecInv, \/ \E e \in EndpointIDs : Unregister(e)
                  \/ CloseRuntime \/ ListenerClosed \/ Remove \/ Signal
  PROVE  ExecInv'
<1> USE DEF ExecInv
<1>1. ASSUME NEW e \in EndpointIDs, Unregister(e) PROVE ExecInv'
  <2>1. /\ ~Locked /\ UNCHANGED <<byID, made, cfg>> /\ msgs' = msgs + 1 /\ msgs < MaxMsgs
        /\ pool' = pool \ {e} /\ bridge' = bridge \ {byID[e]} /\ reader'.id = e
        /\ reader' \in [op : ReaderOps, id : EndpointIDs \cup {NoID}]
        /\ reader'.op = IF Installed(e) THEN "unregistered" ELSE "signal"
    BY <1>1 DEF Unregister, Idle, Locked, ReaderOps
  <2>2. Locked' <=> Installed(e)
    BY <2>1 DEF Locked
  <2>3. MgrInv'
    BY <2>1, <2>2, EndpointsAssumption DEF MgrInv, Installed
  <2>4. \A f \in EndpointIDs : (WantsExec(f)' <=> WantsExec(f)) /\ (Installed(f)' <=> Installed(f)) /\ ~Busy(f)
    BY <2>1 DEF WantsExec, Installed, Delivery, Busy
  <2>5. \A f \in EndpointIDs : ~Busy(f)' => f # e \/ ~Installed(e)
    BY <2>1, <2>2 DEF Busy
  <2>6. \A f \in EndpointIDs : f # e /\ Installed(f) => byID[f] # byID[e]
    BY DEF MgrInv, Installed
  <2>7. pool' \subseteq EndpointIDs /\ \A r \in bridge' : \E f \in EndpointIDs : byID'[f] = r /\ Installed(f)'
    BY <2>1, <2>4 DEF PoolInv
  <2>8. \A f \in EndpointIDs : ~Busy(f)' => (f \in pool' <=> WantsExec(f)')
    BY <2>1, <2>4, <2>5 DEF PoolInv, WantsExec
  <2>9. \A f \in EndpointIDs : ~Busy(f)' /\ Installed(f)' => (byID'[f] \in bridge' <=> WantsExec(f)')
    BY <2>1, <2>4, <2>5, <2>6 DEF PoolInv
  <2> QED
    BY <2>1, <2>3, <2>7, <2>8, <2>9 DEF PoolInv
<1>2. CASE CloseRuntime \/ ListenerClosed
  <2>1. /\ reader.op \in {"unregistered", "closing"} /\ UNCHANGED <<byID, made, msgs, cfg, pool, bridge>>
        /\ reader'.op \in {"closing", "remove"} /\ reader'.id = reader.id
        /\ reader' \in [op : ReaderOps, id : EndpointIDs \cup {NoID}]
    BY <1>2 DEF CloseRuntime, ListenerClosed, rtVars, MgrInv, ReaderOps
  <2>2. Locked /\ Locked'
    BY <2>1 DEF Locked
  <2>3. MgrInv'
    BY <2>1, <2>2 DEF MgrInv, Installed
  <2> QED
    BY <2>1, <2>2, <2>3 DEF PoolInv, Busy, WantsExec, Installed, Delivery
<1>3. CASE Remove
  <2>0. PICK e : e = reader.id
    OBVIOUS
  <2>1. /\ reader.op = "remove" /\ UNCHANGED <<made, msgs, cfg, pool, bridge>>
        /\ byID' = [byID EXCEPT ![e] = 0] /\ reader'.op = "signal"
        /\ reader' \in [op : ReaderOps, id : EndpointIDs \cup {NoID}]
    BY <1>3, <2>0 DEF Remove, rtVars, MgrInv, ReaderOps
  <2>2. Locked /\ ~Locked' /\ e \in EndpointIDs /\ Installed(e) /\ e \notin pool /\ byID[e] \notin bridge
    BY <2>0, <2>1 DEF Locked, MgrInv, PoolInv
  <2>3. \A f \in EndpointIDs : (f # e => byID'[f] = byID[f]) /\ byID'[e] = 0
    BY <2>1, <2>2 DEF MgrInv
  <2>4. MgrInv'
    <3>1. byID' \in [EndpointIDs -> Nat] /\ \A f \in EndpointIDs : byID'[f] <= made'
      BY <2>1, <2>2, <2>3 DEF MgrInv
    <3>2. \A f, g \in EndpointIDs : byID'[f] = byID'[g] /\ byID'[f] # 0 => f = g
      BY <2>3 DEF MgrInv
    <3> QED
      BY <2>1, <2>2, <3>1, <3>2 DEF MgrInv
  <2>5. \A f \in EndpointIDs : f # e => (WantsExec(f)' <=> WantsExec(f)) /\ ~Busy(f)
                                        /\ (Installed(f)' <=> Installed(f)) /\ byID'[f] = byID[f]
    BY <2>0, <2>1, <2>3 DEF WantsExec, Busy, Installed, Delivery
  <2>6. ~WantsExec(e)' /\ ~Installed(e)'
    BY <2>2, <2>3 DEF WantsExec, Installed
  <2>7. \A r \in bridge' : \E f \in EndpointIDs : byID'[f] = r /\ Installed(f)'
    BY <2>1, <2>2, <2>5 DEF PoolInv
  <2>8. \A f \in EndpointIDs : f \in pool' <=> WantsExec(f)'
    BY <2>1, <2>2, <2>5, <2>6 DEF PoolInv
  <2>9. \A f \in EndpointIDs : Installed(f)' => (byID'[f] \in bridge' <=> WantsExec(f)')
    BY <2>1, <2>5, <2>6 DEF PoolInv
  <2> QED
    BY <2>1, <2>4, <2>7, <2>8, <2>9 DEF PoolInv
<1>4. CASE Signal
  <2>1. /\ UNCHANGED <<byID, made, msgs, cfg, pool, bridge>> /\ ~Locked /\ ~Locked' /\ reader' = Idle
        /\ reader'.op = "idle"
    BY <1>4 DEF Signal, rtVars, Locked, Idle
  <2>2. MgrInv'
    BY <2>1 DEF MgrInv, Idle, ReaderOps
  <2> QED
    BY <2>1, <2>2 DEF PoolInv, Busy, WantsExec, Installed, Delivery
<1> QED
  BY <1>1, <1>2, <1>3, <1>4

\* The goroutines beside the reader change neither table nor pool.
LEMMA OthersExec ==
  ASSUME ExecInv, UNCHANGED <<mgrVars, rtVars>>
  PROVE  ExecInv'
<1>1. MgrInv'
  BY DEF ExecInv, MgrInv, mgrVars, rtVars, Locked, Installed
<1>2. PoolInv'
  BY DEF ExecInv, PoolInv, mgrVars, rtVars, Busy, Locked, WantsExec, Installed, Delivery
<1> QED
  BY <1>1, <1>2 DEF ExecInv

\* Those are the steps of Listen, of the listeners, of the work connections
\* and of the hook.
LEMMA BesideReader ==
  ASSUME \/ \E a \in Apps : ListenStep(a) \/ ListenCancelled(a) \/ Accept(a) \/ AcceptClosed(a)
                            \/ AppClose(a) \/ Drain(a)
         \/ \E c \in Conns : BadStart(c) \/ ConnStep(c) \/ \E e \in EndpointIDs : HandleWorkConn(c, e)
         \/ HookStep \/ LoginSnapshot \/ UNCHANGED vars
  PROVE  UNCHANGED <<mgrVars, rtVars>>
<1>1. ASSUME NEW a \in Apps, ListenStep(a) \/ ListenCancelled(a) \/ Accept(a) \/ AcceptClosed(a)
                             \/ AppClose(a) \/ Drain(a)
      PROVE  UNCHANGED <<mgrVars, rtVars>>
  BY <1>1 DEF ListenStep, LookUp, ClaimGet, ClaimListener, WaitOver, ListenCancelled, Accept,
     AcceptClosed, AppClose, Drain, AppStays
<1>2. ASSUME NEW c \in Conns, BadStart(c) \/ ConnStep(c) \/ \E e \in EndpointIDs : HandleWorkConn(c, e)
      PROVE  UNCHANGED <<mgrVars, rtVars>>
  BY <1>2 DEF BadStart, ConnStep, InWorkConn, ToBridge, Dial, Served, OfferCheck, OfferNow, OfferWait,
     HandleWorkConn, ConnStays
<1>3. CASE HookStep \/ LoginSnapshot \/ UNCHANGED vars
  BY <1>3 DEF HookStep, Watch, WatcherSnapshot, WatcherEmits, LoginEmits, LoginSnapshot, HookStays, vars
<1> QED
  BY <1>1, <1>2, <1>3

\* Every step preserves the invariant.
LEMMA NextExec == ExecInv /\ [Next]_vars => ExecInv'
  BY UpsertExec, SyncExecInv, RemovalExec, BesideReader, OthersExec DEF Next, ReaderStep

\* The invariant of the manager.
THEOREM ExecInvariant == Spec => []ExecInv
  BY InitExec, NextExec, PTL DEF Spec

\* After any sequence of registrations, changes of delivery and removals the
\* exec pool and the bridges are those of the installed exec endpoints
\* (syncExecLocked, Manager.delete).
THEOREM PoolInSync == Spec => []ExecInSync
<1>1. ExecInv => ExecInSync
  <2> SUFFICES ASSUME ExecInv, ~Locked
               PROVE  /\ pool = {e \in EndpointIDs : WantsExec(e)}
                      /\ bridge = {byID[e] : e \in pool}
    BY DEF ExecInSync, WantsExec
  <2>1. \A e \in EndpointIDs : (e \in pool <=> WantsExec(e)) /\ (Installed(e) => (byID[e] \in bridge <=> WantsExec(e)))
    BY DEF ExecInv, PoolInv, Busy
  <2>2. pool = {e \in EndpointIDs : WantsExec(e)}
    BY <2>1 DEF ExecInv, PoolInv
  <2>3. \A r \in bridge : \E e \in pool : byID[e] = r
    BY <2>1 DEF ExecInv, PoolInv
  <2>4. \A e \in pool : byID[e] \in bridge
    BY <2>1, <2>2 DEF WantsExec
  <2> QED
    BY <2>2, <2>3, <2>4
<1> QED
  BY <1>1, ExecInvariant, PTL

-----------------------------------------------------------------------------
(* The accept buffers.                                                     *)

Buffered == {"retained", "late"}
ToListener == {"offer", "offering", "pending"} \cup Buffered
ConnStates == {"reading", "got", "exec", "forward", "bridged", "joined", "accepted", "closed"}
              \cup ToListener

\* Types: a connection on its way to a listener knows which.
ConnType ==
  /\ listener \in [Runtimes -> Apps \cup {NoID}]
  /\ buf \in [Apps -> Seq(Conns)] /\ \A a \in Apps : Len(buf[a]) <= AcceptBuffer
  /\ ln \in [Apps -> {"none", "open", "draining", "closed"}]
  /\ conn \in [Conns -> ConnStates]
  /\ at \in [Conns -> Nat \X (Apps \cup {NoID})]
  /\ \A c \in Conns : conn[c] = "got" => at[c][1] \in Runtimes
  /\ \A c \in Conns : conn[c] \in ToListener => at[c][2] \in Apps

\* A buffer holds exactly the connections that Offer put into it, each once;
\* what is left after Close came late.
BufferInv ==
  /\ \A a \in Apps : Distinct(buf[a])
  /\ \A a \in Apps, c \in Conns : InSeq(c, buf[a]) <=> conn[c] \in Buffered /\ at[c][2] = a
  /\ \A a \in Apps, c \in Conns : ln[a] = "closed" /\ InSeq(c, buf[a]) => conn[c] = "late"

OwnerInv == ConnType /\ BufferInv

\* There is no connection and no listener at first.
LEMMA InitOwner == Init => OwnerInv
<1> SUFFICES ASSUME Init PROVE OwnerInv
  OBVIOUS
<1>1. \A a \in Apps : buf[a] = <<>> /\ Len(buf[a]) = 0
  BY DEF Init
<1>2. /\ \A c \in Conns : conn[c] \in {"reading", "closed"} /\ at[c] = <<0, NoID>>
      /\ conn \in [Conns -> ConnStates]
  BY DEF Init, Nowhere, ConnStates
<1>3. ConnType
  <2>1. buf \in [Apps -> Seq(Conns)] /\ listener \in [Runtimes -> Apps \cup {NoID}]
    BY DEF Init
  <2>2. ln \in [Apps -> {"none", "open", "draining", "closed"}]
    BY DEF Init
  <2>3. at \in [Conns -> Nat \X (Apps \cup {NoID})]
    BY DEF Init, Nowhere
  <2> QED
    BY <1>1, <1>2, <2>1, <2>2, <2>3, EndpointsAssumption DEF ConnType, ToListener, Buffered
<1>4. BufferInv
  BY <1>1, <1>2 DEF BufferInv, Distinct, InSeq, Buffered
<1> QED
  BY <1>3, <1>4 DEF OwnerInv

\* A connection that no buffer holds moves on.
LEMMA ConnMoves ==
  ASSUME OwnerInv, UNCHANGED <<listener, buf, ln>>, NEW c \in Conns, conn[c] \notin Buffered,
         NEW x \in ConnStates \ Buffered, conn' = [conn EXCEPT ![c] = x],
         NEW y \in Nat \X (Apps \cup {NoID}), at' = [at EXCEPT ![c] = y],
         x = "got" => y[1] \in Runtimes, x \in ToListener => y[2] \in Apps
  PROVE  OwnerInv'
<1> USE DEF OwnerInv
<1>1. \A d \in Conns : /\ d # c => conn'[d] = conn[d] /\ at'[d] = at[d]
                       /\ conn'[c] = x /\ at'[c] = y
  BY DEF ConnType
<1>2. ConnType'
  BY <1>1 DEF ConnType
<1>3. \A d \in Conns : (conn'[d] \in Buffered <=> conn[d] \in Buffered)
                       /\ (conn[d] \in Buffered => conn'[d] = conn[d] /\ at'[d] = at[d])
  BY <1>1
<1>4. BufferInv'
  <2>1. \A a \in Apps : buf'[a] = buf[a] /\ ln'[a] = ln[a]
    OBVIOUS
  <2>2. \A a \in Apps : Distinct(buf[a])'
    BY DEF BufferInv, Distinct
  <2>3. \A a \in Apps, d \in Conns : InSeq(d, buf[a])' <=> InSeq(d, buf[a])
    BY DEF InSeq
  <2> QED
    BY <1>3, <2>1, <2>2, <2>3 DEF BufferInv
<1> QED
  BY <1>2, <1>4

\* A listener goes on, and closes only with an empty buffer.
LEMMA ListenerMoves ==
  ASSUME OwnerInv, UNCHANGED <<buf, conn, at>>,
         listener' \in [Runtimes -> Apps \cup {NoID}],
         ln' \in [Apps -> {"none", "open", "draining", "closed"}],
         \A a \in Apps : ln'[a] = "closed" => ln[a] = "closed" \/ buf[a] = <<>>
  PROVE  OwnerInv'
<1> USE DEF OwnerInv
<1>1. ConnType'
  BY DEF ConnType
<1>2. \A a \in Apps : Distinct(buf[a])'
  BY DEF BufferInv, Distinct
<1>3. \A a \in Apps, c \in Conns : InSeq(c, buf[a])' <=> InSeq(c, buf[a])
  BY DEF InSeq
<1>4. \A a \in Apps, c \in Conns : buf[a] = <<>> => ~InSeq(c, buf[a])
  BY DEF InSeq
<1> QED
  BY <1>1, <1>2, <1>3, <1>4 DEF BufferInv

\* Offer puts a connection into the buffer.
LEMMA EnqueueOwner ==
  ASSUME OwnerInv, UNCHANGED <<listener, ln>>, NEW c \in Conns, conn[c] \in {"offering", "pending"},
         Enqueue(c)
  PROVE  OwnerInv'
<1> USE DEF OwnerInv
<1>0. PICK a : a = at[c][2]
  OBVIOUS
<1>1. a \in Apps /\ conn[c] \notin Buffered
  BY <1>0 DEF ConnType, ToListener, Buffered
<1>2. PICK x \in Buffered : conn' = [conn EXCEPT ![c] = x] /\ x = IF ln[a] = "open" THEN "retained" ELSE "late"
  BY <1>0 DEF Enqueue, Goes, Buffered
<1>3. at' = at /\ buf' = [buf EXCEPT ![a] = Append(buf[a], c)] /\ Len(buf[a]) < AcceptBuffer
  BY <1>0 DEF Enqueue, Goes, Room
<1>4. \A d \in Conns : (d # c => conn'[d] = conn[d]) /\ conn'[c] = x
  BY <1>2 DEF ConnType
<1>5. buf[a] \in Seq(Conns) /\ Distinct(buf[a]) /\ ~InSeq(c, buf[a])
  BY <1>1 DEF ConnType, BufferInv
<1>6. /\ buf'[a] \in Seq(Conns) /\ Len(buf'[a]) = Len(buf[a]) + 1 /\ Distinct(buf'[a])
      /\ \A q : InSeq(q, buf'[a]) <=> InSeq(q, buf[a]) \/ q = c
      /\ \A b \in Apps : b # a => buf'[b] = buf[b]
  <2>1. buf'[a] = Append(buf[a], c) /\ \A b \in Apps : b # a => buf'[b] = buf[b]
    BY <1>1, <1>3 DEF ConnType
  <2> QED
    BY <1>5, <2>1, AppendPlaces
<1>7. ConnType'
  <2>1. buf' \in [Apps -> Seq(Conns)]
    BY <1>1, <1>3, <1>6 DEF ConnType
  <2>2. \A b \in Apps : Len(buf'[b]) <= AcceptBuffer
    <3>1. Len(buf[a]) \in Nat
      BY <1>5
    <3> QED
      BY <1>3, <1>6, <3>1, EndpointsAssumption DEF ConnType
  <2>3. conn' \in [Conns -> ConnStates]
    BY <1>2 DEF ConnType, ConnStates, ToListener
  <2>4. \A d \in Conns : conn'[d] = "got" => at'[d][1] \in Runtimes
    BY <1>3, <1>4, <1>2 DEF ConnType, Buffered
  <2>5. \A d \in Conns : conn'[d] \in ToListener => at'[d][2] \in Apps
    BY <1>0, <1>1, <1>3, <1>4 DEF ConnType
  <2> QED
    BY <1>3, <2>1, <2>2, <2>3, <2>4, <2>5 DEF ConnType
<1>8. BufferInv'
  <2>1. \A b \in Apps : Distinct(buf[b])'
    BY <1>6 DEF BufferInv, Distinct
  <2>2. \A b \in Apps, d \in Conns : InSeq(d, buf[b])' <=> InSeq(d, buf[b]) \/ (b = a /\ d = c)
    <3>1. \A b \in Apps, d \in Conns : InSeq(d, buf[b])' <=> InSeq(d, buf'[b])
      BY DEF InSeq
    <3> QED
      BY <1>6, <3>1
  <2>3. \A b \in Apps, d \in Conns : InSeq(d, buf[b])' <=> conn'[d] \in Buffered /\ at'[d][2] = b
    BY <1>0, <1>1, <1>2, <1>3, <1>4, <2>2 DEF BufferInv
  <2>4. \A b \in Apps, d \in Conns : ln'[b] = "closed" /\ InSeq(d, buf[b])' => conn'[d] = "late"
    BY <1>1, <1>2, <1>4, <1>5, <2>2 DEF BufferInv
  <2> QED
    BY <2>1, <2>3, <2>4 DEF BufferInv
<1> QED
  BY <1>7, <1>8

\* Accept or Close takes the oldest connection out of the buffer.
LEMMA TakeOwner ==
  ASSUME OwnerInv, UNCHANGED <<listener, ln>>, NEW a \in Apps, buf[a] # <<>>,
         NEW x \in {"accepted", "closed"}, conn' = [conn EXCEPT ![Head(buf[a])] = x],
         at' = [at EXCEPT ![Head(buf[a])] = Nowhere], buf' = [buf EXCEPT ![a] = Tail(@)]
  PROVE  OwnerInv'
<1> USE DEF OwnerInv
<1>0. PICK c : c = Head(buf[a])
  OBVIOUS
<1>1. buf'[a] = Tail(buf[a]) /\ \A b \in Apps : b # a => buf'[b] = buf[b]
  BY DEF ConnType
<1>2. buf[a] \in Seq(Conns) /\ Distinct(buf[a])
  BY DEF ConnType, BufferInv
<1>3. /\ buf'[a] \in Seq(Conns) /\ Len(buf'[a]) = Len(buf[a]) - 1 /\ Distinct(buf'[a]) /\ c \in Conns
      /\ \A q : InSeq(q, buf[a]) <=> InSeq(q, buf'[a]) \/ q = c
      /\ ~InSeq(c, buf'[a])
  BY <1>0, <1>1, <1>2, TailPlaces
<1>4. \A d \in Conns : (d # c => conn'[d] = conn[d] /\ at'[d] = at[d]) /\ conn'[c] = x /\ x \notin Buffered
  BY <1>0, <1>3 DEF ConnType, Buffered
<1>5. conn[c] \in Buffered /\ at[c][2] = a
  BY <1>3 DEF BufferInv
<1>6. ConnType'
  <2>1. buf' \in [Apps -> Seq(Conns)] /\ \A b \in Apps : Len(buf'[b]) <= AcceptBuffer
    <3>1. Len(buf[a]) \in Nat
      BY <1>2
    <3> QED
      BY <1>1, <1>3, <3>1, EndpointsAssumption DEF ConnType
  <2>2. conn' \in [Conns -> ConnStates] /\ x \notin ToListener /\ x # "got"
    BY DEF ConnType, ConnStates, ToListener, Buffered
  <2>3. at' \in [Conns -> Nat \X (Apps \cup {NoID})]
    BY DEF ConnType, Nowhere
  <2> QED
    BY <1>4, <2>1, <2>2, <2>3 DEF ConnType
<1>7. BufferInv'
  <2>1. \A b \in Apps : Distinct(buf[b])'
    BY <1>1, <1>3 DEF BufferInv, Distinct
  <2>2. \A b \in Apps, d \in Conns : InSeq(d, buf[b])' <=> InSeq(d, buf[b]) /\ d # c
    <3>1. \A b \in Apps, d \in Conns : InSeq(d, buf[b])' <=> InSeq(d, buf'[b])
      BY DEF InSeq
    <3>2. \A b \in Apps : b # a => ~InSeq(c, buf[b])
      BY <1>3, <1>5 DEF BufferInv
    <3> QED
      BY <1>1, <1>3, <3>1, <3>2
  <2> QED
    BY <1>4, <2>1, <2>2 DEF BufferInv
<1> QED
  BY <1>6, <1>7

\* The goroutine of a connection that no buffer holds goes on.
LEMMA GoesOwner ==
  ASSUME OwnerInv, UNCHANGED <<listener, buf, ln>>, NEW c \in Conns, conn[c] \notin Buffered,
         NEW x \in ConnStates \ Buffered, x # "got", Goes(c, x),
         x \in ToListener => conn[c] \in ToListener
  PROVE  OwnerInv'
<1>1. at[c] \in Nat \X (Apps \cup {NoID}) /\ (conn[c] \in ToListener => at[c][2] \in Apps)
  BY DEF OwnerInv, ConnType
<1>2. CASE x = "closed"
  <2>1. Nowhere \in Nat \X (Apps \cup {NoID}) /\ "closed" \notin ToListener
    BY DEF Nowhere, ToListener, Buffered
  <2>2. conn' = [conn EXCEPT ![c] = x] /\ at' = [at EXCEPT ![c] = Nowhere]
    BY <1>2 DEF Goes
  <2> QED
    BY <1>2, <2>1, <2>2, ConnMoves
<1>3. CASE x # "closed"
  <2>1. conn' = [conn EXCEPT ![c] = x] /\ at' = [at EXCEPT ![c] = at[c]]
    BY <1>3 DEF Goes, OwnerInv, ConnType
  <2> QED
    BY <1>1, <2>1, ConnMoves
<1> QED
  BY <1>2, <1>3

\* The steps of a work connection.
LEMMA ConnOwner ==
  ASSUME MgrInv, OwnerInv, NEW c \in Conns,
         BadStart(c) \/ ConnStep(c) \/ \E e \in EndpointIDs : HandleWorkConn(c, e)
  PROVE  OwnerInv'
<1>0. UNCHANGED <<listener, ln>>
  BY DEF BadStart, ConnStep, HandleWorkConn, InWorkConn, ToBridge, Dial, Served, OfferCheck, OfferNow,
     OfferWait, ConnStays
<1>1. CASE BadStart(c) \/ ToBridge(c) \/ Dial(c) \/ Served(c)
  <2>1. PICK x \in {"closed", "bridged", "joined"} : Goes(c, x)
    BY <1>1 DEF BadStart, ToBridge, Dial, Served
  <2>2. buf' = buf /\ conn[c] \notin Buffered /\ x \in ConnStates \ Buffered /\ x \notin ToListener /\ x # "got"
    BY <1>1 DEF BadStart, ToBridge, Dial, Served, Buffered, ConnStates, ToListener
  <2> QED
    BY <1>0, <2>1, <2>2, GoesOwner
<1>2. CASE OfferCheck(c)
  <2>1. PICK x \in {"closed", "offering"} : Goes(c, x)
    BY <1>2 DEF OfferCheck
  <2>2. buf' = buf /\ conn[c] \in ToListener \ Buffered /\ x \in ConnStates \ Buffered /\ x # "got"
    BY <1>2 DEF OfferCheck, Buffered, ConnStates, ToListener
  <2> QED
    BY <1>0, <2>1, <2>2, GoesOwner
<1>3. CASE OfferNow(c) \/ OfferWait(c)
  <2>1. conn[c] \in {"offering", "pending"}
    BY <1>3 DEF OfferNow, OfferWait
  <2>2. CASE Enqueue(c)
    BY <1>0, <2>1, <2>2, EnqueueOwner
  <2>3. CASE ~Enqueue(c)
    <3>1. buf' = buf /\ \E x \in {"closed", "pending"} : Goes(c, x)
      BY <1>3, <2>3 DEF OfferNow, OfferWait, Refuse
    <3>2. PICK x \in {"closed", "pending"} : Goes(c, x)
      BY <3>1
    <3>3. conn[c] \in ToListener \ Buffered /\ x \in ConnStates \ Buffered /\ x # "got"
      BY <2>1 DEF Buffered, ConnStates, ToListener
    <3> QED
      BY <1>0, <3>1, <3>2, <3>3, GoesOwner
  <2> QED
    BY <2>2, <2>3
<1>4. ASSUME NEW e \in EndpointIDs, HandleWorkConn(c, e) PROVE OwnerInv'
  <2> DEFINE x == IF Installed(e) THEN "got" ELSE "closed"
  <2>1. /\ conn[c] = "reading" /\ buf' = buf /\ conn' = [conn EXCEPT ![c] = x]
        /\ at' = [at EXCEPT ![c] = <<byID[e], NoID>>]
    BY <1>4 DEF HandleWorkConn
  <2>2. byID[e] \in Nat /\ (Installed(e) => byID[e] \in Runtimes)
    BY EndpointsAssumption DEF MgrInv, Installed, Runtimes
  <2>3. <<byID[e], NoID>> \in Nat \X (Apps \cup {NoID}) /\ <<byID[e], NoID>>[1] = byID[e]
    BY <2>2
  <2>4. conn[c] \notin Buffered /\ x \in ConnStates \ Buffered /\ x \notin ToListener
        /\ (x = "got" => byID[e] \in Runtimes)
    BY <2>1, <2>2 DEF Buffered, ConnStates, ToListener
  <2> HIDE DEF x
  <2> QED
    BY <1>0, <2>1, <2>3, <2>4, ConnMoves
<1>5. CASE InWorkConn(c)
  <2>0. PICK r : r = at[c][1]
    OBVIOUS
  <2>1. buf' = buf /\ conn[c] = "got" /\ conn[c] \notin Buffered /\ r \in Runtimes
    BY <1>5, <2>0 DEF InWorkConn, Buffered, OwnerInv, ConnType
  <2>2. ASSUME NEW x \in {"exec", "forward", "closed"}, Goes(c, x) PROVE OwnerInv'
    <3>1. x \in ConnStates \ Buffered /\ x # "got" /\ x \notin ToListener
      BY DEF Buffered, ConnStates, ToListener
    <3> QED
      BY <1>0, <2>1, <2>2, <3>1, GoesOwner
  <2>3. ASSUME listener[r] # NoID, conn' = [conn EXCEPT ![c] = "offer"],
               at' = [at EXCEPT ![c] = <<r, listener[r]>>]
        PROVE  OwnerInv'
    <3>1. r \in Nat /\ listener[r] \in Apps
      BY <2>1, <2>3, EndpointsAssumption DEF OwnerInv, ConnType, Runtimes
    <3>2. <<r, listener[r]>> \in Nat \X (Apps \cup {NoID}) /\ <<r, listener[r]>>[2] = listener[r]
      BY <3>1
    <3>3. "offer" \in ConnStates \ Buffered
      BY DEF Buffered, ConnStates, ToListener
    <3> QED
      BY <1>0, <2>1, <2>3, <3>1, <3>2, <3>3, ConnMoves
  <2> QED
    BY <1>5, <2>0, <2>2, <2>3 DEF InWorkConn
<1> QED
  BY <1>1, <1>2, <1>3, <1>4, <1>5 DEF ConnStep

\* The steps that open and close listeners.
LEMMA ListenersOwner ==
  ASSUME OwnerInv, \/ CloseRuntime \/ ListenerClosed
                   \/ \E a \in Apps : ClaimListener(a) \/ AppClose(a) \/ (Drain(a) /\ buf[a] = <<>>)
  PROVE  OwnerInv'
<1> USE DEF OwnerInv
<1>1. UNCHANGED <<buf, conn, at>>
  BY DEF CloseRuntime, ListenerClosed, ClaimListener, AppClose, Drain, AppStays, lnVars, connVars
<1>2. CASE CloseRuntime \/ ListenerClosed
  <2>1. listener' \in [Runtimes -> Apps \cup {NoID}]
    BY <1>2 DEF CloseRuntime, ListenerClosed, ConnType
  <2>2. ln' = ln \/ \E a : ln' = [ln EXCEPT ![a] = "draining"]
    BY <1>2 DEF CloseRuntime, ListenerClosed, lnVars
  <2> QED
    BY <1>1, <2>1, <2>2, ListenerMoves DEF ConnType
<1>3. ASSUME NEW a \in Apps, ClaimListener(a) \/ AppClose(a) \/ (Drain(a) /\ buf[a] = <<>>) PROVE OwnerInv'
  <2>1. listener' \in [Runtimes -> Apps \cup {NoID}]
    BY <1>3 DEF ClaimListener, AppClose, Drain, ConnType
  <2>2. PICK x \in {"open", "draining", "closed"} :
          (ln' = ln \/ ln' = [ln EXCEPT ![a] = x]) /\ (x = "closed" => buf[a] = <<>>)
    BY <1>3 DEF ClaimListener, AppClose, Drain
  <2> QED
    BY <1>1, <2>1, <2>2, ListenerMoves DEF ConnType
<1> QED
  BY <1>2, <1>3

\* Every step preserves the invariant.
LEMMA NextOwner == MgrInv /\ OwnerInv /\ [Next]_vars => OwnerInv'
<1> SUFFICES ASSUME MgrInv, OwnerInv, [Next]_vars PROVE OwnerInv'
  OBVIOUS
<1>0. CASE UNCHANGED <<listener, lnVars, connVars>>
  <2>1. \A a \in Apps : ln'[a] = ln[a]
    BY <1>0 DEF lnVars
  <2> QED
    BY <1>0, <2>1, ListenerMoves DEF OwnerInv, ConnType, lnVars, connVars
<1>1. CASE \/ \E e \in EndpointIDs : Unregister(e) \/ \E p \in Payloads : Upsert(e, p)
           \/ SyncExec \/ Remove \/ Signal
           \/ HookStep \/ LoginSnapshot \/ UNCHANGED vars
  <2>1. UNCHANGED <<listener, lnVars, connVars>>
    BY <1>1 DEF Unregister, Upsert, SyncExec, Remove, Signal, HookStep, Watch, WatcherSnapshot,
       WatcherEmits, LoginEmits, LoginSnapshot, HookStays, vars
  <2> QED
    BY <1>0, <2>1
<1>2. ASSUME NEW a \in Apps, LookUp(a) \/ ClaimGet(a) \/ WaitOver(a) \/ ListenCancelled(a) \/ AcceptClosed(a)
      PROVE  OwnerInv'
  <2>1. UNCHANGED <<listener, lnVars, connVars>>
    BY <1>2 DEF LookUp, ClaimGet, WaitOver, ListenCancelled, AcceptClosed, AppStays
  <2> QED
    BY <1>0, <2>1
<1>3. ASSUME NEW a \in Apps, Accept(a) \/ (Drain(a) /\ buf[a] # <<>>) PROVE OwnerInv'
  <2>1. PICK x \in {"accepted", "closed"} :
          /\ conn' = [conn EXCEPT ![Head(buf[a])] = x]
          /\ at' = [at EXCEPT ![Head(buf[a])] = Nowhere]
          /\ buf' = [buf EXCEPT ![a] = Tail(@)]
    BY <1>3 DEF Accept, Drain, Goes
  <2>2. buf[a] # <<>> /\ UNCHANGED <<listener, ln>>
    BY <1>3 DEF Accept, Drain
  <2> QED
    BY <2>1, <2>2, TakeOwner
<1>4. CASE CloseRuntime \/ ListenerClosed
  BY <1>4, ListenersOwner
<1>5. ASSUME NEW a \in Apps, ClaimListener(a) \/ AppClose(a) \/ (Drain(a) /\ buf[a] = <<>>) PROVE OwnerInv'
  BY <1>5, ListenersOwner
<1>6. ASSUME NEW c \in Conns, BadStart(c) \/ ConnStep(c) \/ \E e \in EndpointIDs : HandleWorkConn(c, e)
      PROVE  OwnerInv'
  BY <1>6, ConnOwner
<1> QED
  BY <1>1, <1>2, <1>3, <1>4, <1>5, <1>6 DEF Next, ReaderStep, ListenStep

\* The invariant of the accept buffers.
THEOREM OwnerInvariant == Spec => []OwnerInv
<1>1. ExecInv => MgrInv
  BY DEF ExecInv
<1> QED
  BY <1>1, InitOwner, NextOwner, ExecInvariant, PTL DEF Spec

\* Whatever Offer, Accept, Close and the removal of the endpoint do at the
\* same time, a connection lies in the buffer of one listener, once, or in
\* none (chanListener, InWorkConn).
THEOREM SingleOwnerOfConn == Spec => []OneOwner
<1>1. OwnerInv => OneOwner
  <2> SUFFICES ASSUME OwnerInv, NEW c \in Conns
               PROVE  LET places == {x \in Apps \X (1..AcceptBuffer) :
                                       x[2] <= Len(buf[x[1]]) /\ buf[x[1]][x[2]] = c}
                      IN  IF conn[c] \in Buffered THEN \E i \in 1..AcceptBuffer : places = {<<at[c][2], i>>}
                                                  ELSE places = {}
    BY DEF OneOwner, Buffered
  <2> DEFINE places == {x \in Apps \X (1..AcceptBuffer) : x[2] <= Len(buf[x[1]]) /\ buf[x[1]][x[2]] = c}
  <2>1. \A a \in Apps : Len(buf[a]) \in Nat /\ Len(buf[a]) <= AcceptBuffer
    BY DEF OwnerInv, ConnType
  <2>2. \A x \in places : x[1] \in Apps /\ x[2] \in 1..Len(buf[x[1]]) /\ InSeq(c, buf[x[1]])
    BY <2>1, EndpointsAssumption DEF InSeq
  <2>3. CASE conn[c] \notin Buffered
    BY <2>2, <2>3 DEF OwnerInv, BufferInv
  <2>4. CASE conn[c] \in Buffered
    <3>0. PICK a : a = at[c][2]
      OBVIOUS
    <3>1. a \in Apps /\ InSeq(c, buf[a])
      BY <2>4, <3>0 DEF OwnerInv, ConnType, BufferInv, ToListener
    <3>2. PICK i \in 1..Len(buf[a]) : buf[a][i] = c
      BY <3>1 DEF InSeq
    <3>3. i \in 1..AcceptBuffer /\ <<a, i>> \in places
      BY <2>1, <3>1, <3>2, EndpointsAssumption
    <3>4. \A x \in places : x = <<a, i>>
      <4> SUFFICES ASSUME NEW x \in places PROVE x = <<a, i>>
        OBVIOUS
      <4>1. x[1] = a
        BY <2>2, <3>0 DEF OwnerInv, BufferInv
      <4>2. x[2] = i
        BY <2>2, <3>1, <3>2, <4>1 DEF OwnerInv, BufferInv, Distinct
      <4> QED
        BY <4>1, <4>2
    <3> QED
      BY <2>4, <3>0, <3>3, <3>4
  <2> QED
    BY <2>3, <2>4
<1> QED
  BY <1>1, OwnerInvariant, PTL

\* After Close has returned only connections whose Offer overlapped it are
\* left in the buffer (chanListener.Close, Offer).
THEOREM DrainedByClose == Spec => []CloseDrains
<1>1. OwnerInv => CloseDrains
  <2> SUFFICES ASSUME OwnerInv, NEW a \in Apps, ln[a] = "closed", NEW i \in DOMAIN buf[a]
               PROVE  conn[buf[a][i]] = "late"
    BY DEF CloseDrains
  <2>1. i \in 1..Len(buf[a]) /\ buf[a][i] \in Conns
    BY DEF OwnerInv, ConnType
  <2>2. InSeq(buf[a][i], buf[a])
    BY <2>1 DEF InSeq
  <2> QED
    BY <2>1, <2>2 DEF OwnerInv, BufferInv
<1> QED
  BY <1>1, OwnerInvariant, PTL

-----------------------------------------------------------------------------
(* Listen, and the reader that waits for a listener.                       *)

AppStates == {"idle", "look", "claim", "got", "wait", "listening", "refused", "ended"}
HasListener == {"listening", "ended"}

\* A Listen call knows the endpoint and the runtime it is about to claim, and
\* has a listener from its claim on; a runtime holds a listener that exists,
\* and that no other runtime holds.
AppInv ==
  /\ app \in [Apps -> AppStates]
  /\ found \in [Apps -> (EndpointIDs \cup {NoID}) \X (0..MaxMsgs)]
  /\ \A a \in Apps : app[a] = "claim" => found[a][1] \in EndpointIDs
  /\ \A a \in Apps : app[a] = "got" => found[a][2] \in Runtimes
  /\ \A a \in Apps : ln[a] # "none" <=> app[a] \in HasListener
  /\ \A r \in Runtimes : listener[r] # NoID => ln[listener[r]] # "none"
  /\ \A r, s \in Runtimes : listener[r] = listener[s] /\ listener[r] # NoID => r = s

\* While Runtime.Close waits, its listener is being drained or is closed: the
\* Close that was first goes on without m.mu and rt.mu, which the reader holds.
ClosingIsDrained ==
  reader.op = "closing" => /\ listener[byID[reader.id]] \in Apps
                           /\ ln[listener[byID[reader.id]]] \in {"draining", "closed"}

\* No listener serves two runtimes, so a removal closes the listener of the
\* removed endpoint only.
ListenerOfOne ==
  \A r, s \in Runtimes : listener[r] = listener[s] /\ listener[r] # NoID => r = s

\* The runtime of an installed endpoint.
LEMMA RuntimeOf ==
  ASSUME MgrInv, NEW e \in EndpointIDs
  PROVE  byID[e] \in 0..MaxMsgs /\ (Installed(e) => byID[e] \in Runtimes)
  BY EndpointsAssumption DEF MgrInv, Installed, Runtimes

\* A Listen call that has no listener moves on.
LEMMA AppMoves ==
  ASSUME AppInv, UNCHANGED <<ln, listener>>, NEW a \in Apps, app[a] \notin HasListener,
         NEW x \in AppStates \ HasListener, app' = [app EXCEPT ![a] = x],
         NEW y \in (EndpointIDs \cup {NoID}) \X (0..MaxMsgs), found' = [found EXCEPT ![a] = y],
         x = "claim" => y[1] \in EndpointIDs, x = "got" => y[2] \in Runtimes
  PROVE  AppInv'
<1>1. \A b \in Apps : /\ b # a => app'[b] = app[b] /\ found'[b] = found[b]
                      /\ app'[a] = x /\ found'[a] = y
  BY DEF AppInv
<1>2. app' \in [Apps -> AppStates] /\ found' \in [Apps -> (EndpointIDs \cup {NoID}) \X (0..MaxMsgs)]
  BY DEF AppInv
<1> QED
  BY <1>1, <1>2 DEF AppInv

\* A listener that exists goes on existing, whoever closes it.
LEMMA LnMoves ==
  ASSUME AppInv, OwnerInv, UNCHANGED <<app, found, listener>>,
         \A b \in Apps : ln'[b] # "none" <=> ln[b] # "none"
  PROVE  AppInv'
<1>1. \A r \in Runtimes : listener[r] # NoID => listener[r] \in Apps
  BY DEF OwnerInv, ConnType
<1> QED
  BY <1>1 DEF AppInv

\* Listen: the look-up, the claim and the wait.
LEMMA ListenApp ==
  ASSUME MgrInv, OwnerInv, AppInv, NEW a \in Apps,
         LookUp(a) \/ ClaimGet(a) \/ WaitOver(a) \/ ListenCancelled(a)
  PROVE  AppInv'
<1>0. UNCHANGED <<ln, listener>> /\ app[a] \notin HasListener
  BY DEF LookUp, ClaimGet, WaitOver, ListenCancelled, HasListener, lnVars
<1>1. 0 \in 0..MaxMsgs
  BY EndpointsAssumption
<1>2. CASE WaitOver(a) \/ ListenCancelled(a)
  <2>1. PICK x \in {"look", "refused"} : app' = [app EXCEPT ![a] = x]
    BY <1>2 DEF WaitOver, ListenCancelled
  <2>2. found' = [found EXCEPT ![a] = <<NoID, 0>>]
    BY <1>2 DEF WaitOver, ListenCancelled
  <2>3. <<NoID, 0>> \in (EndpointIDs \cup {NoID}) \X (0..MaxMsgs)
    BY <1>1
  <2>4. x \in AppStates \ HasListener /\ x # "claim" /\ x # "got"
    BY <2>1 DEF AppStates, HasListener
  <2> QED
    BY <1>0, <2>1, <2>2, <2>3, <2>4, AppMoves
<1>3. CASE ClaimGet(a)
  <2>0. PICK e : e = found[a][1]
    OBVIOUS
  <2>1. e \in EndpointIDs
    BY <1>3, <2>0 DEF ClaimGet, AppInv
  <2>2. PICK x \in {"got", "wait"} : app' = [app EXCEPT ![a] = x] /\ (x = "got" => Installed(e))
    BY <1>3, <2>0 DEF ClaimGet
  <2>3. found' = [found EXCEPT ![a] = <<e, byID[e]>>]
    BY <1>3, <2>0 DEF ClaimGet
  <2>4. byID[e] \in 0..MaxMsgs /\ (x = "got" => byID[e] \in Runtimes)
    BY <2>1, <2>2, RuntimeOf
  <2>5. <<e, byID[e]>> \in (EndpointIDs \cup {NoID}) \X (0..MaxMsgs)
    BY <2>1, <2>4
  <2>6. x \in AppStates \ HasListener /\ x # "claim"
    BY <2>2 DEF AppStates, HasListener
  <2>7. PICK y : y = <<e, byID[e]>>
    OBVIOUS
  <2> QED
    BY <1>0, <2>2, <2>3, <2>4, <2>5, <2>6, <2>7, AppMoves
<1>4. CASE LookUp(a)
  <2>1. ASSUME NEW x \in {"wait", "claim", "refused"}, NEW e \in EndpointIDs,
               app' = [app EXCEPT ![a] = x], found' = [found EXCEPT ![a] = <<e, 0>>]
        PROVE  AppInv'
    <3>1. <<e, 0>> \in (EndpointIDs \cup {NoID}) \X (0..MaxMsgs) /\ <<e, 0>>[1] \in EndpointIDs
      BY <1>1
    <3>2. x \in AppStates \ HasListener /\ x # "got"
      BY DEF AppStates, HasListener
    <3> QED
      BY <1>0, <2>1, <3>1, <3>2, AppMoves
  <2>2. ASSUME app' = [app EXCEPT ![a] = "wait"], found' = found PROVE AppInv'
    <3>0. PICK x, y : x = "wait" /\ y = found[a]
      OBVIOUS
    <3>1. found' = [found EXCEPT ![a] = y] /\ y \in (EndpointIDs \cup {NoID}) \X (0..MaxMsgs)
      BY <2>2, <3>0 DEF AppInv
    <3>2. x \in AppStates \ HasListener /\ x # "claim" /\ x # "got"
      BY <3>0 DEF AppStates, HasListener
    <3>3. app' = [app EXCEPT ![a] = x]
      BY <2>2, <3>0
    <3> QED
      BY <1>0, <3>1, <3>2, <3>3, AppMoves
  <2>3. CASE WantID[a] # NoID
    <3>1. WantID[a] \in EndpointIDs
      BY <2>3, EndpointsAssumption
    <3>2. found' = [found EXCEPT ![a] = <<WantID[a], 0>>]
      BY <1>4, <2>3 DEF LookUp
    <3>3. \E x \in {"wait", "claim", "refused"} : app' = [app EXCEPT ![a] = x]
      BY <1>4, <2>3 DEF LookUp
    <3> QED
      BY <2>1, <3>1, <3>2, <3>3
  <2>4. CASE WantID[a] = NoID
    BY <1>4, <2>1, <2>2, <2>4 DEF LookUp
  <2> QED
    BY <2>3, <2>4
<1> QED
  BY <1>2, <1>3, <1>4

\* Runtime.ClaimListener: the listener is new, and the runtime had none.
LEMMA ClaimApp ==
  ASSUME MgrInv, OwnerInv, AppInv, NEW a \in Apps, ClaimListener(a)
  PROVE  AppInv'
<1>0. PICK r : r = found[a][2]
  OBVIOUS
<1>1. r \in Runtimes /\ app[a] = "got" /\ found' = found
  BY <1>0 DEF ClaimListener, AppInv
<1>2. ASSUME NEW x \in {"refused", "wait"}, app' = [app EXCEPT ![a] = x], UNCHANGED <<listener, ln>>
      PROVE  AppInv'
  <2>0. PICK y : y = found[a]
    OBVIOUS
  <2>1. found' = [found EXCEPT ![a] = y] /\ y \in (EndpointIDs \cup {NoID}) \X (0..MaxMsgs)
    BY <1>1, <2>0 DEF AppInv
  <2>2. x \in AppStates \ HasListener /\ x # "claim" /\ x # "got" /\ app[a] \notin HasListener
    BY <1>1, <1>2 DEF AppStates, HasListener
  <2> QED
    BY <1>2, <2>1, <2>2, AppMoves
<1>3. CASE /\ app' = [app EXCEPT ![a] = "listening"]
           /\ listener' = [listener EXCEPT ![r] = a] /\ listener[r] = NoID
           /\ ln' = [ln EXCEPT ![a] = "open"]
  <2>1. ln[a] = "none"
    BY <1>1 DEF AppInv, HasListener
  <2>2. \A s \in Runtimes : listener[s] # a
    BY <2>1, EndpointsAssumption DEF AppInv
  <2>3. \A s \in Runtimes : listener'[s] = (IF s = r THEN a ELSE listener[s])
    BY <1>1, <1>3 DEF OwnerInv, ConnType
  <2>4. \A b \in Apps : /\ ln'[b] = (IF b = a THEN "open" ELSE ln[b])
                        /\ app'[b] = (IF b = a THEN "listening" ELSE app[b])
    BY <1>3 DEF OwnerInv, ConnType, AppInv
  <2>5. \A s \in Runtimes : listener'[s] # NoID => ln'[listener'[s]] # "none"
    <3> SUFFICES ASSUME NEW s \in Runtimes, listener'[s] # NoID PROVE ln'[listener'[s]] # "none"
      OBVIOUS
    <3>1. CASE s = r
      BY <2>3, <2>4, <3>1
    <3>2. CASE s # r
      <4>1. listener'[s] = listener[s] /\ listener[s] # a /\ ln[listener[s]] # "none"
        BY <2>2, <2>3, <3>2 DEF AppInv
      <4>2. listener[s] \in Apps
        BY <4>1 DEF OwnerInv, ConnType
      <4> QED
        BY <2>4, <4>1, <4>2
    <3> QED
      BY <3>1, <3>2
  <2>6. app' \in [Apps -> AppStates]
    BY <1>3 DEF AppInv, AppStates
  <2> QED
    BY <1>1, <2>2, <2>3, <2>4, <2>5, <2>6 DEF AppInv, HasListener
<1> QED
  BY <1>0, <1>2, <1>3 DEF ClaimListener

\* Every step preserves the invariant of the Listen calls.
LEMMA NextApp == MgrInv /\ OwnerInv /\ AppInv /\ [Next]_vars => AppInv'
<1> SUFFICES ASSUME MgrInv, OwnerInv, AppInv, [Next]_vars PROVE AppInv'
  OBVIOUS
<1>0. ASSUME UNCHANGED <<ln, listener, appVars>> PROVE AppInv'
  BY <1>0, LnMoves DEF appVars
<1>1. CASE \/ \E e \in EndpointIDs : Unregister(e) \/ \E p \in Payloads : Upsert(e, p)
           \/ SyncExec \/ Remove \/ Signal
           \/ HookStep \/ LoginSnapshot \/ UNCHANGED vars
  BY <1>0, <1>1 DEF Unregister, Upsert, SyncExec, Remove, Signal, HookStep, Watch, WatcherSnapshot,
     WatcherEmits, LoginEmits, LoginSnapshot, HookStays, vars, lnVars
<1>2. ASSUME NEW a \in Apps, LookUp(a) \/ ClaimGet(a) \/ WaitOver(a) \/ ListenCancelled(a) PROVE AppInv'
  BY <1>2, ListenApp
<1>3. ASSUME NEW a \in Apps, ClaimListener(a) PROVE AppInv'
  BY <1>3, ClaimApp
<1>4. ASSUME NEW a \in Apps, AcceptClosed(a) PROVE AppInv'
  <2>1. /\ app[a] = "listening" /\ app' = [app EXCEPT ![a] = "ended"]
        /\ UNCHANGED <<found, ln, listener>>
    BY <1>4 DEF AcceptClosed, lnVars
  <2>2. \A b \in Apps : app'[b] = (IF b = a THEN "ended" ELSE app[b])
    BY <2>1 DEF AppInv
  <2>3. app' \in [Apps -> AppStates]
    BY <2>1 DEF AppInv, AppStates
  <2> QED
    BY <2>1, <2>2, <2>3 DEF AppInv, HasListener
<1>5. ASSUME NEW a \in Apps, Accept(a) \/ AppClose(a) \/ Drain(a) PROVE AppInv'
  <2>1. UNCHANGED <<app, found, listener>>
    BY <1>5 DEF Accept, AppClose, Drain, appVars
  <2>2. ln' = ln \/ (ln[a] # "none" /\ \E x \in {"draining", "closed"} : ln' = [ln EXCEPT ![a] = x])
    BY <1>5 DEF Accept, AppClose, Drain
  <2>3. \A b \in Apps : ln'[b] # "none" <=> ln[b] # "none"
    BY <2>2 DEF OwnerInv, ConnType
  <2> QED
    BY <2>1, <2>3, LnMoves
<1>6. CASE CloseRuntime
  <2>1. UNCHANGED <<app, found, listener>>
    BY <1>6 DEF CloseRuntime, appVars
  <2>2. \/ ln' = ln
        \/ \E a : ln[a] = "open" /\ ln' = [ln EXCEPT ![a] = "draining"]
    BY <1>6 DEF CloseRuntime
  <2>3. \A b \in Apps : ln'[b] # "none" <=> ln[b] # "none"
    BY <2>2 DEF OwnerInv, ConnType
  <2> QED
    BY <2>1, <2>3, LnMoves
<1>7. CASE ListenerClosed
  <2>1. UNCHANGED <<app, found, ln>> /\ \E r : listener' = [listener EXCEPT ![r] = NoID]
    BY <1>7 DEF ListenerClosed, appVars, lnVars
  <2>2. \A s \in Runtimes : listener'[s] # NoID => listener'[s] = listener[s]
    BY <2>1 DEF OwnerInv, ConnType
  <2> QED
    BY <2>1, <2>2 DEF AppInv
<1>8. ASSUME NEW c \in Conns, BadStart(c) \/ ConnStep(c) \/ \E e \in EndpointIDs : HandleWorkConn(c, e)
      PROVE  AppInv'
  <2>1. UNCHANGED <<ln, listener, appVars>>
    BY <1>8 DEF BadStart, ConnStep, InWorkConn, ToBridge, Dial, Served, OfferCheck, OfferNow, OfferWait,
       HandleWorkConn, ConnStays
  <2> QED
    BY <1>0, <2>1
<1> QED
  BY <1>1, <1>2, <1>3, <1>4, <1>5, <1>6, <1>7, <1>8 DEF Next, ReaderStep, ListenStep

\* There is no Listen call and no listener at first.
LEMMA InitApp == Init => AppInv /\ ClosingIsDrained
<1> SUFFICES ASSUME Init PROVE AppInv /\ ClosingIsDrained
  OBVIOUS
<1>1. app \in [Apps -> AppStates] /\ \A a \in Apps : app[a] \in {"idle", "refused"} /\ ln[a] = "none"
  BY DEF Init, AppStates
<1>2. found \in [Apps -> (EndpointIDs \cup {NoID}) \X (0..MaxMsgs)]
  BY EndpointsAssumption DEF Init
<1>3. \A r \in Runtimes : listener[r] = NoID
  BY DEF Init
<1>4. reader.op = "idle"
  BY DEF Init, Idle
<1> QED
  BY <1>1, <1>2, <1>3, <1>4 DEF AppInv, HasListener, ClosingIsDrained

\* Every step leaves the reader waiting for a listener that is being drained.
LEMMA NextClosing ==
  MgrInv /\ OwnerInv /\ AppInv /\ ClosingIsDrained /\ [Next]_vars => ClosingIsDrained'
<1> SUFFICES ASSUME MgrInv, OwnerInv, AppInv, ClosingIsDrained, [Next]_vars PROVE ClosingIsDrained'
  OBVIOUS
<1>0. ASSUME UNCHANGED <<reader, byID>>,
             \A r \in Runtimes : listener[r] # NoID => listener'[r] = listener[r],
             \A b \in Apps : ln[b] \in {"draining", "closed"} => ln'[b] \in {"draining", "closed"}
      PROVE  ClosingIsDrained'
  <2> SUFFICES ASSUME reader.op = "closing"
               PROVE  listener'[byID[reader.id]] \in Apps
                      /\ ln'[listener'[byID[reader.id]]] \in {"draining", "closed"}
    BY <1>0 DEF ClosingIsDrained
  <2>1. reader.id \in EndpointIDs /\ Installed(reader.id)
    BY DEF MgrInv, Locked
  <2>2. byID[reader.id] \in Runtimes
    BY <2>1, RuntimeOf
  <2>3. listener[byID[reader.id]] \in Apps
    BY DEF ClosingIsDrained
  <2> QED
    BY <1>0, <2>2, <2>3, EndpointsAssumption DEF ClosingIsDrained
<1>1. CASE \/ \E e \in EndpointIDs : Unregister(e) \/ \E p \in Payloads : Upsert(e, p)
           \/ SyncExec \/ Remove \/ Signal \/ ListenerClosed
  <2>1. reader'.op # "closing"
    BY <1>1 DEF Unregister, Upsert, SyncExec, Remove, Signal, ListenerClosed, Idle, MgrInv
  <2> QED
    BY <2>1 DEF ClosingIsDrained
<1>2. CASE CloseRuntime
  <2> SUFFICES ASSUME reader'.op = "closing"
               PROVE  listener'[byID'[reader'.id]] \in Apps
                      /\ ln'[listener'[byID'[reader'.id]]] \in {"draining", "closed"}
    BY DEF ClosingIsDrained
  <2>0. PICK r : r = byID[reader.id]
    OBVIOUS
  <2>1. UNCHANGED <<byID, listener>>
    BY <1>2 DEF CloseRuntime
  <2>2. /\ listener[r] # NoID /\ reader'.id = reader.id
        /\ ln' = IF ln[listener[r]] = "open" THEN [ln EXCEPT ![listener[r]] = "draining"] ELSE ln
    BY <1>2, <2>0 DEF CloseRuntime, MgrInv
  <2>3. r \in Runtimes
    BY <1>2, <2>0, RuntimeOf DEF CloseRuntime, MgrInv, Locked
  <2>4. listener[r] \in Apps /\ ln[listener[r]] \in {"open", "draining", "closed"}
    BY <2>2, <2>3 DEF OwnerInv, ConnType, AppInv
  <2>5. ln'[listener[r]] \in {"draining", "closed"}
    BY <2>2, <2>4 DEF OwnerInv, ConnType
  <2> QED
    BY <2>0, <2>1, <2>2, <2>4, <2>5
<1>3. ASSUME NEW a \in Apps, ClaimListener(a) PROVE ClosingIsDrained'
  <2>0. PICK r : r = found[a][2]
    OBVIOUS
  <2>1. r \in Runtimes /\ ln[a] = "none" /\ UNCHANGED <<reader, byID>>
    BY <1>3, <2>0 DEF ClaimListener, AppInv, HasListener, AppStays, mgrVars
  <2>2. \/ UNCHANGED <<listener, ln>>
        \/ /\ listener[r] = NoID /\ listener' = [listener EXCEPT ![r] = a]
           /\ ln' = [ln EXCEPT ![a] = "open"]
    BY <1>3, <2>0 DEF ClaimListener
  <2>3. \A s \in Runtimes : listener[s] # NoID => listener'[s] = listener[s]
    BY <2>1, <2>2 DEF OwnerInv, ConnType
  <2>4. \A b \in Apps : ln[b] \in {"draining", "closed"} => ln'[b] \in {"draining", "closed"}
    BY <2>1, <2>2 DEF OwnerInv, ConnType
  <2> QED
    BY <1>0, <2>1, <2>3, <2>4
<1>4. ASSUME NEW a \in Apps, AppClose(a) \/ Drain(a) PROVE ClosingIsDrained'
  <2>1. UNCHANGED <<reader, byID, listener>>
    BY <1>4 DEF AppClose, Drain, AppStays, mgrVars
  <2>2. ln' = ln \/ \E x \in {"draining", "closed"} : ln' = [ln EXCEPT ![a] = x]
    BY <1>4 DEF AppClose, Drain
  <2>3. \A b \in Apps : ln[b] \in {"draining", "closed"} => ln'[b] \in {"draining", "closed"}
    BY <2>2 DEF OwnerInv, ConnType
  <2> QED
    BY <1>0, <2>1, <2>3
<1>5. ASSUME NEW a \in Apps, \/ LookUp(a) \/ ClaimGet(a) \/ WaitOver(a) \/ ListenCancelled(a)
                             \/ Accept(a) \/ AcceptClosed(a)
      PROVE  ClosingIsDrained'
  <2>1. UNCHANGED <<reader, byID, listener, ln>>
    BY <1>5 DEF LookUp, ClaimGet, WaitOver, ListenCancelled, Accept, AcceptClosed, AppStays, mgrVars, lnVars
  <2> QED
    BY <1>0, <2>1
<1>6. ASSUME NEW c \in Conns, BadStart(c) \/ ConnStep(c) \/ \E e \in EndpointIDs : HandleWorkConn(c, e)
      PROVE  ClosingIsDrained'
  <2>1. UNCHANGED <<reader, byID, listener, ln>>
    BY <1>6 DEF BadStart, ConnStep, InWorkConn, ToBridge, Dial, Served, OfferCheck, OfferNow, OfferWait,
       HandleWorkConn, ConnStays, mgrVars
  <2> QED
    BY <1>0, <2>1
<1>7. CASE HookStep \/ LoginSnapshot \/ UNCHANGED vars
  <2>1. UNCHANGED <<reader, byID, listener, ln>>
    BY <1>7 DEF HookStep, Watch, WatcherSnapshot, WatcherEmits, LoginEmits, LoginSnapshot, HookStays, vars,
       mgrVars, lnVars
  <2> QED
    BY <1>0, <2>1
<1> QED
  BY <1>1, <1>2, <1>3, <1>4, <1>5, <1>6, <1>7 DEF Next, ReaderStep, ListenStep

\* The invariant of the Listen calls and their listeners.
THEOREM ListenInvariant == Spec => [](AppInv /\ ClosingIsDrained)
<1>1. ExecInv => MgrInv
  BY DEF ExecInv
<1> QED
  BY <1>1, InitApp, NextApp, NextClosing, OwnerInvariant, ExecInvariant, PTL DEF Spec

\* A listener belongs to one runtime, and a reader that waits in Runtime.Close
\* under m.mu waits for a Close that drains or has returned (ClaimListener,
\* Runtime.Close, chanListener.Close).
THEOREM RemovalNotStuck == Spec => [](ListenerOfOne /\ ClosingIsDrained)
<1>1. AppInv => ListenerOfOne
  BY DEF AppInv, ListenerOfOne
<1> QED
  BY <1>1, ListenInvariant, PTL

-----------------------------------------------------------------------------
(* Types.                                                                  *)

\* What a connection was routed to, and what the hook was shown.
HookType ==
  /\ \A c \in Conns : at[c][1] \in 0..MaxMsgs
  /\ watcher \in {"start", "wait", "snap", "call", "unhooked"} /\ login \in {"idle", "call"}
  /\ logins \in 0..MaxLogins /\ snap \in [{"watcher", "login"} -> Views] /\ shown \in Views

FlagType == notify \in BOOLEAN /\ excused \in BOOLEAN

\* A snapshot holds a payload for each installed endpoint.
LEMMA ViewType == MgrInv => View \in Views
<1> SUFFICES ASSUME MgrInv PROVE View \in Views
  OBVIOUS
<1>1. PICK E : E = {x \in EndpointIDs : byID[x] # 0}
  OBVIOUS
<1>2. \A e \in E : cfg[byID[e]] \in Payloads
  BY <1>1, RuntimeOf DEF Installed, MgrInv
<1>3. View = [e \in E |-> cfg[byID[e]]]
  BY <1>1 DEF View
<1>4. View \in [E -> Payloads] /\ E \in SUBSET EndpointIDs
  BY <1>1, <1>2, <1>3
<1> QED
  BY <1>4 DEF Views

\* Every step keeps them.
LEMMA NextHook == MgrInv /\ OwnerInv /\ HookType /\ [Next]_vars => HookType'
<1> SUFFICES ASSUME MgrInv, OwnerInv, HookType, [Next]_vars PROVE HookType'
  OBVIOUS
<1>0. ASSUME UNCHANGED hookVars, \A c \in Conns : at'[c][1] \in 0..MaxMsgs PROVE HookType'
  BY <1>0 DEF HookType, hookVars
<1>1. ASSUME UNCHANGED hookVars, at' = at PROVE HookType'
  BY <1>0, <1>1 DEF HookType
<1>2. ASSUME NEW c \in Conns, NEW y, y[1] \in 0..MaxMsgs, at' = [at EXCEPT ![c] = y], UNCHANGED hookVars
      PROVE  HookType'
  <2>1. \A d \in Conns : at'[d] = (IF d = c THEN y ELSE at[d])
    BY <1>2 DEF OwnerInv, ConnType
  <2> QED
    BY <1>0, <1>2, <2>1 DEF HookType
<1>3. Nowhere[1] \in 0..MaxMsgs
  BY EndpointsAssumption DEF Nowhere
<1>4. ASSUME NEW c \in Conns, NEW x, Goes(c, x), UNCHANGED hookVars PROVE HookType'
  BY <1>1, <1>2, <1>3, <1>4 DEF Goes
<1>5. ASSUME NEW c \in Conns, BadStart(c) \/ ConnStep(c) PROVE HookType'
  <2>1. UNCHANGED hookVars
    BY <1>5 DEF BadStart, ConnStep, InWorkConn, ToBridge, Dial, Served, OfferCheck, OfferNow, OfferWait, ConnStays
  <2>2. ASSUME NEW r, r = at[c][1], at' = [at EXCEPT ![c] = <<r, listener[r]>>] PROVE HookType'
    <3>1. <<r, listener[r]>>[1] \in 0..MaxMsgs
      BY <2>2 DEF HookType
    <3> QED
      BY <1>2, <2>1, <2>2, <3>1
  <2>3. CASE InWorkConn(c)
    BY <1>4, <2>1, <2>2, <2>3 DEF InWorkConn
  <2>4. CASE BadStart(c) \/ ToBridge(c) \/ Dial(c) \/ Served(c) \/ OfferCheck(c)
    BY <1>4, <2>1, <2>4 DEF BadStart, ToBridge, Dial, Served, OfferCheck
  <2>5. CASE OfferNow(c) \/ OfferWait(c)
    BY <1>4, <2>1, <2>5 DEF OfferNow, OfferWait, Enqueue, Refuse
  <2> QED
    BY <1>5, <2>3, <2>4, <2>5 DEF ConnStep
<1>6. ASSUME NEW c \in Conns, NEW e \in EndpointIDs, HandleWorkConn(c, e) PROVE HookType'
  <2>1. <<byID[e], NoID>>[1] \in 0..MaxMsgs
    BY RuntimeOf
  <2>2. at' = [at EXCEPT ![c] = <<byID[e], NoID>>] /\ UNCHANGED hookVars
    BY <1>6 DEF HandleWorkConn, ConnStays
  <2> QED
    BY <1>2, <2>1, <2>2
<1>7. ASSUME NEW a \in Apps, Accept(a) \/ Drain(a) PROVE HookType'
  <2>1. UNCHANGED hookVars
    BY <1>7 DEF Accept, Drain
  <2>2. CASE buf[a] = <<>>
    <3>1. at' = at
      BY <1>7, <2>2 DEF Accept, Drain, connVars
    <3> QED
      BY <1>1, <2>1, <3>1
  <2>3. CASE buf[a] # <<>>
    <3>1. Head(buf[a]) \in Conns
      BY <2>3 DEF OwnerInv, ConnType
    <3>2. at' = [at EXCEPT ![Head(buf[a])] = Nowhere]
      BY <1>7, <2>3 DEF Accept, Drain, Goes
    <3> QED
      BY <1>2, <1>3, <2>1, <3>1, <3>2
  <2> QED
    BY <2>2, <2>3
<1>8. CASE \/ \E e \in EndpointIDs : Unregister(e) \/ \E p \in Payloads : Upsert(e, p)
           \/ ReaderStep \/ UNCHANGED vars
           \/ \E a \in Apps : ListenStep(a) \/ ListenCancelled(a) \/ AcceptClosed(a) \/ AppClose(a)
  <2>1. UNCHANGED <<connVars, hookVars>>
    BY <1>8 DEF Unregister, Upsert, ReaderStep, SyncExec, CloseRuntime, ListenerClosed, Remove, Signal, vars,
       ListenStep, LookUp, ClaimGet, ClaimListener, WaitOver, ListenCancelled, AcceptClosed, AppClose, AppStays
  <2> QED
    BY <1>1, <2>1 DEF connVars
<1>9. CASE HookStep \/ LoginSnapshot
  <2>1. at' = at
    BY <1>9 DEF HookStep, Watch, WatcherSnapshot, WatcherEmits, LoginEmits, LoginSnapshot, HookStays, connVars
  <2>2. PICK v \in Views : v = View
    BY ViewType
  <2>3. CASE Watch
    BY <2>1, <2>3 DEF Watch, HookType
  <2>4. CASE WatcherSnapshot
    BY <2>1, <2>2, <2>4 DEF WatcherSnapshot, HookType
  <2>5. CASE WatcherEmits \/ LoginEmits
    BY <2>1, <2>5 DEF WatcherEmits, LoginEmits, HookType
  <2>6. CASE LoginSnapshot
    BY <2>1, <2>2, <2>6, EndpointsAssumption DEF LoginSnapshot, HookType
  <2> QED
    BY <1>9, <2>3, <2>4, <2>5, <2>6 DEF HookStep
<1> QED
  BY <1>5, <1>6, <1>7, <1>8, <1>9 DEF Next

\* The token of the manager, and the excuse of the hook.
LEMMA NextFlags == FlagType /\ [Next]_vars => FlagType'
<1> SUFFICES ASSUME FlagType, [Next]_vars PROVE FlagType'
  OBVIOUS
<1>0. ASSUME UNCHANGED <<notify, excused>> PROVE FlagType'
  BY <1>0 DEF FlagType
<1>1. ASSUME NEW e \in EndpointIDs, Unregister(e) \/ \E p \in Payloads : Upsert(e, p) PROVE FlagType'
  BY <1>0, <1>1 DEF Unregister, Upsert
<1>2. CASE SyncExec \/ CloseRuntime \/ ListenerClosed \/ Remove
  BY <1>0, <1>2 DEF SyncExec, CloseRuntime, ListenerClosed, Remove
<1>3. CASE Signal
  BY <1>3 DEF Signal, FlagType
<1>4. ASSUME NEW a \in Apps, \/ LookUp(a) \/ ClaimGet(a) \/ ClaimListener(a) \/ ListenCancelled(a)
                             \/ Accept(a) \/ AcceptClosed(a) \/ AppClose(a) \/ Drain(a)
      PROVE FlagType'
  BY <1>0, <1>4 DEF LookUp, ClaimGet, ClaimListener, ListenCancelled, Accept, AcceptClosed, AppClose, Drain
<1>5. ASSUME NEW a \in Apps, WaitOver(a) PROVE FlagType'
  BY <1>0, <1>5, Zenon DEF WaitOver, FlagType, Hooked
<1>6. ASSUME NEW c \in Conns, BadStart(c) \/ ConnStep(c) \/ \E e \in EndpointIDs : HandleWorkConn(c, e)
      PROVE  FlagType'
  BY <1>0, <1>6 DEF BadStart, ConnStep, InWorkConn, ToBridge, Dial, Served, OfferCheck, OfferNow, OfferWait,
     HandleWorkConn, ConnStays
<1>7. CASE Watch
  BY <1>7, Zenon DEF Watch, FlagType
<1>8. CASE WatcherSnapshot \/ LoginSnapshot \/ UNCHANGED vars
  BY <1>0, <1>8 DEF WatcherSnapshot, LoginSnapshot, vars
<1>9. CASE WatcherEmits \/ LoginEmits
  <2>1. excused' \in BOOLEAN
    BY <1>9, Zenon DEF WatcherEmits, LoginEmits
  <2>2. notify' = notify
    BY <1>9 DEF WatcherEmits, LoginEmits
  <2> QED
    BY <2>1, <2>2, Zenon DEF FlagType
<1> QED
  BY <1>1, <1>2, <1>3, <1>4, <1>5, <1>6, <1>7, <1>8, <1>9 DEF Next, ReaderStep, ListenStep, HookStep

\* Nothing was shown at first.
LEMMA InitHook == Init => HookType /\ FlagType
<1> SUFFICES ASSUME Init PROVE HookType /\ FlagType
  OBVIOUS
<1>1. NoView \in [{} -> Payloads]
  BY DEF NoView
<1>2. NoView \in Views
  BY <1>1 DEF Views
<1>3. \A c \in Conns : at[c][1] = 0
  BY DEF Init, Nowhere
<1>4. HookType
  BY <1>2, <1>3, EndpointsAssumption DEF Init, HookType
<1>5. FlagType
  BY DEF Init, FlagType
<1> QED
  BY <1>4, <1>5

\* Every variable keeps its type: a runtime has a number, a buffer is never
\* longer than its capacity (Manager, Runtime, chanListener, watchEndpoints).
THEOREM EndpointsTypeCorrect == Spec => []TypeOK
<1>1. ExecInv /\ OwnerInv /\ AppInv /\ HookType /\ FlagType => TypeOK
  <2> SUFFICES ASSUME ExecInv, OwnerInv, AppInv, HookType, FlagType PROVE TypeOK
    OBVIOUS
  <2>1. byID \in [EndpointIDs -> 0..MaxMsgs] /\ made \in 0..MaxMsgs /\ msgs \in 0..MaxMsgs
    <3>1. \A e \in EndpointIDs : byID[e] \in 0..MaxMsgs
      BY RuntimeOf DEF ExecInv
    <3> QED
      BY <3>1, EndpointsAssumption DEF ExecInv, MgrInv
  <2>2. bridge \in SUBSET Runtimes /\ pool \in SUBSET EndpointIDs
    BY RuntimeOf DEF ExecInv, PoolInv
  <2>3. at \in [Conns -> (0..MaxMsgs) \X (Apps \cup {NoID})]
    <3>1. \A c \in Conns : at[c] \in (0..MaxMsgs) \X (Apps \cup {NoID})
      BY DEF OwnerInv, ConnType, HookType
    <3> QED
      BY <3>1 DEF OwnerInv, ConnType
  <2>4. conn \in [Conns -> {"reading", "got", "exec", "forward", "bridged", "joined", "offer",
                            "offering", "pending", "retained", "late", "accepted", "closed"}]
    BY DEF OwnerInv, ConnType, ConnStates, ToListener, Buffered
  <2>5. notify \in BOOLEAN /\ excused \in BOOLEAN
    BY DEF FlagType
  <2>6. reader \in [op : {"idle", "sync", "unregistered", "closing", "remove", "signal"},
                    id : EndpointIDs \cup {NoID}] /\ cfg \in [Runtimes -> Payloads]
    BY DEF ExecInv, MgrInv, ReaderOps
  <2>7. /\ listener \in [Runtimes -> Apps \cup {NoID}]
        /\ ln \in [Apps -> {"none", "open", "draining", "closed"}]
        /\ buf \in [Apps -> Seq(Conns)] /\ \A a \in Apps : Len(buf[a]) <= AcceptBuffer
    BY DEF OwnerInv, ConnType
  <2>8. /\ app \in [Apps -> {"idle", "look", "claim", "got", "wait", "listening", "refused", "ended"}]
        /\ found \in [Apps -> (EndpointIDs \cup {NoID}) \X (0..MaxMsgs)]
    BY DEF AppInv, AppStates
  <2> QED
    BY <2>1, <2>2, <2>3, <2>4, <2>5, <2>6, <2>7, <2>8, Zenon DEF HookType, TypeOK
<1>2. ExecInv => MgrInv
  BY DEF ExecInv
<1> QED
  BY <1>1, <1>2, InitHook, NextHook, NextFlags, OwnerInvariant, ExecInvariant, ListenInvariant, PTL DEF Spec
-----------------------------------------------------------------------------
(* The OnEndpoints hook.                                                   *)

\* A token is there for the watcher, or the reader is still to signal.
Announced == reader.op # "idle" \/ notify

\* What the hook was shown, or is about to be, is out of date only while the
\* watcher has a token to come.
SignalInv ==
  ~excused =>
    /\ watcher = "wait" /\ shown # View => Announced
    /\ watcher = "call" /\ snap["watcher"] # View => Announced

\* A change the hook has not been shown is announced, or the watcher is on its
\* way to show it (Manager.signal, watchEndpoints).
NoChangeLost ==
  Hooked /\ ~excused /\ shown # View =>
    \/ Announced
    \/ watcher \in {"start", "snap"}
    \/ watcher = "call" /\ snap["watcher"] = View

\* The reader announces what it changes, after it has changed it.
LEMMA ReaderAnnounces ==
  ASSUME MgrInv, SignalInv,
         ReaderStep \/ \E e \in EndpointIDs : Unregister(e) \/ \E p \in Payloads : Upsert(e, p)
  PROVE  SignalInv'
<1>1. Announced'
  <2>1. CASE Signal
    BY <2>1 DEF Signal, Announced
  <2>2. CASE SyncExec \/ CloseRuntime \/ ListenerClosed \/ Remove
    <3>1. PICK x \in {"signal", "closing", "remove"} : reader' = [reader EXCEPT !.op = x]
      BY <2>2 DEF SyncExec, CloseRuntime, ListenerClosed, Remove
    <3> QED
      BY <3>1 DEF MgrInv, Announced
  <2>3. CASE \E e \in EndpointIDs : Unregister(e) \/ \E p \in Payloads : Upsert(e, p)
    <3>1. PICK x \in {"signal", "unregistered", "sync"}, e \in EndpointIDs : reader' = [op |-> x, id |-> e]
      BY <2>3 DEF Unregister, Upsert
    <3> QED
      BY <3>1 DEF Announced
  <2> QED
    BY <2>1, <2>2, <2>3 DEF ReaderStep
<1> QED
  BY <1>1 DEF SignalInv

\* Nobody but the watcher takes a token without an excuse.
LEMMA OthersAnnounce ==
  ASSUME SignalInv, FlagType,
         \/ UNCHANGED vars
         \/ \E a \in Apps : \/ ListenStep(a) \/ ListenCancelled(a)
                            \/ Accept(a) \/ AcceptClosed(a) \/ AppClose(a) \/ Drain(a)
         \/ \E c \in Conns : \/ BadStart(c) \/ ConnStep(c)
                             \/ \E e \in EndpointIDs : HandleWorkConn(c, e)
  PROVE  SignalInv'
<1>1. UNCHANGED <<mgrVars, rtVars, hookVars>>
  BY DEF vars, ListenStep, LookUp, ClaimGet, ClaimListener, WaitOver, ListenCancelled, Accept, AcceptClosed,
     AppClose, Drain, AppStays, BadStart, ConnStep, InWorkConn, ToBridge, Dial, Served, OfferCheck, OfferNow,
     OfferWait, HandleWorkConn, ConnStays
<1>2. View' = View /\ reader' = reader /\ watcher' = watcher /\ snap' = snap /\ shown' = shown
  BY <1>1 DEF View, mgrVars, rtVars, hookVars
<1>3. (notify' = notify /\ excused' = excused) \/ excused' = Hooked
  BY DEF vars, ListenStep, LookUp, ClaimGet, ClaimListener, WaitOver, ListenCancelled, Accept, AcceptClosed,
     AppClose, Drain, AppStays, BadStart, ConnStep, InWorkConn, ToBridge, Dial, Served, OfferCheck, OfferNow,
     OfferWait, HandleWorkConn, ConnStays
<1>4. CASE notify' = notify /\ excused' = excused
  BY <1>2, <1>4 DEF SignalInv, Announced
<1>5. CASE excused' = Hooked
  BY <1>2, <1>5 DEF SignalInv, Hooked
<1> QED
  BY <1>3, <1>4, <1>5

\* The watcher looks after it took the token; login excuses an old snapshot.
LEMMA HookAnnounces ==
  ASSUME SignalInv, HookType, HookStep \/ LoginSnapshot
  PROVE  SignalInv'
<1>1. View' = View /\ reader' = reader
  BY DEF HookStep, Watch, WatcherSnapshot, WatcherEmits, LoginEmits, LoginSnapshot, HookStays, mgrVars,
     rtVars, View
<1>2. PICK v : v = View /\ v = View'
  BY <1>1
<1>3. CASE Watch
  <2>1. watcher' \in {"snap", "unhooked"}
    BY <1>3 DEF Watch
  <2> QED
    BY <2>1 DEF SignalInv
<1>4. CASE WatcherSnapshot
  <2>1. watcher' = "call" /\ snap'["watcher"] = v
    BY <1>2, <1>4 DEF WatcherSnapshot, HookType
  <2> QED
    BY <1>2, <2>1 DEF SignalInv
<1>5. CASE WatcherEmits
  <2>1. /\ watcher = "call" /\ watcher' = "wait" /\ shown' = snap["watcher"]
        /\ notify' = notify /\ (excused' <=> (excused /\ snap["watcher"] # v))
    BY <1>2, <1>5 DEF WatcherEmits
  <2> QED
    BY <1>1, <1>2, <2>1 DEF SignalInv, Announced
<1>6. CASE LoginSnapshot
  <2>1. snap'["watcher"] = snap["watcher"]
    BY <1>6 DEF LoginSnapshot, HookType
  <2>2. watcher' = watcher /\ shown' = shown /\ notify' = notify /\ excused' = excused
    BY <1>6 DEF LoginSnapshot
  <2> QED
    BY <1>1, <1>2, <2>1, <2>2 DEF SignalInv, Announced
<1>7. CASE LoginEmits
  <2>1. /\ snap' = snap /\ watcher' = watcher /\ shown' = snap["login"] /\ notify' = notify
        /\ excused' <=> (excused \/ snap["login"] # v)
    BY <1>2, <1>7 DEF LoginEmits
  <2> QED
    BY <1>1, <1>2, <2>1 DEF SignalInv, Announced
<1> QED
  BY <1>3, <1>4, <1>5, <1>6, <1>7 DEF HookStep

\* No coalesced signal loses a change of the endpoints: unless a Listen took
\* the token or a login showed an old snapshot since the watcher last showed
\* all there was, what OnEndpoints has not been shown is announced or about to
\* be shown (Manager.signal, watchEndpoints).
THEOREM ChangesAnnounced == Spec => []NoChangeLost
<1>1. Init => SignalInv
  BY DEF Init, SignalInv
<1>2. MgrInv /\ HookType /\ FlagType /\ SignalInv /\ [Next]_vars => SignalInv'
  BY ReaderAnnounces, OthersAnnounce, HookAnnounces DEF Next
<1>3. HookType /\ SignalInv => NoChangeLost
  BY DEF HookType, SignalInv, NoChangeLost, Hooked
<1>4. ExecInv => MgrInv
  BY DEF ExecInv
<1> QED
  BY <1>1, <1>2, <1>3, <1>4, InitHook, NextHook, NextFlags, OwnerInvariant, ExecInvariant, PTL DEF Spec
=============================================================================
