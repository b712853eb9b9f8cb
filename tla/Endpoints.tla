------------------------------ MODULE Endpoints ------------------------------
(***************************************************************************)
(* The endpoint manager, its runtimes and their in-process listeners       *)
(* (internal/endpoint), with the goroutines that meet in them: the reader  *)
(* of the control connection, which handles NewEndpoint and CloseEndpoint; *)
(* one goroutine per work connection; the applications that call           *)
(* Service.Listen and Accept; and the two that call the OnEndpoints hook,  *)
(* watchEndpoints and login (service).                                     *)
(*                                                                         *)
(* m.mu is held while the reader is in one of the steps of Locked, rt.mu   *)
(* is held across steps only while Runtime.Close waits for its listener.   *)
(* A listener is named by the Listen call that made it. A runtime is       *)
(* numbered when it is made. A configuration is the payload it came with.  *)
(***************************************************************************)
EXTENDS Integers, Sequences

CONSTANTS
  EndpointIDs,  \* ids the edge uses
  Payloads,     \* the local service payloads it sends
  Conns,        \* work connections it opens
  Apps,         \* Listen calls of the application
  WantID,       \* WithEndpointID of each of them, or NoID
  NoID,
  AcceptBuffer, \* listenAcceptBuffer
  Setups,       \* the situations to look at: whether the application set
                \* OnEndpoints, the connections and Listen calls that take
                \* part, and how many of the control messages come
  MaxMsgs,      \* bound: control messages handled
  MaxLogins     \* bound: reconnects, each with a snapshot of its own

PayloadType == [delivery : {"", "exec", "in_process", "forward"},
                command : BOOLEAN, localAddr : BOOLEAN]

ASSUME EndpointsAssumption ==
  /\ Payloads \subseteq PayloadType /\ Payloads # {}
  /\ NoID \notin EndpointIDs \cup Apps /\ WantID \in [Apps -> EndpointIDs \cup {NoID}]
  /\ Setups \subseteq [hooked : BOOLEAN, conns : SUBSET Conns, apps : SUBSET Apps, msgs : 0..MaxMsgs]
  /\ AcceptBuffer \in Nat \ {0} /\ MaxMsgs \in Nat /\ MaxLogins \in Nat

Runtimes == 1..MaxMsgs

VARIABLES
  \* Manager
  byID,      \* the runtime of each endpoint; 0 is none
  made,      \* runtimes made so far
  notify,    \* the token in Manager.notify
  pool,      \* endpoints registered with the exec pool
  reader,    \* what the control reader is doing
  msgs,      \* control messages handled
  \* Runtime
  cfg,       \* its payload
  listener,  \* rt.listener; NoID is nil
  bridge,    \* runtimes with rt.bridge set
  \* chanListener
  ln, buf,
  \* Listen
  app, found,
  \* work connections
  conn, at,
  \* the OnEndpoints hook
  watcher, login, logins,
  snap,      \* the snapshot each of its two callers holds
  shown,     \* what the hook was last called with
  excused    \* since the watcher last showed all there was, a Listen took
             \* the token or login showed an old snapshot

mgrVars  == <<byID, made, pool, reader, msgs>>
rtVars   == <<cfg, bridge>>
lnVars   == <<ln, buf>>
appVars  == <<app, found>>
connVars == <<conn, at>>
hookVars == <<watcher, login, logins, snap, shown>>
vars == <<mgrVars, notify, rtVars, listener, lnVars, appVars, connVars, hookVars, excused>>

Idle == [op |-> "idle", id |-> NoID]

-----------------------------------------------------------------------------
(* Configurations. *)

\* An explicit delivery first, then a command, then an address.
ResolveDelivery(p) ==
  CASE p.delivery # "" -> p.delivery
    [] p.delivery = "" /\ p.command -> "exec"
    [] p.delivery = "" /\ ~p.command /\ p.localAddr -> "forward"
    [] OTHER -> "in_process"

Delivery(r) == ResolveDelivery(cfg[r])

\* ParseExecPayload wants a command.
ParsesExec(p) == p.command

\* What Manager.Snapshot copies.
View == [e \in {x \in EndpointIDs : byID[x] # 0} |-> cfg[byID[e]]]

NoView == [e \in {} |-> {}]

\* The steps in which the reader holds m.mu.
Locked == reader.op \in {"sync", "unregistered", "closing", "remove"}

\* rt.mu is held for writing over Runtime.Close.
RtLocked(r) == reader.op = "closing" /\ byID[reader.id] = r

Installed(e) == byID[e] # 0

Nowhere == <<0, NoID>>

\* A work connection moves on; at is what its goroutine holds.
Goes(c, where) ==
  /\ conn' = [conn EXCEPT ![c] = where]
  /\ at' = IF where = "closed" THEN [at EXCEPT ![c] = Nowhere] ELSE at

\* The application set OnEndpoints.
Hooked == watcher # "unhooked"

Init ==
  /\ \E s \in Setups :
       /\ watcher = IF s.hooked THEN "start" ELSE "unhooked"
       /\ conn = [c \in Conns |-> IF c \in s.conns THEN "reading" ELSE "closed"]
       /\ app = [a \in Apps |-> IF a \in s.apps THEN "idle" ELSE "refused"]
       /\ msgs = MaxMsgs - s.msgs
  /\ byID = [e \in EndpointIDs |-> 0] /\ made = 0 /\ notify = FALSE
  /\ pool = {} /\ reader = Idle
  /\ cfg = [r \in Runtimes |-> CHOOSE p \in Payloads : TRUE]
  /\ listener = [r \in Runtimes |-> NoID] /\ bridge = {}
  /\ ln = [a \in Apps |-> "none"] /\ buf = [a \in Apps |-> <<>>]
  /\ found = [a \in Apps |-> <<NoID, 0>>]
  /\ at = [c \in Conns |-> Nowhere]
  /\ login = "idle" /\ logins = 0
  /\ snap = [g \in {"watcher", "login"} |-> NoView]
  /\ shown = NoView /\ excused = FALSE

-----------------------------------------------------------------------------
(* The control reader: HandleNewEndpoint and HandleCloseEndpoint. *)

\* upsert up to the unlock of rt.mu: a known endpoint keeps its runtime and
\* its listener, whatever the new delivery is.
Upsert(e, p) ==
  /\ reader = Idle /\ msgs < MaxMsgs
  /\ msgs' = msgs + 1
  /\ IF Installed(e)
     THEN /\ cfg' = [cfg EXCEPT ![byID[e]] = p]
          /\ UNCHANGED <<byID, made>>
     ELSE /\ made' = made + 1
          /\ byID' = [byID EXCEPT ![e] = made + 1]
          /\ cfg' = [cfg EXCEPT ![made + 1] = p]
  /\ reader' = [op |-> "sync", id |-> e]
  /\ UNCHANGED <<pool, bridge, notify, listener, lnVars, appVars, connVars, hookVars, excused>>

\* Fault: an endpoint that is no longer exec stays registered.
SyncExecKeepsPool ==
  /\ reader.op = "sync"
  /\ LET e == reader.id
         r == byID[e]
     IN  IF Delivery(r) = "exec" /\ ParsesExec(cfg[r])
         THEN pool' = pool \cup {e} /\ bridge' = bridge \cup {r}
         ELSE pool' = pool /\ bridge' = bridge \ {r}
  /\ reader' = [reader EXCEPT !.op = "signal"]
  /\ UNCHANGED <<byID, made, msgs, cfg, notify, listener, lnVars, appVars, connVars, hookVars, excused>>

\* syncExecLocked, and the return from upsert.
SyncExec ==
  /\ reader.op = "sync"
  /\ LET e == reader.id
         r == byID[e]
     IN  IF Delivery(r) = "exec" /\ ParsesExec(cfg[r])
         THEN pool' = pool \cup {e} /\ bridge' = bridge \cup {r}
         ELSE pool' = pool \ {e} /\ bridge' = bridge \ {r}
  /\ reader' = [reader EXCEPT !.op = "signal"]
  /\ UNCHANGED <<byID, made, msgs, cfg, notify, listener, lnVars, appVars, connVars, hookVars, excused>>

\* CloseEndpoint, or NewEndpoint with an Error: delete up to SetBridge(nil).
Unregister(e) ==
  /\ reader = Idle /\ msgs < MaxMsgs
  /\ msgs' = msgs + 1
  /\ pool' = pool \ {e}
  /\ bridge' = bridge \ {byID[e]}
  /\ reader' = [op |-> IF Installed(e) THEN "unregistered" ELSE "signal", id |-> e]
  /\ UNCHANGED <<byID, made, cfg, notify, listener, lnVars, appVars, connVars, hookVars, excused>>

\* Runtime.Close: no listener, one that is open, or one that the application
\* closed before; closeOnce waits for a Close that is draining.
CloseRuntime ==
  /\ reader.op = "unregistered"
  /\ LET r == byID[reader.id]
         a == listener[r]
     IN  IF a = NoID
         THEN reader' = [reader EXCEPT !.op = "remove"] /\ ln' = ln
         ELSE /\ reader' = [reader EXCEPT !.op = "closing"]
              /\ ln' = IF ln[a] = "open" THEN [ln EXCEPT ![a] = "draining"] ELSE ln
  /\ UNCHANGED <<byID, made, pool, msgs, rtVars, notify, listener, buf, appVars, connVars, hookVars, excused>>

ListenerClosed ==
  /\ reader.op = "closing"
  /\ LET r == byID[reader.id]
     IN  /\ ln[listener[r]] = "closed"
         /\ listener' = [listener EXCEPT ![r] = NoID]
  /\ reader' = [reader EXCEPT !.op = "remove"]
  /\ UNCHANGED <<byID, made, pool, msgs, rtVars, notify, lnVars, appVars, connVars, hookVars, excused>>

Remove ==
  /\ reader.op = "remove"
  /\ byID' = [byID EXCEPT ![reader.id] = 0]
  /\ reader' = [reader EXCEPT !.op = "signal"]
  /\ UNCHANGED <<made, pool, msgs, rtVars, notify, listener, lnVars, appVars, connVars, hookVars, excused>>

\* signal: a full channel keeps its one token.
Signal ==
  /\ reader.op = "signal"
  /\ notify' = TRUE
  /\ reader' = Idle
  /\ UNCHANGED <<byID, made, pool, msgs, rtVars, listener, lnVars, appVars, connVars, hookVars, excused>>

-----------------------------------------------------------------------------
(* Service.Listen. *)

AppStays == UNCHANGED <<mgrVars, rtVars, connVars, hookVars>>

\* With an id: Get, then the delivery check. Without: FindInProcessEndpoint,
\* which may find any endpoint that nobody claimed.
LookUp(a) ==
  /\ app[a] \in {"idle", "look"} /\ ~Locked
  /\ \/ /\ WantID[a] # NoID
        /\ LET e == WantID[a]
           IN  app' = [app EXCEPT ![a] = CASE ~Installed(e) -> "wait"
                                           [] Installed(e) /\ Delivery(byID[e]) = "in_process" -> "claim"
                                           [] OTHER -> "refused"]
        /\ found' = [found EXCEPT ![a] = <<WantID[a], 0>>]
     \/ /\ WantID[a] = NoID
        /\ \E e \in EndpointIDs :
             /\ Installed(e) /\ Delivery(byID[e]) = "in_process" /\ listener[byID[e]] = NoID
             /\ found' = [found EXCEPT ![a] = <<e, 0>>]
        /\ app' = [app EXCEPT ![a] = "claim"]
     \/ /\ WantID[a] = NoID
        /\ \A e \in EndpointIDs : Installed(e) =>
             Delivery(byID[e]) # "in_process" \/ listener[byID[e]] # NoID
        /\ app' = [app EXCEPT ![a] = "wait"] /\ found' = found
  /\ AppStays /\ UNCHANGED <<notify, listener, lnVars, excused>>

\* Manager.ClaimListener finds the runtime ...
ClaimGet(a) ==
  /\ app[a] = "claim" /\ ~Locked
  /\ LET e == found[a][1]
     IN  /\ app' = [app EXCEPT ![a] = IF Installed(e) THEN "got" ELSE "wait"]
         /\ found' = [found EXCEPT ![a] = <<e, byID[e]>>]
  /\ AppStays /\ UNCHANGED <<notify, listener, lnVars, excused>>

\* ... and Runtime.ClaimListener claims it, though it may be removed by now.
ClaimListener(a) ==
  /\ app[a] = "got"
  /\ LET r == found[a][2]
     IN  /\ ~RtLocked(r)
         /\ IF Delivery(r) # "in_process"
            THEN /\ app' = [app EXCEPT ![a] = "refused"]
                 /\ UNCHANGED <<listener, ln>>
            ELSE IF listener[r] # NoID
            THEN /\ app' = [app EXCEPT ![a] = IF WantID[a] = NoID THEN "wait" ELSE "refused"]
                 /\ UNCHANGED <<listener, ln>>
            ELSE /\ app' = [app EXCEPT ![a] = "listening"]
                 /\ listener' = [listener EXCEPT ![r] = a]
                 /\ ln' = [ln EXCEPT ![a] = "open"]
  /\ AppStays /\ UNCHANGED <<notify, found, buf, excused>>

\* Fault: no timeout in the wait.
PollNever(a) ==
  /\ app[a] = "wait" /\ notify
  /\ notify' = FALSE /\ excused' = Hooked
  /\ app' = [app EXCEPT ![a] = "look"]
  /\ found' = [found EXCEPT ![a] = <<NoID, 0>>]
  /\ AppStays /\ UNCHANGED <<listener, lnVars>>

\* The token or the 50 ms timer ends the wait.
WaitOver(a) ==
  /\ app[a] = "wait"
  /\ \/ notify /\ notify' = FALSE /\ excused' = Hooked
     \/ UNCHANGED <<notify, excused>>
  /\ app' = [app EXCEPT ![a] = "look"]
  /\ found' = [found EXCEPT ![a] = <<NoID, 0>>]
  /\ AppStays /\ UNCHANGED <<listener, lnVars>>

\* Its context or the Service's ends the wait.
ListenCancelled(a) ==
  /\ app[a] = "wait"
  /\ app' = [app EXCEPT ![a] = "refused"]
  /\ found' = [found EXCEPT ![a] = <<NoID, 0>>]
  /\ AppStays /\ UNCHANGED <<notify, listener, lnVars, excused>>

-----------------------------------------------------------------------------
(* chanListener. *)

\* Accept takes the oldest connection, also from a listener that is closed.
Accept(a) ==
  /\ app[a] = "listening" /\ buf[a] # <<>>
  /\ conn' = [conn EXCEPT ![Head(buf[a])] = "accepted"]
  /\ at' = [at EXCEPT ![Head(buf[a])] = Nowhere]
  /\ buf' = [buf EXCEPT ![a] = Tail(@)]
  /\ UNCHANGED <<mgrVars, notify, rtVars, listener, ln, appVars, hookVars, excused>>

AcceptClosed(a) ==
  /\ app[a] = "listening" /\ ln[a] # "open"
  /\ app' = [app EXCEPT ![a] = "ended"]
  /\ AppStays /\ UNCHANGED <<notify, found, listener, lnVars, excused>>

\* The application closes its listener; rt.listener keeps it.
AppClose(a) ==
  /\ ln[a] = "open"
  /\ ln' = [ln EXCEPT ![a] = "draining"]
  /\ AppStays /\ UNCHANGED <<notify, listener, buf, appVars, excused>>

\* Fault: Close leaves the buffer alone.
DrainNothing(a) ==
  /\ ln[a] = "draining"
  /\ ln' = [ln EXCEPT ![a] = "closed"]
  /\ UNCHANGED <<buf, conn, mgrVars, notify, rtVars, listener, appVars, at, hookVars, excused>>

\* The rest of Close: closes what is in the buffer, and returns once it is empty.
Drain(a) ==
  /\ ln[a] = "draining"
  /\ IF buf[a] = <<>>
     THEN ln' = [ln EXCEPT ![a] = "closed"] /\ UNCHANGED <<buf, connVars>>
     ELSE /\ Goes(Head(buf[a]), "closed")
          /\ buf' = [buf EXCEPT ![a] = Tail(@)]
          /\ ln' = ln
  /\ UNCHANGED <<mgrVars, notify, rtVars, listener, appVars, hookVars, excused>>

-----------------------------------------------------------------------------
(* A work connection: acceptWorkStreams, HandleWorkConn, InWorkConn, Offer. *)
(* Every connection starts in its goroutine, waiting for the first message. *)

ConnStays == UNCHANGED <<mgrVars, notify, rtVars, listener, ln, appVars, hookVars, excused>>

\* The first message is unreadable, is no StartWorkConn, or carries an Error.
BadStart(c) == conn[c] = "reading" /\ Goes(c, "closed") /\ ConnStays /\ UNCHANGED buf

HandleWorkConn(c, e) ==
  /\ conn[c] = "reading" /\ ~Locked
  /\ conn' = [conn EXCEPT ![c] = IF Installed(e) THEN "got" ELSE "closed"]
  /\ at' = [at EXCEPT ![c] = <<byID[e], NoID>>]
  /\ ConnStays /\ UNCHANGED buf

\* The configuration and the listener are read under one lock, and used later.
InWorkConn(c) ==
  /\ conn[c] = "got"
  /\ LET r == at[c][1]
     IN  /\ ~RtLocked(r)
         /\ \/ Delivery(r) = "exec" /\ Goes(c, "exec")
            \/ Delivery(r) = "forward" /\ Goes(c, "forward")
            \/ Delivery(r) = "in_process" /\ listener[r] = NoID /\ Goes(c, "closed")
            \/ /\ Delivery(r) = "in_process" /\ listener[r] # NoID
               /\ conn' = [conn EXCEPT ![c] = "offer"]
               /\ at' = [at EXCEPT ![c] = <<r, listener[r]>>]
  /\ ConnStays /\ UNCHANGED buf

\* exec: the bridge serves and closes the connection; none, and it is dropped.
ToBridge(c) ==
  /\ conn[c] = "exec" /\ ~RtLocked(at[c][1])
  /\ Goes(c, IF at[c][1] \in bridge THEN "bridged" ELSE "closed")
  /\ ConnStays /\ UNCHANGED buf

\* forward: TCPJoinHandler reads the configuration again, dials and joins.
\* Without an address, or when the dial fails, the connection is dropped.
Dial(c) ==
  /\ conn[c] = "forward" /\ ~RtLocked(at[c][1])
  /\ \/ cfg[at[c][1]].localAddr /\ Goes(c, "joined")
     \/ Goes(c, "closed")
  /\ ConnStays /\ UNCHANGED buf

\* The bridge or the join is done, and the stream is closed.
Served(c) ==
  /\ conn[c] \in {"bridged", "joined"}
  /\ Goes(c, "closed")
  /\ ConnStays /\ UNCHANGED buf

OfferCheck(c) ==
  /\ conn[c] = "offer"
  /\ Goes(c, IF ln[at[c][2]] = "open" THEN "offering" ELSE "closed")
  /\ ConnStays /\ UNCHANGED buf

Room(a) == Len(buf[a]) < AcceptBuffer

\* Fault: Offer reports a connection it buffered as not retained.
EnqueueUnreported(c) ==
  /\ Room(at[c][2])
  /\ buf' = [buf EXCEPT ![at[c][2]] = Append(@, c)]
  /\ Goes(c, "closed")

\* A select may choose the buffer of a listener that is being closed.
Enqueue(c) ==
  /\ Room(at[c][2])
  /\ buf' = [buf EXCEPT ![at[c][2]] = Append(@, c)]
  /\ Goes(c, IF ln[at[c][2]] = "open" THEN "retained" ELSE "late")

\* Offer returned false: the goroutine closes the stream.
Refuse(c) == Goes(c, "closed") /\ UNCHANGED buf

\* The select with a default; both of its cases may be ready.
OfferNow(c) ==
  /\ conn[c] = "offering"
  /\ \/ Enqueue(c)
     \/ ln[at[c][2]] # "open" /\ Refuse(c)
     \/ ln[at[c][2]] = "open" /\ ~Room(at[c][2]) /\ Goes(c, "pending") /\ UNCHANGED buf
  /\ ConnStays

\* Fault: no timer in the last select.
OfferForever(c) ==
  /\ conn[c] = "pending"
  /\ \/ Enqueue(c)
     \/ ln[at[c][2]] # "open" /\ Refuse(c)
  /\ ConnStays

\* The select with the 2 s timer.
OfferWait(c) ==
  /\ conn[c] = "pending"
  /\ Enqueue(c) \/ Refuse(c)
  /\ ConnStays

-----------------------------------------------------------------------------
(* OnEndpoints: watchEndpoints, and login after a reconnect. *)

HookStays == UNCHANGED <<mgrVars, rtVars, listener, lnVars, appVars, connVars>>

\* The first round emits without a token, the later ones take one, also when
\* there is no hook to call.
Watch ==
  /\ \/ watcher = "start" /\ notify' = notify
     \/ watcher \in {"wait", "unhooked"} /\ notify /\ notify' = FALSE
  /\ watcher' = IF Hooked THEN "snap" ELSE "unhooked"
  /\ HookStays /\ UNCHANGED <<login, logins, snap, shown, excused>>

WatcherSnapshot ==
  /\ watcher = "snap" /\ ~Locked
  /\ snap' = [snap EXCEPT !["watcher"] = View]
  /\ watcher' = "call"
  /\ HookStays /\ UNCHANGED <<notify, login, logins, shown, excused>>

WatcherEmits ==
  /\ watcher = "call"
  /\ shown' = snap["watcher"]
  /\ excused' = (excused /\ snap["watcher"] # View)
  /\ watcher' = "wait"
  /\ HookStays /\ UNCHANGED <<notify, login, logins, snap>>

LoginSnapshot ==
  /\ Hooked /\ login = "idle" /\ logins < MaxLogins /\ ~Locked
  /\ logins' = logins + 1
  /\ snap' = [snap EXCEPT !["login"] = View]
  /\ login' = "call"
  /\ HookStays /\ UNCHANGED <<notify, watcher, shown, excused>>

LoginEmits ==
  /\ login = "call"
  /\ shown' = snap["login"]
  /\ excused' = (excused \/ snap["login"] # View)
  /\ login' = "idle"
  /\ HookStays /\ UNCHANGED <<notify, watcher, logins, snap>>

-----------------------------------------------------------------------------
ReaderStep == SyncExec \/ CloseRuntime \/ ListenerClosed \/ Remove \/ Signal
ListenStep(a) == LookUp(a) \/ ClaimGet(a) \/ ClaimListener(a) \/ WaitOver(a)
ConnStep(c) ==
  \/ InWorkConn(c) \/ ToBridge(c) \/ Dial(c) \/ Served(c)
  \/ OfferCheck(c) \/ OfferNow(c) \/ OfferWait(c)
HookStep == Watch \/ WatcherSnapshot \/ WatcherEmits \/ LoginEmits

Next ==
  \/ \E e \in EndpointIDs : Unregister(e) \/ \E p \in Payloads : Upsert(e, p)
  \/ ReaderStep
  \/ \E a \in Apps : \/ ListenStep(a) \/ ListenCancelled(a)
                     \/ Accept(a) \/ AcceptClosed(a) \/ AppClose(a) \/ Drain(a)
  \/ \E c \in Conns : \/ BadStart(c) \/ ConnStep(c)
                      \/ \E e \in EndpointIDs : HandleWorkConn(c, e)
  \/ HookStep \/ LoginSnapshot

\* Every goroutine that is able to run runs. The edge and the application act
\* when they like, a connection may wait for its StartWorkConn for ever, and
\* nothing bounds how long the bridge or the join serves one.
Fairness ==
  /\ WF_vars(ReaderStep) /\ WF_vars(Watch \/ WatcherSnapshot \/ WatcherEmits)
  /\ WF_vars(LoginEmits)
  /\ \A a \in Apps : /\ WF_vars(app[a] # "idle" /\ ListenStep(a))
                     /\ WF_vars(Drain(a))
  /\ \A c \in Conns : WF_vars(conn[c] \notin {"bridged", "joined"} /\ ConnStep(c))

Spec == Init /\ [][Next]_vars /\ Fairness

-----------------------------------------------------------------------------
(* Properties. *)

Views == UNION {[E -> Payloads] : E \in SUBSET EndpointIDs}

\* Every variable has its type.
TypeOK ==
  /\ byID \in [EndpointIDs -> 0..MaxMsgs] /\ made \in 0..MaxMsgs /\ msgs \in 0..MaxMsgs
  /\ notify \in BOOLEAN /\ excused \in BOOLEAN /\ pool \in SUBSET EndpointIDs
  /\ reader \in [op : {"idle", "sync", "unregistered", "closing", "remove", "signal"},
                 id : EndpointIDs \cup {NoID}]
  /\ cfg \in [Runtimes -> Payloads] /\ bridge \in SUBSET Runtimes
  /\ listener \in [Runtimes -> Apps \cup {NoID}]
  /\ ln \in [Apps -> {"none", "open", "draining", "closed"}]
  /\ buf \in [Apps -> Seq(Conns)] /\ \A a \in Apps : Len(buf[a]) <= AcceptBuffer
  /\ app \in [Apps -> {"idle", "look", "claim", "got", "wait", "listening", "refused", "ended"}]
  /\ found \in [Apps -> (EndpointIDs \cup {NoID}) \X (0..MaxMsgs)]
  /\ conn \in [Conns -> {"reading", "got", "exec", "forward", "bridged", "joined", "offer",
                         "offering", "pending", "retained", "late", "accepted", "closed"}]
  /\ at \in [Conns -> (0..MaxMsgs) \X (Apps \cup {NoID})]
  /\ watcher \in {"start", "wait", "snap", "call", "unhooked"} /\ login \in {"idle", "call"}
  /\ logins \in 0..MaxLogins /\ snap \in [{"watcher", "login"} -> Views] /\ shown \in Views

\* A connection that Offer retained lies in the buffer of the one listener it
\* was offered to, once; a connection that was accepted, closed or refused
\* lies in none. So no connection is handed out twice, and the goroutine
\* never closes a stream that Accept can still return.
OneOwner ==
  \A c \in Conns :
    LET places == {x \in Apps \X (1..AcceptBuffer) : x[2] <= Len(buf[x[1]]) /\ buf[x[1]][x[2]] = c}
    IN  IF conn[c] \in {"retained", "late"} THEN \E i \in 1..AcceptBuffer : places = {<<at[c][2], i>>}
                                ELSE places = {}

\* Whenever m.mu is free, the endpoints registered with the exec pool and the
\* runtimes that hold the bridge are those of the installed endpoints whose
\* delivery is exec and whose payload parses, whatever sequence of
\* registrations, changes of delivery and removals went before.
ExecInSync ==
  ~Locked =>
    /\ pool = {e \in EndpointIDs : /\ Installed(e) /\ Delivery(byID[e]) = "exec"
                                   /\ ParsesExec(cfg[byID[e]])}
    /\ bridge = {byID[e] : e \in pool}

\* A connection whose StartWorkConn was routed reaches the one that serves it,
\* the bridge, the joined local service, Accept or the buffer it reads, or is
\* closed: no Offer waits for ever, whatever Accept, Close and removal do.
ConnSettles ==
  \A c \in Conns :
    conn[c] = "got" ~>
      conn[c] \in {"bridged", "joined", "accepted", "retained", "late", "closed"}

\* When Close has returned, the buffer holds no connection that was offered
\* while the listener was open: only an Offer that passed its check before
\* Close and sent after it strands one.
CloseDrains ==
  \A a \in Apps : ln[a] = "closed" => \A i \in DOMAIN buf[a] : conn[buf[a][i]] = "late"

Free == \E e \in EndpointIDs :
          Installed(e) /\ Delivery(byID[e]) = "in_process" /\ listener[byID[e]] = NoID

\* A Listen for any endpoint returns while there is one nobody claimed, also
\* when watchEndpoints takes the token that announced it.
ListenServed ==
  \A a \in Apps :
    WantID[a] = NoID /\ app[a] \in {"look", "claim", "got", "wait"} /\ Free
      ~> app[a] \in {"listening", "refused", "ended"} \/ ~Free

(* What the code says of itself and does not keep. *)

\* "OnEndpoints is called whenever the endpoint set changes
\* (add/update/remove)": what it showed last becomes the installed endpoints
\* with their configurations.
HookCurrent == shown # View ~> shown = View
=============================================================================
