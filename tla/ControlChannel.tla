--------------------------- MODULE ControlChannel ---------------------------
(***************************************************************************)
(* One control session with the edge after its hello (internal/gateway_ctl *)
(* and its dispatcher): the read loop and the handlers it runs itself or   *)
(* starts as goroutines, the bounded send queue and the write loop, the    *)
(* worker that tears the session down, and the runners of data sessions    *)
(* that live and end with it.                                              *)
(*                                                                         *)
(* The edge is the environment: it sends its messages in any order, stops  *)
(* reading, and closes the control session or a data session when it       *)
(* likes. One endpoint stands for all: what matters here is whether a      *)
(* handler finds it installed.                                             *)
(***************************************************************************)
EXTENDS Integers, Sequences, FiniteSets

CONSTANTS
  Reqs,       \* messages of the edge, and reports of the client itself
  Scripts,    \* the sessions to look at: the kinds of its messages and
              \* the data sessions its ServerHello asked for
  QueueCap,   \* capacity of sendCh (100 in the code)
  Indexes     \* indexes of data sessions

Reading == "reading"
Idle    == "idle"
Ended   == "ended"

Kinds == {"install", "remove", "discover", "check", "stop", "disconnect",
          "halt", "restart", "update", "incomplete", "report", "absent"}

ASSUME ChannelAssumption ==
  /\ Scripts \subseteq [kind : [Reqs -> Kinds], sessions : SUBSET Indexes]
  /\ IsFiniteSet(Reqs) /\ Reqs \cap {Reading, Idle, Ended} = {}
  /\ QueueCap \in Nat \ {0}

VARIABLES
  kind,       \* what each message is
  sent,       \* the messages the edge wrote on the control stream, in order
  nread,      \* how many of them readLoop has read
  reader,     \* readLoop: reading, handling one message, or ended
  h,          \* the handler of each message
  saw,        \* what the handler found when it looked the endpoint up
  installed,  \* the endpoint manager holds the endpoint
  queue,      \* Dispatcher.sendCh
  sender,     \* sendLoop: idle, writing one message, or ended
  got,        \* what the edge received
  done,       \* Dispatcher.doneCh is closed
  worker,     \* Control.worker
  permanent,  \* Control.permanentDisconnect
  conn,       \* the yamux session of the control stream: up or closed
  stalled,    \* the edge has stopped reading the control stream
  ctxDone,    \* the service's context is cancelled
  runner,     \* runDataSession, one for each index
  link        \* the connection of its current data session

readVars == <<sent, nread, reader, installed>>
sendVars == <<queue, sender, got>>
handVars == <<h, saw>>
ctlVars  == <<done, worker, permanent, conn, ctxDone>>
dataVars == <<runner, link>>
vars == <<kind, readVars, sendVars, handVars, ctlVars, dataVars, stalled>>

FromEdge(r) == kind[r] \notin {"report", "absent"}
LooksUp(r)  == kind[r] \in {"install", "discover"}

\* Every variable has its type; the send queue keeps its capacity (Send).
TypeOK ==
  /\ kind \in [Reqs -> Kinds]
  /\ sent \in UNION {[1..n -> Reqs] : n \in 0..Cardinality(Reqs)}
  /\ nread \in 0..Len(sent)
  /\ reader \in Reqs \cup {Reading, Ended}
  /\ h \in [Reqs -> {"none", "work", "result", "sending", "after", "end"}]
  /\ saw \in [Reqs -> {"none", "found", "missing"}]
  /\ Len(queue) <= QueueCap /\ \A i \in 1..Len(queue) : queue[i] \in Reqs
  /\ sender \in Reqs \cup {Idle, Ended}
  /\ \A i \in 1..Len(got) : got[i] \in Reqs
  /\ worker \in {"waiting", "closing", "finished"}
  /\ conn \in {"up", "closed"}
  /\ {installed, done, permanent, stalled, ctxDone} \subseteq BOOLEAN
  /\ runner \in [Indexes -> {"start", "dialing", "hello", "serving", "wait", "end"}]
  /\ link \in [Indexes -> {"none", "open", "closed"}]

Init ==
  /\ \E s \in Scripts :
       /\ kind = s.kind
       /\ runner = [i \in Indexes |-> IF i \in s.sessions THEN "start" ELSE "end"]
  /\ sent = <<>> /\ nread = 0 /\ reader = Reading /\ installed = FALSE
  /\ h = [r \in Reqs |-> "none"] /\ saw = [r \in Reqs |-> "none"]
  /\ queue = <<>> /\ sender = Idle /\ got = <<>>
  /\ done = FALSE /\ worker = "waiting" /\ permanent = FALSE
  /\ conn = "up" /\ stalled = FALSE /\ ctxDone = FALSE
  /\ link = [i \in Indexes |-> "none"]

-----------------------------------------------------------------------------
(* The edge.                                                               *)

EdgeSends(r) ==
  /\ conn = "up" /\ FromEdge(r) /\ \A i \in 1..Len(sent) : sent[i] # r
  /\ sent' = Append(sent, r)
  /\ UNCHANGED <<kind, nread, reader, installed, sendVars, handVars, ctlVars, dataVars, stalled>>

EdgeStalls ==
  /\ conn = "up" /\ ~stalled
  /\ stalled' = TRUE
  /\ UNCHANGED <<kind, readVars, sendVars, handVars, ctlVars, dataVars>>

\* The edge closes the session, the network fails, or the service closes
\* the control (Control.Close).
SessionCloses ==
  /\ conn = "up"
  /\ conn' = "closed"
  /\ UNCHANGED <<kind, readVars, sendVars, handVars, done, worker, permanent, ctxDone, dataVars, stalled>>

\* The service cancels the context of the session; only the data sessions
\* watch it.
CancelContext ==
  /\ ~ctxDone /\ \E i \in Indexes : runner[i] # "end"
  /\ ctxDone' = TRUE
  /\ UNCHANGED <<kind, readVars, sendVars, handVars, done, worker, permanent, conn, dataVars, stalled>>

-----------------------------------------------------------------------------
(* readLoop and the handlers that run on it. Reading fails once the        *)
(* session is closed, though messages that had arrived may still be read;  *)
(* with the session up it fails when the stream ends or brings what        *)
(* ReadMsg cannot decode (an unknown type, a bad length, bad JSON).        *)

\* Fault: the handlers run on the read loop, without AsyncHandler.
ReadMsgInline ==
  /\ reader = Reading /\ nread < Len(sent)
  /\ nread > 0 => h[sent[nread]] \in {"after", "end"}
  /\ reader' = sent[nread + 1] /\ nread' = nread + 1
  /\ UNCHANGED <<kind, sent, installed, sendVars, handVars, ctlVars, dataVars, stalled>>

ReadMsg ==
  /\ reader = Reading /\ nread < Len(sent)
  /\ reader' = sent[nread + 1] /\ nread' = nread + 1
  /\ UNCHANGED <<kind, sent, installed, sendVars, handVars, ctlVars, dataVars, stalled>>

ReadFails ==
  /\ reader = Reading
  /\ reader' = Ended /\ done' = TRUE
  /\ UNCHANGED <<kind, sent, nread, installed, sendVars, handVars, worker, permanent, conn, ctxDone, dataVars, stalled>>

\* Where the goroutine of a handler starts; "end" when there is none. A
\* message without its ids gets no answer; a "halt" is a Stop without a
\* request id, obeyed and not acknowledged.
HandlerStart(r) ==
  CASE kind[r] \in {"install", "discover", "check", "update"} -> "work"
    [] kind[r] \in {"stop", "restart"} -> "result"
    [] kind[r] = "halt" -> "after"
    [] OTHER -> "end"

\* Fault: handleNewEndpoint starts the discovery, then installs.
HandleStartsFirst(r) ==
  /\ reader = r
  /\ LET begun == h[r] # "none" IN
     /\ reader' = IF kind[r] = "install" /\ ~begun THEN r ELSE Reading
     /\ h' = IF begun THEN h ELSE [h EXCEPT ![r] = HandlerStart(r)]
     /\ installed' = CASE kind[r] = "install" -> begun
                       [] kind[r] = "remove" -> FALSE
                       [] OTHER -> installed
  /\ IF kind[r] = "disconnect"
     THEN permanent' = TRUE /\ conn' = "closed"
     ELSE UNCHANGED <<permanent, conn>>
  /\ UNCHANGED <<kind, sent, nread, saw, sendVars, done, worker, ctxDone, dataVars, stalled>>

\* handleServerHello, handleNewEndpoint and handleCloseEndpoint run here;
\* handleDisconnect too, and it closes the session; for the other kinds
\* AsyncHandler starts a goroutine.
Handle(r) ==
  /\ reader = r
  /\ reader' = Reading
  /\ h' = [h EXCEPT ![r] = HandlerStart(r)]
  /\ installed' = CASE kind[r] = "install" -> TRUE
                    [] kind[r] = "remove" -> FALSE
                    [] OTHER -> installed
  /\ IF kind[r] = "disconnect"
     THEN permanent' = TRUE /\ conn' = "closed"
     ELSE UNCHANGED <<permanent, conn>>
  /\ UNCHANGED <<kind, sent, nread, saw, sendVars, done, worker, ctxDone, dataVars, stalled>>

-----------------------------------------------------------------------------
(* The goroutines of the handlers.                                         *)

\* runDiscoverTools, runPreflight, handleExecPreflight and InstallFromURL
\* are bounded by a timeout, so their work ends. The first two answer at
\* once when the endpoint is not installed.
Work(r) ==
  /\ h[r] = "work"
  /\ h' = [h EXCEPT ![r] = "result"]
  /\ saw' = [saw EXCEPT ![r] = IF ~LooksUp(r) THEN "none"
                               ELSE IF installed THEN "found" ELSE "missing"]
  /\ UNCHANGED <<kind, readVars, sendVars, ctlVars, dataVars, stalled>>

\* A diagnostic or a health report of an endpoint reaches Send at any time.
Report(r) ==
  /\ kind[r] = "report" /\ h[r] = "none"
  /\ h' = [h EXCEPT ![r] = "result"]
  /\ UNCHANGED <<kind, readVars, sendVars, saw, ctlVars, dataVars, stalled>>

\* What a handler does once Send has returned, whatever it returned.
AfterSend(r) == IF kind[r] \in {"stop", "restart", "update"} THEN "after" ELSE "end"

\* Send: the first look at doneCh.
SendEnter(r) ==
  /\ h[r] = "result"
  /\ h' = [h EXCEPT ![r] = IF done THEN AfterSend(r) ELSE "sending"]
  /\ UNCHANGED <<kind, readVars, sendVars, saw, ctlVars, dataVars, stalled>>

\* Send: the select between doneCh and room in the queue.
\* Faults: the case of doneCh is missing; Send drops what finds no room.
NeverGivesUp(r) == FALSE
GivesUpWhenFull(r) == done \/ Len(queue) = QueueCap

SendGivesUp(r) == done

SendEnqueues(r) ==
  /\ h[r] = "sending" /\ Len(queue) < QueueCap
  /\ queue' = Append(queue, r)
  /\ h' = [h EXCEPT ![r] = AfterSend(r)]
  /\ UNCHANGED <<kind, readVars, sender, got, saw, ctlVars, dataVars, stalled>>

SendEOF(r) ==
  /\ h[r] = "sending" /\ SendGivesUp(r)
  /\ h' = [h EXCEPT ![r] = AfterSend(r)]
  /\ UNCHANGED <<kind, readVars, sendVars, saw, ctlVars, dataVars, stalled>>

\* handleStop, 300 ms after its answer was queued.
StopCloses(r) ==
  /\ h[r] = "after" /\ kind[r] \in {"stop", "halt"}
  /\ h' = [h EXCEPT ![r] = "end"]
  /\ permanent' = TRUE /\ conn' = "closed"
  /\ UNCHANGED <<kind, readVars, sendVars, saw, done, worker, ctxDone, dataVars, stalled>>

\* handleRestart and handleUpdate: a failed install or a failed exec is
\* only logged.
RestartFails(r) ==
  /\ h[r] = "after" /\ kind[r] \in {"restart", "update"}
  /\ h' = [h EXCEPT ![r] = "end"]
  /\ UNCHANGED <<kind, readVars, sendVars, saw, ctlVars, dataVars, stalled>>

\* Otherwise the process image is replaced: nothing of it goes on and its
\* connections close.
RestartExecs(r) ==
  /\ h[r] = "after" /\ kind[r] \in {"restart", "update"}
  /\ h' = [q \in Reqs |-> "end"]
  /\ reader' = Ended /\ sender' = Ended /\ worker' = "finished"
  /\ conn' = "closed" /\ done' = TRUE
  /\ runner' = [i \in Indexes |-> "end"] /\ link' = [i \in Indexes |-> "closed"]
  /\ UNCHANGED <<kind, sent, nread, installed, queue, got, saw, permanent, ctxDone, stalled>>

-----------------------------------------------------------------------------
(* sendLoop.                                                               *)

SenderTakes ==
  /\ sender = Idle /\ queue # <<>>
  /\ sender' = Head(queue) /\ queue' = Tail(queue)
  /\ UNCHANGED <<kind, readVars, got, handVars, ctlVars, dataVars, stalled>>

SenderWrites ==
  /\ sender \in Reqs /\ conn = "up" /\ ~stalled
  /\ got' = Append(got, sender) /\ sender' = Idle
  /\ UNCHANGED <<kind, readVars, queue, handVars, ctlVars, dataVars, stalled>>

\* The session is closed, or the write fails on an open one: the stream was
\* reset, or the edge reads nothing until yamux gives up.
SenderFails ==
  /\ sender \in Reqs
  /\ sender' = Ended /\ done' = TRUE
  /\ UNCHANGED <<kind, readVars, queue, got, handVars, worker, permanent, conn, ctxDone, dataVars, stalled>>

SenderSeesDone ==
  /\ sender = Idle /\ done
  /\ sender' = Ended
  /\ UNCHANGED <<kind, readVars, queue, got, handVars, ctlVars, dataVars, stalled>>

-----------------------------------------------------------------------------
(* Control.worker: wait for the dispatcher, close the session, cancel the  *)
(* data sessions, close doneCh.                                            *)

WorkerCloses ==
  /\ worker = "waiting" /\ done
  /\ worker' = "closing" /\ conn' = "closed"
  /\ UNCHANGED <<kind, readVars, sendVars, handVars, done, permanent, ctxDone, dataVars, stalled>>

WorkerFinishes ==
  /\ worker = "closing"
  /\ worker' = "finished"
  /\ UNCHANGED <<kind, readVars, sendVars, handVars, done, permanent, conn, ctxDone, dataVars, stalled>>

-----------------------------------------------------------------------------
(* runDataSession: backoff.Loop around dialDataSession.                    *)

\* Fault: the runners get the context of the service, which outlives the
\* control session.
CancelledByService == ctxDone

\* The context of the runners.
Cancelled == ctxDone \/ worker = "finished"

Move(i, from, to, l) ==
  /\ runner[i] = from
  /\ runner' = [runner EXCEPT ![i] = to]
  /\ link' = [link EXCEPT ![i] = l]
  /\ UNCHANGED <<kind, readVars, sendVars, handVars, ctlVars, stalled>>

\* DialEdge returns the error of the context at once when it is cancelled,
\* and that ends the loop.
DialStarts(i)  == ~Cancelled /\ Move(i, "start", "dialing", "none")
DialRefused(i) == Cancelled /\ Move(i, "start", "end", "none")

\* Cancelled while it dials, it may still come through.
DialOpens(i) == Move(i, "dialing", "hello", "open")
DialFails(i) == Move(i, "dialing", IF Cancelled THEN "end" ELSE "wait", "none")

\* DataHello is written and the answer awaited: neither looks at the
\* context, nor does acceptWorkStreams.
HelloAcked(i) == link[i] = "open" /\ Move(i, "hello", "serving", "open")
HelloFails(i) == Move(i, "hello", "wait", "none")
ServingEnds(i) ==
  /\ link[i] = "closed"
  /\ Move(i, "serving", IF Cancelled THEN "end" ELSE "wait", "none")

\* The select of Loop: with both cases ready either may be taken.
WaitOver(i)      == Move(i, "wait", "start", "none")
WaitCancelled(i) == Cancelled /\ Move(i, "wait", "end", "none")

EdgeClosesData(i) ==
  /\ link[i] = "open"
  /\ link' = [link EXCEPT ![i] = "closed"]
  /\ UNCHANGED <<kind, readVars, sendVars, handVars, ctlVars, runner, stalled>>

-----------------------------------------------------------------------------
Edge == (\E r \in Reqs : EdgeSends(r)) \/ EdgeStalls \/ SessionCloses \/ CancelContext
Reader == ReadMsg \/ ReadFails \/ \E r \in Reqs : Handle(r)
Handler(r) ==
  \/ Work(r) \/ SendEnter(r) \/ SendEnqueues(r) \/ SendEOF(r)
  \/ StopCloses(r) \/ RestartFails(r) \/ RestartExecs(r)
Sender == SenderTakes \/ SenderWrites \/ SenderFails \/ SenderSeesDone
Worker == WorkerCloses \/ WorkerFinishes
\* The steps of a runner that wait for nobody; a dial that hangs is cut
\* short by the context.
Runner(i) ==
  \/ DialStarts(i) \/ DialRefused(i) \/ (Cancelled /\ DialFails(i))
  \/ (link[i] = "closed" /\ HelloFails(i)) \/ ServingEnds(i)
  \/ WaitOver(i) \/ WaitCancelled(i)
Network(i) == DialOpens(i) \/ DialFails(i) \/ HelloAcked(i) \/ HelloFails(i) \/ EdgeClosesData(i)

Next ==
  \/ Edge \/ Reader \/ Sender \/ Worker
  \/ \E r \in Reqs : Report(r) \/ Handler(r)
  \/ \E i \in Indexes : Runner(i) \/ Network(i)

\* Every goroutine runs when it can; the edge and the network promise
\* nothing, and no loop is made to fail while the session is up.
Fairness ==
  /\ WF_vars(ReadMsg \/ (conn = "closed" /\ ReadFails) \/ \E r \in Reqs : Handle(r))
  /\ WF_vars(SenderTakes \/ SenderWrites \/ (conn = "closed" /\ SenderFails) \/ SenderSeesDone)
  /\ WF_vars(Worker)
  /\ \A r \in Reqs : WF_vars(Handler(r))
  /\ \A i \in Indexes : WF_vars(Runner(i))

Spec == Init /\ [][Next]_vars /\ Fairness
-----------------------------------------------------------------------------
(* Properties.                                                             *)

Answers(r) == kind[r] \notin {"remove", "disconnect", "halt", "incomplete"}
Places(r) ==
  Cardinality({i \in 1..Len(got) : got[i] = r})
    + Cardinality({i \in 1..Len(queue) : queue[i] = r})
    + (IF sender = r THEN 1 ELSE 0)

\* No answer is doubled, and as long as the dispatcher runs none is lost:
\* a Send that returned left its message in sendCh, with sendLoop or with
\* the edge (Dispatcher.Send, sendLoop).
AnswerKept ==
  \A r \in Reqs :
    /\ Places(r) <= 1
    /\ ~done /\ Answers(r) /\ h[r] \in {"after", "end"} => Places(r) = 1

\* The endpoint is installed after the first n messages of the edge.
InstalledAfter(n) ==
  \E i \in 1..n :
    /\ kind[sent[i]] = "install"
    /\ \A j \in (i + 1)..n : kind[sent[j]] # "remove"

\* A handler that runs as a goroutine may be overtaken by later messages but
\* never overtakes earlier ones: what runDiscoverTools or runPreflight found
\* is what some prefix of the stream, its own message included, left behind
\* (endpoints are installed and removed on the read loop).
SeesItsPrefix ==
  \A r \in Reqs : saw[r] # "none" =>
    \E n \in 1..nread :
      /\ \E i \in 1..n : sent[i] = r
      /\ (saw[r] = "found" <=> InstalledAfter(n))

\* The read loop never waits for the edge to read: every message is read, or
\* reading has ended, even when the queue is full and the edge has stalled
\* (AsyncHandler, handleNewEndpoint).
ReaderGoesOn == nread < Len(sent) ~> (nread = Len(sent) \/ reader = Ended)

\* A session that is closed, or of which one loop failed, leaves nobody behind:
\* both loops and the worker end and no handler stays blocked on the full
\* queue (closeDone, Send, worker).
TearsDown ==
  done \/ conn = "closed" ~>
    /\ reader = Ended /\ sender = Ended /\ worker = "finished"
    /\ \A r \in Reqs : h[r] \in {"none", "end"}

\* When the context of the data sessions is cancelled and the edge holds no
\* data session open, every runner ends instead of dialling again
\* (runDataSession, backoff.Loop, dialDataSession).
RunnersEnd ==
  \A i \in Indexes :
    <>[]((ctxDone \/ worker = "finished") /\ link[i] # "open") => <>(runner[i] = "end")
=============================================================================
