---------------------------- MODULE SessionCalls ----------------------------
(***************************************************************************)
(* One stdio session (internal/mcp/mcpstdio: session.go, jsonrpc.go): the  *)
(* handshake of NewSession, concurrent calls, and the four things that     *)
(* race to end a call: the answer that readLoop dispatches, the request    *)
(* timer, Close, and the exit of the child.                                *)
(*                                                                         *)
(* All requests share stdin and all answers share stdout, so a call is     *)
(* known to the child by its internal id only. The child is the            *)
(* environment: it answers in any order, late, twice or never, writes      *)
(* lines that are no answers, stops reading, and exits when it likes.      *)
(***************************************************************************)
EXTENDS Integers, Sequences, FiniteSets

CONSTANTS
  Callers,    \* requests of the bridge's clients, one call each
  ClientID,   \* the JSON-RPC id each client chose
  Hello,      \* the initialize call of the handshake
  MaxLines    \* bound: lines the child writes

ASSUME SessionAssumption ==
  /\ Hello \notin Callers /\ IsFiniteSet(Callers)
  /\ DOMAIN ClientID = Callers /\ MaxLines \in Nat

Calls == Callers \cup {Hello}
FirstID == 2
IDs == FirstID..(FirstID + Cardinality(Callers))

\* The handshake uses the id 1 for its own request.
OriginalID(c) == IF c = Hello THEN 1 ELSE ClientID[c]

VARIABLES
  phase,     \* NewSession
  pc, result,\* Call: where it is, what it returned
  idOf,      \* its internal id; 0 before Register
  ch,        \* its wait channel: empty, closed, or the message in it
  entries,   \* PendingMap.entries: the ids waited for
  nextID,    \* PendingMap.nextID
  reader,    \* readLoop: reading, ended, or the message it dispatches
  closed,    \* Session.closed
  closer,    \* Close
  child,     \* up or exited
  stdin,     \* open or closed
  stalled,   \* the child does not read stdin
  inbox,     \* ids of the requests the child read
  stdout,    \* lines the child wrote
  lines,     \* how many it wrote
  served,    \* calls it answered
  exitCh     \* closed by waitProc

callVars  == <<pc, result, idOf>>
mapVars   == <<ch, entries, nextID>>
closeVars == <<closed, closer>>
childVars == <<child, stalled, inbox, lines, served>>
vars == <<phase, callVars, mapVars, reader, closeVars, childVars, stdin, stdout, exitCh>>

\* What is on stdout, in a wait channel or returned by a call: the answer
\* with an id to the request of c, or something else.
Answer(id, c) == [kind |-> "answer", id |-> id, of |-> c]
Other(k) == [kind |-> k, id |-> 0, of |-> Hello]

\* A log line, a notification or request; a line longer than 4 MB.
Junk == {Other("noise"), Other("huge")}
Failed == Other("error")
Closed == <<Other("closed")>>
Reading == [at |-> "reading", line |-> Other("noise")]

Init ==
  /\ phase = "initialize"
  /\ pc = [c \in Calls |-> "idle"] /\ result = [c \in Calls |-> Other("none")]
  /\ idOf = [c \in Calls |-> 0]
  /\ ch = [c \in Calls |-> <<>>] /\ entries = {} /\ nextID = 1
  /\ reader = Reading /\ closed = FALSE /\ closer = "idle"
  /\ child = "up" /\ stdin = "open" /\ stalled = FALSE
  /\ inbox = {} /\ stdout = <<>> /\ lines = 0 /\ served = {}
  /\ exitCh = FALSE

Alive == ~closed /\ ~exitCh

CallOf(id) == CHOOSE c \in Calls : idOf[c] = id

\* Call returns an answer, or an error; which error is not told apart.
Returns(c, r) ==
  /\ pc' = [pc EXCEPT ![c] = "returned"]
  /\ result' = [result EXCEPT ![c] = r]

-----------------------------------------------------------------------------
(* Session.Call *)

CallStays == UNCHANGED <<phase, reader, closeVars, childVars, stdin, stdout, exitCh>>

\* The pool hands out a session once NewSession has returned it.
Enter(c) ==
  /\ pc[c] = "idle"
  /\ IF c = Hello THEN phase = "initialize" ELSE phase = "ready"
  /\ \/ ~Alive /\ Returns(c, Failed)
     \/ Alive /\ pc' = [pc EXCEPT ![c] = "register"] /\ result' = result
  /\ CallStays /\ UNCHANGED <<idOf, mapVars>>

\* Fault: the client's own id is the key, so two clients share an entry.
RegisterClientID(c) ==
  /\ pc[c] = "register"
  /\ LET id == FirstID + OriginalID(c) - 1
     IN  /\ idOf' = [d \in Calls |-> IF d = c THEN id ELSE IF idOf[d] = id THEN 0 ELSE idOf[d]]
         /\ entries' = entries \cup {id}
  /\ nextID' = nextID
  /\ pc' = [pc EXCEPT ![c] = "write"]
  /\ CallStays /\ UNCHANGED <<ch, result>>

\* PendingMap.Register
Register(c) ==
  /\ pc[c] = "register"
  /\ LET id == nextID + 1
     IN  /\ nextID' = id
         /\ idOf' = [idOf EXCEPT ![c] = id]
         /\ entries' = entries \cup {id}
  /\ pc' = [pc EXCEPT ![c] = "write"]
  /\ CallStays /\ UNCHANGED <<ch, result>>

\* Writer.Write succeeds; the first request fits into the pipe.
Write(c) ==
  /\ pc[c] = "write" /\ stdin = "open" /\ child = "up" /\ (c # Hello => ~stalled)
  /\ inbox' = inbox \cup {idOf[c]}
  /\ pc' = [pc EXCEPT ![c] = "wait"]
  /\ UNCHANGED <<phase, result, idOf, mapVars, reader, closeVars, child, stalled, lines, served,
                 stdin, stdout, exitCh>>

\* The pipe is closed or broken. The entry stays until its timer fires.
WriteFails(c) ==
  /\ pc[c] = "write" /\ (stdin = "closed" \/ child = "exited")
  /\ Returns(c, Failed)
  /\ CallStays /\ UNCHANGED <<idOf, mapVars>>

\* The three cases of the select; several may be ready.
Receive(c) ==
  /\ pc[c] = "wait" /\ ch[c] # <<>>
  /\ Returns(c, IF ch[c] = Closed THEN Failed ELSE ch[c][1])
  /\ CallStays /\ UNCHANGED <<idOf, mapVars>>

SeeExit(c) ==
  /\ pc[c] = "wait" /\ exitCh
  /\ Returns(c, Failed)
  /\ CallStays /\ UNCHANGED <<idOf, mapVars>>

Cancel(c) ==
  /\ pc[c] = "wait"
  /\ Returns(c, Failed)
  /\ CallStays /\ UNCHANGED <<idOf, mapVars>>

-----------------------------------------------------------------------------
(* PendingMap: the timers, Dispatch, CloseAll. *)

\* Fault: the timer closes the channel without looking for its entry.
TimeoutUnchecked(id) ==
  /\ \E c \in Calls : idOf[c] = id /\ ch[c] = <<>>
  /\ entries' = entries \ {id} /\ ch' = [ch EXCEPT ![CallOf(id)] = Closed]
  /\ UNCHANGED <<phase, callVars, nextID, reader, closeVars, childVars, stdin, stdout, exitCh>>

\* Fault: the timer removes the entry but does not close the channel.
TimeoutSilent(id) ==
  /\ id \in entries
  /\ entries' = entries \ {id} /\ ch' = ch
  /\ UNCHANGED <<phase, callVars, nextID, reader, closeVars, childVars, stdin, stdout, exitCh>>

\* A timer that finds no entry does nothing.
Timeout(id) ==
  /\ id \in entries
  /\ entries' = entries \ {id} /\ ch' = [ch EXCEPT ![CallOf(id)] = Closed]
  /\ UNCHANGED <<phase, callVars, nextID, reader, closeVars, childVars, stdin, stdout, exitCh>>

\* readLoop reads a line. A line that is no answer is skipped, an answer is
\* looked up and its entry removed; a line beyond the scanner's limit ends
\* the loop while the child lives on.
Read ==
  /\ reader.at = "reading" /\ stdout # <<>>
  /\ stdout' = Tail(stdout)
  /\ LET line == Head(stdout)
         known == line.kind = "answer" /\ line.id \in entries
     IN  /\ entries' = IF known THEN entries \ {line.id} ELSE entries
         /\ reader' = CASE known -> [at |-> "dispatch", line |-> line]
                       [] line.kind = "huge" -> [reader EXCEPT !.at = "ended"]
                       [] OTHER -> reader
  /\ UNCHANGED <<phase, callVars, ch, nextID, closeVars, childVars, stdin, exitCh>>

\* The rest of Dispatch, outside the lock: the client's id is restored.
Deliver ==
  /\ reader.at = "dispatch"
  /\ LET c == CallOf(reader.line.id)
     IN  ch' = [ch EXCEPT ![c] = <<Answer(OriginalID(c), reader.line.of)>>]
  /\ reader' = Reading
  /\ UNCHANGED <<phase, callVars, entries, nextID, closeVars, childVars, stdin, stdout, exitCh>>

ReadEOF ==
  /\ reader.at = "reading" /\ stdout = <<>> /\ child = "exited"
  /\ reader' = [reader EXCEPT !.at = "ended"]
  /\ UNCHANGED <<phase, callVars, mapVars, closeVars, childVars, stdin, stdout, exitCh>>

-----------------------------------------------------------------------------
(* Session.Close; a second Close returns at once. *)

CloseSwap ==
  /\ ~closed /\ phase \in {"ready", "failed"}
  /\ closed' = TRUE /\ closer' = "pending"
  /\ UNCHANGED <<phase, callVars, mapVars, reader, childVars, stdin, stdout, exitCh>>

CloseAll ==
  /\ closer = "pending"
  /\ ch' = [c \in Calls |-> IF idOf[c] \in entries THEN Closed ELSE ch[c]]
  /\ entries' = {}
  /\ closer' = "shutdown"
  /\ UNCHANGED <<phase, callVars, nextID, reader, closed, childVars, stdin, stdout, exitCh>>

\* Shutdown: closes stdin; the signals that follow make the child exit.
Shutdown ==
  /\ closer = "shutdown"
  /\ stdin' = "closed"
  /\ closer' = "waiting"
  /\ UNCHANGED <<phase, callVars, mapVars, reader, closed, childVars, stdout, exitCh>>

CloseReturns ==
  /\ closer = "waiting" /\ child = "exited"
  /\ closer' = "done"
  /\ UNCHANGED <<phase, callVars, mapVars, reader, closed, childVars, stdin, stdout, exitCh>>

-----------------------------------------------------------------------------
(* NewSession after Spawn. *)

\* The handshake is over: initialize failed, or its answer is an error
\* (a rejection), or the notification can no longer be sent.
HandshakeDone ==
  /\ phase = "initialize" /\ pc[Hello] = "returned"
  /\ \/ phase' = "failed"
     \/ result[Hello].kind = "answer" /\ Alive /\ phase' = "settle"
  /\ UNCHANGED <<callVars, mapVars, reader, closeVars, childVars, stdin, stdout, exitCh>>

\* waitSettled: two seconds alive, or an exit is noticed.
Settled ==
  /\ phase = "settle"
  /\ phase' = IF Alive THEN "ready" ELSE "failed"
  /\ UNCHANGED <<callVars, mapVars, reader, closeVars, childVars, stdin, stdout, exitCh>>

-----------------------------------------------------------------------------
(* The child, and waitProc. *)

ChildAnswers(id) ==
  /\ child = "up" /\ id \in inbox /\ lines < MaxLines
  /\ lines' = lines + 1
  /\ stdout' = Append(stdout, Answer(id, CallOf(id)))
  /\ served' = served \cup {CallOf(id)}
  /\ UNCHANGED <<phase, callVars, mapVars, reader, closeVars, child, stalled, inbox, stdin, exitCh>>

ChildWrites(line) ==
  /\ child = "up" /\ lines < MaxLines
  /\ lines' = lines + 1
  /\ stdout' = Append(stdout, line)
  /\ UNCHANGED <<phase, callVars, mapVars, reader, closeVars, child, stalled, inbox, served, stdin,
                 exitCh>>

\* It matters to the calls of a ready session only.
ChildStalls ==
  /\ child = "up" /\ ~stalled /\ phase = "ready"
  /\ stalled' = TRUE
  /\ UNCHANGED <<phase, callVars, mapVars, reader, closeVars, child, inbox, lines, served, stdin,
                 stdout, exitCh>>

ChildExits ==
  /\ child = "up"
  /\ child' = "exited"
  /\ UNCHANGED <<phase, callVars, mapVars, reader, closeVars, stalled, inbox, lines, served, stdin,
                 stdout, exitCh>>

\* Cmd.Wait returns and closes the pipes: what the scanner of readLoop has
\* not buffered by then is lost. The diagnostic that waitProc sends for an
\* exit no Close asked for is a report of ControlChannel.
WaitReturns ==
  /\ child = "exited" /\ ~exitCh
  /\ exitCh' = TRUE
  /\ \E buffered \in 0..Len(stdout) : stdout' = SubSeq(stdout, 1, buffered)
  /\ UNCHANGED <<phase, callVars, mapVars, reader, closeVars, childVars, stdin>>

-----------------------------------------------------------------------------
CallStep(c) == \/ Enter(c) \/ Register(c) \/ Write(c) \/ WriteFails(c)
               \/ Receive(c) \/ SeeExit(c)
CloseStep == CloseAll \/ Shutdown \/ CloseReturns
ReadStep == Read \/ Deliver \/ ReadEOF

Next ==
  \/ \E c \in Calls : CallStep(c) \/ Cancel(c)
  \/ \E id \in IDs : Timeout(id) \/ ChildAnswers(id)
  \/ \E line \in Junk : ChildWrites(line)
  \/ ReadStep \/ CloseSwap \/ CloseStep \/ HandshakeDone \/ Settled
  \/ ChildStalls \/ ChildExits \/ WaitReturns

\* Goroutines run and timers fire; a child that Shutdown is after exits, at
\* the latest from its SIGKILL. Nothing else about the child is assumed.
Fairness ==
  /\ \A c \in Calls : WF_vars(CallStep(c))
  /\ \A id \in IDs : WF_vars(Timeout(id))
  /\ WF_vars(ReadStep) /\ WF_vars(CloseStep) /\ WF_vars(HandshakeDone \/ Settled)
  /\ WF_vars(phase = "failed" /\ CloseSwap)
  /\ WF_vars(closer = "waiting" /\ ChildExits) /\ WF_vars(WaitReturns)

Spec == Init /\ [][Next]_vars /\ Fairness

-----------------------------------------------------------------------------
(* Properties. *)

Errors == {Other("none"), Failed}
Answers == {Answer(OriginalID(c), d) : c \in Calls, d \in Calls}

\* Every variable has its type; a wait channel holds one message at most.
TypeOK ==
  /\ phase \in {"initialize", "settle", "ready", "failed"}
  /\ pc \in [Calls -> {"idle", "register", "write", "wait", "returned"}]
  /\ result \in [Calls -> Errors \cup Answers]
  /\ idOf \in [Calls -> IDs \cup {0}] /\ nextID \in IDs \cup {1}
  /\ ch \in [Calls -> {<<>>, Closed} \cup {<<m>> : m \in Answers}]
  /\ entries \subseteq IDs /\ inbox \subseteq IDs
  /\ reader.at \in {"reading", "dispatch", "ended"}
  /\ closed \in BOOLEAN /\ closer \in {"idle", "pending", "shutdown", "waiting", "done"}
  /\ child \in {"up", "exited"} /\ stdin \in {"open", "closed"} /\ stalled \in BOOLEAN
  /\ Len(stdout) <= lines /\ lines \in 0..MaxLines /\ served \subseteq Calls
  /\ exitCh \in BOOLEAN

\* A call that returns an answer returns the answer to its own request, under
\* the id its client chose, even when two clients chose the same id and the
\* child answers late, twice or out of order.
AnswerIsOwn ==
  \A c \in Calls : result[c].kind = "answer" => result[c] = Answer(OriginalID(c), c)

\* Dispatch sends outside the lock: the channel it sends to is open and
\* empty, so the send neither panics nor blocks readLoop, whatever the timer
\* and CloseAll did meanwhile.
SendIsSafe == reader.at = "dispatch" => ch[CallOf(reader.line.id)] = <<>>

\* A call as its caller sees it.
CallState ==
  [c \in Calls |-> CASE pc[c] = "idle" -> "idle"
                    [] pc[c] \in {"register", "write", "wait"} -> "pending"
                    [] pc[c] = "returned" /\ result[c].kind = "answer" -> "answered"
                    [] OTHER -> "failed"]

CR == INSTANCE CallReturn WITH st <- CallState

\* The session implements what its callers rely on: a call ends once, and
\* with an answer only if the child answered that request.
ImplementsCallReturn == CR!Spec

\* A call that waits for its answer returns, and so does one that is still
\* writing once the session is closed or the child has exited; a child that
\* stops reading stdin holds a writer no longer than that.
CallEnds ==
  \A c \in Calls :
    \/ pc[c] = "wait"
    \/ pc[c] \in {"register", "write"} /\ (closed \/ child = "exited")
    ~> pc[c] = "returned"

=============================================================================
