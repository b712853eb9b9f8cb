------------------------- MODULE SessionCallsProofs -------------------------
(***************************************************************************)
(* Proofs about SessionCalls, for any number of callers and any ids their  *)
(* clients chose: an answer reaches the call it answers, the send of       *)
(* Dispatch is safe, and the session implements CallReturn.                *)
(***************************************************************************)
EXTENDS SessionCalls, SequenceTheorems, FiniteSetTheorems, TLAPS

CallPCs == {"idle", "register", "write", "wait", "returned"}
Lines == [kind : {"answer", "noise", "huge"}, id : Nat, of : Calls]

\* Register gives every call an id of its own.
IdInv ==
  /\ pc \in [Calls -> CallPCs]
  /\ idOf \in [Calls -> Nat] /\ nextID \in Nat
  /\ \A c \in Calls : idOf[c] <= nextID
  /\ \A c \in Calls : pc[c] \in {"idle", "register"} => idOf[c] = 0
  /\ \A c \in Calls : pc[c] \in {"write", "wait"} => idOf[c] # 0
  /\ \A c, d \in Calls : idOf[c] = idOf[d] /\ idOf[c] # 0 => c = d

\* Ids that are waited for, or known to the child, are ids of calls.
KnownInv ==
  /\ \A id \in entries : id # 0 /\ \E c \in Calls : idOf[c] = id
  /\ \A id \in inbox : id # 0 /\ \E c \in Calls : idOf[c] = id

\* A wait channel is empty while its entry is there, and holds no answer but
\* that of its call.
ChanInv ==
  /\ DOMAIN ch = Calls
  /\ \A c \in Calls : idOf[c] \in entries \/ idOf[c] = 0 => ch[c] = <<>>
  /\ \A c \in Calls : \/ ch[c] = <<>> \/ ch[c] = Closed
                      \/ ch[c] = <<Answer(OriginalID(c), c)>> /\ c \in served

\* An answer on its way names the id of the call it is for.
Genuine(m) == m.kind = "answer" => m.of \in served /\ m.id # 0 /\ idOf[m.of] = m.id

LineInv ==
  /\ stdout \in Seq(Lines)
  /\ \A i \in 1..Len(stdout) : Genuine(stdout[i])

\* readLoop has a state and a line.
ReaderType == reader = [at |-> reader.at, line |-> reader.line]

\* An answer being dispatched has no entry any more, and its channel is empty.
ReaderInv ==
  /\ ReaderType
  /\ reader.at = "dispatch" =>
    /\ reader.line \in Lines /\ reader.line.kind = "answer" /\ Genuine(reader.line)
    /\ reader.line.id \notin entries /\ ch[reader.line.of] = <<>>

\* What a call returned.
ResultInv ==
  /\ DOMAIN result = Calls /\ served \subseteq Calls
  /\ \A c \in Calls : result[c].kind = "answer" =>
       pc[c] = "returned" /\ c \in served /\ result[c] = Answer(OriginalID(c), c)

CallInv == IdInv /\ KnownInv /\ ChanInv /\ LineInv /\ ReaderInv /\ ResultInv

-----------------------------------------------------------------------------
\* An id leads back to its call.
LEMMA CallOfID ==
  ASSUME IdInv, NEW c \in Calls, idOf[c] # 0
  PROVE  CallOf(idOf[c]) = c
  BY DEF IdInv, CallOf

\* The kinds of messages are told apart.
LEMMA Kinds ==
  /\ \A id, c : Answer(id, c).kind = "answer" /\ Answer(id, c).of = c /\ Answer(id, c).id = id
  /\ \A k : Other(k).kind = k
  /\ Failed.kind = "error" /\ \A id, c : Closed # <<Answer(id, c)>>
<1>1. \A id, c : Answer(id, c).kind = "answer" /\ Answer(id, c).of = c /\ Answer(id, c).id = id
  BY DEF Answer
<1>2. \A k : Other(k).kind = k
  BY DEF Other
<1>3. Failed.kind = "error"
  BY DEF Failed, Other
<1>4. ASSUME NEW id, NEW c PROVE Closed # <<Answer(id, c)>>
  <2>1. Closed[1].kind = "closed"
    BY <1>2 DEF Closed
  <2>2. <<Answer(id, c)>>[1].kind = "answer"
    BY <1>1
  <2> QED
    BY <2>1, <2>2
<1> QED
  BY <1>1, <1>2, <1>3, <1>4

\* In the initial state nothing was called.
LEMMA InitCall == Init => CallInv
<1> SUFFICES ASSUME Init PROVE CallInv
  OBVIOUS
<1>1. IdInv /\ KnownInv
  BY DEF Init, IdInv, KnownInv, CallPCs
<1>2. ChanInv
  BY DEF Init, ChanInv
<1>3. LineInv
  BY DEF Init, LineInv
<1>4. ReaderInv
  BY DEF Init, ReaderInv, ReaderType, Reading
<1>5. ResultInv
  BY Kinds DEF Init, ResultInv
<1> QED
  BY <1>1, <1>2, <1>3, <1>4, <1>5 DEF CallInv

\* A call that is under way returns an error or what its channel held.
LEMMA ReturnInv ==
  ASSUME CallInv, NEW c \in Calls, NEW r, Returns(c, r),
         r.kind # "answer" \/ (c \in served /\ r = Answer(OriginalID(c), c)),
         UNCHANGED <<idOf, mapVars, reader, served, inbox, stdout>>
  PROVE  CallInv'
<1> USE DEF Returns, mapVars
<1>1. IdInv'
  BY DEF CallInv, IdInv, CallPCs
<1>2. KnownInv'
  BY DEF CallInv, KnownInv
<1>3. ChanInv' /\ LineInv' /\ ReaderInv'
  BY DEF CallInv, ChanInv, LineInv, ReaderInv, ReaderType, Genuine
<1>4. ResultInv'
  BY DEF CallInv, IdInv, ResultInv
<1> QED
  BY <1>1, <1>2, <1>3, <1>4 DEF CallInv

\* What Receive returns is an error, or the answer to the call.
LEMMA ReceiveResult ==
  ASSUME CallInv, NEW c \in Calls, ch[c] # <<>>
  PROVE  LET r == IF ch[c] = Closed THEN Failed ELSE ch[c][1]
         IN  r.kind # "answer" \/ (c \in served /\ r = Answer(OriginalID(c), c))
<1>1. CASE ch[c] = Closed
  BY <1>1, Kinds
<1>2. CASE ch[c] # Closed
  BY <1>2 DEF CallInv, ChanInv
<1> QED
  BY <1>1, <1>2

\* Session.Call up to the wait.
LEMMA CallStepInv ==
  ASSUME CallInv, NEW c \in Calls, CallStep(c) \/ Cancel(c)
  PROVE  CallInv'
<1> USE DEF CallStays, childVars
<1>1. CASE Enter(c)
  <2>1. CASE Returns(c, Failed)
    BY <1>1, <2>1, ReturnInv, Kinds DEF Enter
  <2>2. CASE pc' = [pc EXCEPT ![c] = "register"] /\ result' = result
    <3>1. IdInv' /\ KnownInv'
      BY <1>1, <2>2 DEF Enter, CallInv, IdInv, KnownInv, CallPCs, mapVars
    <3>2. ChanInv' /\ LineInv' /\ ReaderInv'
      BY <1>1 DEF Enter, CallInv, ChanInv, LineInv, ReaderInv, ReaderType, Genuine, mapVars
    <3>3. ResultInv'
      BY <1>1, <2>2 DEF Enter, CallInv, IdInv, ResultInv
    <3> QED
      BY <3>1, <3>2, <3>3 DEF CallInv
  <2> QED
    BY <1>1, <2>1, <2>2 DEF Enter
<1>2. CASE Register(c)
  <2> DEFINE id == nextID + 1
  <2>0. idOf[c] = 0 /\ id \in Nat /\ id # 0 /\ \A d \in Calls : idOf[d] < id
    BY <1>2 DEF Register, CallInv, IdInv
  <2>1. /\ nextID' = id /\ idOf' = [idOf EXCEPT ![c] = id] /\ entries' = entries \cup {id}
        /\ pc' = [pc EXCEPT ![c] = "write"] /\ pc[c] = "register"
        /\ UNCHANGED <<reader, stdout, ch, result, inbox, served>>
    BY <1>2 DEF Register
  <2> HIDE DEF id
  <2>2. \A d \in Calls : d # c => idOf'[d] = idOf[d]
    BY <2>1 DEF CallInv, IdInv
  <2>3. idOf'[c] = id
    BY <2>1 DEF CallInv, IdInv
  <2>4. id \notin entries /\ \A d \in Calls : idOf[d] # 0 => d # c
    BY <2>0 DEF CallInv, KnownInv
  <2>5. IdInv'
    <3>1. pc' \in [Calls -> CallPCs] /\ idOf' \in [Calls -> Nat] /\ nextID' \in Nat
      BY <2>0, <2>1 DEF CallInv, IdInv, CallPCs
    <3>2. \A d \in Calls : idOf'[d] <= nextID'
      BY <2>0, <2>1, <2>2, <2>3 DEF CallInv, IdInv
    <3>3. \A d \in Calls : pc'[d] \in {"idle", "register"} => idOf'[d] = 0
      BY <2>1, <2>2 DEF CallInv, IdInv
    <3>5. \A d \in Calls : pc'[d] \in {"write", "wait"} => idOf'[d] # 0
      BY <2>0, <2>1, <2>2, <2>3 DEF CallInv, IdInv
    <3>4. \A d, e \in Calls : idOf'[d] = idOf'[e] /\ idOf'[d] # 0 => d = e
      BY <2>0, <2>2, <2>3 DEF CallInv, IdInv
    <3> QED
      BY <3>1, <3>2, <3>3, <3>4, <3>5 DEF IdInv
  <2>6. KnownInv'
    BY <2>0, <2>1, <2>2, <2>3, <2>4 DEF CallInv, KnownInv
  <2>7. ChanInv'
    BY <2>0, <2>1, <2>2, <2>3 DEF CallInv, ChanInv
  <2>8. \A m \in Lines : Genuine(m) => Genuine(m)'
    BY <2>1, <2>2, <2>4 DEF Genuine, Lines
  <2>9. LineInv'
    BY <2>1, <2>8 DEF CallInv, LineInv
  <2>10. ReaderInv'
    <3> SUFFICES ASSUME reader.at = "dispatch"
                 PROVE  /\ reader.line \in Lines /\ reader.line.kind = "answer"
                        /\ Genuine(reader.line)' /\ reader.line.id \notin entries'
                        /\ ch[reader.line.of] = <<>>
      BY <2>1 DEF CallInv, ReaderInv, ReaderType, Genuine
    <3>1. reader.line \in Lines /\ Genuine(reader.line) /\ reader.line.kind = "answer"
      BY DEF CallInv, ReaderInv
    <3>2. reader.line.id # id
      BY <3>1, <2>0 DEF Genuine, Lines
    <3> QED
      BY <2>1, <2>8, <3>1, <3>2 DEF CallInv, ReaderInv
  <2>11. ResultInv'
    BY <2>1 DEF CallInv, IdInv, ResultInv
  <2> QED
    BY <2>5, <2>6, <2>7, <2>9, <2>10, <2>11 DEF CallInv
<1>3. CASE Write(c)
  <2> USE DEF Write, mapVars
  <2>0. idOf[c] # 0
    BY <1>3 DEF Write, CallInv, IdInv
  <2>1. IdInv' /\ KnownInv'
    BY <1>3, <2>0 DEF CallInv, IdInv, KnownInv, CallPCs
  <2>2. ChanInv' /\ LineInv' /\ ReaderInv'
    BY <1>3 DEF CallInv, ChanInv, LineInv, ReaderInv, ReaderType, Genuine
  <2>3. ResultInv'
    BY <1>3 DEF CallInv, IdInv, ResultInv
  <2> QED
    BY <2>1, <2>2, <2>3 DEF CallInv
<1>4. CASE WriteFails(c) \/ SeeExit(c) \/ Cancel(c)
  BY <1>4, ReturnInv, Kinds DEF WriteFails, SeeExit, Cancel
<1>5. CASE Receive(c)
  BY <1>5, ReturnInv, ReceiveResult DEF Receive
<1> QED
  BY <1>1, <1>2, <1>3, <1>4, <1>5 DEF CallStep

\* The timer of an entry closes its channel.
LEMMA TimeoutInv ==
  ASSUME CallInv, NEW id, Timeout(id)
  PROVE  CallInv'
<1> USE DEF callVars, childVars
<1>1. PICK c \in Calls : idOf[c] = id /\ id # 0 /\ id \in entries
  BY DEF Timeout, CallInv, KnownInv
<1>2. ch' = [ch EXCEPT ![c] = Closed] /\ entries' = entries \ {id}
  BY <1>1, CallOfID DEF Timeout, CallInv
<1>3. UNCHANGED <<pc, result, idOf, nextID, reader, inbox, stdout, served>>
  BY DEF Timeout
<1>4. IdInv' /\ KnownInv'
  BY <1>2, <1>3 DEF CallInv, IdInv, KnownInv
<1>5. ChanInv'
  BY <1>1, <1>2, <1>3 DEF CallInv, ChanInv, IdInv
<1>6. LineInv' /\ ResultInv'
  BY <1>3 DEF CallInv, LineInv, ResultInv, Genuine
<1>7. ReaderInv'
  BY <1>1, <1>2, <1>3 DEF CallInv, ReaderInv, ReaderType, ChanInv, Genuine, Lines
<1> QED
  BY <1>4, <1>5, <1>6, <1>7 DEF CallInv

\* readLoop takes a line off stdout, and an entry off the map.
LEMMA ReadInv ==
  ASSUME CallInv, Read
  PROVE  CallInv'
<1> DEFINE line == Head(stdout)
           known == line.kind = "answer" /\ line.id \in entries
<1>1. UNCHANGED <<pc, result, idOf, ch, nextID, inbox, served>>
  BY DEF Read, callVars, childVars
<1>2. stdout' = Tail(stdout) /\ stdout # <<>> /\ stdout \in Seq(Lines)
  BY DEF Read, CallInv, LineInv
<1>3. line \in Lines /\ Genuine(line)
  BY <1>2, HeadTailProperties DEF CallInv, LineInv
<1>4. LineInv'
  <2>1. Tail(stdout) \in Seq(Lines) /\ Len(Tail(stdout)) = Len(stdout) - 1
    BY <1>2, HeadTailProperties
  <2>2. \A i \in 1..Len(Tail(stdout)) : Tail(stdout)[i] = stdout[i + 1]
    BY <1>2, HeadTailProperties
  <2>3. \A i \in 1..Len(Tail(stdout)) : i + 1 \in 1..Len(stdout)
    BY <1>2, <2>1
  <2>4. \A i \in 1..Len(Tail(stdout)) : Genuine(Tail(stdout)[i])
    BY <2>2, <2>3 DEF CallInv, LineInv
  <2> QED
    BY <1>1, <1>2, <2>1, <2>4 DEF LineInv, Genuine
<1>5. entries' = IF known THEN entries \ {line.id} ELSE entries
  BY DEF Read
<1>6. /\ ReaderType'
      /\ \/ known /\ reader'.at = "dispatch" /\ reader'.line = line
         \/ ~known /\ reader'.at # "dispatch"
  <2>1. CASE known
    <3>1. reader' = [at |-> "dispatch", line |-> line]
      BY <2>1 DEF Read
    <3> QED
      BY <2>1, <3>1 DEF ReaderType
  <2>2. CASE ~known /\ line.kind = "huge"
    <3>1. reader' = [reader EXCEPT !.at = "ended"] /\ ReaderType
      BY <2>2 DEF Read, CallInv, ReaderInv
    <3> QED
      BY <2>2, <3>1 DEF ReaderType
  <2>3. CASE ~known /\ line.kind # "huge"
    <3>1. reader' = reader /\ ReaderType /\ reader.at = "reading"
      BY <2>3 DEF Read, CallInv, ReaderInv
    <3> QED
      BY <2>3, <3>1 DEF ReaderType
  <2> QED
    BY <2>1, <2>2, <2>3
<1> HIDE DEF line
<1>7. IdInv' /\ KnownInv' /\ ChanInv' /\ ResultInv'
  BY <1>1, <1>5 DEF CallInv, IdInv, KnownInv, ChanInv, ResultInv
<1>8. ReaderInv'
  <2> SUFFICES ASSUME reader'.at = "dispatch"
               PROVE  /\ reader'.line = line /\ line.kind = "answer" /\ line.id \notin entries'
                      /\ ch[line.of] = <<>>
    BY <1>1, <1>3, <1>6 DEF ReaderInv, Genuine
  <2>1. known /\ reader'.line = line
    BY <1>6
  <2>2. line.of \in Calls /\ idOf[line.of] \in entries
    BY <1>3, <2>1 DEF Genuine, Lines
  <2> QED
    BY <1>5, <2>1, <2>2 DEF CallInv, ChanInv
<1> QED
  BY <1>4, <1>7, <1>8 DEF CallInv

\* The send of Dispatch: into the channel of the call the answer is for.
LEMMA DeliverInv ==
  ASSUME CallInv, Deliver
  PROVE  CallInv'
<1> DEFINE m == reader.line
           c == m.of
<1>1. /\ m \in Lines /\ m.kind = "answer" /\ c \in served /\ c \in Calls
      /\ m.id = idOf[c] /\ m.id # 0 /\ m.id \notin entries
  BY DEF Deliver, CallInv, ReaderInv, ReaderType, Genuine, Lines
<1>2. CallOf(m.id) = c
  BY <1>1, CallOfID DEF CallInv
<1>3. ch' = [ch EXCEPT ![c] = <<Answer(OriginalID(c), c)>>] /\ reader'.at = "reading"
  BY <1>2 DEF Deliver, Reading
<1>4. UNCHANGED <<pc, result, idOf, entries, nextID, inbox, stdout, served>>
  BY DEF Deliver, callVars, childVars
<1> HIDE DEF m, c
<1>5. ChanInv'
  BY <1>1, <1>3, <1>4 DEF CallInv, ChanInv
<1>6. IdInv' /\ KnownInv' /\ LineInv' /\ ResultInv'
  BY <1>4 DEF CallInv, IdInv, KnownInv, LineInv, ResultInv, Genuine
<1>7. ReaderInv'
  BY DEF Deliver, Reading, ReaderInv, ReaderType
<1> QED
  BY <1>5, <1>6, <1>7 DEF CallInv

\* CloseAll closes the channels whose entry is there.
LEMMA CloseAllInv ==
  ASSUME CallInv, CloseAll
  PROVE  CallInv'
<1> USE DEF CloseAll, callVars, childVars
<1>1. IdInv' /\ KnownInv' /\ LineInv' /\ ResultInv'
  BY DEF CallInv, IdInv, KnownInv, LineInv, ResultInv, Genuine
<1>2. ChanInv'
  BY DEF CallInv, ChanInv, KnownInv
<1>3. ReaderInv'
  BY DEF CallInv, ReaderInv, ReaderType, Genuine, Lines
<1> QED
  BY <1>1, <1>2, <1>3 DEF CallInv

\* The child adds a line to stdout.
LEMMA AppendInv ==
  ASSUME CallInv, NEW m \in Lines, stdout' = Append(stdout, m), Genuine(m)',
         served \subseteq served', served' \subseteq Calls,
         UNCHANGED <<callVars, mapVars, reader, inbox>>
  PROVE  CallInv'
<1> USE DEF callVars, mapVars
<1>1. IdInv' /\ KnownInv'
  BY DEF CallInv, IdInv, KnownInv
<1>2. ChanInv' /\ ResultInv'
  BY DEF CallInv, ChanInv, ResultInv
<1>3. ReaderInv'
  BY DEF CallInv, ReaderInv, ReaderType, Genuine
<1>4. LineInv'
  <2>1. stdout \in Seq(Lines) /\ \A x \in Lines : Genuine(x) => Genuine(x)'
    BY DEF CallInv, LineInv, Genuine
  <2>2. stdout' \in Seq(Lines) /\ Len(stdout') = Len(stdout) + 1
    BY <2>1, AppendProperties
  <2>3. ASSUME NEW i \in 1..Len(stdout') PROVE Genuine(stdout[i])'
    <3>1. CASE i \in 1..Len(stdout)
      <4>1. stdout'[i] = stdout[i] /\ stdout[i] \in Lines
        BY <2>1, <3>1, AppendProperties
      <4>2. Genuine(stdout[i])
        BY <3>1 DEF CallInv, LineInv
      <4> QED
        BY <2>1, <4>1, <4>2 DEF Genuine
    <3>2. CASE i \notin 1..Len(stdout)
      <4>1. i = Len(stdout) + 1
        BY <2>1, <2>2, <3>2
      <4>2. stdout'[i] = m
        BY <2>1, <4>1, AppendProperties
      <4> QED
        BY <4>2 DEF Genuine
    <3> QED
      BY <3>1, <3>2
  <2> QED
    BY <2>2, <2>3 DEF LineInv
<1> QED
  BY <1>1, <1>2, <1>3, <1>4 DEF CallInv

\* The child answers or writes something else.
LEMMA ChildInv ==
  ASSUME CallInv,
         (\E id \in IDs : ChildAnswers(id)) \/ (\E line \in Junk : ChildWrites(line))
  PROVE  CallInv'
<1>1. ASSUME NEW id \in IDs, ChildAnswers(id) PROVE CallInv'
  <2>1. PICK c \in Calls : idOf[c] = id /\ id # 0
    BY <1>1 DEF ChildAnswers, CallInv, KnownInv
  <2>2. CallOf(id) = c /\ id \in Nat
    BY <2>1, CallOfID DEF CallInv, IdInv
  <2>3. Answer(id, c) \in Lines
    BY <2>2 DEF Answer, Lines
  <2>4. stdout' = Append(stdout, Answer(id, c)) /\ served' = served \cup {c}
    BY <1>1, <2>2 DEF ChildAnswers
  <2>5. Genuine(Answer(id, c))'
    BY <1>1, <2>1, <2>4, Kinds DEF Genuine, ChildAnswers, callVars
  <2>6. served' \subseteq Calls /\ UNCHANGED <<callVars, mapVars, reader, inbox>>
    BY <1>1, <2>4 DEF ChildAnswers, CallInv, ResultInv
  <2> QED
    BY <2>3, <2>4, <2>5, <2>6, AppendInv
<1>2. ASSUME NEW line \in Junk, ChildWrites(line) PROVE CallInv'
  <2>1. line \in Lines /\ line.kind # "answer"
    BY DEF Junk, Other, Lines, Calls
  <2>2. served' = served /\ UNCHANGED <<callVars, mapVars, reader, inbox>>
    BY <1>2 DEF ChildWrites
  <2>3. stdout' = Append(stdout, line) /\ Genuine(line)'
    BY <1>2, <2>1 DEF ChildWrites, Genuine
  <2>4. served' \subseteq Calls
    BY <2>2 DEF CallInv, ResultInv
  <2> QED
    BY <2>1, <2>2, <2>3, <2>4, AppendInv
<1> QED
  BY <1>1, <1>2

\* Wait closes the pipes, and some of the lines are lost.
LEMMA WaitInv ==
  ASSUME CallInv, WaitReturns
  PROVE  CallInv'
<1> USE DEF WaitReturns, callVars, mapVars, childVars
<1>1. IdInv' /\ KnownInv' /\ ChanInv' /\ ResultInv' /\ ReaderInv'
  BY DEF CallInv, IdInv, KnownInv, ChanInv, ResultInv, ReaderInv, ReaderType, Genuine
<1>2. LineInv'
  <2>1. PICK b \in 0..Len(stdout) : stdout' = SubSeq(stdout, 1, b)
    OBVIOUS
  <2>2. stdout \in Seq(Lines) /\ b \in Nat /\ Len(stdout) \in Nat /\ b <= Len(stdout)
    BY <2>1 DEF CallInv, LineInv
  <2>3. stdout' \in Seq(Lines) /\ Len(stdout') = b /\ \A i \in 1..b : stdout'[i] = stdout[i]
    BY <2>1, <2>2
  <2> QED
    BY <2>2, <2>3 DEF CallInv, LineInv, Genuine
<1> QED
  BY <1>1, <1>2 DEF CallInv

\* The steps that touch none of it.
LEMMA StayInv ==
  ASSUME CallInv, UNCHANGED <<callVars, mapVars, inbox, served, stdout>>,
         reader' = reader \/ (ReaderType' /\ reader'.at # "dispatch")
  PROVE  CallInv'
<1> USE DEF callVars, mapVars
<1>1. IdInv' /\ KnownInv' /\ ChanInv' /\ LineInv' /\ ResultInv'
  BY DEF CallInv, IdInv, KnownInv, ChanInv, LineInv, ResultInv, Genuine
<1>2. CASE reader' = reader
  BY <1>1, <1>2 DEF CallInv, ReaderInv, ReaderType, Genuine
<1>3. CASE ReaderType' /\ reader'.at # "dispatch"
  BY <1>1, <1>3 DEF CallInv, ReaderInv
<1> QED
  BY <1>2, <1>3

\* Every step preserves the invariant.
LEMMA NextCall == CallInv /\ [Next]_vars => CallInv'
<1> SUFFICES ASSUME CallInv, [Next]_vars PROVE CallInv'
  OBVIOUS
<1>1. ASSUME NEW c \in Calls, CallStep(c) \/ Cancel(c) PROVE CallInv'
  BY <1>1, CallStepInv
<1>2. ASSUME NEW id \in IDs, Timeout(id) \/ ChildAnswers(id) PROVE CallInv'
  BY <1>2, TimeoutInv, ChildInv
<1>3. ASSUME NEW line \in Junk, ChildWrites(line) PROVE CallInv'
  BY <1>3, ChildInv
<1>4. CASE Read \/ Deliver
  BY <1>4, ReadInv, DeliverInv
<1>5. CASE ReadEOF
  <2>1. reader' = [reader EXCEPT !.at = "ended"]
    BY <1>5 DEF ReadEOF
  <2>2. reader'.at # "dispatch" /\ ReaderType'
    BY <2>1 DEF CallInv, ReaderInv, ReaderType
  <2> QED
    BY <1>5, <2>2, StayInv DEF ReadEOF, childVars
<1>6. CASE CloseAll
  BY <1>6, CloseAllInv
<1>7. CASE CloseSwap \/ Shutdown \/ CloseReturns \/ HandshakeDone \/ Settled
  BY <1>7, StayInv DEF CloseSwap, Shutdown, CloseReturns, HandshakeDone, Settled, childVars
<1>8. CASE ChildStalls \/ ChildExits
  BY <1>8, StayInv DEF ChildStalls, ChildExits
<1>9. CASE WaitReturns
  BY <1>9, WaitInv
<1>10. CASE UNCHANGED vars
  BY <1>10, StayInv DEF vars, childVars
<1> QED
  BY <1>1, <1>2, <1>3, <1>4, <1>5, <1>6, <1>7, <1>8, <1>9, <1>10 DEF Next, ReadStep, CloseStep

\* The inductive invariant holds in every reachable state.
THEOREM CallInvariant == Spec => []CallInv
  BY InitCall, NextCall, PTL DEF Spec

\* Whatever ids the clients chose and however the child answers, a call
\* returns no answer but its own (PendingMap, Session.Call).
THEOREM OwnAnswer == Spec => []AnswerIsOwn
<1>1. CallInv => AnswerIsOwn
  BY DEF CallInv, ResultInv, AnswerIsOwn
<1> QED
  BY <1>1, CallInvariant, PTL

\* The send of Dispatch outside the lock finds its channel open and empty.
THEOREM SafeSend == Spec => []SendIsSafe
<1>1. ASSUME CallInv PROVE SendIsSafe
  <2> SUFFICES ASSUME reader.at = "dispatch" PROVE ch[CallOf(reader.line.id)] = <<>>
    BY DEF SendIsSafe
  <2>1. /\ reader.line.of \in Calls /\ idOf[reader.line.of] = reader.line.id
        /\ reader.line.id # 0 /\ ch[reader.line.of] = <<>>
    BY <1>1 DEF CallInv, ReaderInv, ReaderType, Genuine, Lines
  <2>2. CallOf(reader.line.id) = reader.line.of
    BY <1>1, <2>1, CallOfID DEF CallInv
  <2> QED
    BY <2>1, <2>2
<1> QED
  BY <1>1, CallInvariant, PTL

-----------------------------------------------------------------------------
(* The refinement of CallReturn.                                           *)

\* A call that has not been entered, one that is under way, and one that
\* returned an answer or an error.
LEMMA StateOfCall ==
  ASSUME NEW c \in Calls
  PROVE  /\ pc[c] = "idle" => CallState[c] = "idle"
         /\ pc[c] \in {"register", "write", "wait"} => CallState[c] = "pending"
         /\ pc[c] = "returned" /\ result[c].kind = "answer" => CallState[c] = "answered"
         /\ pc[c] = "returned" /\ result[c].kind # "answer" => CallState[c] = "failed"
  BY DEF CallState

\* CallState is a function of pc and result.
LEMMA SameState == UNCHANGED <<pc, result>> => CallState' = CallState
  BY DEF CallState

\* When one call moves, the others stay as they are.
LEMMA OneCallMoves ==
  ASSUME NEW c \in Calls, \A d \in Calls : d # c => pc'[d] = pc[d] /\ result'[d] = result[d]
  PROVE  CallState' = [CallState EXCEPT ![c] = CallState'[c]]
<1>1. \A d \in Calls : d # c => CallState'[d] = CallState[d]
  BY DEF CallState
<1>2. DOMAIN CallState = Calls /\ DOMAIN CallState' = Calls
      /\ CallState' = [d \in Calls |-> CallState'[d]]
  BY DEF CallState
<1> HIDE DEF CallState
<1> QED
  BY <1>1, <1>2

\* Return of an error is Fail, return of the call's own answer is Answer.
LEMMA ReturnRefines ==
  ASSUME CallInv, NEW c \in Calls, NEW r, Returns(c, r), pc[c] \in {"idle", "register", "write", "wait"},
         r.kind # "answer" \/ (pc[c] = "wait" /\ c \in served), served' = served
  PROVE  CR!Next
<1>0. \A d \in Calls : d # c => pc'[d] = pc[d] /\ result'[d] = result[d]
  BY DEF Returns, CallInv, IdInv, ResultInv
<1>1. CallState' = [CallState EXCEPT ![c] = CallState'[c]]
  BY <1>0, OneCallMoves
<1>2. pc'[c] = "returned" /\ result'[c] = r
  BY DEF Returns, CallInv, IdInv, ResultInv
<1>3. CASE r.kind # "answer"
  <2>1. CallState'[c] = "failed" /\ CallState[c] \in {"idle", "pending"}
    BY <1>2, <1>3, StateOfCall DEF CallState
  <2>2. CR!Fail(c)
    BY <1>1, <2>1 DEF CR!Fail
  <2> QED
    BY <2>2 DEF CR!Next
<1>4. CASE pc[c] = "wait" /\ c \in served /\ r.kind = "answer"
  <2>1. CallState'[c] = "answered" /\ CallState[c] = "pending"
    BY <1>2, <1>4, StateOfCall DEF CallState
  <2>2. CR!Answer(c)
    BY <1>1, <1>4, <2>1 DEF CR!Answer
  <2> QED
    BY <2>2 DEF CR!Next
<1> QED
  BY <1>3, <1>4

\* The steps of a call.
LEMMA CallStepRefines ==
  ASSUME CallInv, NEW c \in Calls, CallStep(c) \/ Cancel(c)
  PROVE  CR!Next \/ UNCHANGED CR!vars
<1> USE DEF CallStays, childVars
<1>0. served' = served
  BY DEF CallStep, Cancel, Enter, Register, Write, WriteFails, Receive, SeeExit
<1>1. CASE Enter(c)
  <2>1. CASE Returns(c, Failed)
    BY <1>0, <1>1, <2>1, ReturnRefines, Kinds DEF Enter
  <2>2. CASE pc' = [pc EXCEPT ![c] = "register"] /\ result' = result
    <3>1. \A d \in Calls : d # c => pc'[d] = pc[d] /\ result'[d] = result[d]
      BY <2>2 DEF CallInv, IdInv
    <3>2. CallState' = [CallState EXCEPT ![c] = CallState'[c]]
      BY <3>1, OneCallMoves
    <3>3. pc[c] = "idle" /\ pc'[c] = "register"
      BY <1>1, <2>2 DEF Enter, CallInv, IdInv
    <3>4. CallState[c] = "idle" /\ CallState'[c] = "pending"
      BY <3>3, StateOfCall DEF CallState
    <3>5. CR!Begin(c)
      BY <1>0, <3>2, <3>4 DEF CR!Begin
    <3> QED
      BY <3>5 DEF CR!Next
  <2> QED
    BY <1>1, <2>1, <2>2 DEF Enter
<1>2. CASE Register(c) \/ Write(c)
  <2>1. /\ pc[c] \in {"register", "write"} /\ pc'[c] \in {"write", "wait"} /\ result' = result
        /\ \A d \in Calls : d # c => pc'[d] = pc[d]
    BY <1>2 DEF Register, Write, CallInv, IdInv
  <2>2. CallState' = CallState
    BY <2>1 DEF CallState
  <2> QED
    BY <1>0, <2>2 DEF CR!vars
<1>3. CASE WriteFails(c) \/ SeeExit(c) \/ Cancel(c)
  BY <1>0, <1>3, ReturnRefines, Kinds DEF WriteFails, SeeExit, Cancel
<1>4. CASE Receive(c)
  <2> DEFINE r == IF ch[c] = Closed THEN Failed ELSE ch[c][1]
  <2>1. Returns(c, r) /\ pc[c] = "wait"
    BY <1>4 DEF Receive
  <2>2. r.kind # "answer" \/ c \in served
    BY <1>4, ReceiveResult DEF Receive
  <2> HIDE DEF r
  <2> QED
    BY <1>0, <2>1, <2>2, ReturnRefines
<1> QED
  BY <1>1, <1>2, <1>3, <1>4 DEF CallStep

\* Every step is a step of CallReturn or changes nothing its callers see.
LEMMA NextRefines == CallInv /\ [Next]_vars => [CR!Next]_(CR!vars)
<1> SUFFICES ASSUME CallInv, [Next]_vars PROVE CR!Next \/ UNCHANGED CR!vars
  OBVIOUS
<1>1. ASSUME NEW c \in Calls, CallStep(c) \/ Cancel(c) PROVE CR!Next \/ UNCHANGED CR!vars
  BY <1>1, CallStepRefines
<1>2. ASSUME NEW id \in IDs, ChildAnswers(id) PROVE CR!Next
  <2>1. PICK c \in Calls : idOf[c] = id /\ id # 0
    BY <1>2 DEF ChildAnswers, CallInv, KnownInv
  <2>2. CallOf(id) = c
    BY <2>1, CallOfID DEF CallInv
  <2>3. pc[c] # "idle" /\ pc[c] \in CallPCs
    BY <2>1 DEF CallInv, IdInv
  <2>4. CallState[c] # "idle"
    BY <2>3, StateOfCall DEF CallPCs
  <2>5. CallState' = CallState /\ served' = served \cup {c}
    BY <1>2, <2>2, SameState DEF ChildAnswers, callVars
  <2>6. CR!Serve(c)
    BY <2>4, <2>5 DEF CR!Serve
  <2> QED
    BY <2>6 DEF CR!Next
<1>3. CASE UNCHANGED <<pc, result, served>>
  BY <1>3, SameState DEF CR!vars
<1>4. CASE \/ \E id \in IDs : Timeout(id)
           \/ \E line \in Junk : ChildWrites(line)
           \/ ReadStep \/ CloseSwap \/ CloseStep \/ HandshakeDone \/ Settled
           \/ ChildStalls \/ ChildExits \/ WaitReturns \/ UNCHANGED vars
  <2>1. UNCHANGED <<pc, result, served>>
    BY <1>4 DEF Timeout, ChildWrites, ReadStep, Read, Deliver, ReadEOF, CloseSwap, CloseStep, CloseAll,
         Shutdown, CloseReturns, HandshakeDone, Settled, ChildStalls, ChildExits, WaitReturns, vars,
         callVars, childVars
  <2> QED
    BY <1>3, <2>1
<1> QED
  BY <1>1, <1>2, <1>4 DEF Next

\* For any number of callers the session implements what its callers rely on:
\* a call ends once, and with an answer only if the child answered it
\* (Session.Call, PendingMap).
THEOREM Refinement == Spec => ImplementsCallReturn
<1>1. Init => CR!Init
  BY DEF Init, CR!Init, CallState
<1> QED
  BY <1>1, NextRefines, CallInvariant, PTL DEF Spec, ImplementsCallReturn, CR!Spec

-----------------------------------------------------------------------------
(* No waiting call is forgotten.                                           *)

\* Somebody will end the call: its timer, whatever is in its channel, or
\* readLoop, which has taken its answer off the map and is about to send it.
Awaited(c) ==
  \/ idOf[c] \in entries \/ ch[c] # <<>>
  \/ reader.at = "dispatch" /\ reader.line.id = idOf[c]

\* A call between Register and its return is never left without somebody who
\* will end it, though Dispatch, the timers and CloseAll each take entries
\* off the map and Dispatch sends outside the lock (PendingMap).
NoCallStranded == \A c \in Calls : pc[c] \in {"write", "wait"} => Awaited(c)

\* An answer that is read is either nobody's any more, or on its way.
LEMMA ReadAwaited ==
  ASSUME CallInv, NoCallStranded, Read
  PROVE  NoCallStranded'
<1> DEFINE line == Head(stdout)
           known == line.kind = "answer" /\ line.id \in entries
<1>1. UNCHANGED <<pc, idOf, ch>> /\ reader.at = "reading"
  BY DEF Read, callVars
<1>2. entries' = IF known THEN entries \ {line.id} ELSE entries
  BY DEF Read
<1>3. known => reader' = [at |-> "dispatch", line |-> line]
  BY DEF Read
<1>4. known => reader'.at = "dispatch" /\ reader'.line = line
  BY <1>3
<1> HIDE DEF line
<1>5. ASSUME NEW c \in Calls, pc[c] \in {"write", "wait"} PROVE Awaited(c)'
  <2>1. idOf[c] \in entries \/ ch[c] # <<>>
    BY <1>1, <1>5 DEF NoCallStranded, Awaited
  <2>2. CASE ch[c] # <<>>
    BY <1>1, <2>2 DEF Awaited
  <2>3. CASE idOf[c] \in entries /\ ~(known /\ line.id = idOf[c])
    BY <1>1, <1>2, <2>3 DEF Awaited
  <2>4. CASE known /\ line.id = idOf[c]
    BY <1>1, <1>4, <2>4 DEF Awaited
  <2> QED
    BY <2>1, <2>2, <2>3, <2>4
<1> QED
  BY <1>1, <1>5 DEF NoCallStranded

\* The send of Dispatch ends nobody's wait but that of its own call.
LEMMA DeliverAwaited ==
  ASSUME CallInv, NoCallStranded, Deliver
  PROVE  NoCallStranded'
<1>1. PICK d \in Calls : d = reader.line.of /\ reader.line.id = idOf[d] /\ idOf[d] # 0
  BY DEF Deliver, CallInv, ReaderInv, Genuine, Lines
<1>2. CallOf(reader.line.id) = d
  BY <1>1, CallOfID DEF CallInv
<1>3. /\ ch' = [ch EXCEPT ![d] = <<Answer(OriginalID(d), reader.line.of)>>]
      /\ UNCHANGED <<pc, idOf, entries>>
  BY <1>2 DEF Deliver, callVars
<1>4. ch'[d] # <<>> /\ \A c \in Calls \ {d} : ch'[c] = ch[c]
  BY <1>3 DEF CallInv, ChanInv
<1>5. ASSUME NEW c \in Calls, pc[c] \in {"write", "wait"} PROVE Awaited(c)'
  <2>1. CASE c = d
    BY <1>4, <2>1 DEF Awaited
  <2>2. CASE c # d
    <3>1. idOf[c] # reader.line.id
      BY <1>1, <2>2 DEF CallInv, IdInv
    <3> QED
      BY <1>3, <1>4, <1>5, <2>2, <3>1 DEF Awaited, NoCallStranded
  <2> QED
    BY <2>1, <2>2
<1> QED
  BY <1>3, <1>5 DEF NoCallStranded

\* Who takes an entry off the map closes its channel.
LEMMA ClosingAwaited ==
  ASSUME CallInv, NoCallStranded, CloseAll \/ \E id \in IDs : Timeout(id)
  PROVE  NoCallStranded'
<1>0. Closed # <<>> /\ UNCHANGED <<pc, idOf, reader>>
  BY DEF Closed, CloseAll, Timeout, callVars
<1>1. ASSUME NEW c \in Calls
      PROVE  \/ idOf[c] \in entries' /\ idOf[c] \in entries /\ ch'[c] = ch[c]
             \/ idOf[c] \notin entries /\ ch'[c] = ch[c]
             \/ ch'[c] = Closed
  <2>1. CASE CloseAll
    BY <2>1 DEF CloseAll
  <2>2. ASSUME NEW id \in IDs, Timeout(id)
        PROVE  \/ idOf[c] \in entries' /\ idOf[c] \in entries /\ ch'[c] = ch[c]
               \/ idOf[c] \notin entries /\ ch'[c] = ch[c]
               \/ ch'[c] = Closed
    <3>1. PICK d \in Calls : idOf[d] = id /\ id # 0
      BY <2>2 DEF Timeout, CallInv, KnownInv
    <3>2. ch' = [ch EXCEPT ![d] = Closed] /\ entries' = entries \ {id} /\ DOMAIN ch = Calls
      BY <2>2, <3>1, CallOfID DEF Timeout, CallInv, ChanInv
    <3>3. CASE c = d
      BY <3>2, <3>3
    <3>4. CASE c # d
      <4>1. idOf[c] # id
        BY <3>1, <3>4 DEF CallInv, IdInv
      <4> QED
        BY <3>2, <3>4, <4>1
    <3> QED
      BY <3>3, <3>4
  <2> QED
    BY <2>1, <2>2
<1>2. ASSUME NEW c \in Calls, pc[c] \in {"write", "wait"} PROVE Awaited(c)'
  BY <1>0, <1>1, <1>2 DEF Awaited, NoCallStranded
<1> QED
  BY <1>0, <1>2 DEF NoCallStranded

\* A call that registers is awaited; the others are not touched.
LEMMA CallAwaited ==
  ASSUME CallInv, NoCallStranded, NEW c \in Calls, CallStep(c) \/ Cancel(c)
  PROVE  NoCallStranded'
<1> USE DEF CallStays, mapVars
<1>1. CASE Register(c)
  <2>1. /\ idOf' = [idOf EXCEPT ![c] = nextID + 1] /\ entries' = entries \cup {nextID + 1}
        /\ pc' = [pc EXCEPT ![c] = "write"] /\ UNCHANGED <<ch, reader>>
    BY <1>1 DEF Register
  <2>2. \A d \in Calls : d # c => pc'[d] = pc[d] /\ idOf'[d] = idOf[d]
    BY <2>1 DEF CallInv, IdInv
  <2>3. idOf'[c] \in entries'
    BY <2>1 DEF CallInv, IdInv
  <2> QED
    BY <2>1, <2>2, <2>3 DEF NoCallStranded, Awaited
<1>2. CASE Enter(c) \/ Write(c) \/ WriteFails(c) \/ Receive(c) \/ SeeExit(c) \/ Cancel(c)
  <2>1. UNCHANGED <<idOf, entries, ch, reader>>
    BY <1>2 DEF Enter, Write, WriteFails, Receive, SeeExit, Cancel
  <2>2. \A d \in Calls : pc'[d] \in {"write", "wait"} => pc[d] \in {"write", "wait"}
    BY <1>2 DEF Enter, Write, WriteFails, Receive, SeeExit, Cancel, Returns, CallInv, IdInv
  <2> QED
    BY <2>1, <2>2 DEF NoCallStranded, Awaited
<1> QED
  BY <1>1, <1>2 DEF CallStep

\* The steps that touch neither a call nor the map; ReadEOF ends a reader that
\* has nothing in hand.
LEMMA OthersAwaited ==
  ASSUME NoCallStranded,
         \/ CloseSwap \/ Shutdown \/ CloseReturns \/ HandshakeDone \/ Settled
         \/ ChildStalls \/ ChildExits \/ WaitReturns \/ ReadEOF \/ UNCHANGED vars
         \/ (\E id \in IDs : ChildAnswers(id)) \/ (\E line \in Junk : ChildWrites(line))
  PROVE  NoCallStranded' /\ UNCHANGED <<callVars, mapVars>>
<1>1. UNCHANGED <<callVars, mapVars>>
  BY DEF CloseSwap, Shutdown, CloseReturns, HandshakeDone, Settled, ChildStalls, ChildExits,
     WaitReturns, ReadEOF, ChildAnswers, ChildWrites, vars
<1>2. reader' = reader \/ reader.at = "reading"
  BY DEF CloseSwap, Shutdown, CloseReturns, HandshakeDone, Settled, ChildStalls, ChildExits,
     WaitReturns, ReadEOF, ChildAnswers, ChildWrites, vars
<1> QED
  BY <1>1, <1>2 DEF NoCallStranded, Awaited, callVars, mapVars

\* Every step keeps somebody to end each call.
LEMMA NextAwaited == CallInv /\ NoCallStranded /\ [Next]_vars => NoCallStranded'
<1> SUFFICES ASSUME CallInv, NoCallStranded, [Next]_vars PROVE NoCallStranded'
  OBVIOUS
<1>1. ASSUME NEW c \in Calls, CallStep(c) \/ Cancel(c) PROVE NoCallStranded'
  BY <1>1, CallAwaited
<1>2. CASE CloseAll \/ \E id \in IDs : Timeout(id)
  BY <1>2, ClosingAwaited
<1>3. CASE Read \/ Deliver
  BY <1>3, ReadAwaited, DeliverAwaited
<1> QED
  BY <1>1, <1>2, <1>3, OthersAwaited DEF Next, ReadStep, CloseStep

\* For any number of calls, a waiting call always has a timer, a message or a
\* Dispatch that will end it: what CallEnds needs besides fairness.
THEOREM CallsAwaited == Spec => []NoCallStranded
<1>1. Init => NoCallStranded
  BY DEF Init, NoCallStranded
<1> QED
  BY <1>1, NextAwaited, CallInvariant, PTL DEF Spec

-----------------------------------------------------------------------------
(* Types.                                                                  *)

\* The calls that have an id, of which nextID counts the number.
Registered == {c \in Calls : idOf[c] # 0}

CountInv ==
  /\ nextID = 1 + Cardinality(Registered)
  /\ \A c \in Calls : idOf[c] # 0 => idOf[c] >= FirstID

\* There are as many ids as calls, so no call's timer or answer is left out.
LEMMA IdsSuffice ==
  ASSUME CallInv, CountInv
  PROVE  /\ nextID \in IDs \cup {1} /\ idOf \in [Calls -> IDs \cup {0}]
         /\ entries \subseteq IDs /\ inbox \subseteq IDs
         /\ IsFiniteSet(Registered)
<1>1. IsFiniteSet(Calls) /\ Cardinality(Calls) = Cardinality(Callers) + 1 /\ Cardinality(Callers) \in Nat
  BY SessionAssumption, FS_AddElement, FS_CardinalityType DEF Calls
<1>2. Registered \subseteq Calls
  BY DEF Registered
<1>3. IsFiniteSet(Registered) /\ Cardinality(Registered) <= Cardinality(Calls) /\ Cardinality(Registered) \in Nat
  BY <1>1, <1>2, FS_Subset, FS_CardinalityType
<1>4. nextID \in 1..(FirstID + Cardinality(Callers))
  BY <1>1, <1>3 DEF CountInv, FirstID
<1>5. \A c \in Calls : idOf[c] # 0 => idOf[c] \in IDs
  BY <1>1, <1>4 DEF CountInv, CallInv, IdInv, IDs, FirstID
<1>6. idOf \in [Calls -> IDs \cup {0}]
  BY <1>5 DEF CallInv, IdInv
<1>7. entries \subseteq IDs /\ inbox \subseteq IDs
  BY <1>5 DEF CallInv, KnownInv
<1>8. nextID \in IDs \cup {1}
  BY <1>1, <1>4 DEF IDs, FirstID
<1> QED
  BY <1>3, <1>6, <1>7, <1>8

\* Register gives out one id more for one call more.
LEMMA NextCount == CallInv /\ CountInv /\ [Next]_vars => CountInv'
<1> SUFFICES ASSUME CallInv, CountInv, [Next]_vars PROVE CountInv'
  OBVIOUS
<1>1. ASSUME UNCHANGED <<idOf, nextID>> PROVE CountInv'
  BY <1>1 DEF CountInv, Registered
<1>2. ASSUME NEW c \in Calls, Register(c) PROVE CountInv'
  <2>1. /\ nextID' = nextID + 1 /\ idOf' = [idOf EXCEPT ![c] = nextID + 1] /\ idOf[c] = 0
        /\ nextID \in Nat /\ idOf \in [Calls -> Nat]
    BY <1>2 DEF Register, CallInv, IdInv
  <2>2. Registered' = Registered \cup {c} /\ c \notin Registered
    BY <2>1 DEF Registered
  <2>3. Cardinality(Registered') = Cardinality(Registered) + 1 /\ Cardinality(Registered) \in Nat
    BY <2>2, IdsSuffice, FS_AddElement, FS_CardinalityType
  <2>4. \A d \in Calls : idOf'[d] # 0 => idOf'[d] >= FirstID
    BY <2>1, <2>3 DEF CountInv, FirstID
  <2> QED
    BY <2>1, <2>3, <2>4 DEF CountInv
<1>3. ASSUME NEW c \in Calls, CallStep(c) \/ Cancel(c), ~Register(c) PROVE CountInv'
  BY <1>1, <1>3 DEF CallStep, Enter, Write, WriteFails, Receive, SeeExit, Cancel, CallStays, mapVars
<1>4. CASE CloseAll \/ Read \/ Deliver \/ \E id \in IDs : Timeout(id)
  BY <1>1, <1>4 DEF CloseAll, Read, Deliver, Timeout, callVars
<1>5. CASE \/ CloseSwap \/ Shutdown \/ CloseReturns \/ HandshakeDone \/ Settled
           \/ ChildStalls \/ ChildExits \/ WaitReturns \/ ReadEOF \/ UNCHANGED vars
           \/ (\E id \in IDs : ChildAnswers(id)) \/ (\E line \in Junk : ChildWrites(line))
  BY <1>1, <1>5 DEF CloseSwap, Shutdown, CloseReturns, HandshakeDone, Settled, ChildStalls, ChildExits,
     WaitReturns, ReadEOF, ChildAnswers, ChildWrites, vars, callVars, mapVars
<1> QED
  BY <1>2, <1>3, <1>4, <1>5 DEF Next, ReadStep, CloseStep

\* The types that the invariants above do not need.
RestType ==
  /\ phase \in {"initialize", "settle", "ready", "failed"}
  /\ closer \in {"idle", "pending", "shutdown", "waiting", "done"}
  /\ child \in {"up", "exited"} /\ stdin \in {"open", "closed"}
  /\ lines \in 0..MaxLines /\ Len(stdout) <= lines
  /\ reader.at \in {"reading", "dispatch", "ended"}

\* Flags are flags.
FlagType == closed \in BOOLEAN /\ stalled \in BOOLEAN /\ exitCh \in BOOLEAN

\* What a call has returned.
ResultType == \A c \in Calls : result[c] \in Errors \cup Answers

\* The steps of a call, the timers and Close keep these types.
LEMMA QuietRest ==
  ASSUME RestType,
         \/ \E c \in Calls : CallStep(c) \/ Cancel(c)
         \/ \E id \in IDs : Timeout(id)
         \/ CloseSwap \/ CloseStep \/ HandshakeDone \/ Settled
         \/ ChildStalls \/ ChildExits \/ UNCHANGED vars
  PROVE  RestType'
<1> USE DEF childVars, closeVars
<1>1. ASSUME NEW c \in Calls, CallStep(c) \/ Cancel(c) PROVE RestType'
  BY <1>1 DEF RestType, CallStep, Cancel, Enter, Register, Write, WriteFails, Receive, SeeExit, CallStays
<1>2. ASSUME NEW id \in IDs, Timeout(id) PROVE RestType'
  BY <1>2 DEF RestType, Timeout
<1>3. CASE CloseSwap \/ CloseStep
  BY <1>3 DEF RestType, CloseSwap, CloseStep, CloseAll, Shutdown, CloseReturns
<1>4. CASE HandshakeDone \/ Settled
  BY <1>4 DEF RestType, HandshakeDone, Settled
<1>5. CASE ChildStalls \/ ChildExits \/ UNCHANGED vars
  BY <1>5 DEF RestType, ChildStalls, ChildExits, vars
<1> QED
  BY <1>1, <1>2, <1>3, <1>4, <1>5

\* So do those that read, write or cut stdout.
LEMMA StdoutRest ==
  ASSUME CallInv, RestType,
         \/ \E id \in IDs : ChildAnswers(id)
         \/ \E line \in Junk : ChildWrites(line)
         \/ ReadStep \/ WaitReturns
  PROVE  RestType'
<1> USE SessionAssumption DEF childVars, closeVars
<1>0. Len(stdout) \in Nat /\ stdout \in Seq(Lines)
  BY DEF CallInv, LineInv
<1>1. ASSUME NEW line, stdout' = Append(stdout, line), lines < MaxLines, lines' = lines + 1,
             UNCHANGED <<phase, closer, child, stdin, reader>>
      PROVE  RestType'
  <2>1. Len(stdout') = Len(stdout) + 1
    BY <1>0, <1>1
  <2> QED
    BY <1>0, <1>1, <2>1 DEF RestType
<1>2. CASE (\E id \in IDs : ChildAnswers(id)) \/ (\E line \in Junk : ChildWrites(line))
  BY <1>1, <1>2 DEF ChildAnswers, ChildWrites
<1>3. CASE Read
  <2>1. Len(stdout') <= lines
    <3>1. stdout' = Tail(stdout) /\ stdout # <<>>
      BY <1>3 DEF Read
    <3>2. Len(stdout') = Len(stdout) - 1
      BY <1>0, <3>1
    <3> QED
      BY <1>0, <3>2 DEF RestType
  <2>2. reader'.at \in {"reading", "dispatch", "ended"}
    <3>1. reader.at = "reading" /\ ReaderType
      BY <1>3 DEF Read, CallInv, ReaderInv
    <3> DEFINE line == Head(stdout)
    <3>2. \/ reader' = [at |-> "dispatch", line |-> line]
          \/ reader' = [reader EXCEPT !.at = "ended"] \/ reader' = reader
      BY <1>3 DEF Read
    <3> QED
      BY <3>1, <3>2 DEF ReaderType
  <2> QED
    BY <1>3, <2>1, <2>2 DEF Read, RestType
<1>4. CASE Deliver
  <2>1. reader'.at = "reading"
    BY <1>4 DEF Deliver, Reading
  <2> QED
    BY <1>4, <2>1 DEF Deliver, RestType
<1>5. CASE ReadEOF
  <2>1. reader'.at = "ended"
    BY <1>5 DEF ReadEOF, CallInv, ReaderInv, ReaderType
  <2> QED
    BY <1>5, <2>1 DEF ReadEOF, RestType
<1>6. CASE WaitReturns
  <2>1. PICK b \in 0..Len(stdout) : stdout' = SubSeq(stdout, 1, b)
    BY <1>6 DEF WaitReturns
  <2>2. Len(stdout') = b
    BY <1>0, <2>1
  <2> QED
    BY <1>0, <1>6, <2>2 DEF WaitReturns, RestType
<1> QED
  BY <1>2, <1>3, <1>4, <1>5, <1>6 DEF ReadStep

\* Flags are left alone or set.
LEMMA NextFlags == FlagType /\ [Next]_vars => FlagType'
<1> SUFFICES ASSUME FlagType, [Next]_vars PROVE FlagType'
  OBVIOUS
<1> USE DEF childVars, closeVars
<1>0. ASSUME closed' = closed \/ closed' = TRUE, stalled' = stalled \/ stalled' = TRUE,
             exitCh' = exitCh \/ exitCh' = TRUE
      PROVE  FlagType'
  BY <1>0 DEF FlagType
<1>1. ASSUME NEW c \in Calls, CallStep(c) \/ Cancel(c) PROVE FlagType'
  BY <1>0, <1>1 DEF CallStep, Cancel, Enter, Register, Write, WriteFails, Receive, SeeExit, CallStays
<1>2. ASSUME NEW id \in IDs, Timeout(id) \/ ChildAnswers(id) PROVE FlagType'
  BY <1>0, <1>2 DEF Timeout, ChildAnswers
<1>3. ASSUME NEW line \in Junk, ChildWrites(line) PROVE FlagType'
  BY <1>0, <1>3 DEF ChildWrites
<1>4. CASE ReadStep \/ CloseSwap \/ CloseStep \/ HandshakeDone \/ Settled
  BY <1>0, <1>4 DEF ReadStep, Read, Deliver, ReadEOF, CloseSwap, CloseStep, CloseAll, Shutdown,
     CloseReturns, HandshakeDone, Settled
<1>5. CASE ChildStalls \/ ChildExits \/ WaitReturns \/ UNCHANGED vars
  BY <1>0, <1>5 DEF ChildStalls, ChildExits, WaitReturns, vars
<1> QED
  BY <1>1, <1>2, <1>3, <1>4, <1>5 DEF Next

\* A call returns an error or the answer to a call.
LEMMA NextResult == CallInv /\ ResultType /\ [Next]_vars => ResultType'
<1> SUFFICES ASSUME CallInv, ResultType, [Next]_vars PROVE ResultType'
  OBVIOUS
<1>0. ASSUME UNCHANGED result PROVE ResultType'
  BY <1>0 DEF ResultType
<1>1. ASSUME NEW c \in Calls, NEW r \in Errors \cup Answers, Returns(c, r) PROVE ResultType'
  BY <1>1 DEF Returns, ResultType, CallInv, ResultInv
<1>2. ASSUME NEW c \in Calls, CallStep(c) \/ Cancel(c) PROVE ResultType'
  <2>1. Failed \in Errors \cup Answers
    BY DEF Errors
  <2>2. CASE Enter(c) \/ WriteFails(c) \/ SeeExit(c) \/ Cancel(c)
    BY <1>0, <1>1, <2>1, <2>2 DEF Enter, WriteFails, SeeExit, Cancel
  <2>3. CASE Receive(c)
    <3> DEFINE r == IF ch[c] = Closed THEN Failed ELSE ch[c][1]
    <3>1. Returns(c, r) /\ ch[c] # <<>>
      BY <2>3 DEF Receive
    <3>2. ch[c] # Closed => ch[c][1] = Answer(OriginalID(c), c)
      BY <3>1 DEF CallInv, ChanInv
    <3>3. Answer(OriginalID(c), c) \in Answers
      BY DEF Answers
    <3>4. r \in Errors \cup Answers
      BY <2>1, <3>2, <3>3
    <3> HIDE DEF r
    <3> QED
      BY <1>1, <3>1, <3>4
  <2>4. CASE Register(c) \/ Write(c)
    BY <1>0, <2>4 DEF Register, Write
  <2> QED
    BY <1>2, <2>2, <2>3, <2>4 DEF CallStep
<1>3. CASE CloseAll \/ Read \/ Deliver \/ \E id \in IDs : Timeout(id)
  BY <1>0, <1>3 DEF CloseAll, Read, Deliver, Timeout, callVars
<1>4. CASE \/ CloseSwap \/ Shutdown \/ CloseReturns \/ HandshakeDone \/ Settled
           \/ ChildStalls \/ ChildExits \/ WaitReturns \/ ReadEOF \/ UNCHANGED vars
           \/ (\E id \in IDs : ChildAnswers(id)) \/ (\E line \in Junk : ChildWrites(line))
  BY <1>0, <1>4 DEF CloseSwap, Shutdown, CloseReturns, HandshakeDone, Settled, ChildStalls, ChildExits,
     WaitReturns, ReadEOF, ChildAnswers, ChildWrites, vars, callVars
<1> QED
  BY <1>2, <1>3, <1>4 DEF Next, ReadStep, CloseStep

\* result and ch are functions on Calls.
FunType == /\ result = [c \in Calls |-> result[c]]
           /\ ch = [c \in Calls |-> ch[c]]

\* An update of one place leaves a function on Calls one.
LEMMA UpdateFun ==
  ASSUME NEW f, f = [c \in Calls |-> f[c]], NEW d, NEW x, NEW g, g = [f EXCEPT ![d] = x]
  PROVE  g = [c \in Calls |-> g[c]]
<1>1. f \in [Calls -> {f[c] : c \in Calls}]
  OBVIOUS
<1>2. g \in [Calls -> {f[c] : c \in Calls} \cup {x}]
  BY <1>1
<1> QED
  BY <1>2

\* Calls stay the domain: calls return one at a time, and so do the timers
\* and Dispatch write to one wait channel; CloseAll writes to all of them.
LEMMA NextFun == FunType /\ [Next]_vars => FunType'
<1> SUFFICES ASSUME FunType, [Next]_vars PROVE FunType'
  OBVIOUS
<1>0. ASSUME UNCHANGED <<result, ch>> PROVE FunType'
  BY <1>0 DEF FunType
<1>1. ASSUME UNCHANGED result, NEW d, NEW x, ch' = [ch EXCEPT ![d] = x] PROVE FunType'
  BY <1>1, UpdateFun DEF FunType
<1>2. ASSUME NEW c, NEW r, Returns(c, r), UNCHANGED ch PROVE FunType'
  BY <1>2, UpdateFun DEF FunType, Returns
<1>3. ASSUME NEW c \in Calls, CallStep(c) \/ Cancel(c) PROVE FunType'
  <2>1. CASE Enter(c)
    BY <1>0, <1>2, <2>1 DEF Enter, mapVars
  <2>2. CASE Register(c) \/ Write(c)
    BY <1>0, <2>2 DEF Register, Write, mapVars
  <2>3. CASE WriteFails(c) \/ Receive(c) \/ SeeExit(c) \/ Cancel(c)
    BY <1>2, <2>3 DEF WriteFails, Receive, SeeExit, Cancel, mapVars
  <2> QED
    BY <1>3, <2>1, <2>2, <2>3 DEF CallStep
<1>4. CASE Deliver \/ \E id \in IDs : Timeout(id)
  BY <1>1, <1>4 DEF Deliver, Timeout, callVars
<1>5. CASE CloseAll
  BY <1>5 DEF CloseAll, callVars, FunType
<1>6. CASE \/ Read \/ CloseSwap \/ Shutdown \/ CloseReturns \/ HandshakeDone \/ Settled
           \/ ChildStalls \/ ChildExits \/ WaitReturns \/ ReadEOF \/ UNCHANGED vars
           \/ (\E id \in IDs : ChildAnswers(id)) \/ (\E line \in Junk : ChildWrites(line))
  BY <1>0, <1>6 DEF Read, CloseSwap, Shutdown, CloseReturns, HandshakeDone, Settled, ChildStalls,
     ChildExits, WaitReturns, ReadEOF, ChildAnswers, ChildWrites, vars, callVars, mapVars
<1> QED
  BY <1>3, <1>4, <1>5, <1>6 DEF Next, ReadStep, CloseStep

\* In the initial state no id is given out.
LEMMA InitTypes == Init => CountInv /\ RestType /\ FlagType /\ ResultType /\ FunType
<1> SUFFICES ASSUME Init PROVE CountInv /\ RestType /\ FlagType /\ ResultType /\ FunType
  OBVIOUS
<1>1. Registered = {}
  BY DEF Init, Registered
<1>2. CountInv
  BY <1>1, FS_EmptySet DEF Init, CountInv
<1>3. reader.at = "reading"
  BY DEF Init, Reading
<1>4. RestType
  BY <1>3, SessionAssumption DEF Init, RestType
<1>5. FlagType
  BY DEF Init, FlagType
<1>6. ResultType
  BY DEF Init, ResultType, Errors
<1>7. FunType
  BY DEF Init, FunType
<1> QED
  BY <1>2, <1>4, <1>5, <1>6, <1>7

\* Every variable keeps its type; a wait channel holds one message at most,
\* and no call has an id that IDs does not have (PendingMap.Register).
THEOREM SessionTypeCorrect == Spec => []TypeOK
<1>1. CallInv /\ RestType /\ [Next]_vars => RestType'
  BY QuietRest, StdoutRest DEF Next
<1>2. CallInv /\ CountInv /\ RestType /\ FlagType /\ ResultType /\ FunType => TypeOK
  <2> SUFFICES ASSUME CallInv, CountInv, RestType, FlagType, ResultType, FunType PROVE TypeOK
    OBVIOUS
  <2>1. result \in [Calls -> Errors \cup Answers]
    <3>1. result = [c \in Calls |-> result[c]]
      BY DEF FunType
    <3> QED
      BY <3>1 DEF ResultType
  <2>2. ch \in [Calls -> {<<>>, Closed} \cup {<<m>> : m \in Answers}]
    <3>1. ch = [c \in Calls |-> ch[c]]
      BY DEF FunType
    <3>2. \A c \in Calls : Answer(OriginalID(c), c) \in Answers
      BY DEF Answers
    <3>3. \A c \in Calls : ch[c] \in {<<>>, Closed} \cup {<<m>> : m \in Answers}
      BY <3>2 DEF CallInv, ChanInv
    <3> QED
      BY <3>1, <3>3
  <2>3. closed \in BOOLEAN /\ stalled \in BOOLEAN /\ exitCh \in BOOLEAN
    BY DEF FlagType
  <2> QED
    BY <2>1, <2>2, <2>3, IdsSuffice DEF CallInv, IdInv, CallPCs, ResultInv, RestType, TypeOK
<1> QED
  BY <1>1, <1>2, InitTypes, NextCount, NextFlags, NextResult, NextFun, CallInvariant, PTL DEF Spec
=============================================================================
