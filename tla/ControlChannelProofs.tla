------------------------ MODULE ControlChannelProofs ------------------------
(***************************************************************************)
(* Proofs about ControlChannel, for any messages of the edge and the       *)
(* client, any capacity of the queue and any data sessions: no answer is   *)
(* lost or doubled, and a handler sees no state older than its message.    *)
(***************************************************************************)
EXTENDS ControlChannel, FiniteSetTheorems, TLAPS

-----------------------------------------------------------------------------
(* Dispatcher.sendCh, and what the edge has received, as queues.           *)

\* What is in a queue without repetitions after a send and after a receive.
InSeq(x, s) == \E i \in 1..Len(s) : s[i] = x
Distinct(s) == \A i, j \in 1..Len(s) : s[i] = s[j] => i = j

\* Sending what is not in the queue.
LEMMA AppendPlaces ==
  ASSUME NEW S, NEW s \in Seq(S), NEW x \in S, Distinct(s), ~InSeq(x, s)
  PROVE  /\ Append(s, x) \in Seq(S) /\ Len(Append(s, x)) = Len(s) + 1
         /\ Distinct(Append(s, x))
         /\ \A q : InSeq(q, Append(s, x)) <=> InSeq(q, s) \/ q = x
<1>1. /\ Append(s, x) \in Seq(S) /\ Len(Append(s, x)) = Len(s) + 1 /\ Len(s) \in Nat
      /\ Append(s, x)[Len(s) + 1] = x /\ \A i \in 1..Len(s) : Append(s, x)[i] = s[i]
  OBVIOUS
<1>2. Distinct(Append(s, x))
  BY <1>1 DEF Distinct, InSeq
<1>3. ASSUME NEW q PROVE InSeq(q, Append(s, x)) <=> InSeq(q, s) \/ q = x
  BY <1>1 DEF InSeq
<1> QED
  BY <1>1, <1>2, <1>3

\* Receiving the oldest.
LEMMA TailPlaces ==
  ASSUME NEW S, NEW s \in Seq(S), s # <<>>, Distinct(s)
  PROVE  /\ Tail(s) \in Seq(S) /\ Len(Tail(s)) = Len(s) - 1
         /\ Distinct(Tail(s)) /\ Head(s) \in S
         /\ \A q : InSeq(q, s) <=> InSeq(q, Tail(s)) \/ q = Head(s)
         /\ ~InSeq(Head(s), Tail(s))
<1>1. /\ Tail(s) \in Seq(S) /\ Len(Tail(s)) = Len(s) - 1 /\ Len(s) \in Nat /\ Len(s) # 0
      /\ Head(s) = s[1] /\ \A i \in 1..Len(Tail(s)) : Tail(s)[i] = s[i + 1]
  OBVIOUS
<1>2. Head(s) \in S
  BY <1>1
<1>3. Distinct(Tail(s)) /\ ~InSeq(Head(s), Tail(s))
  BY <1>1 DEF Distinct, InSeq
<1>4. ASSUME NEW q PROVE InSeq(q, s) <=> InSeq(q, Tail(s)) \/ q = Head(s)
  <2>1. ASSUME InSeq(q, s) PROVE InSeq(q, Tail(s)) \/ q = Head(s)
    <3>1. PICK i \in 1..Len(s) : s[i] = q
      BY <2>1 DEF InSeq
    <3>2. CASE i = 1
      BY <1>1, <3>1, <3>2
    <3>3. CASE i # 1
      <4>1. i - 1 \in 1..Len(Tail(s)) /\ (i - 1) + 1 = i
        BY <1>1, <3>3
      <4>2. Tail(s)[i - 1] = q
        BY <1>1, <3>1, <4>1
      <4> QED
        BY <4>1, <4>2 DEF InSeq
    <3> QED
      BY <3>2, <3>3
  <2>2. ASSUME InSeq(q, Tail(s)) \/ q = Head(s) PROVE InSeq(q, s)
    BY <1>1, <2>2 DEF InSeq
  <2> QED
    BY <2>1, <2>2
<1> QED
  BY <1>1, <1>2, <1>3, <1>4

\* An element of a queue without repetitions is there once.
LEMMA OneIndex ==
  ASSUME NEW s, Len(s) \in Nat, Distinct(s), NEW x
  PROVE  Cardinality({i \in 1..Len(s) : s[i] = x}) = IF InSeq(x, s) THEN 1 ELSE 0
<1>1. CASE InSeq(x, s)
  <2>1. PICK i \in 1..Len(s) : s[i] = x
    BY <1>1 DEF InSeq
  <2>2. {j \in 1..Len(s) : s[j] = x} = {i}
    BY <2>1 DEF Distinct
  <2> QED
    BY <1>1, <2>2, FS_Singleton
<1>2. CASE ~InSeq(x, s)
  <2>1. {j \in 1..Len(s) : s[j] = x} = {}
    BY <1>2 DEF InSeq
  <2> QED
    BY <1>2, <2>1, FS_EmptySet
<1> QED
  BY <1>1, <1>2

-----------------------------------------------------------------------------
(* The read loop.                                                          *)

\* The messages handleMsg is through with: all that were read, but the one
\* being handled.
Handled == IF reader \in Reqs THEN nread - 1 ELSE nread

HandlerStates == {"none", "work", "result", "sending", "after", "end"}

\* readLoop reads what the edge sent, each message once, in order.
StreamInv ==
  /\ kind \in [Reqs -> Kinds] /\ installed \in BOOLEAN
  /\ h \in [Reqs -> HandlerStates]
  /\ saw \in [Reqs -> {"none", "found", "missing"}]
  /\ sent \in Seq(Reqs) /\ nread \in 0..Len(sent)
  /\ \A i, j \in 1..Len(sent) : sent[i] = sent[j] => i = j
  /\ \A i \in 1..Len(sent) : FromEdge(sent[i])
  /\ reader \in Reqs \cup {Reading, Ended}
  /\ reader \in Reqs => nread # 0 /\ reader = sent[nread]

\* A handler of the edge's message has started only when readLoop was through
\* with it. A process image that was replaced has no reader and no work.
StartedInv ==
  \A r \in Reqs : FromEdge(r) /\ h[r] # "none" /\ (reader # Ended \/ h[r] = "work") =>
    \E i \in 1..Handled : sent[i] = r

\* The endpoint table is what the handled messages left, as long as somebody
\* may still look at it.
TableInv ==
  reader # Ended \/ (\E r \in Reqs : h[r] = "work") => (installed <=> InstalledAfter(Handled))

ReadInv == StreamInv /\ StartedInv /\ TableInv /\ SeesItsPrefix

-----------------------------------------------------------------------------
(* The send queue.                                                         *)

\* The message is in sendCh, with sendLoop, or with the edge.
Somewhere(r) == InSeq(r, queue) \/ InSeq(r, got) \/ sender = r

\* A message is at one place at most, and at none before its Send returned.
PlaceInv ==
  /\ queue \in Seq(Reqs) /\ got \in Seq(Reqs) /\ sender \in Reqs \cup {Idle, Ended}
  /\ Distinct(queue) /\ Distinct(got)
  /\ \A r \in Reqs : ~(InSeq(r, queue) /\ InSeq(r, got))
  /\ \A r \in Reqs : sender = r => ~InSeq(r, queue) /\ ~InSeq(r, got)
  /\ \A r \in Reqs : Somewhere(r) => h[r] \in {"after", "end"}

\* While the dispatcher runs, a handler that is through with Send has left
\* its message at some place.
KeptInv ==
  \A r \in Reqs : ~done /\ Answers(r) /\ h[r] \in {"after", "end"} => Somewhere(r)

QueueInv == PlaceInv /\ KeptInv

-----------------------------------------------------------------------------
(* Proofs about the read loop.                                             *)

\* The stream only grows: what its prefixes left behind stays the same.
LEMMA PrefixStays ==
  ASSUME StreamInv, UNCHANGED kind, sent' \in Seq(Reqs), Len(sent) <= Len(sent'),
         \A i \in 1..Len(sent) : sent'[i] = sent[i],
         NEW n \in 0..Len(sent)
  PROVE  InstalledAfter(n)' <=> InstalledAfter(n)
<1>1. \A i \in 1..n : i \in 1..Len(sent)
  BY DEF StreamInv
<1>2. \A i \in 1..n : \A j \in (i + 1)..n : j \in 1..Len(sent)
  BY DEF StreamInv
<1> QED
  BY <1>1, <1>2 DEF InstalledAfter

\* What was seen stays explained when the stream grows and more is read.
LEMMA SeenStays ==
  ASSUME StreamInv, SeesItsPrefix, UNCHANGED <<kind, saw>>, sent' \in Seq(Reqs),
         Len(sent) <= Len(sent'), \A i \in 1..Len(sent) : sent'[i] = sent[i],
         nread' \in Nat, nread <= nread'
  PROVE  SeesItsPrefix'
<1> SUFFICES ASSUME NEW r \in Reqs, saw'[r] # "none"
             PROVE  \E n \in 1..nread' :
                      /\ \E i \in 1..n : sent'[i] = r
                      /\ (saw'[r] = "found" <=> InstalledAfter(n)')
  BY DEF SeesItsPrefix
<1>1. PICK n \in 1..nread : /\ \E i \in 1..n : sent[i] = r
                            /\ (saw[r] = "found" <=> InstalledAfter(n))
  BY DEF SeesItsPrefix
<1>2. n \in 0..Len(sent) /\ n \in 1..nread' /\ \A i \in 1..n : i \in 1..Len(sent)
  BY DEF StreamInv
<1>3. InstalledAfter(n)' <=> InstalledAfter(n)
  BY <1>2, PrefixStays
<1>4. \E i \in 1..n : sent'[i] = r
  BY <1>1, <1>2
<1>5. n \in 1..nread'
  BY <1>2
<1> WITNESS n \in 1..nread'
<1> QED
  BY <1>1, <1>3, <1>4

\* In the initial state nothing has been sent.
LEMMA InitRead == Init => ReadInv
<1> SUFFICES ASSUME Init PROVE ReadInv
  OBVIOUS
<1>1. StreamInv
  <2>1. sent = <<>> /\ Len(sent) = 0 /\ nread = 0 /\ sent \in Seq(Reqs)
    BY DEF Init
  <2>2. h \in [Reqs -> HandlerStates] /\ saw \in [Reqs -> {"none", "found", "missing"}]
    BY DEF Init, HandlerStates
  <2>3. reader = Reading /\ reader \notin Reqs /\ installed \in BOOLEAN
    BY ChannelAssumption DEF Init
  <2>4. kind \in [Reqs -> Kinds]
    BY ChannelAssumption DEF Init
  <2> QED
    BY <2>1, <2>2, <2>3, <2>4 DEF StreamInv
<1>2. StartedInv /\ SeesItsPrefix
  BY DEF Init, StartedInv, SeesItsPrefix
<1>3. Handled = 0
  BY ChannelAssumption DEF Init, Handled
<1>4. TableInv
  BY <1>3 DEF Init, TableInv, InstalledAfter
<1> QED
  BY <1>1, <1>2, <1>4 DEF ReadInv

\* The edge writes one more message.
LEMMA EdgeSendsRead ==
  ASSUME ReadInv, NEW r \in Reqs, EdgeSends(r)
  PROVE  ReadInv'
<1> USE DEF ReadInv
<1>1. /\ sent' \in Seq(Reqs) /\ Len(sent') = Len(sent) + 1 /\ sent'[Len(sent) + 1] = r
      /\ \A i \in 1..Len(sent) : sent'[i] = sent[i]
      /\ Len(sent) \in Nat
  BY DEF EdgeSends, StreamInv
<1>2. UNCHANGED <<kind, nread, reader, installed, h, saw>> /\ FromEdge(r)
      /\ \A i \in 1..Len(sent) : sent[i] # r
  BY DEF EdgeSends, handVars
<1>3. StreamInv'
  <2>1. \A i, j \in 1..Len(sent') : sent'[i] = sent'[j] => i = j
    BY <1>1, <1>2 DEF StreamInv
  <2>2. \A i \in 1..Len(sent') : FromEdge(sent'[i])
    BY <1>1, <1>2 DEF StreamInv
  <2>3. nread' \in 0..Len(sent')
    BY <1>1, <1>2 DEF StreamInv
  <2>4. \A q : FromEdge(q)' = FromEdge(q)
    BY <1>2 DEF FromEdge
  <2> QED
    BY <1>1, <1>2, <2>1, <2>2, <2>3, <2>4 DEF StreamInv
<1>4. Handled' = Handled /\ Handled \in 0..Len(sent)
  BY <1>2 DEF Handled, StreamInv
<1>5. StartedInv'
  BY <1>1, <1>2, <1>4 DEF StartedInv, FromEdge
<1>6. TableInv'
  <2>1. InstalledAfter(Handled)' <=> InstalledAfter(Handled)
    <3>1. \A n \in 0..Len(sent) : InstalledAfter(n)' <=> InstalledAfter(n)
      BY <1>1, <1>2, PrefixStays
    <3> QED
      BY <1>4, <3>1
  <2> QED
    BY <1>2, <2>1 DEF TableInv
<1>7. SeesItsPrefix'
  BY <1>1, <1>2, SeenStays DEF StreamInv
<1> QED
  BY <1>3, <1>5, <1>6, <1>7

\* readLoop takes the next message, or ends.
LEMMA ReaderRead ==
  ASSUME ReadInv, ReadMsg \/ ReadFails
  PROVE  ReadInv'
<1> USE DEF ReadInv
<1>1. /\ UNCHANGED <<kind, sent, installed, h, saw>> /\ reader = Reading /\ reader \notin Reqs
      /\ nread' \in 0..Len(sent) /\ nread <= nread' /\ Handled = nread /\ nread \in Nat
  BY ChannelAssumption DEF ReadMsg, ReadFails, handVars, StreamInv, Handled
<1>2. StreamInv'
  <2>1. CASE ReadMsg
    BY <1>1, <2>1 DEF ReadMsg, StreamInv, FromEdge
  <2>2. CASE ReadFails
    BY <1>1, <2>2, ChannelAssumption DEF ReadFails, StreamInv, FromEdge
  <2> QED
    BY <2>1, <2>2
<1>3. Handled' = Handled
  <2>1. CASE ReadMsg
    <3>1. sent[nread + 1] \in Reqs /\ nread' = nread + 1 /\ reader' = sent[nread + 1]
      BY <1>1, <2>1 DEF ReadMsg, StreamInv
    <3> QED
      BY <1>1, <3>1 DEF Handled
  <2>2. CASE ReadFails
    BY <1>1, <2>2, ChannelAssumption DEF ReadFails, Handled
  <2> QED
    BY <2>1, <2>2
<1>4. reader # Ended
  BY <1>1 DEF Reading, Ended
<1>5. StartedInv'
  BY <1>1, <1>3, <1>4 DEF StartedInv, FromEdge
<1>6. TableInv'
  <2>1. InstalledAfter(Handled)' <=> InstalledAfter(Handled)
    BY <1>1, <1>3 DEF InstalledAfter
  <2> QED
    BY <1>1, <1>4, <2>1 DEF TableInv
<1>7. SeesItsPrefix'
  BY <1>1, SeenStays DEF StreamInv
<1> QED
  BY <1>2, <1>5, <1>6, <1>7

\* One more message is handled: what it does to the table.
LEMMA OneMoreHandled ==
  ASSUME StreamInv, NEW n \in 1..Len(sent)
  PROVE  InstalledAfter(n) <=> \/ kind[sent[n]] = "install"
                               \/ kind[sent[n]] # "remove" /\ InstalledAfter(n - 1)
<1>0. n \in Nat /\ n # 0 /\ Len(sent) \in Nat
  BY DEF StreamInv
<1>1. kind[sent[n]] = "install" => InstalledAfter(n)
  BY <1>0 DEF InstalledAfter
<1>2. kind[sent[n]] # "remove" /\ InstalledAfter(n - 1) => InstalledAfter(n)
  <2> SUFFICES ASSUME kind[sent[n]] # "remove", InstalledAfter(n - 1) PROVE InstalledAfter(n)
    OBVIOUS
  <2>1. PICK i \in 1..(n - 1) : kind[sent[i]] = "install"
                                /\ \A j \in (i + 1)..(n - 1) : kind[sent[j]] # "remove"
    BY DEF InstalledAfter
  <2>2. i \in 1..n /\ \A j \in (i + 1)..n : j = n \/ j \in (i + 1)..(n - 1)
    BY <1>0
  <2> QED
    BY <2>1, <2>2 DEF InstalledAfter
<1>3. InstalledAfter(n) /\ kind[sent[n]] # "install" =>
        kind[sent[n]] # "remove" /\ InstalledAfter(n - 1)
  <2> SUFFICES ASSUME InstalledAfter(n), kind[sent[n]] # "install"
               PROVE  kind[sent[n]] # "remove" /\ InstalledAfter(n - 1)
    OBVIOUS
  <2>1. PICK i \in 1..n : kind[sent[i]] = "install"
                          /\ \A j \in (i + 1)..n : kind[sent[j]] # "remove"
    BY DEF InstalledAfter
  <2>2. i # n /\ i \in 1..(n - 1) /\ n \in (i + 1)..n
    BY <1>0, <2>1
  <2>3. \A j \in (i + 1)..(n - 1) : j \in (i + 1)..n
    BY <1>0
  <2> QED
    BY <2>1, <2>2, <2>3 DEF InstalledAfter
<1> QED
  BY <1>1, <1>2, <1>3

\* A message is handled for the first time: its goroutine has not started.
LEMMA HandledOnce ==
  ASSUME ReadInv, NEW r \in Reqs, reader = r
  PROVE  h[r] = "none" /\ FromEdge(r) /\ r = sent[nread] /\ nread \in 1..Len(sent)
<1>1. r = sent[nread] /\ nread \in 1..Len(sent) /\ FromEdge(r)
  BY DEF ReadInv, StreamInv
<1>2. reader # Ended /\ Handled = nread - 1
  BY ChannelAssumption DEF Handled
<1>3. \A i \in 1..Handled : sent[i] # r
  BY <1>1, <1>2 DEF ReadInv, StreamInv
<1> QED
  BY <1>1, <1>2, <1>3 DEF ReadInv, StartedInv

\* readLoop handles a message: it changes the table, then reads on.
LEMMA HandleRead ==
  ASSUME ReadInv, NEW r \in Reqs, Handle(r)
  PROVE  ReadInv'
<1> USE DEF ReadInv
<1>1. h[r] = "none" /\ FromEdge(r) /\ r = sent[nread] /\ nread \in 1..Len(sent)
  BY HandledOnce DEF Handle
<1>2. /\ UNCHANGED <<kind, sent, nread, saw>> /\ reader = r /\ reader' = Reading
      /\ Reading \notin Reqs /\ Handled = nread - 1 /\ Handled' = nread /\ nread \in Nat
      /\ reader # Ended
  BY ChannelAssumption DEF Handle, Handled, StreamInv
<1>3. HandlerStart(r) \in HandlerStates
  BY DEF HandlerStart, HandlerStates
<1>4. StreamInv'
  <2>1. h' \in [Reqs -> HandlerStates]
    BY <1>3 DEF Handle, StreamInv
  <2>2. installed' \in BOOLEAN
    BY DEF Handle, StreamInv
  <2> QED
    BY <1>1, <1>2, <2>1, <2>2 DEF StreamInv, FromEdge
<1>5. StartedInv'
  <2> SUFFICES ASSUME NEW q \in Reqs, FromEdge(q), h'[q] # "none"
               PROVE  \E i \in 1..nread : sent[i] = q
    BY <1>2 DEF StartedInv, FromEdge
  <2>1. CASE q = r
    BY <1>1, <2>1
  <2>2. CASE q # r
    <3>1. h[q] # "none"
      BY <2>2 DEF Handle, StreamInv
    <3>2. PICK i \in 1..Handled : sent[i] = q
      BY <1>2, <3>1 DEF StartedInv
    <3> QED
      BY <1>2, <3>2
  <2> QED
    BY <2>1, <2>2
<1>6. TableInv'
  <2>1. InstalledAfter(nread) <=> \/ kind[r] = "install"
                                  \/ kind[r] # "remove" /\ InstalledAfter(nread - 1)
    BY <1>1, OneMoreHandled
  <2>2. installed <=> InstalledAfter(nread - 1)
    BY <1>2 DEF TableInv
  <2>3. /\ kind[r] = "install" => installed' = TRUE
        /\ kind[r] = "remove" => installed' = FALSE
        /\ kind[r] \notin {"install", "remove"} => installed' = installed
    BY DEF Handle
  <2>4. installed' <=> InstalledAfter(nread)
    BY <2>1, <2>2, <2>3
  <2>5. InstalledAfter(Handled)' <=> InstalledAfter(nread)
    BY <1>2 DEF InstalledAfter
  <2> QED
    BY <2>4, <2>5 DEF TableInv
<1>7. SeesItsPrefix'
  BY <1>2, SeenStays DEF StreamInv
<1> QED
  BY <1>4, <1>5, <1>6, <1>7

\* A goroutine looks the endpoint up: the table is that of the messages
\* handled so far, its own among them.
LEMMA WorkRead ==
  ASSUME ReadInv, NEW r \in Reqs, Work(r)
  PROVE  ReadInv'
<1> USE DEF ReadInv
<1>1. /\ UNCHANGED <<kind, sent, nread, reader, installed>> /\ h[r] = "work"
      /\ h' = [h EXCEPT ![r] = "result"]
  BY DEF Work, readVars
<1>2. StreamInv'
  BY <1>1 DEF Work, StreamInv, HandlerStates, FromEdge
<1>3. Handled' = Handled /\ Handled \in 0..nread
  BY <1>1 DEF Handled, StreamInv
<1>4. StartedInv'
  BY <1>1, <1>3 DEF StartedInv, FromEdge, StreamInv
<1>5. \A n : InstalledAfter(n)' <=> InstalledAfter(n)
  BY <1>1 DEF InstalledAfter
<1>6. TableInv'
  <2>1. InstalledAfter(Handled)' <=> InstalledAfter(Handled)
    BY <1>1, <1>3 DEF InstalledAfter
  <2>2. (\E q \in Reqs : h'[q] = "work") => \E q \in Reqs : h[q] = "work"
    BY <1>1
  <2> QED
    BY <1>1, <2>1, <2>2 DEF TableInv
<1>7. SeesItsPrefix'
  <2> SUFFICES ASSUME NEW q \in Reqs, saw'[q] # "none"
               PROVE  \E n \in 1..nread :
                        /\ \E i \in 1..n : sent[i] = q
                        /\ (saw'[q] = "found" <=> InstalledAfter(n))
    BY <1>1, <1>5 DEF SeesItsPrefix
  <2>1. CASE q = r
    <3>1. LooksUp(r) /\ (saw'[r] = "found" <=> installed)
      BY <2>1 DEF Work, StreamInv
    <3>2. FromEdge(r)
      BY <3>1 DEF LooksUp, FromEdge
    <3>3. PICK i \in 1..Handled : sent[i] = r
      BY <1>1, <3>2 DEF StartedInv
    <3>4. Handled \in 1..nread /\ (installed <=> InstalledAfter(Handled))
      BY <1>1, <1>3, <3>3 DEF TableInv, StreamInv
    <3> QED
      BY <2>1, <3>1, <3>3, <3>4
  <2>2. CASE q # r
    BY <2>2 DEF Work, StreamInv, SeesItsPrefix
  <2> QED
    BY <2>1, <2>2
<1> QED
  BY <1>2, <1>4, <1>6, <1>7

\* A handler that was started goes on, after its work.
LEMMA HandlerRead ==
  ASSUME ReadInv, NEW r \in Reqs, UNCHANGED <<kind, readVars, saw>>,
         NEW x \in HandlerStates \ {"none", "work"}, h' = [h EXCEPT ![r] = x],
         h[r] # "none" \/ ~FromEdge(r)
  PROVE  ReadInv'
<1> USE DEF ReadInv
<1>1. StreamInv'
  BY DEF readVars, StreamInv, FromEdge
<1>2. Handled' = Handled
  BY DEF readVars, Handled
<1>3. StartedInv'
  BY <1>2 DEF readVars, StartedInv, StreamInv, FromEdge
<1>4. InstalledAfter(Handled)' <=> InstalledAfter(Handled)
  BY <1>2 DEF readVars, InstalledAfter
<1>5. (\E q \in Reqs : h'[q] = "work") => \E q \in Reqs : h[q] = "work"
  BY DEF StreamInv
<1>6. TableInv'
  BY <1>4, <1>5 DEF readVars, TableInv
<1>7. SeesItsPrefix'
  BY SeenStays DEF readVars, StreamInv
<1> QED
  BY <1>1, <1>3, <1>6, <1>7

\* The process image is replaced: nobody reads and nobody works.
LEMMA ExecRead ==
  ASSUME ReadInv, NEW r \in Reqs, RestartExecs(r)
  PROVE  ReadInv'
<1> USE DEF ReadInv
<1>1. /\ UNCHANGED <<kind, sent, nread, installed, saw>> /\ reader' = Ended
      /\ \A q \in Reqs : h'[q] = "end"
  BY DEF RestartExecs
<1>2. StreamInv'
  BY <1>1, ChannelAssumption DEF RestartExecs, StreamInv, HandlerStates, FromEdge
<1>3. StartedInv' /\ TableInv'
  BY <1>1 DEF StartedInv, TableInv
<1>4. SeesItsPrefix'
  BY <1>1, SeenStays DEF StreamInv
<1> QED
  BY <1>2, <1>3, <1>4

\* Steps that leave the read loop and the handlers alone.
LEMMA OthersRead ==
  ASSUME ReadInv, UNCHANGED <<kind, readVars, handVars>>
  PROVE  ReadInv'
<1> USE DEF readVars, handVars
<1>1. StreamInv' /\ StartedInv' /\ TableInv'
  BY DEF ReadInv, StreamInv, StartedInv, TableInv, FromEdge, Handled, InstalledAfter
<1>2. SeesItsPrefix'
  BY DEF ReadInv, SeesItsPrefix, InstalledAfter
<1> QED
  BY <1>1, <1>2 DEF ReadInv

\* The steps of the edge, the worker and the data sessions.
LEMMA Surroundings ==
  ASSUME \/ EdgeStalls \/ SessionCloses \/ CancelContext \/ Worker
         \/ \E i \in Indexes : Runner(i) \/ Network(i)
         \/ UNCHANGED vars
  PROVE  UNCHANGED <<kind, readVars, handVars, sendVars, done>>
<1>1. CASE EdgeStalls \/ SessionCloses \/ CancelContext \/ Worker \/ UNCHANGED vars
  BY <1>1 DEF EdgeStalls, SessionCloses, CancelContext, Worker, WorkerCloses, WorkerFinishes,
     vars, ctlVars
<1>2. ASSUME NEW i \in Indexes, Runner(i) \/ Network(i)
      PROVE  UNCHANGED <<kind, readVars, handVars, sendVars, done>>
  BY <1>2 DEF Runner, Network, DialStarts, DialRefused, DialOpens, DialFails, HelloAcked, HelloFails,
     ServingEnds, WaitOver, WaitCancelled, EdgeClosesData, Move, ctlVars
<1> QED
  BY <1>1, <1>2

\* Every step preserves the invariant of the read loop.
LEMMA NextRead == ReadInv /\ [Next]_vars => ReadInv'
<1> SUFFICES ASSUME ReadInv, [Next]_vars PROVE ReadInv'
  OBVIOUS
<1>1. CASE Edge
  BY <1>1, EdgeSendsRead, Surroundings, OthersRead DEF Edge
<1>2. CASE Reader
  BY <1>2, ReaderRead, HandleRead DEF Reader
<1>3. CASE Sender
  <2>1. UNCHANGED <<kind, readVars, handVars>>
    BY <1>3 DEF Sender, SenderTakes, SenderWrites, SenderFails, SenderSeesDone
  <2> QED
    BY <2>1, OthersRead
<1>4. ASSUME NEW r \in Reqs, Report(r) \/ Handler(r) PROVE ReadInv'
  <2>1. CASE Report(r)
    <3>1. ~FromEdge(r) /\ "result" \in HandlerStates \ {"none", "work"}
      BY <2>1 DEF Report, FromEdge, HandlerStates
    <3>2. h' = [h EXCEPT ![r] = "result"] /\ UNCHANGED <<kind, readVars, saw>>
      BY <2>1 DEF Report
    <3> QED
      BY <3>1, <3>2, HandlerRead
  <2>2. CASE Work(r)
    BY <2>2, WorkRead
  <2>3. CASE SendEnter(r) \/ SendEnqueues(r) \/ SendEOF(r) \/ StopCloses(r) \/ RestartFails(r)
    <3>1. h[r] # "none" /\ UNCHANGED <<kind, readVars, saw>>
      BY <2>3 DEF SendEnter, SendEnqueues, SendEOF, StopCloses, RestartFails
    <3>2. PICK x \in HandlerStates \ {"none", "work"} : h' = [h EXCEPT ![r] = x]
      BY <2>3 DEF SendEnter, SendEnqueues, SendEOF, StopCloses, RestartFails, AfterSend, HandlerStates
    <3> QED
      BY <3>1, <3>2, HandlerRead
  <2>4. CASE RestartExecs(r)
    BY <2>4, ExecRead
  <2> QED
    BY <1>4, <2>1, <2>2, <2>3, <2>4 DEF Handler
<1>5. CASE Worker \/ (\E i \in Indexes : Runner(i) \/ Network(i)) \/ UNCHANGED vars
  BY <1>5, Surroundings, OthersRead
<1> QED
  BY <1>1, <1>2, <1>3, <1>4, <1>5 DEF Next

\* The invariant of the read loop.
THEOREM ReadInvariant == Spec => []ReadInv
  BY InitRead, NextRead, PTL DEF Spec

\* Whatever later messages do to the endpoint, what a discovery or a
\* preflight found is what a prefix of the stream with its own message left
\* (handleNewEndpoint and handleCloseEndpoint on the read loop).
THEOREM PrefixSeen == Spec => []SeesItsPrefix
<1>1. ReadInv => SeesItsPrefix
  BY DEF ReadInv
<1> QED
  BY <1>1, ReadInvariant, PTL

-----------------------------------------------------------------------------
(* Proofs about the send queue.                                            *)

\* In the initial state nothing has been sent by anybody.
LEMMA InitQueue == Init => QueueInv
<1> SUFFICES ASSUME Init PROVE QueueInv
  OBVIOUS
<1>1. queue = <<>> /\ got = <<>> /\ Len(queue) = 0 /\ Len(got) = 0 /\ sender = Idle
  BY DEF Init
<1>2. \A r \in Reqs : ~Somewhere(r) /\ h[r] = "none"
  BY <1>1, ChannelAssumption DEF Init, Somewhere, InSeq
<1>3. PlaceInv
  BY <1>1, <1>2 DEF PlaceInv, Distinct, Somewhere
<1>4. KeptInv
  BY <1>2 DEF KeptInv
<1> QED
  BY <1>3, <1>4 DEF QueueInv

\* Steps that move no message: a handler that gets past Send without having
\* queued anything has nothing to answer, or finds the dispatcher ended.
LEMMA HandlersQueue ==
  ASSUME QueueInv, UNCHANGED <<kind, sendVars>>, done => done',
         \A q \in Reqs : h[q] \in {"after", "end"} => h'[q] \in {"after", "end"},
         \A q \in Reqs : h'[q] \in {"after", "end"} /\ Answers(q) /\ ~done' => h[q] \in {"after", "end"}
  PROVE  QueueInv'
<1>1. \A q : Somewhere(q)' <=> Somewhere(q)
  BY DEF sendVars, Somewhere, InSeq
<1>2. PlaceInv'
  BY <1>1 DEF sendVars, QueueInv, PlaceInv, InSeq, Distinct
<1>3. KeptInv'
  BY <1>1 DEF QueueInv, KeptInv, Answers
<1> QED
  BY <1>2, <1>3 DEF QueueInv

\* A message enters the queue.
LEMMA EnqueueQueue ==
  ASSUME StreamInv, QueueInv, NEW r \in Reqs, SendEnqueues(r)
  PROVE  QueueInv'
<1>1. /\ queue' = Append(queue, r) /\ UNCHANGED <<kind, got, sender, done>> /\ h[r] = "sending"
      /\ h' = [h EXCEPT ![r] = AfterSend(r)] /\ AfterSend(r) \in {"after", "end"}
  BY DEF SendEnqueues, ctlVars, AfterSend
<1>2. ~Somewhere(r)
  BY <1>1 DEF QueueInv, PlaceInv
<1>3. /\ queue' \in Seq(Reqs) /\ Distinct(queue')
      /\ \A q : InSeq(q, queue') <=> InSeq(q, queue) \/ q = r
  BY <1>1, <1>2, AppendPlaces DEF QueueInv, PlaceInv, Somewhere
<1>4. \A q : Somewhere(q)' <=> Somewhere(q) \/ q = r
  BY <1>1, <1>3 DEF Somewhere, InSeq
<1>5. \A q \in Reqs : (q = r => h'[q] \in {"after", "end"}) /\ (q # r => h'[q] = h[q])
  BY <1>1 DEF StreamInv
<1>6. PlaceInv'
  <2>1. \A q \in Reqs : Somewhere(q)' => h'[q] \in {"after", "end"}
    BY <1>4, <1>5 DEF QueueInv, PlaceInv
  <2>2. \A q : InSeq(q, got)' <=> InSeq(q, got)
    BY <1>1 DEF InSeq
  <2>3. \A q : InSeq(q, queue)' <=> InSeq(q, queue) \/ q = r
    BY <1>3 DEF InSeq
  <2>4. \A q \in Reqs : ~(InSeq(q, queue)' /\ InSeq(q, got)')
    BY <1>2, <2>2, <2>3 DEF QueueInv, PlaceInv, Somewhere
  <2>5. \A q \in Reqs : sender' = q => ~InSeq(q, queue)' /\ ~InSeq(q, got)'
    BY <1>1, <1>2, <2>2, <2>3 DEF QueueInv, PlaceInv, Somewhere
  <2>6. Distinct(queue)' /\ Distinct(got)'
    BY <1>1, <1>3 DEF QueueInv, PlaceInv, Distinct
  <2> QED
    BY <1>1, <1>3, <2>1, <2>4, <2>5, <2>6 DEF QueueInv, PlaceInv
<1>7. KeptInv'
  BY <1>1, <1>4, <1>5 DEF QueueInv, KeptInv, Answers
<1> QED
  BY <1>6, <1>7 DEF QueueInv

\* sendLoop carries messages on and drops one only when it ends the dispatcher.
LEMMA SenderQueue ==
  ASSUME QueueInv, Sender
  PROVE  QueueInv'
<1>0. UNCHANGED <<kind, h>>
  BY DEF Sender, SenderTakes, SenderWrites, SenderFails, SenderSeesDone, handVars
<1>1. CASE SenderTakes
  <2>1. /\ sender = Idle /\ Idle \notin Reqs /\ queue # <<>> /\ sender' = Head(queue)
        /\ queue' = Tail(queue) /\ got' = got /\ done' = done
    BY <1>1, ChannelAssumption DEF SenderTakes, ctlVars
  <2>2. /\ queue' \in Seq(Reqs) /\ Distinct(queue') /\ sender' \in Reqs
        /\ \A q : InSeq(q, queue) <=> InSeq(q, queue') \/ q = sender'
        /\ ~InSeq(sender', queue')
    BY <2>1, TailPlaces DEF QueueInv, PlaceInv
  <2>3. \A q : InSeq(q, got)' <=> InSeq(q, got)
    BY <2>1 DEF InSeq
  <2>4. \A q : InSeq(q, queue)' <=> InSeq(q, queue')
    BY DEF InSeq
  <2>5. \A q \in Reqs : Somewhere(q)' <=> Somewhere(q)
    BY <2>1, <2>2, <2>3, <2>4 DEF Somewhere
  <2>6. Distinct(queue)' /\ Distinct(got)'
    BY <2>1, <2>2 DEF QueueInv, PlaceInv, Distinct
  <2>7. PlaceInv'
    BY <1>0, <2>1, <2>2, <2>3, <2>4, <2>5, <2>6 DEF QueueInv, PlaceInv
  <2> QED
    BY <1>0, <2>1, <2>5, <2>7 DEF QueueInv, KeptInv, Answers
<1>2. CASE SenderWrites
  <2>1. /\ sender \in Reqs /\ sender' = Idle /\ Idle \notin Reqs /\ got' = Append(got, sender)
        /\ queue' = queue /\ done' = done
    BY <1>2, ChannelAssumption DEF SenderWrites, ctlVars
  <2>2. ~InSeq(sender, got) /\ ~InSeq(sender, queue)
    BY <2>1 DEF QueueInv, PlaceInv
  <2>3. /\ got' \in Seq(Reqs) /\ Distinct(got')
        /\ \A q : InSeq(q, got') <=> InSeq(q, got) \/ q = sender
    BY <2>1, <2>2, AppendPlaces DEF QueueInv, PlaceInv
  <2>4. \A q : (InSeq(q, got)' <=> InSeq(q, got')) /\ (InSeq(q, queue)' <=> InSeq(q, queue))
    BY <2>1 DEF InSeq
  <2>5. \A q \in Reqs : Somewhere(q)' <=> Somewhere(q)
    BY <2>1, <2>3, <2>4 DEF Somewhere
  <2>6. Distinct(queue)' /\ Distinct(got)'
    BY <2>1, <2>3 DEF QueueInv, PlaceInv, Distinct
  <2>7. PlaceInv'
    BY <1>0, <2>1, <2>2, <2>3, <2>4, <2>5, <2>6 DEF QueueInv, PlaceInv
  <2> QED
    BY <1>0, <2>1, <2>5, <2>7 DEF QueueInv, KeptInv, Answers
<1>3. CASE SenderFails \/ SenderSeesDone
  <2>1. sender' = Ended /\ Ended \notin Reqs /\ done' /\ UNCHANGED <<queue, got>>
    BY <1>3, ChannelAssumption DEF SenderFails, SenderSeesDone, ctlVars
  <2>2. \A q : (InSeq(q, got)' <=> InSeq(q, got)) /\ (InSeq(q, queue)' <=> InSeq(q, queue))
    BY <2>1 DEF InSeq
  <2>3. \A q \in Reqs : Somewhere(q)' => Somewhere(q)
    BY <2>1, <2>2 DEF Somewhere
  <2>4. PlaceInv'
    BY <1>0, <2>1, <2>2, <2>3 DEF QueueInv, PlaceInv, Distinct
  <2> QED
    BY <2>1, <2>4 DEF QueueInv, KeptInv
<1> QED
  BY <1>1, <1>2, <1>3 DEF Sender

\* The process image is replaced: the dispatcher is gone.
LEMMA ExecQueue ==
  ASSUME QueueInv, NEW r \in Reqs, RestartExecs(r)
  PROVE  QueueInv'
<1>1. /\ UNCHANGED <<queue, got>> /\ sender' = Ended /\ Ended \notin Reqs /\ done'
      /\ \A q \in Reqs : h'[q] = "end"
  BY ChannelAssumption DEF RestartExecs
<1>2. \A q : (InSeq(q, got)' <=> InSeq(q, got)) /\ (InSeq(q, queue)' <=> InSeq(q, queue))
  BY <1>1 DEF InSeq
<1>3. PlaceInv'
  BY <1>1, <1>2 DEF QueueInv, PlaceInv, Distinct
<1> QED
  BY <1>1, <1>3 DEF QueueInv, KeptInv

\* Every step preserves the invariant of the queue.
LEMMA NextQueue == ReadInv /\ QueueInv /\ [Next]_vars => QueueInv'
<1> SUFFICES ASSUME ReadInv, QueueInv, [Next]_vars PROVE QueueInv'
  OBVIOUS
<1>0. h \in [Reqs -> HandlerStates]
  BY DEF ReadInv, StreamInv
<1>1. CASE UNCHANGED <<kind, h, sendVars, done>>
  BY <1>1, HandlersQueue
<1>2. CASE Edge \/ ReadMsg \/ Worker \/ (\E i \in Indexes : Runner(i) \/ Network(i)) \/ UNCHANGED vars
  <2>1. UNCHANGED <<kind, h, sendVars, done>>
    BY <1>2, Surroundings DEF Edge, EdgeSends, ReadMsg, handVars, ctlVars
  <2> QED
    BY <1>1, <2>1
<1>3. CASE ReadFails
  <2>1. UNCHANGED <<kind, h, sendVars>> /\ done'
    BY <1>3 DEF ReadFails, handVars
  <2> QED
    BY <2>1, HandlersQueue
<1>4. ASSUME NEW r \in Reqs, Handle(r) PROVE QueueInv'
  <2>1. h[r] = "none" /\ FromEdge(r)
    BY <1>4, HandledOnce DEF Handle
  <2>2. UNCHANGED <<kind, sendVars, done>> /\ h' = [h EXCEPT ![r] = HandlerStart(r)]
    BY <1>4 DEF Handle
  <2>3. HandlerStart(r) \in {"after", "end"} /\ FromEdge(r) => ~Answers(r) \/ kind[r] \notin Kinds
    BY DEF HandlerStart, Answers, FromEdge, Kinds
  <2>4. kind[r] \in Kinds
    BY DEF ReadInv, StreamInv
  <2>5. \A q \in Reqs : q # r => h'[q] = h[q]
    BY <1>0, <2>2
  <2>6. h'[r] = HandlerStart(r)
    BY <1>0, <2>2
  <2> QED
    BY <2>1, <2>2, <2>3, <2>4, <2>5, <2>6, HandlersQueue
<1>5. CASE Sender
  BY <1>5, SenderQueue
<1>6. ASSUME NEW r \in Reqs, Report(r) \/ Work(r) PROVE QueueInv'
  <2>1. /\ UNCHANGED <<kind, sendVars, done>> /\ h' = [h EXCEPT ![r] = "result"]
        /\ h[r] \in {"none", "work"}
    BY <1>6 DEF Report, Work, ctlVars
  <2> QED
    BY <1>0, <2>1, HandlersQueue
<1>7. ASSUME NEW r \in Reqs, SendEnter(r) \/ SendEOF(r) \/ StopCloses(r) \/ RestartFails(r) PROVE QueueInv'
  <2>1. UNCHANGED <<kind, sendVars, done>>
    BY <1>7 DEF SendEnter, SendEOF, StopCloses, RestartFails, ctlVars
  <2>2. PICK x \in HandlerStates :
          /\ h' = [h EXCEPT ![r] = x]
          /\ h[r] \in {"after", "end"} => x \in {"after", "end"}
          /\ x \in {"after", "end"} /\ ~done => h[r] \in {"after", "end"}
    BY <1>7 DEF SendEnter, SendEOF, SendGivesUp, StopCloses, RestartFails, AfterSend, HandlerStates
  <2>3. \A q \in Reqs : h'[q] = IF q = r THEN x ELSE h[q]
    BY <1>0, <2>2
  <2> QED
    BY <2>1, <2>2, <2>3, HandlersQueue
<1>8. ASSUME NEW r \in Reqs, SendEnqueues(r) \/ RestartExecs(r) PROVE QueueInv'
  BY <1>8, EnqueueQueue, ExecQueue DEF ReadInv
<1> QED
  BY <1>2, <1>3, <1>4, <1>5, <1>6, <1>7, <1>8 DEF Next, Reader, Handler

\* The invariant of the queue.
THEOREM QueueInvariant == Spec => []QueueInv
  BY InitQueue, NextQueue, ReadInvariant, PTL DEF Spec

\* Whatever the capacity of sendCh and however many handlers use it, no answer
\* is doubled, and none is lost while the dispatcher runs (Send, sendLoop).
THEOREM AnswersKept == Spec => []AnswerKept
<1>1. QueueInv => AnswerKept
  <2> SUFFICES ASSUME QueueInv, NEW r \in Reqs
               PROVE  /\ Places(r) <= 1
                      /\ ~done /\ Answers(r) /\ h[r] \in {"after", "end"} => Places(r) = 1
    BY DEF AnswerKept
  <2>1. Len(queue) \in Nat /\ Len(got) \in Nat /\ Distinct(queue) /\ Distinct(got)
    BY DEF QueueInv, PlaceInv
  <2>2. /\ Cardinality({i \in 1..Len(got) : got[i] = r}) = IF InSeq(r, got) THEN 1 ELSE 0
        /\ Cardinality({i \in 1..Len(queue) : queue[i] = r}) = IF InSeq(r, queue) THEN 1 ELSE 0
    BY <2>1, OneIndex
  <2>3. /\ ~(InSeq(r, queue) /\ InSeq(r, got))
        /\ sender = r => ~InSeq(r, queue) /\ ~InSeq(r, got)
    BY DEF QueueInv, PlaceInv
  <2>4. Places(r) = IF Somewhere(r) THEN 1 ELSE 0
    BY <2>2, <2>3 DEF Places, Somewhere
  <2> QED
    BY <2>4 DEF QueueInv, KeptInv
<1> QED
  BY <1>1, QueueInvariant, PTL

-----------------------------------------------------------------------------
(* Types, and how the parts of the session end together.                   *)

RunnerStates == {"start", "dialing", "hello", "serving", "wait", "end"}

\* The types that the invariants above do not need, the queue's capacity
\* among them.
RestType ==
  /\ Len(queue) <= QueueCap
  /\ worker \in {"waiting", "closing", "finished"} /\ conn \in {"up", "closed"}
  /\ runner \in [Indexes -> RunnerStates]
  /\ link \in [Indexes -> {"none", "open", "closed"}]

\* Flags are flags.
FlagType ==
  /\ done \in BOOLEAN /\ permanent \in BOOLEAN /\ stalled \in BOOLEAN /\ ctxDone \in BOOLEAN

\* No loop of the session ends without doneCh being closed, on which the other
\* loop, every blocked Send and the worker wait; the worker closes the
\* connection before it cancels the data sessions; and a session that is never
\* to be dialled again has been closed (closeDone, worker, handleDisconnect,
\* handleStop).
EndsTogether ==
  /\ reader = Ended \/ sender = Ended => done
  /\ worker # "waiting" => done /\ conn = "closed"
  /\ permanent => conn = "closed"

\* Steps of the read loop and its handlers keep the types of the rest.
LEMMA HandlersRest ==
  ASSUME RestType, NEW r \in Reqs, Handle(r) \/ Report(r) \/ Handler(r), PlaceInv
  PROVE  RestType'
<1>1. CASE Handle(r)
  BY <1>1 DEF Handle, RestType, sendVars, dataVars
<1>2. CASE Report(r) \/ Work(r) \/ SendEnter(r) \/ SendEOF(r) \/ StopCloses(r) \/ RestartFails(r)
  BY <1>2 DEF Report, Work, SendEnter, SendEOF, StopCloses, RestartFails, RestType, sendVars, dataVars, ctlVars
<1>3. CASE SendEnqueues(r)
  <2>1. Len(queue') <= QueueCap
    <3>1. queue \in Seq(Reqs) /\ Len(queue) < QueueCap /\ queue' = Append(queue, r)
      BY <1>3 DEF SendEnqueues, PlaceInv
    <3> QED
      BY <3>1, ChannelAssumption
  <2> QED
    BY <1>3, <2>1 DEF SendEnqueues, RestType, dataVars, ctlVars
<1>4. CASE RestartExecs(r)
  BY <1>4 DEF RestartExecs, RestType, RunnerStates
<1> QED
  BY <1>1, <1>2, <1>3, <1>4 DEF Handler

\* So do those of the sender, the worker and the edge.
LEMMA LoopsRest ==
  ASSUME RestType, PlaceInv,
         \/ Sender \/ Worker \/ Edge \/ ReadMsg \/ ReadFails \/ UNCHANGED vars
  PROVE  RestType'
<1> USE DEF readVars, sendVars, dataVars, ctlVars
<1>1. CASE SenderTakes
  <2>1. Len(queue') <= QueueCap
    <3>1. queue \in Seq(Reqs) /\ queue # <<>> /\ queue' = Tail(queue) /\ Len(queue) <= QueueCap
      BY <1>1 DEF SenderTakes, PlaceInv, RestType
    <3> QED
      BY <3>1, ChannelAssumption
  <2> QED
    BY <1>1, <2>1 DEF SenderTakes, RestType
<1>2. CASE SenderWrites \/ SenderFails \/ SenderSeesDone
  BY <1>2 DEF SenderWrites, SenderFails, SenderSeesDone, RestType
<1>3. CASE Worker
  BY <1>3 DEF Worker, WorkerCloses, WorkerFinishes, RestType
<1>4. CASE Edge
  BY <1>4 DEF Edge, EdgeSends, EdgeStalls, SessionCloses, CancelContext, RestType
<1>5. CASE ReadMsg \/ ReadFails \/ UNCHANGED vars
  BY <1>5 DEF ReadMsg, ReadFails, vars, RestType
<1> QED
  BY <1>1, <1>2, <1>3, <1>4, <1>5 DEF Sender

\* And those of the data sessions.
LEMMA RunnersRest ==
  ASSUME RestType, NEW i \in Indexes, Runner(i) \/ Network(i)
  PROVE  RestType' /\ UNCHANGED <<ctlVars, stalled, reader, sender>>
<1> USE DEF readVars, sendVars, ctlVars
<1>1. CASE EdgeClosesData(i)
  BY <1>1 DEF EdgeClosesData, RestType
<1>2. ASSUME NEW from, NEW to \in RunnerStates, NEW l \in {"none", "open", "closed"}, Move(i, from, to, l)
      PROVE  RestType' /\ UNCHANGED <<ctlVars, stalled, reader, sender>>
  BY <1>2 DEF Move, RestType
<1> QED
  BY <1>1, <1>2 DEF Runner, Network, DialStarts, DialRefused, DialOpens, DialFails, HelloAcked, HelloFails,
     ServingEnds, WaitOver, WaitCancelled, RunnerStates

\* Every step keeps the types of the rest.
LEMMA NextRest == QueueInv /\ RestType /\ [Next]_vars => RestType'
<1> SUFFICES ASSUME QueueInv, RestType, [Next]_vars PROVE RestType'
  OBVIOUS
<1>1. PlaceInv
  BY DEF QueueInv
<1> QED
  BY <1>1, HandlersRest, LoopsRest, RunnersRest DEF Next, Reader

\* Every flag is left alone or set; none is ever reset.
LEMMA NextFlags == RestType /\ FlagType /\ [Next]_vars => FlagType'
<1> SUFFICES ASSUME RestType, FlagType, [Next]_vars PROVE FlagType'
  OBVIOUS
<1> USE DEF ctlVars
<1>0. ASSUME done' = done \/ done' = TRUE, permanent' = permanent \/ permanent' = TRUE,
             stalled' = stalled \/ stalled' = TRUE, ctxDone' = ctxDone \/ ctxDone' = TRUE
      PROVE  FlagType'
  BY <1>0 DEF FlagType
<1>1. ASSUME NEW r \in Reqs, Handle(r) \/ Report(r) \/ Handler(r) PROVE FlagType'
  BY <1>0, <1>1 DEF Handle, Report, Handler, Work, SendEnter, SendEnqueues, SendEOF, StopCloses,
     RestartFails, RestartExecs
<1>2. CASE Sender \/ Worker
  BY <1>0, <1>2 DEF Sender, SenderTakes, SenderWrites, SenderFails, SenderSeesDone, Worker,
     WorkerCloses, WorkerFinishes
<1>3. CASE Edge
  BY <1>0, <1>3 DEF Edge, EdgeSends, EdgeStalls, SessionCloses, CancelContext
<1>4. CASE ReadMsg \/ ReadFails \/ UNCHANGED vars
  BY <1>0, <1>4 DEF ReadMsg, ReadFails, vars
<1>5. ASSUME NEW i \in Indexes, Runner(i) \/ Network(i) PROVE FlagType'
  BY <1>0, <1>5, RunnersRest
<1> QED
  BY <1>1, <1>2, <1>3, <1>4, <1>5 DEF Next, Reader

\* Nobody ends alone.
LEMMA NextEnds == ReadInv /\ QueueInv /\ RestType /\ EndsTogether /\ [Next]_vars => EndsTogether'
<1> SUFFICES ASSUME ReadInv, QueueInv, RestType, EndsTogether, [Next]_vars PROVE EndsTogether'
  OBVIOUS
<1> USE DEF ctlVars, readVars, sendVars
<1>0. ASSUME UNCHANGED <<reader, sender, done, worker, permanent, conn>> PROVE EndsTogether'
  BY <1>0 DEF EndsTogether
<1>1. ASSUME NEW r \in Reqs, Handle(r) PROVE EndsTogether'
  BY <1>1, ChannelAssumption DEF Handle, EndsTogether, Reading, Ended
<1>2. ASSUME NEW r \in Reqs, StopCloses(r) \/ RestartExecs(r) PROVE EndsTogether'
  BY <1>2 DEF StopCloses, RestartExecs, EndsTogether
<1>3. ASSUME NEW r \in Reqs, Report(r) \/ Work(r) \/ SendEnter(r) \/ SendEnqueues(r) \/ SendEOF(r)
                             \/ RestartFails(r)
      PROVE  EndsTogether'
  BY <1>0, <1>3 DEF Report, Work, SendEnter, SendEnqueues, SendEOF, RestartFails
<1>4. CASE SenderTakes
  <2>1. Head(queue) \in Reqs
    BY <1>4 DEF SenderTakes, QueueInv, PlaceInv
  <2> QED
    BY <1>4, <2>1, ChannelAssumption DEF SenderTakes, EndsTogether
<1>5. CASE SenderWrites \/ SenderFails \/ SenderSeesDone
  BY <1>5 DEF SenderWrites, SenderFails, SenderSeesDone, EndsTogether, Idle, Ended
<1>6. CASE Worker
  BY <1>6 DEF Worker, WorkerCloses, WorkerFinishes, EndsTogether
<1>7. CASE Edge
  BY <1>7 DEF Edge, EdgeSends, EdgeStalls, SessionCloses, CancelContext, EndsTogether
<1>8. CASE ReadMsg
  <2>1. sent[nread + 1] \in Reqs
    BY <1>8 DEF ReadMsg, ReadInv, StreamInv
  <2> QED
    BY <1>8, <2>1, ChannelAssumption DEF ReadMsg, EndsTogether
<1>9. CASE ReadFails
  BY <1>9 DEF ReadFails, EndsTogether
<1>10. ASSUME NEW i \in Indexes, Runner(i) \/ Network(i) PROVE EndsTogether'
  BY <1>0, <1>10, RunnersRest
<1>11. CASE UNCHANGED vars
  BY <1>0, <1>11 DEF vars
<1> QED
  BY <1>1, <1>2, <1>3, <1>4, <1>5, <1>6, <1>7, <1>8, <1>9, <1>10, <1>11 DEF Next, Reader, Handler, Sender

\* In the initial state the session is up and nothing has ended.
LEMMA InitRest == Init => RestType /\ FlagType /\ EndsTogether
<1> SUFFICES ASSUME Init PROVE RestType /\ FlagType /\ EndsTogether
  OBVIOUS
<1>1. FlagType
  BY DEF Init, FlagType
<1>2. EndsTogether
  BY DEF Init, EndsTogether, Reading, Idle, Ended
<1>3. runner \in [Indexes -> RunnerStates]
  <2>1. PICK s \in Scripts : runner = [i \in Indexes |-> IF i \in s.sessions THEN "start" ELSE "end"]
    BY DEF Init
  <2> QED
    BY <2>1 DEF RunnerStates
<1>4. RestType
  BY <1>3, ChannelAssumption DEF Init, RestType
<1> QED
  BY <1>1, <1>2, <1>4

\* The loops, the worker and the connection of a control session end together,
\* for any messages, any queue and any data sessions: whoever ends has closed
\* doneCh, and the worker has closed the connection before it cancels the data
\* sessions (closeDone, Control.worker).
THEOREM SessionEndsTogether == Spec => []EndsTogether
  BY InitRest, NextRest, NextEnds, ReadInvariant, QueueInvariant, PTL DEF Spec

\* The edge writes no message twice, so there are no more than Reqs.
LEMMA SentBounded ==
  ASSUME StreamInv
  PROVE  sent \in UNION {[1..n -> Reqs] : n \in 0..Cardinality(Reqs)}
<1>1. PICK n \in Nat : n = Len(sent)
  BY DEF StreamInv
<1>2. sent \in [1..n -> Reqs]
  BY <1>1 DEF StreamInv
<1>3. IsFiniteSet(1..n) /\ Cardinality(1..n) = n
  BY FS_Interval
<1>4. Cardinality(Reqs) \in Nat /\ IsFiniteSet(Reqs)
  BY ChannelAssumption, FS_CardinalityType
<1>5. n <= Cardinality(Reqs)
  <2> SUFFICES ASSUME Cardinality(Reqs) < n PROVE FALSE
    BY <1>4
  <2>1. \E i, j \in 1..n : i # j /\ sent[i] = sent[j]
    BY <1>2, <1>3, <1>4, FS_PigeonHole
  <2> QED
    BY <1>1, <2>1 DEF StreamInv
<1>6. n \in 0..Cardinality(Reqs)
  BY <1>4, <1>5
<1> QED
  BY <1>2, <1>6

\* Every variable keeps its type, and sendCh never holds more than its
\* capacity, whoever sends (Dispatcher.Send).
THEOREM ChannelTypeCorrect == Spec => []TypeOK
<1>1. ReadInv /\ QueueInv /\ RestType /\ FlagType => TypeOK
  <2> SUFFICES ASSUME ReadInv, QueueInv, RestType, FlagType PROVE TypeOK
    OBVIOUS
  <2>1. {installed, done, permanent, stalled, ctxDone} \subseteq BOOLEAN
    <3>1. installed \in BOOLEAN
      BY DEF ReadInv, StreamInv
    <3> QED
      BY <3>1 DEF FlagType
  <2>2. sent \in UNION {[1..n -> Reqs] : n \in 0..Cardinality(Reqs)}
    BY SentBounded DEF ReadInv
  <2>3. /\ \A i \in 1..Len(queue) : queue[i] \in Reqs
        /\ \A i \in 1..Len(got) : got[i] \in Reqs
    BY DEF QueueInv, PlaceInv
  <2> QED
    BY <2>1, <2>2, <2>3 DEF ReadInv, StreamInv, HandlerStates, QueueInv, PlaceInv, RestType,
       RunnerStates, TypeOK
<1> QED
  BY <1>1, InitRest, NextRest, NextFlags, ReadInvariant, QueueInvariant, PTL DEF Spec
=============================================================================
