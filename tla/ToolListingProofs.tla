------------------------- MODULE ToolListingProofs --------------------------
(***************************************************************************)
(* Proofs about ToolListing: types, the return of the temporary child,     *)
(* that a listing is the list of the book's tools up to the limit, and     *)
(* that their inputSchema is repaired, for every book, limit and JSON      *)
(* value.                                                                  *)
(***************************************************************************)
EXTENDS ToolListing, FiniteSetTheorems, WellFoundedInduction, TLAPS

Opening == {"start", "command", "env", "open", "hello", "notify"}
Talking == {"open", "hello", "notify", "ask", "add", "close"}

\* Types; the tools are pairs of numbers.
ListingType == TypeOK /\ case \in Cases /\ tools \in Seq(Nat \X Nat)

\* Which stages a request goes through, and what it has done by then.
StageInv ==
  /\ pc \in Opening => child = "none" /\ cursor = 0 /\ page = 0 /\ tools = <<>>
  /\ pc \notin {"close", "over"} => outcome = "none"
  /\ pc = "add" => page # 0
  /\ pc = "close" => child = "up"
  /\ pc = "over" => child # "up"
  /\ case.op = "preflight" /\ case.skip => child = "none" /\ pc \notin Talking
  /\ case.op = "check" => pc \in {"start", "command", "over"}

ListingInv == ListingType /\ StageInv

-----------------------------------------------------------------------------
LEMMA CaseType ==
  ASSUME case \in Cases
  PROVE  /\ case.op \in {"discover", "preflight", "check"} /\ case.payload \in {"exec", "forward", "bad"}
         /\ case.skip \in BOOLEAN /\ Len(case.book) \in Nat \ {0}
         /\ DOMAIN case.book = 1..Len(case.book)
         /\ \A i \in 1..Len(case.book) : case.book[i].named \in Nat /\ case.book[i].next \in 0..Len(case.book)
<1>1. PICK b, S : b = case.book /\ S = [named : Nat, next : 0..Len(case.book)]
  OBVIOUS
<1>2. b \in Seq(S) /\ Len(b) > 0
  BY <1>1, ListingAssumption
<1>3. Len(b) \in Nat \ {0} /\ DOMAIN b = 1..Len(b) /\ \A i \in 1..Len(b) : b[i] \in S
  BY <1>2
<1> QED
  BY <1>1, <1>3, ListingAssumption

\* What the page adds.
LEMMA TakenType ==
  ASSUME ListingType, NEW n \in Nat
  PROVE  /\ Taken(n) \in 0..n /\ Len(tools) + Taken(n) <= MaxTools
         /\ Taken(n) < n => Len(tools) + Taken(n) = MaxTools
  BY ListingAssumption DEF ListingType, TypeOK, Taken

\* The tools of a page behind those of the pages before.
LEMMA Appended ==
  ASSUME NEW s \in Seq(Nat \X Nat), NEW p \in Nat, NEW m \in Nat
  PROVE  LET all == s \o [i \in 1..m |-> <<p, i>>] IN
         /\ all \in Seq(Nat \X Nat) /\ Len(all) = Len(s) + m
         /\ \A x \in 1..Len(s) : all[x] = s[x]
         /\ \A x \in (Len(s) + 1)..(Len(s) + m) : all[x] = <<p, x - Len(s)>>
<1> DEFINE e == [i \in 1..m |-> <<p, i>>]
<1>1. e \in Seq(Nat \X Nat) /\ Len(e) = m
  OBVIOUS
<1> QED
  BY <1>1

LEMMA ListingInitial == Init => ListingInv
<1> SUFFICES ASSUME Init PROVE ListingInv
  OBVIOUS
<1>1. case \in Cases /\ tools = <<>>
  BY DEF Init
<1>2. Cardinality({}) = 0
  BY FS_EmptySet
<1>3. 0 \in 0..Len(case.book) /\ Len(tools) <= MaxTools /\ tools \in Seq(Nat \X Nat)
  BY <1>1, CaseType, ListingAssumption
<1>4. facts \subseteq FactType /\ Cardinality(facts) <= 1
  BY <1>2 DEF Init
<1>5. ListingType
  BY <1>1, <1>3, <1>4 DEF Init, ListingType, TypeOK
<1> QED
  BY <1>5 DEF Init, ListingInv, StageInv, Opening, Talking

\* Leaving keeps everything but outcome and pc.
LEMMA LeaveStep ==
  ASSUME ListingInv, NEW code \in Codes \cup {"ok"}, Leave(code),
         pc \in Opening \cup {"ask"}, case.op # "check",
         pc \in Opening => child = "none",
         pc = "ask" => ~(case.op = "preflight" /\ case.skip)
  PROVE  ListingInv'
<1>1. ListingType'
  BY DEF ListingInv, ListingType, TypeOK, Leave, listVars
<1>2. StageInv'
  BY DEF ListingInv, StageInv, ListingType, TypeOK, Leave, listVars, Opening, Talking
<1> QED
  BY <1>1, <1>2 DEF ListingInv

LEMMA OpeningSteps ==
  ASSUME ListingInv, Begin \/ CheckEnv \/ Open \/ OpenFails \/ Hello \/ HelloFails
  PROVE  ListingInv'
<1>0. case \in Cases
  BY DEF ListingInv, ListingType
<1>1. CASE Begin
  <2>1. CASE \E code \in {"ok", "internal"} : Leave(code) /\ case.op # "check"
    BY <1>1, <2>1, LeaveStep DEF Begin, ListingInv, StageInv, Opening, Codes
  <2>2. CASE (\E to \in {"command", "open", "hello"} : Go(to)) /\ UNCHANGED <<facts, child, listVars>>
    <3>1. /\ UNCHANGED <<case, late, outcome, facts, child, listVars>>
          /\ case.op = "check" => pc' = "command"
          /\ case.op = "preflight" /\ case.skip => pc' = "command"
          /\ pc' \in {"command", "open", "hello"}
      BY <1>1, <2>2 DEF Begin, Go, Leave, listVars
    <3>2. ListingType'
      BY <1>1, <3>1 DEF Begin, listVars, ListingInv, ListingType, TypeOK
    <3> QED
      BY <1>1, <3>1, <3>2 DEF Begin, listVars, ListingInv, StageInv, Opening, Talking
  <2> QED
    BY <1>0, <1>1, <2>1, <2>2, CaseType DEF Begin
<1>2. CASE CheckEnv
  <2>1. CASE \E code \in {"ok", "env_file_missing"} : Leave(code)
    BY <1>2, <2>1, LeaveStep DEF CheckEnv, ListingInv, StageInv, Opening, Codes, OpenCodes
  <2>2. CASE Go("open") /\ UNCHANGED <<facts, child, listVars>> /\ ~case.skip
    <3>1. ListingType'
      BY <1>2, <2>2 DEF CheckEnv, Go, listVars, ListingInv, ListingType, TypeOK
    <3> QED
      BY <1>2, <2>2, <3>1 DEF CheckEnv, Go, listVars, ListingInv, StageInv, Opening, Talking
  <2> QED
    BY <1>2, <2>1, <2>2 DEF CheckEnv
<1>3. CASE Open
  <2>1. ListingType'
    BY <1>3 DEF Open, Go, listVars, ListingInv, ListingType, TypeOK
  <2> QED
    BY <1>3, <2>1 DEF Open, Go, listVars, ListingInv, StageInv, Opening, Talking
<1>4. CASE OpenFails
  <2>1. ListingType'
    BY <1>4 DEF OpenFails, listVars, ListingInv, ListingType, TypeOK, Codes
  <2> QED
    BY <1>4, <2>1 DEF OpenFails, listVars, ListingInv, StageInv, Opening, Talking
<1>5. CASE Hello
  <2>1. ListingType'
    BY <1>5 DEF Hello, Go, listVars, ListingInv, ListingType, TypeOK
  <2> QED
    BY <1>5, <2>1 DEF Hello, Go, listVars, ListingInv, StageInv, Opening, Talking
<1>6. CASE HelloFails
  <2>1. PICK code : code \in SendCodes(TRUE) \cup {"handshake_rejected"} /\ Leave(code)
    BY <1>6 DEF HelloFails
  <2>2. code \in Codes
    BY <2>1 DEF Codes, OpenCodes
  <2> QED
    BY <1>6, <2>1, <2>2, LeaveStep DEF HelloFails, ListingInv, StageInv, Opening
<1> QED
  BY <1>1, <1>2, <1>3, <1>4, <1>5, <1>6

LEMMA CheckCodeType ==
  ASSUME NEW f PROVE CheckCommand(f) \in Codes \cup {"ok"}
  BY DEF CheckCommand, Codes, CheckCodes

LEMMA CheckStep ==
  ASSUME ListingInv, NEW f \in Facts, Check(f)
  PROVE  ListingInv'
<1>1. f \in FactType
  BY ListingAssumption
<1>2. facts' = {f} /\ facts' \subseteq FactType /\ Cardinality(facts') <= 1
  BY <1>1, FS_Singleton DEF Check
<1>3. CheckCommand(f) \in Codes \cup {"ok"}
  BY CheckCodeType
<1>4. UNCHANGED <<case, child, late, cursor, page, tools, truncated>>
  BY DEF Check, listVars
<1>5. \/ pc' = "over" /\ outcome' = CheckCommand(f)
      \/ pc' = "env" /\ outcome' = outcome /\ case.op # "check"
  BY DEF Check
<1>6. ListingType'
  BY <1>2, <1>3, <1>4, <1>5 DEF ListingInv, ListingType, TypeOK
<1>7. StageInv'
  BY <1>4, <1>5 DEF Check, ListingInv, StageInv, Opening, Talking
<1> QED
  BY <1>6, <1>7 DEF ListingInv

LEMMA AskSteps ==
  ASSUME ListingInv, Ask \/ AskFails
  PROVE  ListingInv'
<1>0. case \in Cases /\ case.op # "check" /\ ~(case.op = "preflight" /\ case.skip) /\ pc = "ask"
  BY DEF Ask, AskFails, ListingInv, ListingType, StageInv, Talking
<1>1. CASE Ask
  <2>1. page' \in 1..Len(case.book)
    BY <1>0, <1>1, CaseType DEF Ask, PageAt, ListingInv, ListingType, TypeOK
  <2>2. UNCHANGED <<case, facts, child, late, outcome, cursor, tools, truncated>> /\ pc' = "add"
    BY <1>1 DEF Ask, Go
  <2>3. ListingType'
    BY <2>1, <2>2 DEF ListingInv, ListingType, TypeOK
  <2> QED
    BY <1>0, <2>1, <2>2, <2>3 DEF ListingInv, StageInv, Opening, Talking
<1>2. CASE AskFails
  <2>1. PICK code : code \in SendCodes(child = "none") \cup {"tools_list_rejected"} /\ Leave(code)
    BY <1>2 DEF AskFails
  <2>2. code \in Codes
    BY <2>1 DEF Codes, SendCodes
  <2> QED
    BY <1>0, <2>1, <2>2, LeaveStep DEF Opening
<1> QED
  BY <1>1, <1>2

\* What AddPage does to the list, and whether it goes on.
LEMMA PageAdded ==
  ASSUME ListingInv, page # 0, AddPage
  PROVE  LET n == case.book[page].named IN
         /\ n \in Nat /\ page \in 1..Len(case.book) /\ Taken(n) \in 0..n
         /\ NextCursor \in 0..Len(case.book)
         /\ tools' \in Seq(Nat \X Nat) /\ Len(tools') = Len(tools) + Taken(n)
         /\ Len(tools') <= MaxTools /\ (Taken(n) < n => Len(tools') = MaxTools)
         /\ \A x \in 1..Len(tools) : tools'[x] = tools[x]
         /\ \A x \in (Len(tools) + 1)..Len(tools') : tools'[x] = <<page, x - Len(tools)>>
         /\ truncated' \in BOOLEAN
         /\ truncated' <=> Len(tools') >= MaxTools /\ (Taken(n) < n \/ NextCursor # 0)
         /\ \/ /\ Len(tools') >= MaxTools \/ Ends(NextCursor)
               /\ pc' = IF child = "up" THEN "close" ELSE "over"
               /\ outcome' = "ok" /\ cursor' = cursor
            \/ /\ Len(tools') < MaxTools /\ ~Ends(NextCursor)
               /\ pc' = "ask" /\ outcome' = outcome /\ cursor' = NextCursor
         /\ UNCHANGED <<case, facts, child, late, page, schema>>
<1> DEFINE n == case.book[page].named
           m == Taken(n)
           all == tools \o [i \in 1..m |-> <<page, i>>]
<1>1. /\ case \in Cases /\ page \in 1..Len(case.book) /\ n \in Nat
      /\ NextCursor \in 0..Len(case.book) /\ tools \in Seq(Nat \X Nat)
  BY CaseType DEF ListingInv, ListingType, TypeOK, NextCursor
<1>2. m \in 0..n /\ Len(tools) + m <= MaxTools /\ (m < n => Len(tools) + m = MaxTools)
  BY <1>1, TakenType DEF ListingInv
<1>3. /\ all \in Seq(Nat \X Nat) /\ Len(all) = Len(tools) + m
      /\ \A x \in 1..Len(tools) : all[x] = tools[x]
      /\ \A x \in (Len(tools) + 1)..(Len(tools) + m) : all[x] = <<page, x - Len(tools)>>
  <2>1. m \in Nat /\ page \in Nat
    BY <1>1, <1>2, CaseType
  <2> QED
    BY <1>1, <2>1, Appended
<1>4. /\ tools' = all /\ truncated' = (Len(all) >= MaxTools /\ CutShort(n))
      /\ IF Len(all) >= MaxTools \/ Ends(NextCursor)
         THEN pc' = (IF child = "up" THEN "close" ELSE "over") /\ outcome' = "ok" /\ UNCHANGED cursor
         ELSE pc' = "ask" /\ cursor' = NextCursor /\ UNCHANGED outcome
      /\ UNCHANGED <<case, facts, child, late, page, schema>>
  BY DEF AddPage
<1> HIDE DEF m, n, all
<1>5. Len(tools) \in Nat /\ MaxTools \in Nat
  BY <1>1, ListingAssumption
<1>6. truncated' \in BOOLEAN /\ (truncated' <=> Len(tools') >= MaxTools /\ (m < n \/ NextCursor # 0))
  BY <1>4 DEF CutShort, m
<1>7. \/ /\ Len(tools') >= MaxTools \/ Ends(NextCursor)
         /\ pc' = IF child = "up" THEN "close" ELSE "over"
         /\ outcome' = "ok" /\ cursor' = cursor
      \/ /\ Len(tools') < MaxTools /\ ~Ends(NextCursor)
         /\ pc' = "ask" /\ outcome' = outcome /\ cursor' = NextCursor
  BY <1>2, <1>3, <1>4, <1>5
<1>8. \A x \in (Len(tools) + 1)..Len(tools') : tools'[x] = <<page, x - Len(tools)>>
  BY <1>3, <1>4
<1>9. UNCHANGED <<case, facts, child, late, page, schema>>
  BY <1>4
<1>10. /\ tools' \in Seq(Nat \X Nat) /\ Len(tools') = Len(tools) + m
       /\ Len(tools') <= MaxTools /\ (m < n => Len(tools') = MaxTools)
       /\ \A x \in 1..Len(tools) : tools'[x] = tools[x]
  BY <1>2, <1>3, <1>4
<1> QED
  BY <1>1, <1>2, <1>6, <1>7, <1>8, <1>9, <1>10 DEF m, n

LEMMA AddPageStep ==
  ASSUME ListingInv, AddPage
  PROVE  ListingInv'
<1>1. page # 0 /\ case.op # "check" /\ ~(case.op = "preflight" /\ case.skip)
  BY DEF AddPage, ListingInv, StageInv, Talking
<1>2. /\ tools' \in Seq(Nat \X Nat) /\ Len(tools') <= MaxTools /\ truncated' \in BOOLEAN
      /\ cursor' \in 0..Len(case.book)
      /\ \/ pc' = (IF child = "up" THEN "close" ELSE "over") /\ outcome' = "ok"
         \/ pc' = "ask" /\ outcome' = outcome
      /\ UNCHANGED <<case, facts, child, late, page, schema>>
  BY <1>1, PageAdded DEF ListingInv, ListingType, TypeOK
<1>3. ListingType'
  BY <1>2 DEF ListingInv, ListingType, TypeOK
<1> QED
  BY <1>1, <1>2, <1>3 DEF AddPage, ListingInv, StageInv, Opening, Talking

LEMMA CloseOrDeadline ==
  ASSUME ListingInv, Close \/ Deadline \/ UNCHANGED vars
  PROVE  ListingInv'
<1>1. CASE Close
  <2>1. ListingType'
    BY <1>1 DEF Close, Go, listVars, ListingInv, ListingType, TypeOK
  <2> QED
    BY <1>1, <2>1 DEF Close, Go, listVars, ListingInv, StageInv, Opening, Talking
<1>2. CASE Deadline \/ UNCHANGED vars
  <2>1. ListingType'
    BY <1>2 DEF Deadline, vars, listVars, ListingInv, ListingType, TypeOK
  <2> QED
    BY <1>2, <2>1 DEF Deadline, vars, listVars, ListingInv, StageInv
<1> QED
  BY <1>1, <1>2

\* The stages, types and outcomes of a request, for every case, fact and limit.
THEOREM ListingInvariant == Spec => []ListingInv
<1>1. ListingInv /\ [Next]_vars => ListingInv'
  BY OpeningSteps, CheckStep, AskSteps, AddPageStep, CloseOrDeadline DEF Next, Steps
<1> QED
  BY <1>1, ListingInitial, PTL DEF Spec

\* Every variable keeps its type and no more than maxTools tools are listed.
THEOREM ListingTypeCorrect == Spec => []TypeOK
<1>1. ListingInv => TypeOK
  BY DEF ListingInv, ListingType
<1> QED
  BY <1>1, ListingInvariant, PTL

\* The temporary child is gone when the request is answered, and SkipProtocol
\* starts none (the deferred Close of runDiscoverTools and preflight.Run).
THEOREM ChildIsReturned == Spec => []ChildReturned
<1>1. ListingInv => ChildReturned
  BY DEF ListingInv, StageInv, ChildReturned
<1> QED
  BY <1>1, ListingInvariant, PTL

-----------------------------------------------------------------------------
(* A listing is complete or says that it is not.                           *)

\* In order, and offered by pages before p; all that they offer is there.
ListedBefore(p) ==
  /\ \A x \in 1..Len(tools) : tools[x] \in Offered /\ tools[x][1] < p
  /\ \A x, y \in 1..Len(tools) : x < y => Before(tools[x], tools[y])
  /\ \A t \in Offered : t[1] < p => t \in Listed

Complete ==
  /\ Listed \subseteq Offered
  /\ \A x, y \in DOMAIN tools : x < y => Before(tools[x], tools[y])
  /\ \A s \in Offered, t \in Listed : Before(s, t) => s \in Listed
  /\ Len(tools) <= MaxTools
  /\ Listed = Offered \/ (Len(tools) = MaxTools /\ truncated)

\* Between two pages the list is that of the pages before the cursor's.
PagesInv ==
  InOrder =>
    /\ pc \in {"ask", "add"} =>
         /\ PageAt(cursor) \in DOMAIN case.book /\ Reached(PageAt(cursor))
         /\ ListedBefore(PageAt(cursor))
         /\ pc = "add" => page = PageAt(cursor)
    /\ outcome = "ok" /\ page # 0 => Complete

LEMMA OfferedType ==
  ASSUME case \in Cases
  PROVE  /\ \A t \in Offered : /\ t = <<t[1], t[2]>> /\ t[1] \in 1..Len(case.book) /\ Reached(t[1])
                               /\ t[2] \in 1..case.book[t[1]].named
         /\ \A i \in 1..Len(case.book) : Reached(i) =>
              \A k \in 1..case.book[i].named : <<i, k>> \in Offered
<1>1. ASSUME NEW t \in Offered
      PROVE  /\ t = <<t[1], t[2]>> /\ t[1] \in 1..Len(case.book) /\ Reached(t[1])
             /\ t[2] \in 1..case.book[t[1]].named
  <2>1. PICK i \in DOMAIN case.book : Reached(i) /\ t \in ToolsOf(i)
    BY <1>1 DEF Offered
  <2>2. PICK k \in 1..case.book[i].named : t = <<i, k>>
    BY <2>1 DEF ToolsOf
  <2> QED
    BY <2>1, <2>2, CaseType
<1>2. ASSUME NEW i \in 1..Len(case.book), Reached(i), NEW k \in 1..case.book[i].named
      PROVE  <<i, k>> \in Offered
  BY <1>2, CaseType DEF Offered, ToolsOf
<1> QED
  BY <1>1, <1>2

\* The first page, before anything is listed.
LEMMA FirstPage ==
  ASSUME case \in Cases, tools = <<>>, cursor = 0
  PROVE  PageAt(cursor) \in DOMAIN case.book /\ Reached(PageAt(cursor)) /\ ListedBefore(PageAt(cursor))
<1>1. PageAt(cursor) = 1 /\ Len(tools) = 0
  BY DEF PageAt
<1>2. \A t \in Offered : ~(t[1] < 1)
  BY CaseType, OfferedType
<1> QED
  BY <1>1, <1>2, CaseType DEF Reached, ListedBefore

\* A step that leaves the list alone.
LEMMA ListUnchanged ==
  ASSUME PagesInv, UNCHANGED <<case, cursor, tools, truncated>>,
         pc' \in {"ask", "add"} => pc \in {"ask", "add"},
         pc' = "add" => page' = PageAt(cursor) \/ (pc = "add" /\ page' = page),
         outcome' = "ok" /\ page' # 0 => outcome = "ok" /\ page # 0
  PROVE  PagesInv'
<1>1. /\ InOrder' = InOrder /\ Offered' = Offered /\ Listed' = Listed /\ PageAt(cursor)' = PageAt(cursor)
      /\ \A i : Reached(i)' = Reached(i)
  BY DEF InOrder, Offered, Listed, ToolsOf, Reached, PageAt
<1>2. ListedBefore(PageAt(cursor))' <=> ListedBefore(PageAt(cursor))
  BY <1>1 DEF ListedBefore, Before
<1>3. Complete' <=> Complete
  BY <1>1 DEF Complete, Before
<1> QED
  BY <1>1, <1>2, <1>3 DEF PagesInv

\* A step of the stages before the first page.
LEMMA BeforePages ==
  ASSUME ListingInv, pc \in Opening, UNCHANGED <<case, listVars>>, pc' # "add"
  PROVE  PagesInv'
<1>1. case \in Cases /\ cursor = 0 /\ page = 0 /\ tools = <<>> /\ page' = 0
  BY DEF ListingInv, ListingType, StageInv, listVars
<1>2. PageAt(cursor) \in DOMAIN case.book /\ Reached(PageAt(cursor)) /\ ListedBefore(PageAt(cursor))
  BY <1>1, FirstPage
<1>3. /\ PageAt(cursor)' = PageAt(cursor) /\ Offered' = Offered /\ Listed' = Listed /\ tools' = tools
      /\ \A i : Reached(i)' = Reached(i)
  BY DEF PageAt, Offered, Listed, ToolsOf, Reached, listVars
<1>4. ListedBefore(PageAt(cursor))'
  BY <1>2, <1>3 DEF ListedBefore, Before
<1> QED
  BY <1>1, <1>2, <1>3, <1>4 DEF PagesInv

\* The pages of a book that is read in order: page p is followed by p + 1 or ends it.
LEMMA PageFollows ==
  ASSUME case \in Cases, InOrder, NEW p \in 1..Len(case.book), Reached(p)
  PROVE  /\ case.book[p].next # 0 => p + 1 \in 1..Len(case.book) /\ Reached(p + 1) /\ case.book[p].next = p + 1
         /\ case.book[p].next = 0 => \A t \in Offered : t[1] < p + 1
<1>1. CASE case.book[p].next # 0
  <2>1. case.book[p].next = p + 1 /\ p + 1 \in 1..Len(case.book)
    BY <1>1, CaseType DEF InOrder
  <2>2. \A j \in 1..((p + 1) - 1) : j \in 1..(p - 1) \/ j = p
    BY CaseType
  <2> QED
    BY <1>1, <2>1, <2>2 DEF Reached
<1>2. CASE case.book[p].next = 0
  <2> SUFFICES ASSUME NEW t \in Offered, ~(t[1] < p + 1) PROVE FALSE
    BY <1>2
  <2>1. t[1] \in 1..Len(case.book) /\ Reached(t[1])
    BY OfferedType
  <2>2. p \in 1..(t[1] - 1)
    BY <2>1, CaseType
  <2> QED
    BY <1>2, <2>1, <2>2 DEF Reached
<1> QED
  BY <1>1, <1>2

\* The first m tools of page p are appended to the list.
Grows(p, m) ==
  /\ \A x \in 1..Len(tools) : tools'[x] = tools[x]
  /\ \A x \in (Len(tools) + 1)..(Len(tools) + m) : tools'[x] = <<p, x - Len(tools)>>

\* The list after a page: m of the n tools of page p were taken.
LEMMA ListAfter ==
  ASSUME case \in Cases, case' = case,
         DOMAIN tools = 1..Len(tools), DOMAIN tools' = 1..Len(tools'),
         NEW p \in 1..Len(case.book), Reached(p), ListedBefore(p),
         NEW n \in Nat, n = case.book[p].named, NEW m \in 0..n,
         NEW a \in Nat, a = Len(tools), NEW b \in Nat, b = Len(tools'), b = a + m,
         Grows(p, m)
  PROVE  /\ \A x \in 1..Len(tools') : tools'[x] \in Offered /\ tools'[x][1] < p + 1
         /\ \A x, y \in 1..Len(tools') : x < y => Before(tools'[x], tools'[y])
         /\ \A s \in Offered, t \in Listed' : Before(s, t) => s \in Listed'
         /\ m = n => \A t \in Offered : t[1] < p + 1 => t \in Listed'
<1>0. p \in Nat /\ m \in Nat
  BY CaseType
<1>1. \A k \in 1..m : <<p, k>> \in Offered
  <2>1. \A k \in 1..m : k \in 1..n
    BY <1>0
  <2>2. \A k \in 1..n : <<p, k>> \in Offered
    BY OfferedType
  <2> QED
    BY <2>1, <2>2
<1>2. ASSUME NEW x \in 1..Len(tools')
      PROVE  \/ x \in 1..a /\ tools'[x] = tools[x] /\ tools[x][1] < p /\ tools[x] \in Offered
             \/ x > a /\ x - a \in 1..m /\ tools'[x] = <<p, x - a>>
  <2>1. x \in 1..a \/ (x \in (a + 1)..b /\ x > a /\ x - a \in 1..m)
    BY <1>0
  <2> QED
    BY <2>1 DEF Grows, ListedBefore
<1>3. ASSUME NEW x \in 1..Len(tools') PROVE tools'[x] \in Offered /\ tools'[x][1] < p + 1
  <2>1. CASE tools'[x] = tools[x] /\ tools[x][1] < p /\ tools[x] \in Offered
    <3>1. tools[x][1] \in Nat
      BY <2>1, OfferedType, CaseType
    <3> QED
      BY <1>0, <2>1, <3>1
  <2>2. CASE x - a \in 1..m /\ tools'[x] = <<p, x - a>>
    BY <1>0, <1>1, <2>2
  <2> QED
    BY <1>2, <2>1, <2>2
<1>4. ASSUME NEW x \in 1..Len(tools'), NEW y \in 1..Len(tools'), x < y
      PROVE  Before(tools'[x], tools'[y])
  <2>1. CASE y \in 1..a
    <3>1. x \in 1..a
      BY <1>0, <1>4, <2>1
    <3> QED
      BY <1>4, <2>1, <3>1 DEF Grows, ListedBefore
  <2>2. CASE y \notin 1..a
    <3>1. tools'[y] = <<p, y - a>> /\ y > a
      BY <1>0, <1>2, <2>2
    <3>2. CASE x \in 1..a
      <4>1. tools'[x][1] < p /\ tools'[y][1] = p
        BY <1>0, <1>2, <3>1, <3>2
      <4> QED
        BY <4>1 DEF Before
    <3>3. CASE x \notin 1..a
      BY <1>0, <1>2, <1>4, <3>1, <3>3 DEF Before
    <3> QED
      BY <3>2, <3>3
  <2> QED
    BY <2>1, <2>2
<1>5. \A t \in Offered : t[1] < p => t \in Listed'
  <2>1. \A x \in 1..a : x \in 1..b /\ tools'[x] = tools[x]
    BY <1>0 DEF Grows
  <2>3. Listed \subseteq Listed'
    BY <2>1 DEF Listed
  <2> QED
    BY <2>3 DEF ListedBefore
<1>6. \A k \in 1..m : <<p, k>> \in Listed'
  <2> SUFFICES ASSUME NEW k \in 1..m PROVE <<p, k>> \in Listed'
    OBVIOUS
  <2>1. PICK x \in (a + 1)..b : x - a = k
    <3>1. a + k \in (a + 1)..b /\ (a + k) - a = k
      BY <1>0
    <3> QED
      BY <3>1
  <2>2. tools'[x] = <<p, k>> /\ x \in DOMAIN tools'
    <3>1. tools'[x] = <<p, x - a>>
      BY <2>1 DEF Grows
    <3> QED
      BY <1>0, <2>1, <3>1
  <2> QED
    BY <2>2 DEF Listed
<1>7. ASSUME NEW s \in Offered, NEW t \in Listed', Before(s, t)
      PROVE  s \in Listed'
  <2>0. s = <<s[1], s[2]>> /\ s[1] \in Nat /\ s[2] \in Nat \ {0}
    BY OfferedType, CaseType
  <2>1. PICK x \in 1..b : t = tools'[x]
    BY <1>0 DEF Listed
  <2>2. CASE s[1] < p
    BY <1>5, <2>2
  <2>3. CASE ~(s[1] < p)
    <3>1. t = <<p, x - a>> /\ x - a \in 1..m
      <4>1. t[1] \in Nat /\ (s[1] < t[1] \/ s[1] = t[1])
        BY <1>3, <1>7, <2>1, OfferedType, CaseType DEF Before
      <4>2. ~(t[1] < p)
        BY <1>0, <2>0, <2>3, <4>1
      <4> QED
        BY <1>2, <2>1, <4>2
    <3>2. s[1] = p /\ s[2] \in 1..m
      <4>1. t[1] = p /\ t[2] = x - a
        BY <3>1
      <4>2. s[1] = p /\ s[2] < t[2]
        BY <1>0, <1>7, <2>0, <2>3, <4>1 DEF Before
      <4> QED
        BY <1>0, <2>0, <3>1, <4>1, <4>2
    <3> QED
      BY <1>6, <2>0, <3>2
  <2> QED
    BY <2>2, <2>3
<1>8. ASSUME m = n, NEW t \in Offered, t[1] < p + 1
      PROVE  t \in Listed'
  <2>1. t = <<t[1], t[2]>> /\ t[1] \in 1..Len(case.book) /\ t[2] \in 1..case.book[t[1]].named
    BY OfferedType
  <2>2. CASE t[1] < p
    BY <1>5, <2>2
  <2>3. CASE t[1] = p
    BY <1>6, <1>8, <2>1, <2>3
  <2> QED
    BY <1>0, <1>8, <2>1, <2>2, <2>3, CaseType
<1> QED
  BY <1>3, <1>4, <1>7, <1>8

LEMMA AddPagePages ==
  ASSUME ListingInv, PagesInv, AddPage
  PROVE  PagesInv'
<1> SUFFICES ASSUME InOrder'
             PROVE  /\ pc' \in {"ask", "add"} =>
                         /\ PageAt(cursor)' \in DOMAIN case'.book /\ Reached(PageAt(cursor))'
                         /\ ListedBefore(PageAt(cursor))'
                         /\ pc' = "add" => page' = PageAt(cursor)'
                    /\ outcome' = "ok" /\ page' # 0 => Complete'
  BY DEF PagesInv
<1>1. page # 0 /\ pc = "add" /\ case \in Cases /\ MaxTools \in Nat /\ outcome = "none"
  BY ListingAssumption DEF AddPage, ListingInv, StageInv, ListingType
<1> DEFINE n == case.book[page].named
           m == Taken(n)
<1>2. /\ n \in Nat /\ page \in 1..Len(case.book) /\ m \in 0..n
      /\ tools' \in Seq(Nat \X Nat) /\ Len(tools') = Len(tools) + m
      /\ Len(tools') <= MaxTools /\ (m < n => Len(tools') = MaxTools)
      /\ truncated' <=> Len(tools') >= MaxTools /\ (m < n \/ NextCursor # 0)
      /\ \/ /\ Len(tools') >= MaxTools \/ Ends(NextCursor)
            /\ pc' \in {"close", "over"} /\ outcome' = "ok" /\ cursor' = cursor
         \/ /\ Len(tools') < MaxTools /\ ~Ends(NextCursor)
            /\ pc' = "ask" /\ outcome' = outcome /\ cursor' = NextCursor
  BY <1>1, PageAdded
<1>3. case' = case /\ page' = page /\ Grows(page, m)
  BY <1>1, PageAdded DEF Grows
<1>4. InOrder /\ page = PageAt(cursor) /\ Reached(page) /\ ListedBefore(page)
  BY <1>1, <1>3 DEF InOrder, PagesInv
<1> HIDE DEF m, n
<1>5. /\ DOMAIN tools = 1..Len(tools) /\ DOMAIN tools' = 1..Len(tools')
      /\ Len(tools) \in Nat /\ Len(tools') \in Nat
  BY <1>2 DEF ListingInv, ListingType
<1>6. /\ \A x \in 1..Len(tools') : tools'[x] \in Offered /\ tools'[x][1] < page + 1
      /\ \A x, y \in 1..Len(tools') : x < y => Before(tools'[x], tools'[y])
      /\ \A s \in Offered, t \in Listed' : Before(s, t) => s \in Listed'
      /\ m = n => \A t \in Offered : t[1] < page + 1 => t \in Listed'
  BY <1>1, <1>2, <1>3, <1>4, <1>5, ListAfter DEF n
<1>7. /\ NextCursor # 0 => page + 1 \in 1..Len(case.book) /\ Reached(page + 1) /\ NextCursor = page + 1
      /\ NextCursor = 0 => \A t \in Offered : t[1] < page + 1
  BY <1>1, <1>2, <1>4, PageFollows DEF NextCursor
<1>8. /\ Offered' = Offered /\ \A i : Reached(i)' <=> Reached(i)
      /\ Listed' = {tools'[x] : x \in 1..Len(tools')}
  BY <1>3, <1>5 DEF Offered, ToolsOf, Reached, Listed
<1>9. CASE pc' = "ask"
  <2>1. cursor' = NextCursor /\ NextCursor # 0 /\ m = n /\ outcome' = "none"
    BY <1>1, <1>2, <1>5, <1>9 DEF Ends
  <2>2. PageAt(cursor)' = page + 1
    BY <1>7, <2>1 DEF PageAt
  <2>3. page + 1 \in DOMAIN case'.book /\ \A j \in 1..((page + 1) - 1) : case'.book[j].next # 0
    BY <1>1, <1>3, <1>7, <2>1, CaseType DEF Reached
  <2>4. ListedBefore(PageAt(cursor))'
    <3>1. \A t \in Offered : t[1] < page + 1 => t \in Listed'
      BY <1>6, <2>1
    <3> QED
      BY <1>6, <1>8, <2>2, <3>1 DEF ListedBefore, Before
  <2>5. PageAt(cursor)' \in DOMAIN case'.book /\ Reached(PageAt(cursor))'
    BY <2>2, <2>3 DEF Reached
  <2> QED
    BY <1>9, <2>1, <2>4, <2>5
<1>10. CASE pc' \in {"close", "over"}
  <2>1. Listed' \subseteq Offered
    BY <1>6, <1>8
  <2>2. Listed' = Offered \/ (Len(tools') = MaxTools /\ truncated')
    <3>1. CASE NextCursor = 0 /\ m = n
      BY <1>6, <1>7, <2>1, <3>1
    <3>2. CASE ~(NextCursor = 0 /\ m = n)
      <4>1. Ends(NextCursor) => NextCursor = 0
        BY <1>1, <1>2, <1>4, <1>7, CaseType DEF Ends, PageAt
      <4>2. m < n \/ NextCursor # 0
        BY <1>2, <3>2
      <4>3. Len(tools') >= MaxTools
        BY <1>1, <1>2, <1>5, <1>10, <4>1, <4>2
      <4> QED
        BY <1>1, <1>2, <1>5, <4>2, <4>3
    <3> QED
      BY <3>1, <3>2
  <2>3. Complete'
    BY <1>2, <1>5, <1>6, <1>8, <2>1, <2>2 DEF Complete, Before
  <2> QED
    BY <1>10, <2>3
<1> QED
  BY <1>2, <1>9, <1>10

LEMMA PagesStep ==
  ASSUME ListingInv, PagesInv, [Next]_vars
  PROVE  PagesInv'
<1>1. CASE Begin \/ CheckEnv \/ Open \/ OpenFails \/ Hello \/ HelloFails
  BY <1>1, BeforePages DEF Begin, CheckEnv, Open, OpenFails, Hello, HelloFails, Leave, Go, Opening, listVars
<1>2. CASE \E f \in Facts : Check(f)
  BY <1>2, BeforePages DEF Check, Opening
<1>3. CASE Ask \/ AskFails
  BY <1>3, ListUnchanged DEF Ask, AskFails, Leave, Go, listVars, ListingInv, StageInv, SendCodes
<1>4. CASE AddPage
  BY <1>4, AddPagePages
<1>5. CASE Close \/ Deadline \/ UNCHANGED vars
  <2>1. UNCHANGED <<case, cursor, tools, truncated, outcome, page>>
    BY <1>5 DEF Close, Deadline, Go, vars, listVars
  <2>2. pc' \in {"ask", "add"} => pc' = pc
    BY <1>5 DEF Close, Deadline, Go, vars
  <2> QED
    BY <2>1, <2>2, ListUnchanged
<1> QED
  BY <1>1, <1>2, <1>3, <1>4, <1>5 DEF Next, Steps

\* A listing of a book that is read from front to back is the list of its
\* tools, in order and without repetitions, cut only at maxTools and then
\* marked truncated, for every book and every limit (ListToolsViaTransport).
THEOREM ListingIsComplete == Spec => []ListingComplete
<1>1. Init => PagesInv
  BY DEF Init, PagesInv
<1>2. ListingInv /\ PagesInv /\ [Next]_vars => PagesInv'
  BY PagesStep
<1>3. PagesInv => ListingComplete
  BY DEF PagesInv, ListingComplete, Complete
<1> QED
  BY <1>1, <1>2, <1>3, ListingInvariant, PTL DEF Spec

-----------------------------------------------------------------------------
(* The repair of an inputSchema: induction over the depth of JSON values.  *)

\* A set of numbers that is closed under successor and has 0 is all of them:
\* induction, in a form that takes the property as a set.
LEMMA Induction ==
  ASSUME NEW S, 0 \in S, \A n \in Nat : n \in S => n + 1 \in S
  PROVE  Nat \subseteq S
<1> SUFFICES ASSUME Nat \ S # {} PROVE FALSE
  OBVIOUS
<1>1. PICK R : R = {p \in Nat \X Nat : p[1] < p[2]}
  OBVIOUS
<1>2. IsWellFoundedOn(R, Nat)
  BY <1>1, NatLessThanWellFounded DEF OpToRel
<1>3. PICK n \in Nat \ S : \A m \in Nat \ S : <<m, n>> \notin R
  BY <1>2, WFMin
<1>4. n - 1 \in Nat /\ <<n - 1, n>> \in R
  BY <1>1
<1>5. n - 1 \in S
  BY <1>3, <1>4
<1> QED
  BY <1>4, <1>5

\* The depth of a JSON value.
LEMMA DepthType ==
  MaxDepth \in Nat /\ \A v \in JSON : Depth[v] \in Nat /\ Depth[v] <= MaxDepth
  BY JSONAssumption

\* The forms of a JSON value.
LEMMA JSONForm ==
  ASSUME NEW v \in JSON
  PROVE  /\ Depth[v] \in 0..MaxDepth
         /\ ~IsMap(v) /\ ~IsList(v) => v \in {Null, Scalar}
         /\ IsList(v) => /\ ~IsMap(v) /\ v = List(v.els) /\ v.els \in Seq(JSON)
                         /\ \A i \in 1..Len(v.els) : v.els[i] \in JSON /\ Depth[v.els[i]] < Depth[v]
         /\ IsMap(v) => /\ v = Map(v.f) /\ v.f \in [Keys(v) -> JSON]
                        /\ \A k \in Keys(v) : v.f[k] \in JSON /\ Depth[v.f[k]] < Depth[v]
<1>1. Depth[v] \in 0..MaxDepth
  BY JSONAssumption
<1>2. ~IsMap(Null) /\ ~IsList(Null) /\ ~IsMap(Scalar) /\ ~IsList(Scalar)
  BY DEF Null, Scalar, IsMap, IsList
<1>3. ~(IsMap(v) /\ IsList(v))
  BY DEF IsMap, IsList
<1>4. \/ v = Null \/ v = Scalar
      \/ /\ IsList(v) /\ v = List(v.els) /\ v.els \in Seq(JSON)
         /\ \A i \in 1..Len(v.els) : Depth[v.els[i]] < Depth[v]
      \/ /\ IsMap(v) /\ v = Map(v.f) /\ v.f \in [Keys(v) -> JSON]
         /\ \A k \in Keys(v) : Depth[v.f[k]] < Depth[v]
  BY JSONAssumption
<1> QED
  BY <1>1, <1>2, <1>3, <1>4

\* What a keyword's value becomes depends on the smaller schemas only.
LEMMA KeywordLocal ==
  ASSUME NEW v \in Objects, NEW f, NEW g,
         \A w \in Objects : Depth[w] < Depth[v] => f[w] = g[w],
         NEW k \in Keys(v)
  PROVE  SanitizeKeyword(f, k, v.f[k]) = SanitizeKeyword(g, k, v.f[k])
<1>1. PICK w : w = v.f[k]
  OBVIOUS
<1>2. w \in JSON /\ Depth[w] < Depth[v] /\ Depth[v] \in Nat
  BY <1>1, JSONForm DEF Objects
<1>3. ASSUME NEW c \in JSON, Depth[c] < Depth[v]
      PROVE  SanitizeChild(f, c) = SanitizeChild(g, c) /\ (IsMap(c) => f[c] = g[c])
  BY <1>3 DEF SanitizeChild, Objects
<1>4. IsMap(w) => SanitizeMap(f, w) = SanitizeMap(g, w)
  <2>1. IsMap(w) => \A x \in Keys(w) : w.f[x] \in JSON /\ Depth[w.f[x]] < Depth[v]
    BY <1>2, JSONForm
  <2> QED
    BY <1>3, <2>1 DEF SanitizeMap
<1>5. IsList(w) => SanitizeSlice(f, w) = SanitizeSlice(g, w)
  <2>1. IsList(w) => \A i \in 1..Len(w.els) : w.els[i] \in JSON /\ Depth[w.els[i]] < Depth[v]
    BY <1>2, JSONForm
  <2> QED
    BY <1>3, <2>1 DEF SanitizeSlice
<1> QED
  BY <1>1, <1>2, <1>3, <1>4, <1>5 DEF SanitizeKeyword

\* So does what a schema becomes.
LEMMA ObjectLocal ==
  ASSUME NEW v \in Objects, NEW f, NEW g,
         \A w \in Objects : Depth[w] < Depth[v] => f[w] = g[w]
  PROVE  SanitizeObject(f, v) = SanitizeObject(g, v)
  BY KeywordLocal DEF SanitizeObject, KeptKeys

\* sanitizeJSONSchema is well defined: the recursion goes to smaller schemas.
LEMMA SanitizeIs ==
  SanitizeJSONSchema = [v \in Objects |-> SanitizeObject(SanitizeJSONSchema, v)]
<1> DEFINE Good(g, n) == \A v \in Objects : Depth[v] < n => g[v] = SanitizeObject(g, v)
           S == {n \in Nat : \E g : Good(g, n)}
<1>1. 0 \in S
  <2>1. \A v \in Objects : Depth[v] \in Nat
    BY DepthType DEF Objects
  <2> QED
    BY <2>1
<1>2. ASSUME NEW n \in Nat, n \in S PROVE n + 1 \in S
  <2>1. PICK g : Good(g, n)
    BY <1>2
  <2>2. PICK h : h = [v \in Objects |-> SanitizeObject(g, v)]
    OBVIOUS
  <2>3. \A v \in Objects : Depth[v] < n => h[v] = g[v]
    BY <2>1, <2>2
  <2>4. ASSUME NEW v \in Objects, Depth[v] < n + 1 PROVE h[v] = SanitizeObject(h, v)
    <3>1. Depth[v] \in Nat /\ \A w \in Objects : Depth[w] \in Nat
      BY DepthType DEF Objects
    <3>2. \A w \in Objects : Depth[w] < Depth[v] => h[w] = g[w]
      BY <2>3, <2>4, <3>1
    <3>3. SanitizeObject(h, v) = SanitizeObject(g, v)
      BY <3>2, ObjectLocal
    <3> QED
      BY <2>2, <3>3
  <2>5. Good(h, n + 1)
    BY <2>4
  <2> QED
    BY <2>5
<1>3. MaxDepth + 1 \in S
  <2> HIDE DEF S
  <2>1. Nat \subseteq S
    BY <1>1, <1>2, Induction
  <2> QED
    BY <2>1, JSONAssumption
<1>4. PICK g : Good(g, MaxDepth + 1)
  BY <1>3
<1>5. \A v \in Objects : g[v] = SanitizeObject(g, v)
  <2>1. ASSUME NEW v \in Objects PROVE Depth[v] < MaxDepth + 1
    <3>1. v \in JSON
      BY DEF Objects
    <3>2. Depth[v] \in Nat /\ Depth[v] <= MaxDepth /\ MaxDepth \in Nat
      BY <3>1, DepthType
    <3> QED
      BY <3>2
  <2> QED
    BY <1>4, <2>1
<1>6. PICK h : h = [v \in Objects |-> g[v]]
  OBVIOUS
<1>7. \A v \in Objects : SanitizeObject(h, v) = SanitizeObject(g, v)
  BY <1>6, ObjectLocal
<1>8. h = [v \in Objects |-> SanitizeObject(h, v)]
  BY <1>5, <1>6, <1>7
<1> QED
  BY <1>8 DEF SanitizeJSONSchema

\* The levels are well defined as well.
LEMMA LevelsAre ==
  ASSUME NEW v, NEW s
  PROVE  /\ TwinLevels(v, s)[0] = {<<v, s>>}
         /\ \A n \in 0..MaxDepth : n # 0 => TwinLevels(v, s)[n] = WithTwins(TwinLevels(v, s)[n - 1])
<1> DEFINE Step(g, i) == IF i = 0 THEN {<<v, s>>} ELSE WithTwins(g[i - 1])
           Good(g, n) == \A i \in 0..MaxDepth : i < n => g[i] = Step(g, i)
           S == {n \in Nat : \E g : Good(g, n)}
<1>1. 0 \in S
  BY JSONAssumption
<1>2. ASSUME NEW n \in Nat, n \in S PROVE n + 1 \in S
  <2>1. PICK g : Good(g, n)
    BY <1>2
  <2>2. PICK h : h = [i \in 0..MaxDepth |-> Step(g, i)]
    OBVIOUS
  <2>3. ASSUME NEW i \in 0..MaxDepth, i < n + 1 PROVE h[i] = Step(h, i)
    <3>1. i # 0 => i - 1 \in 0..MaxDepth /\ i - 1 < n
      BY <2>3, JSONAssumption
    <3>2. i # 0 => h[i - 1] = g[i - 1]
      BY <2>1, <2>2, <3>1
    <3> QED
      BY <2>2, <3>2
  <2>4. Good(h, n + 1)
    BY <2>3
  <2> HIDE DEF Good
  <2> QED
    BY <2>4
<1>3. MaxDepth + 1 \in S
  <2> HIDE DEF S
  <2>1. Nat \subseteq S
    BY <1>1, <1>2, Induction
  <2> QED
    BY <2>1, JSONAssumption
<1>4. PICK g : Good(g, MaxDepth + 1)
  BY <1>3
<1>5. PICK h : h = [i \in 0..MaxDepth |-> g[i]]
  OBVIOUS
<1>6. h = [i \in 0..MaxDepth |-> IF i = 0 THEN {<<v, s>>} ELSE WithTwins(h[i - 1])]
  <2>1. ASSUME NEW i \in 0..MaxDepth PROVE g[i] = Step(h, i)
    <3>1. i < MaxDepth + 1 /\ (i # 0 => i - 1 \in 0..MaxDepth)
      BY JSONAssumption
    <3> QED
      BY <1>4, <1>5, <3>1
  <2> QED
    BY <1>5, <2>1
<1>7. TwinLevels(v, s) =
        [i \in 0..MaxDepth |-> IF i = 0 THEN {<<v, s>>} ELSE WithTwins(TwinLevels(v, s)[i - 1])]
  BY <1>6 DEF TwinLevels
<1>8. 0 \in 0..MaxDepth
  BY JSONAssumption
<1> QED
  BY <1>7, <1>8

\* What stands in the place of schema x once it is sanitised.
Becomes(x, y) ==
  /\ x \in JSON
  /\ \/ IsBlank(x) /\ (y = JsonSchemaAny \/ y = ObjectSchema \/ y = Scalar)
     \/ x \in Objects /\ ~IsBlank(x) /\ y = SanitizeJSONSchema[x]
     \/ ~IsMap(x) /\ x # Null /\ y = x

\* A sanitised object is a map of the keywords that are kept.
LEMMA SanitizedObject ==
  ASSUME NEW x \in Objects, NEW y, y = SanitizeJSONSchema[x]
  PROVE  /\ IsMap(y) /\ y # Null /\ Keys(y) = KeptKeys(x)
         /\ \A k \in KeptKeys(x) : y.f[k] = SanitizeKeyword(SanitizeJSONSchema, k, x.f[k])
<1>1. PICK f : f = [k \in KeptKeys(x) |-> SanitizeKeyword(SanitizeJSONSchema, k, x.f[k])]
  OBVIOUS
<1>2. y = SanitizeObject(SanitizeJSONSchema, x)
  BY SanitizeIs
<1>3. y = [kind |-> "map", f |-> f]
  BY <1>1, <1>2 DEF SanitizeObject, Map
<1>4. y.kind = "map" /\ y.f = f
  BY <1>3
<1>5. Null.kind = "null"
  BY DEF Null
<1> QED
  BY <1>1, <1>4, <1>5 DEF IsMap, Keys

\* The stand-ins for a blank schema are not blank.
LEMMA StandIns ==
  /\ ~IsBlank(Scalar) /\ ~IsList(Scalar) /\ Scalar # Null
  /\ \A y : y = JsonSchemaAny \/ y = ObjectSchema =>
       IsMap(y) /\ ~IsList(y) /\ ~IsBlank(y) /\ y # Null
<1>1. Scalar.kind = "scalar" /\ Null.kind = "null"
  BY DEF Scalar, Null
<1>3. ASSUME NEW y, NEW t, y = Map([type |-> t]) PROVE y.kind = "map" /\ Keys(y) = {"type"}
  <2>1. PICK f : f = [type |-> t]
    OBVIOUS
  <2>2. y = [kind |-> "map", f |-> f]
    BY <1>3, <2>1 DEF Map
  <2> QED
    BY <2>1, <2>2 DEF Keys
<1>4. ASSUME NEW y, y = JsonSchemaAny \/ y = ObjectSchema PROVE y.kind = "map" /\ Keys(y) = {"type"}
  BY <1>3, <1>4 DEF JsonSchemaAny, ObjectSchema
<1> QED
  BY <1>1, <1>4 DEF IsMap, IsList, IsBlank, IsEmptyObject

\* SanitizeChild puts a schema, or what stands in for one.
LEMMA ChildBecomes ==
  ASSUME NEW c \in JSON
  PROVE  Becomes(c, SanitizeChild(SanitizeJSONSchema, c))
<1>1. CASE IsBlank(c)
  BY <1>1 DEF SanitizeChild, Becomes
<1>2. CASE ~IsBlank(c) /\ IsMap(c)
  BY <1>2 DEF Objects, SanitizeChild, Becomes
<1>3. CASE ~IsBlank(c) /\ ~IsMap(c)
  BY <1>3 DEF SanitizeChild, Becomes, IsBlank
<1> QED
  BY <1>1, <1>2, <1>3

\* The places under a keyword that takes a map, and in a list.
LEMMA TwinsOfMap ==
  ASSUME NEW k \in SchemaMaps \cup {"properties"}, NEW w, IsMap(w), NEW z
  PROVE  TwinsUnder(k, w, z) = {<<w.f[x], z.f[x]>> : x \in Keys(w)}
<1>1. k \notin OneSchema \cup SchemaLists \cup {"additionalProperties"}
  BY DEF OneSchema, SchemaLists, SchemaMaps
<1> QED
  BY <1>1 DEF TwinsUnder

LEMMA TwinsOfList ==
  ASSUME NEW k \in OneSchema \cup SchemaLists, NEW w, IsList(w), NEW z
  PROVE  TwinsUnder(k, w, z) = {<<w.els[i], z.els[i]>> : i \in 1..Len(w.els)}
<1>1. k \notin SchemaMaps \cup {"properties", "additionalProperties"}
  BY DEF OneSchema, SchemaLists, SchemaMaps
<1> QED
  BY <1>1 DEF TwinsUnder

LEMMA TwinsOfOne ==
  ASSUME NEW k, NEW w, NEW z, k = "additionalProperties" \/ (k \in OneSchema /\ ~IsList(w))
  PROVE  TwinsUnder(k, w, z) = {<<w, z>>}
<1>1. k \notin SchemaMaps \cup SchemaLists \cup {"properties"}
  BY DEF OneSchema, SchemaLists, SchemaMaps
<1>2. k \in OneSchema => ~IsList(w)
  BY DEF OneSchema
<1> QED
  BY <1>1, <1>2 DEF TwinsUnder

\* Under a keyword, what stands in a place comes from what stood there.
LEMMA UnderBecomes ==
  ASSUME NEW k, NEW w \in JSON, NEW u \in TwinsUnder(k, w, SanitizeKeyword(SanitizeJSONSchema, k, w))
  PROVE  Becomes(u[1], u[2])
<1> DEFINE F == SanitizeJSONSchema
<1> HIDE DEF F
<1>0. PICK y : y = SanitizeKeyword(F, k, w) /\ u \in TwinsUnder(k, w, y)
  BY DEF F
<1>1. CASE k \in SchemaMaps \cup {"properties"} /\ IsMap(w)
  <2>1. PICK f : f = [x \in Keys(w) |-> SanitizeChild(F, w.f[x])]
    OBVIOUS
  <2>2. y = [kind |-> "map", f |-> f]
    BY <1>0, <1>1, <2>1 DEF SanitizeKeyword, SanitizeMap, Map, OneSchema, SchemaLists, SchemaMaps
  <2>3. y.f = f
    BY <2>2
  <2>4. PICK x \in Keys(w) : u = <<w.f[x], f[x]>>
    BY <1>0, <1>1, <2>3, TwinsOfMap
  <2>5. w.f[x] \in JSON
    BY <1>1, JSONForm
  <2>6. u[1] = w.f[x] /\ u[2] = SanitizeChild(F, w.f[x])
    BY <2>1, <2>4
  <2> QED
    BY <2>5, <2>6, ChildBecomes DEF F
<1>2. CASE k \in OneSchema \cup SchemaLists /\ IsList(w)
  <2>1. PICK f : f = [i \in 1..Len(w.els) |-> SanitizeChild(F, w.els[i])]
    OBVIOUS
  <2>2. y = [kind |-> "list", els |-> f]
    BY <1>0, <1>2, <2>1 DEF SanitizeKeyword, SanitizeSlice, List, OneSchema, SchemaLists, SchemaMaps
  <2>3. y.els = f
    BY <2>2
  <2>4. PICK i \in 1..Len(w.els) : u = <<w.els[i], f[i]>>
    BY <1>0, <1>2, <2>3, TwinsOfList
  <2>5. w.els[i] \in JSON
    BY <1>2, JSONForm
  <2>6. u[1] = w.els[i] /\ u[2] = SanitizeChild(F, w.els[i])
    BY <2>1, <2>4
  <2> QED
    BY <2>5, <2>6, ChildBecomes DEF F
<1>3. CASE k = "additionalProperties"
  <2>1. u = <<w, y>>
    BY <1>0, <1>3, TwinsOfOne
  <2>2. y = IF IsBlank(w) THEN Scalar ELSE IF IsMap(w) THEN F[w] ELSE w
    BY <1>0, <1>3 DEF SanitizeKeyword, OneSchema, SchemaLists, SchemaMaps
  <2>3. Becomes(w, y)
    BY <2>2 DEF Becomes, IsBlank, Objects, F
  <2> QED
    BY <2>1, <2>3
<1>4. CASE k \in OneSchema /\ ~IsList(w)
  <2>1. u = <<w, y>>
    BY <1>0, <1>4, TwinsOfOne
  <2>2. y = SanitizeChild(F, w)
    BY <1>0, <1>4 DEF SanitizeKeyword, OneSchema, SchemaLists, SchemaMaps
  <2> QED
    BY <2>1, <2>2, ChildBecomes DEF F
<1>5. CASE ~(\/ k \in SchemaMaps \cup {"properties"} /\ IsMap(w)
             \/ k \in OneSchema \cup SchemaLists /\ IsList(w)
             \/ k = "additionalProperties" \/ k \in OneSchema)
  BY <1>0, <1>5 DEF TwinsUnder
<1> QED
  BY <1>1, <1>2, <1>3, <1>4, <1>5

\* In a sanitised schema likewise.
LEMMA PartsBecome ==
  ASSUME NEW t, Becomes(t[1], t[2]), NEW u \in TwinParts(t)
  PROVE  Becomes(u[1], u[2])
<1>1. PICK x, y : x = t[1] /\ y = t[2] /\ Becomes(x, y)
  OBVIOUS
<1>2. IsMap(x) /\ \E k \in Keys(x) \cap Keys(y) : u \in TwinsUnder(k, x.f[k], y.f[k])
  BY <1>1 DEF TwinParts
<1>3. PICK k \in Keys(x) \cap Keys(y) : u \in TwinsUnder(k, x.f[k], y.f[k])
  BY <1>2
<1>4. x \in Objects /\ ~IsBlank(x) /\ y = SanitizeJSONSchema[x]
  <2>1. x # Null
    BY <1>2 DEF IsMap, Null
  <2>2. ~IsBlank(x)
    BY <1>3, <2>1 DEF IsBlank, IsEmptyObject
  <2> QED
    BY <1>1, <1>2, <2>2 DEF Becomes
<1>5. y.f[k] = SanitizeKeyword(SanitizeJSONSchema, k, x.f[k])
  BY <1>3, <1>4, SanitizedObject
<1>6. x.f[k] \in JSON
  BY <1>3, <1>4, JSONForm DEF Objects
<1> QED
  BY <1>3, <1>5, <1>6, UnderBecomes

\* So does what stands in every place, level by level.
LEMMA LevelsBecome ==
  ASSUME NEW v, NEW s, Becomes(v, s), NEW i \in 0..MaxDepth, NEW t \in TwinLevels(v, s)[i]
  PROVE  Becomes(t[1], t[2])
<1> DEFINE Good(n) == \A u \in TwinLevels(v, s)[n] : Becomes(u[1], u[2])
           S == {n \in Nat : n <= MaxDepth => Good(n)}
<1>1. 0 \in S
  <2>1. Good(0)
    BY LevelsAre
  <2> QED
    BY <2>1
<1>2. ASSUME NEW n \in Nat, n \in S PROVE n + 1 \in S
  <2> SUFFICES ASSUME n + 1 <= MaxDepth PROVE Good(n + 1)
    OBVIOUS
  <2>1. MaxDepth \in Nat /\ n + 1 \in 0..MaxDepth /\ n + 1 # 0 /\ (n + 1) - 1 = n /\ n <= MaxDepth
    BY DepthType
  <2>2. Good(n)
    BY <1>2, <2>1
  <2>3. TwinLevels(v, s)[n + 1] = WithTwins(TwinLevels(v, s)[n])
    BY <2>1, LevelsAre
  <2>4. ASSUME NEW u \in TwinLevels(v, s)[n + 1] PROVE Becomes(u[1], u[2])
    <3>1. CASE u \in TwinLevels(v, s)[n]
      BY <2>2, <3>1
    <3>2. CASE u \notin TwinLevels(v, s)[n]
      <4>1. PICK z \in TwinLevels(v, s)[n] : u \in TwinParts(z)
        BY <2>3, <2>4, <3>2 DEF WithTwins
      <4>2. Becomes(z[1], z[2])
        BY <2>2
      <4> QED
        BY <4>1, <4>2, PartsBecome
    <3> QED
      BY <3>1, <3>2
  <2> QED
    BY <2>4
<1>3. Good(i)
  <2> HIDE DEF S
  <2>1. Nat \subseteq S
    BY <1>1, <1>2, Induction
  <2>2. i \in S /\ i <= MaxDepth
    BY <2>1, DepthType
  <2> QED
    BY <2>2 DEF S
<1> QED
  BY <1>3

\* Every level is among the places.
LEMMA LevelsGrow ==
  ASSUME NEW v, NEW s, NEW n \in 0..MaxDepth
  PROVE  TwinLevels(v, s)[n] \subseteq Twins(v, s)
<1> DEFINE S == {m \in Nat : m <= MaxDepth => TwinLevels(v, s)[MaxDepth - m] \subseteq Twins(v, s)}
<1>0. MaxDepth \in Nat
  BY DepthType
<1>1. 0 \in S
  BY <1>0 DEF Twins
<1>2. ASSUME NEW m \in Nat, m \in S PROVE m + 1 \in S
  <2> SUFFICES ASSUME m + 1 <= MaxDepth PROVE TwinLevels(v, s)[MaxDepth - (m + 1)] \subseteq Twins(v, s)
    OBVIOUS
  <2>1. PICK i : i = MaxDepth - m /\ i \in 0..MaxDepth /\ i # 0 /\ i - 1 = MaxDepth - (m + 1)
    BY <1>0
  <2>2. TwinLevels(v, s)[i] = WithTwins(TwinLevels(v, s)[i - 1])
    BY <2>1, LevelsAre
  <2>3. TwinLevels(v, s)[i] \subseteq Twins(v, s)
    BY <1>0, <1>2, <2>1
  <2> QED
    BY <2>1, <2>2, <2>3 DEF WithTwins
<1>3. MaxDepth - n \in S
  <2> HIDE DEF S
  <2>1. Nat \subseteq S
    BY <1>1, <1>2, Induction
  <2> QED
    BY <1>0, <2>1
<1>4. MaxDepth - (MaxDepth - n) = n /\ MaxDepth - n <= MaxDepth
  BY <1>0
<1> QED
  BY <1>3, <1>4

\* A keyword whose schemas stay as they are stays as it is.
LEMMA KeywordStays ==
  ASSUME NEW k, NEW w \in JSON, ~DropsKey(k, w), NEW z,
         \A u \in TwinsUnder(k, w, z) : ~IsBlank(u[1]) /\ (IsMap(u[1]) => SanitizeJSONSchema[u[1]] = u[1])
  PROVE  SanitizeKeyword(SanitizeJSONSchema, k, w) = w
<1> DEFINE F == SanitizeJSONSchema
           Stays(c) == ~IsBlank(c) /\ (IsMap(c) => F[c] = c)
<1> HIDE DEF F
<1>0. \A c : Stays(c) => SanitizeChild(F, c) = c
  BY DEF SanitizeChild
<1>1. CASE k \in SchemaMaps \cup {"properties"} /\ IsMap(w)
  <2>0. SanitizeKeyword(F, k, w) = SanitizeMap(F, w)
    BY <1>1 DEF SanitizeKeyword, OneSchema, SchemaLists, SchemaMaps
  <2>1. ASSUME NEW x \in Keys(w) PROVE Stays(w.f[x])
    <3>1. PICK u : u = <<w.f[x], z.f[x]>>
      OBVIOUS
    <3>1a. u[1] = w.f[x]
      BY <3>1
    <3>2. u \in TwinsUnder(k, w, z)
      BY <1>1, <3>1, TwinsOfMap
    <3> QED
      BY <3>1a, <3>2 DEF F
  <2>2. PICK g : g = w.f /\ g \in [Keys(w) -> JSON] /\ w = Map(g)
    BY <1>1, JSONForm
  <2>3. [x \in Keys(w) |-> SanitizeChild(F, w.f[x])] = g
    BY <1>0, <2>1, <2>2
  <2> QED
    BY <2>0, <2>2, <2>3 DEF SanitizeMap, F
<1>2. CASE k \in OneSchema \cup SchemaLists /\ IsList(w)
  <2>0. SanitizeKeyword(F, k, w) = SanitizeSlice(F, w)
    BY <1>2 DEF SanitizeKeyword, IsMap, IsList, OneSchema, SchemaLists, SchemaMaps
  <2>1. ASSUME NEW i \in 1..Len(w.els) PROVE Stays(w.els[i])
    <3>1. PICK u : u = <<w.els[i], z.els[i]>>
      OBVIOUS
    <3>1a. u[1] = w.els[i]
      BY <3>1
    <3>2. u \in TwinsUnder(k, w, z)
      BY <1>2, <3>1, TwinsOfList
    <3> QED
      BY <3>1a, <3>2 DEF F
  <2>2. PICK g : g = w.els /\ g \in Seq(JSON) /\ w = List(g)
    BY <1>2, JSONForm
  <2>3. [i \in 1..Len(w.els) |-> SanitizeChild(F, w.els[i])] = g
    BY <1>0, <2>1, <2>2
  <2> QED
    BY <2>0, <2>2, <2>3 DEF SanitizeSlice, F
<1>3. CASE k = "additionalProperties" \/ (k \in OneSchema /\ ~IsList(w))
  <2>1. PICK u : u = <<w, z>>
    OBVIOUS
  <2>1a. u[1] = w
    BY <2>1
  <2>3. u \in TwinsUnder(k, w, z)
    BY <1>3, <2>1, TwinsOfOne
  <2>2. Stays(w) /\ SanitizeChild(F, w) = w
    BY <1>0, <2>1a, <2>3 DEF F
  <2> QED
    BY <1>3, <2>2 DEF SanitizeKeyword, OneSchema, SchemaLists, SchemaMaps, F
<1>4. CASE ~(\/ k \in SchemaMaps \cup {"properties"} /\ IsMap(w)
             \/ k \in OneSchema \cup SchemaLists /\ IsList(w)
             \/ k = "additionalProperties" \/ k \in OneSchema)
  BY <1>4 DEF SanitizeKeyword
<1> QED
  BY <1>1, <1>2, <1>3, <1>4

\* The schemas under a keyword are smaller.
LEMMA UnderSmaller ==
  ASSUME NEW x \in Objects, NEW k \in Keys(x), NEW z, NEW u \in TwinsUnder(k, x.f[k], z)
  PROVE  u[1] \in JSON /\ Depth[u[1]] < Depth[x]
<1>1. IsMap(x) /\ x \in JSON
  BY DEF Objects
<1>2. PICK w : w = x.f[k] /\ w \in JSON /\ Depth[w] < Depth[x]
  BY <1>1, JSONForm
<1>3. \/ u[1] = w
      \/ IsMap(w) /\ \E y \in Keys(w) : u[1] = w.f[y]
      \/ IsList(w) /\ \E i \in 1..Len(w.els) : u[1] = w.els[i]
  <2>1. CASE k \in SchemaMaps \cup {"properties"} /\ IsMap(w)
    BY <1>2, <2>1, TwinsOfMap
  <2>2. CASE k \in OneSchema \cup SchemaLists /\ IsList(w)
    BY <1>2, <2>2, TwinsOfList
  <2>3. CASE k = "additionalProperties" \/ (k \in OneSchema /\ ~IsList(w))
    BY <1>2, <2>3, TwinsOfOne
  <2> QED
    BY <1>2, <2>1, <2>2, <2>3 DEF TwinsUnder
<1>4. u[1] \in JSON /\ (u[1] = w \/ Depth[u[1]] < Depth[w])
  BY <1>2, <1>3, JSONForm
<1>5. Depth[u[1]] \in Nat /\ Depth[w] \in Nat /\ Depth[x] \in Nat
  BY <1>1, <1>2, <1>4, DepthType
<1> QED
  BY <1>2, <1>4, <1>5

\* A schema without anything to repair stays as it is.
LEMMA CleanStays ==
  ASSUME NEW v \in Objects, NEW s, Becomes(v, s), \A t \in Twins(v, s) : Sound(t[1])
  PROVE  SanitizeJSONSchema[v] = v
<1> DEFINE Clean(x) == SanitizeJSONSchema[x] = x
           Good(n) == \A i \in 0..MaxDepth : \A t \in TwinLevels(v, s)[i] :
                        t[1] \in Objects /\ Depth[t[1]] < n /\ i + Depth[t[1]] <= MaxDepth => Clean(t[1])
           S == {n \in Nat : Good(n)}
<1> HIDE DEF Clean
<1>0. MaxDepth \in Nat /\ \A x \in Objects : x \in JSON /\ Depth[x] \in Nat /\ Depth[x] <= MaxDepth
  BY DepthType DEF Objects
<1>1. 0 \in S
  BY <1>0
<1>2. ASSUME NEW n \in Nat, n \in S PROVE n + 1 \in S
  <2>0. Good(n)
    BY <1>2
  <2>1. ASSUME NEW i \in 0..MaxDepth, NEW t \in TwinLevels(v, s)[i],
               t[1] \in Objects, Depth[t[1]] < n + 1, i + Depth[t[1]] <= MaxDepth
        PROVE  Clean(t[1])
    <3>0. PICK x, y : x = t[1] /\ y = t[2] /\ x \in Objects
      BY <2>1
    <3>1. IsMap(x) /\ x \in JSON /\ Depth[x] \in Nat /\ Depth[x] < n + 1 /\ i + Depth[x] <= MaxDepth
      BY <1>0, <2>1, <3>0 DEF Objects
    <3>2. ~IsBlank(x) /\ \A k \in Keys(x) : ~DropsKey(k, x.f[k])
      <4>1. t \in Twins(v, s)
        BY LevelsGrow
      <4> QED
        BY <3>0, <3>1, <4>1 DEF Sound
    <3>3. KeptKeys(x) = Keys(x)
      BY <3>2 DEF KeptKeys
    <3>4. y = SanitizeJSONSchema[x]
      <4>1. Becomes(x, y)
        BY <3>0, LevelsBecome
      <4> QED
        BY <3>1, <3>2, <4>1 DEF Becomes
    <3>5. IsMap(y) /\ Keys(y) = Keys(x)
      BY <3>0, <3>3, <3>4, SanitizedObject
    <3>6. ASSUME NEW k \in Keys(x), NEW u \in TwinsUnder(k, x.f[k], y.f[k])
          PROVE  ~IsBlank(u[1]) /\ (IsMap(u[1]) => Clean(u[1]))
      <4>1. u[1] \in JSON /\ Depth[u[1]] < Depth[x] /\ Depth[u[1]] \in Nat
        BY <3>0, UnderSmaller, DepthType
      <4>2. i + 1 \in 0..MaxDepth /\ i + 1 # 0 /\ (i + 1) - 1 = i
            /\ Depth[u[1]] < n /\ (i + 1) + Depth[u[1]] <= MaxDepth
        BY <1>0, <3>1, <4>1
      <4>3. TwinLevels(v, s)[i + 1] = WithTwins(TwinLevels(v, s)[i])
        BY <4>2, LevelsAre
      <4>4. u \in TwinParts(t)
        BY <3>0, <3>1, <3>5 DEF TwinParts
      <4>5. u \in TwinLevels(v, s)[i + 1]
        BY <4>3, <4>4 DEF WithTwins
      <4>6. ~IsBlank(u[1])
        <5>1. u \in Twins(v, s)
          BY <4>2, <4>5, LevelsGrow
        <5> QED
          BY <5>1 DEF Sound
      <4>7. IsMap(u[1]) => u[1] \in Objects
        BY <4>1 DEF Objects
      <4> QED
        BY <2>0, <4>2, <4>5, <4>6, <4>7
    <3>7. \A k \in Keys(x) : SanitizeKeyword(SanitizeJSONSchema, k, x.f[k]) = x.f[k]
      <4>1. \A k \in Keys(x) : x.f[k] \in JSON
        BY <3>1, JSONForm
      <4> QED
        BY <3>2, <3>6, <4>1, KeywordStays DEF Clean
    <3>8. PICK g : g = x.f /\ g \in [Keys(x) -> JSON] /\ x = Map(g)
      BY <3>1, JSONForm
    <3>9. [k \in KeptKeys(x) |-> SanitizeKeyword(SanitizeJSONSchema, k, x.f[k])] = g
      BY <3>3, <3>7, <3>8
    <3>10. SanitizeJSONSchema[x] = SanitizeObject(SanitizeJSONSchema, x)
      BY <3>0, SanitizeIs
    <3> QED
      BY <3>0, <3>8, <3>9, <3>10 DEF SanitizeObject, Clean
  <2>2. Good(n + 1)
    BY <2>1
  <2> HIDE DEF Good
  <2> QED
    BY <2>2
<1>3. MaxDepth + 1 \in S
  <2> HIDE DEF S
  <2>1. Nat \subseteq S
    BY <1>1, <1>2, Induction
  <2> QED
    BY <1>0, <2>1
<1>4. PICK t : t = <<v, s>>
  OBVIOUS
<1>4a. t[1] = v
  BY <1>4
<1>6. t \in TwinLevels(v, s)[0]
  BY <1>4, LevelsAre
<1>5. 0 \in 0..MaxDepth /\ Depth[v] < MaxDepth + 1 /\ 0 + Depth[v] <= MaxDepth
  BY <1>0
<1> QED
  BY <1>3, <1>4a, <1>5, <1>6 DEF Clean

\* What a schema becomes repairs it.
LEMMA BecomesRepairs ==
  ASSUME NEW x, NEW y, Becomes(x, y)
  PROVE  Repaired(x, y)
<1>1. CASE IsBlank(x)
  <2>1. y = JsonSchemaAny \/ y = ObjectSchema \/ y = Scalar
    BY <1>1 DEF Becomes, IsBlank, IsEmptyObject
  <2>2. y # Null /\ ~IsBlank(y)
    BY <2>1, StandIns
  <2>3. ~IsMap(x) => x = Null
    BY <1>1 DEF IsBlank, IsEmptyObject
  <2> QED
    BY <1>1, <2>2, <2>3 DEF Repaired
<1>2. CASE ~IsBlank(x) /\ ~IsMap(x)
  BY <1>2 DEF Becomes, Repaired, Objects
<1>3. CASE ~IsBlank(x) /\ IsMap(x)
  <2>1. x \in Objects /\ y = SanitizeJSONSchema[x]
    BY <1>3 DEF Becomes
  <2>2. /\ IsMap(y) /\ y # Null /\ Keys(y) = KeptKeys(x)
        /\ \A k \in KeptKeys(x) : y.f[k] = SanitizeKeyword(SanitizeJSONSchema, k, x.f[k])
    BY <2>1, SanitizedObject
  <2>3. Keys(x) \ {"properties"} \subseteq Keys(y) /\ Keys(y) \subseteq Keys(x)
    BY <2>2 DEF KeptKeys, DropsKey
  <2>4. ASSUME NEW k \in Keys(x) \ Keywords PROVE y.f[k] = x.f[k]
    <3>1. k \in KeptKeys(x)
      BY DEF KeptKeys, DropsKey, Keywords
    <3>2. SanitizeKeyword(SanitizeJSONSchema, k, x.f[k]) = x.f[k]
      BY DEF SanitizeKeyword, Keywords
    <3> QED
      BY <2>2, <3>1, <3>2
  <2> QED
    BY <1>3, <2>2, <2>3, <2>4 DEF Repaired
<1> QED
  BY <1>1, <1>2, <1>3

\* What SchemaRepaired says of a schema and what it is listed as.
LEMMA RepairedSchema ==
  ASSUME NEW v \in JSON, IsMap(v), NEW s, s = SanitizeToolInputSchema(v)
  PROVE  /\ \A t \in Twins(v, s) : Repaired(t[1], t[2])
         /\ (\A t \in Twins(v, s) : Sound(t[1])) => s = v
<1>0. v \in Objects
  BY DEF Objects
<1>1. (IsBlank(v) /\ s = ObjectSchema) \/ (~IsBlank(v) /\ s = SanitizeJSONSchema[v])
  BY DEF SanitizeToolInputSchema
<1>2. Becomes(v, s)
  BY <1>0, <1>1 DEF Becomes
<1>3. ASSUME NEW t \in Twins(v, s) PROVE Repaired(t[1], t[2])
  <2>1. MaxDepth \in 0..MaxDepth
    BY DepthType
  <2>2. Becomes(t[1], t[2])
    BY <1>2, <2>1, LevelsBecome DEF Twins
  <2> QED
    BY <2>2, BecomesRepairs
<1>4. ASSUME \A t \in Twins(v, s) : Sound(t[1]) PROVE s = v
  <2>1. PICK t : t = <<v, s>>
    OBVIOUS
  <2>1a. t[1] = v
    BY <2>1
  <2>5. t \in TwinLevels(v, s)[0]
    BY <2>1, LevelsAre
  <2>2. 0 \in 0..MaxDepth
    BY DepthType
  <2>3. ~IsBlank(v)
    BY <1>4, <2>1a, <2>2, <2>5, LevelsGrow DEF Sound
  <2>4. SanitizeJSONSchema[v] = v
    BY <1>0, <1>2, <1>4, CleanStays
  <2> QED
    BY <1>1, <2>3, <2>4
<1> QED
  BY <1>3, <1>4

\* The tools are listed with what the sanitiser made of their inputSchema.
SchemaInv == schema \in {{}, {SanitizeToolInputSchema(case.schema)}}

\* Only Ask sets the schema, and nothing changes the case.
LEMMA SchemaStep ==
  ASSUME SchemaInv, [Next]_vars
  PROVE  SchemaInv'
<1>1. case' = case
  BY DEF Next, Steps, Deadline, Begin, Check, CheckEnv, Open, OpenFails, Hello, HelloFails, Ask, AskFails,
         AddPage, Close, Leave, Go, vars
<1>2. schema' = schema \/ schema' = {SanitizeToolInputSchema(case.schema)}
  BY DEF Next, Steps, Deadline, Begin, Check, CheckEnv, Open, OpenFails, Hello, HelloFails, Ask, AskFails,
         AddPage, Close, Leave, Go, vars, listVars
<1> QED
  BY <1>1, <1>2 DEF SchemaInv

\* Wherever a schema is expected in a listed inputSchema, a null or {} of the
\* server has been replaced, a schema keeps all it said but an empty list of
\* properties, what is no schema is left as it was, and one without anything
\* to repair is listed as it came, for every JSON value (sanitizeJSONSchema).
THEOREM SchemaIsRepaired == Spec => []SchemaRepaired
<1>1. Init => SchemaInv
  BY DEF Init, SchemaInv
<1>2. ASSUME ListingInv, SchemaInv PROVE SchemaRepaired
  <2> SUFFICES ASSUME NEW s \in schema, IsMap(case.schema)
               PROVE  /\ \A t \in Twins(case.schema, s) : Repaired(t[1], t[2])
                      /\ (\A t \in Twins(case.schema, s) : Sound(t[1])) => s = case.schema
    BY DEF SchemaRepaired
  <2>1. case.schema \in JSON
    BY <1>2, ListingAssumption DEF ListingInv, ListingType
  <2>2. s = SanitizeToolInputSchema(case.schema)
    BY <1>2 DEF SchemaInv
  <2> QED
    BY <2>1, <2>2, RepairedSchema
<1> QED
  BY <1>1, <1>2, SchemaStep, ListingInvariant, PTL DEF Spec

-----------------------------------------------------------------------------
(* What RequestEnds needs besides fairness.                                *)

\* How far a request still has to go once its deadline has passed.
Left ==
  [start |-> 9, command |-> 8, env |-> 7, open |-> 6, hello |-> 6, notify |-> 5,
   add |-> 4, ask |-> 3, close |-> 2, over |-> 1]

\* After the deadline no step leads back: a request that was following cursors
\* asks no further page, so it is over after eight steps at most, whatever
\* the server's book is (the context given to Send, Call and NewSession).
LateMovesOn == [][late => Left[pc'] < Left[pc]]_vars

\* A request that is late gets nearer to its end with every step, for every
\* book, circular ones too.
THEOREM DeadlineBounds == Spec => LateMovesOn
<1>1. ASSUME [Next]_vars PROVE [late => Left[pc'] < Left[pc]]_vars
  <2> SUFFICES ASSUME Next, late PROVE Left[pc'] < Left[pc]
    BY <1>1
  <2>1. Steps
    BY DEF Next, Deadline
  <2>0. /\ Left["start"] = 9 /\ Left["command"] = 8 /\ Left["env"] = 7 /\ Left["open"] = 6
        /\ Left["hello"] = 6 /\ Left["notify"] = 5 /\ Left["add"] = 4 /\ Left["ask"] = 3
        /\ Left["close"] = 2 /\ Left["over"] = 1
    BY DEF Left
  <2>2. CASE Begin
    <3>1. pc = "start" /\ pc' \in {"command", "open", "hello", "close", "over"}
      BY <2>2 DEF Begin, Leave, Go
    <3> QED
      BY <2>0, <3>1
  <2>3. CASE CheckEnv \/ \E f \in Facts : Check(f)
    <3>1. \/ pc = "command" /\ pc' \in {"env", "over"}
          \/ pc = "env" /\ pc' \in {"open", "close", "over"}
      BY <2>3 DEF CheckEnv, Check, Leave, Go
    <3> QED
      BY <2>0, <3>1
  <2>4. CASE Open \/ OpenFails
    <3>1. pc = "open" /\ pc' \in {"ask", "over"}
      BY <2>4 DEF Open, OpenFails, Go
    <3> QED
      BY <2>0, <3>1
  <2>5. CASE Hello \/ Ask
    BY <2>5 DEF Hello, Ask, InTime
  <2>6. CASE HelloFails \/ AskFails
    <3>1. pc \in {"hello", "notify", "ask"} /\ pc' \in {"close", "over"}
      BY <2>6 DEF HelloFails, AskFails, Leave
    <3> QED
      BY <2>0, <3>1
  <2>7. CASE AddPage \/ Close
    <3>1. CASE AddPage
      <4>1. pc = "add" /\ pc' \in {"close", "over", "ask"}
        BY <3>1 DEF AddPage
      <4> QED
        BY <2>0, <4>1
    <3>2. CASE Close
      BY <2>0, <3>2 DEF Close, Go
    <3> QED
      BY <2>7, <3>1, <3>2
  <2> QED
    BY <2>1, <2>2, <2>3, <2>4, <2>5, <2>6, <2>7 DEF Steps
<1> QED
  BY <1>1, PTL DEF Spec, LateMovesOn
=============================================================================
