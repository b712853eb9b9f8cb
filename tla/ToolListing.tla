---------------------------- MODULE ToolListing -----------------------------
(***************************************************************************)
(* One request of the edge to look at an endpoint's tools or its command:  *)
(* DiscoverTools, Preflight and ExecPreflight (internal/mcp/preflight and  *)
(* internal/mcp/discover). The checks run in order, a child or an HTTP     *)
(* connection is opened for the listing and given back on every way out,   *)
(* and tools/list is followed from cursor to cursor up to a limit, all     *)
(* under one deadline.                                                     *)
(*                                                                         *)
(* The MCP server is the environment: its pages are a book whose cursors   *)
(* may lead anywhere, round in circles too, and any call may fail.         *)
(***************************************************************************)
EXTENDS ToolSchema, FiniteSets

CONSTANTS
  Cases,     \* the requests to look at, see below
  Facts,     \* what the checks of a command may find on the machine
  MaxTools   \* maxTools (100 in the code)

\* A case is the request, the kind of the endpoint's payload, SkipProtocol,
\* the server's pages and its tools' inputSchema. A page has a number of named
\* tools and the next cursor; cursor 0 is "", cursor n leads to page n. Tools
\* without a name are dropped where the page is read, so a page with none
\* stands for those too.
\* runner: the command is npx or uvx and its arguments name a package; "at" is
\* where a directory of that name lies, if anywhere. What the runner itself
\* would find is not modelled.
Places == {"nowhere", "global", "npx_lib", "workdir", "cwd", "home", "uv_dir"}
FactType ==
  [command : BOOLEAN, found : BOOLEAN, file : BOOLEAN, executable : BOOLEAN,
   workdir : {"unset", "dir", "missing", "file"},
   runner : {"none", "npx", "uvx"}, at : Places, env : BOOLEAN]

ASSUME ListingAssumption ==
  /\ \A c \in Cases :
       /\ c.op \in {"discover", "preflight", "check"} /\ c.payload \in {"exec", "forward", "bad"}
       /\ c.skip \in BOOLEAN
       /\ Len(c.book) > 0 /\ c.book \in Seq([named : Nat, next : 0..Len(c.book)])
       /\ c.schema \in JSON
  /\ Facts \subseteq FactType
  /\ MaxTools \in Nat \ {0}

VARIABLES
  case,       \* the request
  pc,         \* where it is
  facts,      \* what the command check found; {} before it
  child,      \* the temporary stdio session's process
  late,       \* the deadline has passed
  cursor,     \* the cursor of the next tools/list
  page,       \* the page just received; 0 before
  schema,     \* the inputSchema its tools are listed with; {} before
  tools,      \* tools collected: their page and place on it
  truncated,
  outcome     \* what is sent back: an error code, or "ok"

listVars == <<cursor, page, schema, tools, truncated>>
vars == <<case, pc, facts, child, late, listVars, outcome>>

CheckCodes == {"command_not_found", "command_not_executable", "package_not_installed", "spawn_failed"}
OpenCodes  == {"spawn_failed", "env_file_missing", "exited_on_start", "exited_after_handshake",
               "handshake_rejected", "handshake_timeout"}
\* What a request over HTTP or over the session may fail with (Send, Call and
\* transportError); a body that is cut off by the deadline is dial_failed.
SendCodes(http) == {"timeout", "protocol_error"}
                     \cup IF http THEN {"dial_failed", "http_status"} ELSE {"exited_at_runtime"}
Codes == CheckCodes \cup OpenCodes \cup SendCodes(TRUE) \cup SendCodes(FALSE)
           \cup {"tools_list_rejected", "internal"}

\* Every variable has its type; no more than the limit of tools is listed, and
\* an outcome is one of the codes of mcperr.go.
TypeOK ==
  /\ pc \in {"start", "command", "env", "open", "hello", "notify", "ask", "add", "close", "over"}
  /\ facts \subseteq FactType /\ Cardinality(facts) <= 1
  /\ child \in {"none", "up", "gone"} /\ late \in BOOLEAN
  /\ cursor \in 0..Len(case.book) /\ page \in 0..Len(case.book)
  /\ Len(tools) <= MaxTools /\ truncated \in BOOLEAN
  /\ outcome \in Codes \cup {"none", "ok"}

Init ==
  /\ case \in Cases /\ pc = "start" /\ facts = {}
  /\ child = "none" /\ late = FALSE
  /\ cursor = 0 /\ page = 0 /\ schema = {} /\ tools = <<>> /\ truncated = FALSE
  /\ outcome = "none"

\* The context's deadline; a step that waits for the server then fails.
Deadline == ~late /\ pc # "over" /\ late' = TRUE /\ UNCHANGED <<case, pc, facts, child, listVars, outcome>>

Go(to) == pc' = to /\ UNCHANGED <<case, late, outcome>>

\* Fault: the process is left behind on the way out.
LeaveOpen(code) == outcome' = code /\ pc' = "over" /\ UNCHANGED <<case, facts, child, late, listVars>>

\* Leave with an error or a result; what was opened is closed on the way.
Leave(code) ==
  /\ outcome' = code /\ pc' = IF child = "up" THEN "close" ELSE "over"
  /\ UNCHANGED <<case, facts, child, late, listVars>>

-----------------------------------------------------------------------------
(* The stages before tools/list.                                           *)

\* ExecPreflight carries its own command; Preflight checks that of an exec
\* payload; discovery goes straight to the session. Run looks at
\* SkipProtocol before it parses a payload that is not exec.
Begin ==
  /\ pc = "start"
  /\ IF case.op = "check" \/ (case.op = "preflight" /\ case.payload = "exec")
     THEN Go("command") /\ UNCHANGED <<facts, child, listVars>>
     ELSE IF case.op = "preflight" /\ case.skip THEN Leave("ok")
     ELSE IF case.payload = "bad" THEN Leave("internal")
     ELSE Go(IF case.payload = "exec" THEN "open" ELSE "hello")
          /\ UNCHANGED <<facts, child, listVars>>

\* Where the package of an npx command is looked for.
NpmPackageCandidateDirs(f) ==
  {"global", "npx_lib", "cwd", "home"} \cup (IF f.workdir = "unset" THEN {} ELSE {"workdir"})

\* Where the tool of a uvx command is looked for.
UvToolCandidateDirs == {"uv_dir", "home"}

PackageInstalled(f) ==
  \/ f.runner = "none"
  \/ f.runner = "npx" /\ f.at \in NpmPackageCandidateDirs(f)
  \/ f.runner = "uvx" /\ f.at \in UvToolCandidateDirs

WorkdirFails(f) == f.workdir \in {"missing", "file"}

\* The first thing found wrong decides. A missing npx is reported as a missing
\* package.
CheckCommand(f) ==
  IF ~f.command THEN "command_not_found"
  ELSE IF ~f.found THEN IF f.runner = "npx" THEN "package_not_installed" ELSE "command_not_found"
  ELSE IF ~f.file \/ ~f.executable THEN "command_not_executable"
  ELSE IF WorkdirFails(f) THEN "spawn_failed"
  ELSE IF ~PackageInstalled(f) THEN "package_not_installed"
  ELSE "ok"

Check(f) ==
  /\ pc = "command" /\ facts' = {f}
  /\ LET code == CheckCommand(f) IN
     IF case.op = "check" \/ code # "ok"
     THEN outcome' = code /\ pc' = "over"
     ELSE pc' = "env" /\ UNCHANGED outcome
  /\ UNCHANGED <<case, child, late, listVars>>

\* The environment file of the endpoint, then SkipProtocol.
CheckEnv ==
  /\ pc = "env"
  /\ IF \E f \in facts : ~f.env THEN Leave("env_file_missing")
     ELSE IF case.skip THEN Leave("ok")
     ELSE Go("open") /\ UNCHANGED <<facts, child, listVars>>

\* NewStdioTransport: NewSession spawns and shakes hands, and closes the
\* child itself when that fails.
Open ==
  /\ pc = "open"
  /\ child' = "up" /\ Go("ask") /\ UNCHANGED <<facts, listVars>>

OpenFails ==
  /\ pc = "open"
  /\ \E code \in OpenCodes :
       /\ outcome' = code
       /\ child' = IF code \in {"spawn_failed", "env_file_missing"} THEN "none" ELSE "gone"
  /\ pc' = "over"
  /\ UNCHANGED <<case, facts, late, listVars>>

\* HTTP: initialize, then the notification. Over stdio the session has
\* already done it.
Hello == pc \in {"hello", "notify"} /\ ~late /\ Go(IF pc = "hello" THEN "notify" ELSE "ask")
         /\ UNCHANGED <<facts, child, listVars>>

HelloFails ==
  /\ pc \in {"hello", "notify"}
  /\ \E code \in SendCodes(TRUE) \cup IF late THEN {} ELSE {"handshake_rejected"} : Leave(code)

-----------------------------------------------------------------------------
(* ListToolsViaTransport.                                                  *)

PageAt(c) == IF c = 0 THEN 1 ELSE c

\* Fault: the deadline is not given to the transport.
Patient == TRUE

\* A request sent after the deadline gets no answer: its wait is over as it
\* begins (one that had come before is the step before Deadline).
InTime == ~late

Ask ==
  /\ pc = "ask" /\ InTime
  /\ page' = PageAt(cursor) /\ schema' = {SanitizeToolInputSchema(case.schema)}
  /\ Go("add")
  /\ UNCHANGED <<facts, child, cursor, tools, truncated>>

AskFails ==
  /\ pc = "ask"
  /\ \E code \in SendCodes(child = "none") \cup IF late THEN {} ELSE {"tools_list_rejected"} : Leave(code)

\* The tools of the page that still fit are appended.
Taken(n) == IF Len(tools) + n <= MaxTools THEN n ELSE MaxTools - Len(tools)

NextCursor == case.book[page].next

\* Fault: another page to come is not looked at.
CutShortHere(n) == Taken(n) < n

\* With the list full, more tools on this page or another page to come mean
\* that tools are missing.
CutShort(n) == Taken(n) < n \/ NextCursor # 0

Ends(c) == c = 0 \/ c = cursor

AddPage ==
  /\ pc = "add"
  /\ LET n == case.book[page].named
         all == tools \o [i \in 1..Taken(n) |-> <<page, i>>]
         full == Len(all) >= MaxTools
     IN  /\ tools' = all
         /\ truncated' = (full /\ CutShort(n))
         /\ IF full \/ Ends(NextCursor)
            THEN pc' = (IF child = "up" THEN "close" ELSE "over") /\ outcome' = "ok" /\ UNCHANGED cursor
            ELSE pc' = "ask" /\ cursor' = NextCursor /\ UNCHANGED outcome
  /\ UNCHANGED <<case, facts, child, late, page, schema>>

\* The deferred transport.Close.
Close ==
  /\ pc = "close"
  /\ child' = "gone" /\ Go("over")
  /\ UNCHANGED <<facts, listVars>>

Steps ==
  \/ Begin \/ (\E f \in Facts : Check(f)) \/ CheckEnv \/ Open \/ OpenFails
  \/ Hello \/ HelloFails \/ Ask \/ AskFails \/ AddPage \/ Close

Next == Deadline \/ Steps

\* The request's goroutine runs and its deadline passes.
Spec == Init /\ [][Next]_vars /\ WF_vars(Steps) /\ WF_vars(Deadline)
-----------------------------------------------------------------------------
(* Properties.                                                             *)

\* The temporary child is gone once the request is answered, whichever way
\* it went, and SkipProtocol starts none (the deferred Close; RunOptions).
ChildReturned ==
  /\ pc = "over" => child # "up"
  /\ case.op = "preflight" /\ case.skip => child = "none"

\* A book that is read from front to back, which is what a server means. It is
\* read up to the page without a next cursor; these are its tools, in the order
\* in which the server gives them.
InOrder == \A i \in DOMAIN case.book : case.book[i].next \in {0, i + 1}
Reached(i) == \A j \in 1..(i - 1) : case.book[j].next # 0
ToolsOf(i) == {<<i, k>> : k \in 1..case.book[i].named}
Offered == UNION {ToolsOf(i) : i \in {j \in DOMAIN case.book : Reached(j)}}
Before(s, t) == s[1] < t[1] \/ (s[1] = t[1] /\ s[2] < t[2])

Listed == {tools[x] : x \in DOMAIN tools}

\* A listing that succeeded is the list of the book's tools up to the limit:
\* nothing that was not offered, nothing twice or out of order, and nothing is
\* left out unless the list is full and says so (ListToolsViaTransport).
ListingComplete ==
  pc = "over" /\ outcome = "ok" /\ page # 0 /\ InOrder =>
    /\ Listed \subseteq Offered
    /\ \A x, y \in DOMAIN tools : x < y => Before(tools[x], tools[y])
    /\ \A s \in Offered, t \in Listed : Before(s, t) => s \in Listed
    /\ Len(tools) <= MaxTools
    /\ Listed = Offered \/ (Len(tools) = MaxTools /\ truncated)

\* In the inputSchema a tool is listed with, wherever a schema is expected:
\* a null or {} of the server has been replaced, a schema keeps all it said but
\* an empty list of properties, what is no schema (a default of null) is left
\* as it was, and a schema without anything to repair is listed as it came
\* (sanitizeJSONSchema).
SchemaRepaired ==
  \A s \in schema : IsMap(case.schema) =>
    /\ \A t \in Twins(case.schema, s) : Repaired(t[1], t[2])
    /\ (\A t \in Twins(case.schema, s) : Sound(t[1])) => s = case.schema

\* Every request ends, with a server whose cursors go round in circles too.
RequestEnds == <>(pc = "over")
=============================================================================
