---------------------------- MODULE ProcessLife -----------------------------
(***************************************************************************)
(* The machine process and what outlives it: the children of its stdio     *)
(* sessions with the pid file that remembers them (shutdown.go of          *)
(* internal/mcp/mcpstdio, the ends of NewSession and Close), and the       *)
(* executable that an Update replaces before the process restarts          *)
(* (internal/proclife, unix).                                              *)
(*                                                                         *)
(* The process may be killed between any two steps, a read or write of the *)
(* pid file may fail, and so may a kill. Process ids are reused by the     *)
(* kernel: a pid on file may by then belong to a stranger, and the pid of  *)
(* a child that has exited to the child of another session.                *)
(***************************************************************************)
EXTENDS Integers, FiniteSets

CONSTANTS
  Pids,        \* process ids
  Sessions,    \* stdio sessions, one life of the process has each once
  Discoveries, \* those that may belong to tool discovery, without a pid file
  Updaters,    \* handlers of Update messages
  MaxEnds,     \* bound: how often the process is killed or restarts
  None

ASSUME ProcessAssumption ==
  /\ IsFiniteSet(Updaters) /\ Discoveries \subseteq Sessions
  /\ None \notin Pids \cup Sessions /\ None \notin Nat /\ MaxEnds \in Nat

VARIABLES
  proc,      \* the machine process
  ends,      \* how often it ended
  kern,      \* what the kernel runs under each pid
  untracked, \* the sessions that keep no pid file
  ses, pid,  \* the sessions and their child's pid
  gone,      \* those whose child has exited
  mem,       \* records a session is about to write to the pid file
  lock,      \* holder of pidFileMu
  file,      \* the pid file: intact or cut short, and the pids on it
  dropped,   \* history: the sessions whose record an error, or the removal of
             \* an equal pid, took off the file
  todo,      \* records CleanOrphans has yet to deal with
  upd,       \* the Update handlers
  fd,        \* the file each of them writes
  exe, dest, \* the files at <exe> and <exe>.new; None if there is none
  owed,      \* for each file, the writers that have not finished it
  overlap    \* two updates have been between opening <exe>.new and renaming it

fileVars == <<mem, lock, file, dropped>>
sesVars  == <<ses, pid, gone, untracked>>
updVars  == <<upd, fd, exe, dest, owed, overlap>>
vars == <<proc, ends, kern, sesVars, fileVars, todo, updVars>>

\* A file is an inode: the first executable, or one an Update created.
Files == {0} \cup 1..Cardinality(Updaters)

Closing == {"stdin", "term", "reaped"}

\* Every variable has its type: <exe> is always some file (replaceExecutable).
TypeOK ==
  /\ proc \in {"down", "cleaning", "clearing", "up"} /\ ends \in 0..MaxEnds
  /\ kern \in [Pids -> {"free", "child", "orphan", "lost", "killed", "stranger"}]
  /\ ses \in [Sessions -> {"none", "spawned", "recording", "running", "removing", "closed"} \cup Closing]
  /\ pid \in [Sessions -> Pids \cup {None}]
  /\ untracked \subseteq Discoveries /\ {gone, dropped} \subseteq SUBSET Sessions
  /\ mem \in [Sessions -> SUBSET Pids]
  /\ lock \in Sessions \cup {None}
  /\ file \in [whole : BOOLEAN, pids : SUBSET Pids]
  /\ todo \subseteq Pids
  /\ upd \in [Updaters -> {"idle", "fetched", "copying", "copied", "installed", "over"}]
  /\ fd \in [Updaters -> Files \cup {None}] /\ exe \in Files /\ dest \in Files \cup {None}
  /\ owed \in [Files -> SUBSET Updaters] /\ overlap \in BOOLEAN

Init ==
  /\ proc = "down" /\ ends = 0
  /\ kern = [p \in Pids |-> "free"]
  /\ ses = [s \in Sessions |-> "none"] /\ pid = [s \in Sessions |-> None]
  /\ untracked \in SUBSET Discoveries /\ gone = {}
  /\ mem = [s \in Sessions |-> {}] /\ lock = None /\ dropped = {}
  /\ file = [whole |-> TRUE, pids |-> {}] /\ todo = {}
  /\ upd = [u \in Updaters |-> "idle"] /\ fd = [u \in Updaters |-> None]
  /\ exe = 0 /\ dest = None /\ owed = [f \in Files |-> {}]
  /\ overlap = FALSE

Whole(f) == owed[f] = {}

-----------------------------------------------------------------------------
(* Start and end of the process.                                           *)

OnFile == IF file.whole THEN file.pids ELSE {}

\* Fault: the file is cleared before the children on it are killed.
StartClearsFirst ==
  /\ proc = "down" /\ Whole(exe)
  /\ todo' = OnFile
  /\ proc' = IF todo' = {} THEN "up" ELSE "cleaning"
  /\ file' = [whole |-> TRUE, pids |-> {}]
  /\ UNCHANGED <<ends, kern, sesVars, mem, lock, dropped, updVars>>

\* The executable runs if it is whole; EnsureExecBridge calls CleanOrphans
\* before the first session. A file that cannot be read, or is empty, is
\* left alone.
Start ==
  /\ proc = "down" /\ Whole(exe)
  /\ todo' \in {OnFile, {}}
  /\ proc' = IF todo' = {} THEN "up" ELSE "cleaning"
  /\ UNCHANGED <<ends, kern, sesVars, fileVars, updVars>>

\* The goroutines are gone. Children live on; those whose pid is on the file
\* at that moment can be found again. A session that was rewriting the file
\* leaves it cut, and with it go the records of orphans of an earlier life.
LeftBehind(p) ==
  CASE kern[p] = "child" -> IF p \in OnFile THEN "orphan" ELSE "lost"
    [] kern[p] = "orphan" -> IF lock = None THEN "orphan" ELSE "lost"
    [] OTHER -> kern[p]

LifeEnds ==
  /\ ends < MaxEnds /\ ends' = ends + 1
  /\ proc' = "down" /\ todo' = {}
  /\ kern' = [p \in Pids |-> LeftBehind(p)]
  /\ ses' = [s \in Sessions |-> "none"] /\ pid' = [s \in Sessions |-> None]
  /\ gone' = {} /\ mem' = [s \in Sessions |-> {}] /\ lock' = None /\ dropped' = {}
  /\ upd' = [u \in Updaters |-> IF upd[u] = "idle" THEN "idle" ELSE "over"]
  /\ UNCHANGED <<untracked, file, fd, exe, dest, owed, overlap>>

Killed == proc # "down" /\ LifeEnds

-----------------------------------------------------------------------------
(* CleanOrphans: kill what is on the file, then clear the file, whether or *)
(* not every kill worked.                                                  *)

\* isProcessOurs says yes whatever runs under the pid.
Ours(p) == TRUE

CleanOnly == UNCHANGED <<ends, sesVars, mem, lock, dropped, updVars>>

\* The signal is sent. Wait returns at once for a process that is no child of
\* this one, so it may still be dying.
CleanKills(p) ==
  /\ proc = "cleaning" /\ p \in todo /\ kern[p] # "free"
  /\ todo' = todo \ {p}
  /\ kern' = IF Ours(p) THEN [kern EXCEPT ![p] = "killed"] ELSE kern
  /\ CleanOnly /\ UNCHANGED <<proc, file>>

\* Kill fails, because there is no such process or it may not be signalled:
\* an orphan is then given up.
CleanKillFails(p) ==
  /\ proc = "cleaning" /\ p \in todo
  /\ todo' = todo \ {p}
  /\ kern' = [kern EXCEPT ![p] = IF @ = "orphan" THEN "lost" ELSE @]
  /\ CleanOnly /\ UNCHANGED <<proc, file>>

\* os.WriteFile cuts the file before it writes.
CleanTruncates ==
  /\ proc = "cleaning" /\ todo = {}
  /\ proc' = "clearing" /\ file' = [whole |-> FALSE, pids |-> {}]
  /\ CleanOnly /\ UNCHANGED <<kern, todo>>

CleanWrites ==
  /\ proc = "clearing"
  /\ proc' = "up" /\ file' = [whole |-> TRUE, pids |-> {}]
  /\ CleanOnly /\ UNCHANGED <<kern, todo>>

\* The file cannot be opened or not be written; nobody looks.
CleanWriteFails ==
  /\ proc = "clearing" \/ (proc = "cleaning" /\ todo = {})
  /\ proc' = "up"
  /\ CleanOnly /\ UNCHANGED <<kern, todo, file>>

-----------------------------------------------------------------------------
(* A session: Spawn, RecordPID, Close with Shutdown, RemovePID.            *)

Elsewhere == UNCHANGED <<proc, ends, todo, updVars>>

\* The kernel may give a child the pid of one that has exited, although the
\* session of that one has not been closed yet.
Spawn(s, p) ==
  /\ proc = "up" /\ ses[s] = "none" /\ kern[p] = "free"
  /\ kern' = [kern EXCEPT ![p] = "child"]
  /\ pid' = [pid EXCEPT ![s] = p]
  /\ ses' = [ses EXCEPT ![s] = IF s \in untracked THEN "running" ELSE "spawned"]
  /\ UNCHANGED <<gone, untracked, fileVars>> /\ Elsewhere

\* Fault: pidFileMu is not held at all.
NoLock == TRUE

\* pidFileMu is held from reading the file to the end of writing it.
MayLock == lock = None

\* What was on the file is gone: no session of this life is on it any more,
\* and the orphans that were will not be found again.
Forget ==
  /\ dropped' = Sessions
  /\ kern' = [p \in Pids |-> IF kern[p] = "orphan" THEN "lost" ELSE kern[p]]

\* Take the lock and cut the file, with these records to be written.
Reads(s, next, records) ==
  /\ MayLock /\ lock' = s /\ ses' = [ses EXCEPT ![s] = next]
  /\ mem' = [mem EXCEPT ![s] = records]
  /\ file' = [whole |-> FALSE, pids |-> {}]
  /\ UNCHANGED <<pid, gone, untracked>> /\ Elsewhere

\* readPIDRecords and the cut; a file cut short counts as empty here.
RecordReads(s) ==
  /\ ses[s] = "spawned" /\ Reads(s, "recording", OnFile \cup {pid[s]})
  /\ UNCHANGED <<kern, dropped>>

\* A file that cannot be read counts as empty too, and is written over.
RecordForgets(s) ==
  /\ ses[s] = "spawned" /\ Reads(s, "recording", {pid[s]}) /\ Forget

Writes(s, next) ==
  /\ lock' = None /\ file' = [whole |-> TRUE, pids |-> mem[s]]
  /\ mem' = [mem EXCEPT ![s] = {}]
  /\ ses' = [ses EXCEPT ![s] = next]
  /\ UNCHANGED <<kern, gone, untracked>> /\ Elsewhere

RecordWrites(s) ==
  /\ ses[s] = "recording" /\ Writes(s, "running")
  /\ dropped' = dropped \ {s} /\ UNCHANGED pid

\* The file cannot be opened for writing. NewSession ignores the error.
RecordFails(s) ==
  /\ ses[s] = "spawned" /\ MayLock
  /\ ses' = [ses EXCEPT ![s] = "running"] /\ dropped' = dropped \cup {s}
  /\ UNCHANGED <<kern, pid, gone, untracked, mem, lock, file>> /\ Elsewhere

\* The child exits by itself, on the end of its stdin or on SIGTERM; waitProc
\* reaps it.
ChildExits(s) ==
  /\ pid[s] # None /\ s \notin gone
  /\ kern' = [kern EXCEPT ![pid[s]] = "free"] /\ gone' = gone \cup {s}
  /\ UNCHANGED <<ses, pid, untracked, fileVars>> /\ Elsewhere

\* Shutdown: stdin is closed, then one signal after the other when the child
\* does not go.
CloseStdin(s) ==
  /\ ses[s] = "running"
  /\ ses' = [ses EXCEPT ![s] = "stdin"]
  /\ UNCHANGED <<kern, pid, gone, untracked, fileVars>> /\ Elsewhere

SendTerm(s) ==
  /\ ses[s] = "stdin" /\ s \notin gone
  /\ ses' = [ses EXCEPT ![s] = "term"]
  /\ UNCHANGED <<kern, pid, gone, untracked, fileVars>> /\ Elsewhere

SendKill(s) ==
  /\ ses[s] = "term" /\ s \notin gone
  /\ kern' = [kern EXCEPT ![pid[s]] = "free"] /\ gone' = gone \cup {s}
  /\ ses' = [ses EXCEPT ![s] = "reaped"]
  /\ UNCHANGED <<pid, untracked, fileVars>> /\ Elsewhere

SeesExit(s) ==
  /\ ses[s] \in {"stdin", "term"} /\ s \in gone
  /\ ses' = [ses EXCEPT ![s] = "reaped"]
  /\ UNCHANGED <<kern, pid, gone, untracked, fileVars>> /\ Elsewhere

\* Nothing to remove, or the file cannot be read or opened for writing.
CloseOnly(s) ==
  /\ ses[s] = "reaped" /\ (s \in untracked \/ MayLock)
  /\ ses' = [ses EXCEPT ![s] = "closed"] /\ pid' = [pid EXCEPT ![s] = None]
  /\ UNCHANGED <<kern, gone, untracked, fileVars>> /\ Elsewhere

\* RemovePID takes off every record of that pid, that of a later child too.
RemoveReads(s) ==
  /\ ses[s] = "reaped" /\ s \notin untracked
  /\ Reads(s, "removing", OnFile \ {pid[s]})
  /\ dropped' = dropped \cup {t \in Sessions \ {s} : pid[t] = pid[s]}
  /\ UNCHANGED kern

RemoveWrites(s) ==
  /\ ses[s] = "removing" /\ Writes(s, "closed")
  /\ pid' = [pid EXCEPT ![s] = None] /\ UNCHANGED dropped

\* The file was cut and cannot be written: it stays cut.
WriteFails(s) ==
  /\ lock' = None /\ mem' = [mem EXCEPT ![s] = {}] /\ Forget
  /\ UNCHANGED <<gone, untracked, file>> /\ Elsewhere
  /\ \/ /\ ses[s] = "recording" /\ ses' = [ses EXCEPT ![s] = "running"]
        /\ UNCHANGED pid
     \/ /\ ses[s] = "removing" /\ ses' = [ses EXCEPT ![s] = "closed"]
        /\ pid' = [pid EXCEPT ![s] = None]

-----------------------------------------------------------------------------
(* handleUpdate: InstallFromURL, then Restart.                             *)

UpdateOnly == UNCHANGED <<ends, kern, sesVars, fileVars, todo>>
Step(u, from, to) == proc = "up" /\ upd[u] = from /\ upd' = [upd EXCEPT ![u] = to]

\* Download and extraction work in a directory of their own.
FilesStay == UpdateOnly /\ UNCHANGED <<proc, fd, exe, dest, owed, overlap>>
Fetch(u) == Step(u, "idle", "fetched") /\ FilesStay
FetchFails(u) == Step(u, "idle", "over") /\ FilesStay

NewFile == CHOOSE f \in Files : f # exe /\ f # dest /\ \A u \in Updaters : fd[u] # f

\* Fault: the executable is overwritten in place.
CopyStartsInPlace(u) ==
  /\ Step(u, "fetched", "copying")
  /\ dest' = exe /\ fd' = [fd EXCEPT ![u] = exe] /\ owed' = [owed EXCEPT ![exe] = @ \cup {u}]
  /\ UpdateOnly /\ UNCHANGED <<proc, exe, overlap>>

AtNew == {u \in Updaters : upd[u] \in {"copying", "copied"}}

\* copyFile opens <exe>.new, cutting what is there: what a writer that is gone
\* left unfinished goes, one that still writes leaves a hole.
CopyStarts(u) ==
  /\ Step(u, "fetched", "copying")
  /\ LET f == IF dest = None THEN NewFile ELSE dest IN
     /\ dest' = f /\ fd' = [fd EXCEPT ![u] = f]
     /\ owed' = [owed EXCEPT ![f] = (@ \cap AtNew) \cup {u}]
  /\ overlap' = (overlap \/ AtNew # {})
  /\ UpdateOnly /\ UNCHANGED <<proc, exe>>

CopyEnds(u) ==
  /\ Step(u, "copying", "copied")
  /\ owed' = [owed EXCEPT ![fd[u]] = @ \ {u}]
  /\ UpdateOnly /\ UNCHANGED <<proc, fd, exe, dest, overlap>>

\* A failed copy removes <exe>.new, a failed Chmod leaves it.
CopyFails(u) ==
  /\ Step(u, "copying", "over")
  /\ dest' \in {None, dest}
  /\ UpdateOnly /\ UNCHANGED <<proc, fd, exe, owed, overlap>>

\* os.Rename: whatever is at <exe>.new becomes the executable.
Rename(u) ==
  /\ dest # None /\ Step(u, "copied", "installed")
  /\ exe' = dest /\ dest' = None
  /\ UpdateOnly /\ UNCHANGED <<proc, fd, owed, overlap>>

\* It fails when nothing is there, or for reasons of the file system; then
\* what is there is removed.
RenameFails(u) ==
  /\ Step(u, "copied", "over") /\ dest' = None
  /\ UpdateOnly /\ UNCHANGED <<proc, fd, exe, owed, overlap>>

\* Restart execs the executable, which fails while somebody writes it.
Restart(u) ==
  /\ proc = "up" /\ upd[u] = "installed" /\ Whole(exe)
  /\ LifeEnds

RestartFails(u) ==
  /\ Step(u, "installed", "over") /\ ~Whole(exe)
  /\ FilesStay

-----------------------------------------------------------------------------
(* The rest of the system.                                                 *)

OrphanExits(p) ==
  /\ kern[p] \in {"orphan", "lost", "killed"}
  /\ kern' = [kern EXCEPT ![p] = "free"]
  /\ UNCHANGED <<sesVars, fileVars>> /\ Elsewhere

StrangerStarts(p) ==
  /\ kern[p] = "free"
  /\ kern' = [kern EXCEPT ![p] = "stranger"]
  /\ UNCHANGED <<sesVars, fileVars>> /\ Elsewhere

Machine ==
  \/ Start \/ CleanTruncates \/ CleanWrites \/ CleanWriteFails
  \/ \E p \in Pids : CleanKills(p) \/ CleanKillFails(p)

SessionStep(s) ==
  \/ RecordReads(s) \/ RecordForgets(s) \/ RecordWrites(s) \/ RecordFails(s)
  \/ SendTerm(s) \/ SendKill(s) \/ SeesExit(s)
  \/ CloseOnly(s) \/ RemoveReads(s) \/ RemoveWrites(s) \/ WriteFails(s)

UpdateStep(u) ==
  \/ Fetch(u) \/ FetchFails(u) \/ CopyStarts(u) \/ CopyEnds(u) \/ CopyFails(u)
  \/ Rename(u) \/ RenameFails(u) \/ Restart(u) \/ RestartFails(u)

Next ==
  \/ Killed \/ Machine
  \/ \E s \in Sessions :
       SessionStep(s) \/ CloseStdin(s) \/ ChildExits(s) \/ \E p \in Pids : Spawn(s, p)
  \/ \E u \in Updaters : UpdateStep(u)
  \/ \E p \in Pids : OrphanExits(p) \/ StrangerStarts(p)

Spec == Init /\ [][Next]_vars

-----------------------------------------------------------------------------
(* Properties.                                                             *)

\* The pid is on the file, or among the records being written to it.
Recorded(p) == IF file.whole THEN p \in file.pids ELSE lock # None /\ p \in mem[lock]

\* Sessions that record and remove their pid at the same time do not undo
\* each other's records: from the return of RecordPID until the child is
\* reaped its pid is recorded, unless a failed read or write took the record,
\* or RemovePID of a session whose child had the same pid before.
ChildRecorded ==
  \A s \in Sessions \ (untracked \cup dropped) :
    ses[s] \in {"running", "stdin", "term"} => Recorded(pid[s])

\* A child left behind with its pid on file stays recorded, through further
\* crashes in the middle of CleanOrphans and through sessions that rewrite
\* the file, until it is dead or CleanOrphans has tried to kill it; only a
\* failed read or write of the file, or a crash in the middle of a session's
\* rewriting it, loses the record.
OrphanFound == \A p \in Pids : kern[p] = "orphan" => Recorded(p)

\* Wherever updates are cut off, and whatever one finds that the one before
\* left at <exe>.new, the executable is whole; unless two updates were at
\* <exe>.new at once (replaceExecutable, copyFile).
ExeWhole == ~overlap => Whole(exe)

\* What the comments of CleanOrphans and isProcessOurs promise: no process
\* that is not ours is killed because it was given a recorded pid.
StrangersSpared ==
  [][\A p \in Pids : p \in todo /\ p \notin todo' /\ proc' = "cleaning" /\ kern[p] = "stranger"
       => kern'[p] = "stranger"]_vars
=============================================================================
