--------------------------- MODULE ShellProcesses ---------------------------
(***************************************************************************)
(* The shell sessions of the local runtime: run_shell_command starts a     *)
(* child process with a reader task and a wait task and waits for it, or   *)
(* puts it in the background; the process tool polls, kills and removes    *)
(* background sessions by id; the registry keeps running and finished      *)
(* sessions.  Requests are handled concurrently.                           *)
(*                                                                         *)
(* A session's stdout and stderr go through the same code and are one      *)
(* stream here, of characters numbered in the order the process prints     *)
(* them; a chunk is an interval of them.  Sessions have pipes: the PTY     *)
(* variant, and the log, list and write operations, which change none of   *)
(* this state, are left out.                                               *)
(***************************************************************************)
EXTENDS Integers, FiniteSets, FiniteSetsExt, Sequences

CONSTANTS
  Shells,         \* sessions, by id
  Callers,        \* requests that may be in progress together
  MaxPrinted,     \* bound: characters a process prints
  PendingCap,     \* min(pending_max_output_chars, max_output_chars)
  AggregatedCap   \* max_output_chars

ASSUME ShellAssumption ==
  /\ PendingCap \in Nat \ {0} /\ AggregatedCap \in Nat /\ PendingCap <= AggregatedCap
  /\ MaxPrinted \in Nat

ExitCodes == {"zero", "nonzero"}

VARIABLES
  child,      \* session -> its process: "new" (not started), "up", or its returncode
  printed,    \* session -> characters printed
  read,       \* session -> characters appended: total_output_chars
  pendingOut, \* session -> pending_stdout, a list of chunks <<first, last>>
  truncated,  \* session -> truncated
  reader,     \* session -> read task: "none", "reading", "eof", "cancelled"
  waiter,     \* session -> wait task: "none", "process", "drain", "done", "cancelled"
  background, \* session -> backgrounded
  exited,     \* session -> exited
  running,    \* the keys of _running_sessions
  finished,   \* _finished_sessions: session -> "absent" or its status
  kept,       \* session -> characters in its finished record
  call,       \* caller -> the request it is in
  shown       \* History: session -> characters read when it was last polled

shellVars == <<child, printed, read, pendingOut, truncated, reader, waiter, background,
               exited, running, finished, kept, call, shown>>

output == <<printed, read, pendingOut, truncated, shown>>

Idle == [op |-> "none", at |-> "idle", on |-> {}]

ShellInit ==
  /\ child = [s \in Shells |-> "new"]
  /\ printed = [s \in Shells |-> 0] /\ read = [s \in Shells |-> 0]
  /\ pendingOut = [s \in Shells |-> <<>>] /\ truncated = [s \in Shells |-> FALSE]
  /\ reader = [s \in Shells |-> "none"] /\ waiter = [s \in Shells |-> "none"]
  /\ background = [s \in Shells |-> FALSE] /\ exited = [s \in Shells |-> FALSE]
  /\ running = {} /\ finished = [s \in Shells |-> "absent"]
  /\ kept = [s \in Shells |-> 0]
  /\ call = [c \in Callers |-> Idle] /\ shown = [s \in Shells |-> 0]

-----------------------------------------------------------------------------
(* The child process and its output *)

Exit(s) ==
  /\ child[s] = "up"
  /\ \E code \in ExitCodes : child' = [child EXCEPT ![s] = code]
  /\ UNCHANGED <<output, reader, waiter, background, exited, running, finished, kept, call>>

\* A grandchild may go on printing after the process has exited.
PrintChar(s) ==
  /\ reader[s] = "reading" /\ printed[s] < MaxPrinted
  /\ printed' = [printed EXCEPT ![s] = @ + 1]
  /\ UNCHANGED <<child, read, pendingOut, truncated, shown, reader, waiter, background,
                 exited, running, finished, kept, call>>

Size(chunk) == chunk[2] - chunk[1] + 1

TotalSize(buffer) ==
  LET sum[i \in 0..Len(buffer)] == IF i = 0 THEN 0 ELSE sum[i - 1] + Size(buffer[i])
  IN  sum[Len(buffer)]

\* Mutant: only whole chunks are dropped, however much that drops.
CapByChunks(buffer, cap) ==
  LET Rest(i) == TotalSize(SubSeq(buffer, i, Len(buffer)))
      fit == {i \in DOMAIN buffer : Rest(i) <= cap}
  IN IF fit = {} THEN <<>> ELSE SubSeq(buffer, Min(fit), Len(buffer))

\* _cap_pending_buffer, for a buffer longer than cap: whole chunks are dropped from
\* the front while cap characters remain, then the first one left is cut to size.
CapPendingBuffer(buffer, cap) ==
  LET Rest(i) == TotalSize(SubSeq(buffer, i, Len(buffer)))
      keep == Max({i \in DOMAIN buffer : Rest(i) >= cap})
      first == buffer[keep]
  IN << <<first[1] + Rest(keep) - cap, first[2]>> >> \o SubSeq(buffer, keep + 1, Len(buffer))

Shorter(n, cap) == IF n < cap THEN n ELSE cap

\* append_output of the next n characters.
AppendOutput(s, n) ==
  LET buffer == pendingOut[s] \o << <<read[s] + 1, read[s] + n>> >>
      over == TotalSize(buffer) > PendingCap
      trimmed == Shorter(read[s], AggregatedCap) + n > AggregatedCap
  IN /\ pendingOut' = [pendingOut EXCEPT ![s] =
                      IF over THEN CapPendingBuffer(buffer, PendingCap) ELSE buffer]
     /\ truncated' = [truncated EXCEPT ![s] = @ \/ over \/ trimmed]
     /\ read' = [read EXCEPT ![s] = @ + n]

ReadStream(s) ==
  /\ reader[s] = "reading"
  /\ \E n \in 1..(printed[s] - read[s]) : AppendOutput(s, n)
  /\ UNCHANGED <<child, printed, shown, reader, waiter, background, exited, running,
                 finished, kept, call>>

\* The pipe is closed at both ends and empty.
ReadEof(s) ==
  /\ reader[s] = "reading" /\ child[s] \in ExitCodes /\ read[s] = printed[s]
  /\ reader' = [reader EXCEPT ![s] = "eof"]
  /\ UNCHANGED <<child, output, waiter, background, exited, running, finished, kept, call>>

StopReader(s) == reader' = [reader EXCEPT ![s] = IF @ = "reading" THEN "cancelled" ELSE @]

-----------------------------------------------------------------------------
(* The registry and the wait task *)

Status(code) == IF code = "zero" THEN "completed" ELSE "failed"

\* mark_exited; process.returncode is None while the child is up.
MarkExited(s) ==
  /\ exited' = [exited EXCEPT ![s] = TRUE]
  /\ running' = running \ {s}
  /\ finished' = [finished EXCEPT ![s] = IF background[s] THEN Status(child[s]) ELSE @]
  /\ kept' = [kept EXCEPT ![s] = IF background[s] THEN read[s] ELSE @]

WaitProcess(s) ==
  /\ waiter[s] = "process" /\ child[s] \in ExitCodes
  /\ waiter' = [waiter EXCEPT ![s] = "drain"]
  /\ UNCHANGED <<child, output, reader, background, exited, running, finished, kept, call>>

\* The readers are given a second to reach the end of the output.
WaitReaders(s) ==
  /\ waiter[s] = "drain" /\ reader[s] # "reading"
  /\ waiter' = [waiter EXCEPT ![s] = "done"]
  /\ MarkExited(s)
  /\ UNCHANGED <<child, output, reader, background, call>>

WaitReadersTimeout(s) ==
  /\ waiter[s] = "drain" /\ reader[s] = "reading"
  /\ waiter' = [waiter EXCEPT ![s] = "done"]
  /\ StopReader(s)
  /\ MarkExited(s)
  /\ UNCHANGED <<child, output, background, call>>

Waiting(s) == waiter[s] \in {"process", "drain"}

\* Mutant: the wait task is left running.
CancelReadersOnly(s) == StopReader(s) /\ UNCHANGED waiter

\* cancel_session_tasks
CancelSessionTasks(s) ==
  /\ waiter' = [waiter EXCEPT ![s] = IF Waiting(s) THEN "cancelled" ELSE @]
  /\ StopReader(s)

Goto(c, op, at, s) == call' = [call EXCEPT ![c] = [op |-> op, at |-> at, on |-> {s}]]
Return(c) == call' = [call EXCEPT ![c] = Idle]

registry == <<background, exited, running, finished, kept>>

-----------------------------------------------------------------------------
(* run_shell_command *)

Start(s, bg) ==
  /\ child[s] = "new"
  /\ child' = [child EXCEPT ![s] = "up"]
  /\ reader' = [reader EXCEPT ![s] = "reading"]
  /\ waiter' = [waiter EXCEPT ![s] = "process"]
  /\ background' = [background EXCEPT ![s] = bg]
  /\ running' = running \cup {s}
  /\ UNCHANGED <<output, exited, finished, kept>>

RunInBackground(c, s) ==
  /\ call[c] = Idle /\ Start(s, TRUE) /\ UNCHANGED call

RunAndWait(c, s) ==
  /\ call[c] = Idle /\ Start(s, FALSE)
  /\ \E op \in {"yield", "foreground"} : Goto(c, op, "wait", s)

At(c, ops, place, s) == call[c].op \in ops /\ call[c].at = place /\ call[c].on = {s}

RunFinished(c, s) ==
  /\ At(c, {"yield", "foreground"}, "wait", s) /\ ~Waiting(s)
  /\ Return(c)
  /\ UNCHANGED <<child, output, reader, waiter, registry>>

\* yield_after_seconds: the session goes on in the background.
YieldTimeout(c, s) ==
  /\ At(c, {"yield"}, "wait", s) /\ Waiting(s)
  /\ background' = [background EXCEPT ![s] = TRUE]
  /\ Return(c)
  /\ UNCHANGED <<child, output, reader, waiter, exited, running, finished, kept>>

-----------------------------------------------------------------------------
(* Terminating a session: SIGTERM, SIGKILL, then the wait task *)

FinishKill(c, s) ==
  /\ Return(c)
  /\ IF exited[s] THEN UNCHANGED <<exited, running, finished, kept>> ELSE MarkExited(s)

\* What the caller does when terminate_session_process_tree returns.
Terminated(c, op, s) ==
  \/ /\ op = "remove"
     /\ CancelSessionTasks(s)
     /\ Goto(c, op, "forget", s)
     /\ UNCHANGED <<exited, running, finished, kept>>
  \/ /\ op # "remove" /\ Waiting(s)
     /\ Goto(c, op, "join", s)
     /\ UNCHANGED <<reader, waiter, exited, running, finished, kept>>
  \/ /\ op # "remove" /\ ~Waiting(s)
     /\ FinishKill(c, s)
     /\ UNCHANGED <<reader, waiter>>

Terminate(c, op, s) ==
  IF child[s] = "up"
    THEN Goto(c, op, "sigterm", s) /\ UNCHANGED <<reader, waiter, exited, running, finished, kept>>
    ELSE Terminated(c, op, s)

Killers == {"foreground", "kill", "remove"}

ForegroundTimeout(c, s) ==
  /\ At(c, {"foreground"}, "wait", s) /\ Waiting(s)
  /\ Terminate(c, "foreground", s)
  /\ UNCHANGED <<child, output, background>>

ChildSeenDead(c, s) ==
  /\ At(c, Killers, "sigterm", s) \/ At(c, Killers, "sigkill", s)
  /\ child[s] \in ExitCodes
  /\ Terminated(c, call[c].op, s)
  /\ UNCHANGED <<child, output, background>>

SigtermTimeout(c, s) ==
  /\ At(c, Killers, "sigterm", s) /\ child[s] = "up"
  /\ Goto(c, call[c].op, "sigkill", s)
  /\ UNCHANGED <<child, output, reader, waiter, registry>>

SigkillTimeout(c, s) ==
  /\ At(c, Killers, "sigkill", s) /\ child[s] = "up"
  /\ Terminated(c, call[c].op, s)
  /\ UNCHANGED <<child, output, background>>

\* wait_for(wait_task) ends: the task is done, or its second is over and the tasks
\* are cancelled.
Joined(c, s) ==
  /\ At(c, Killers, "join", s) /\ waiter[s] = "done"
  /\ FinishKill(c, s)
  /\ UNCHANGED <<child, output, reader, waiter, background>>

JoinTimeout(c, s) ==
  /\ At(c, Killers, "join", s) /\ Waiting(s)
  /\ CancelSessionTasks(s)
  /\ FinishKill(c, s)
  /\ UNCHANGED <<child, output, background>>

\* Someone else cancelled the wait task: the CancelledError ends this request too,
\* past every "except Exception", and nothing is replied.
JoinCancelled(c, s) ==
  /\ At(c, Killers, "join", s) /\ waiter[s] = "cancelled"
  /\ Return(c)
  /\ UNCHANGED <<child, output, reader, waiter, registry>>

-----------------------------------------------------------------------------
(* The process tool: its callers know the ids of background sessions *)

Known(s) == background[s]

Kill(c, s) ==
  /\ call[c] = Idle /\ Known(s) /\ s \in running
  /\ Terminate(c, "kill", s)
  /\ UNCHANGED <<child, output, background>>

RemoveRunning(c, s) ==
  /\ call[c] = Idle /\ Known(s) /\ s \in running
  /\ Terminate(c, "remove", s)
  /\ UNCHANGED <<child, output, background>>

DeleteSession(s) ==
  /\ running' = running \ {s}
  /\ finished' = [finished EXCEPT ![s] = "absent"]
  /\ kept' = [kept EXCEPT ![s] = 0]

RemoveFinished(c, s) ==
  /\ call[c] = Idle /\ s \notin running /\ finished[s] # "absent"
  /\ DeleteSession(s)
  /\ UNCHANGED <<child, output, reader, waiter, background, exited, call>>

\* remove, once the cancelled tasks have ended.
Forget(c, s) ==
  /\ At(c, {"remove"}, "forget", s)
  /\ DeleteSession(s)
  /\ Return(c)
  /\ UNCHANGED <<child, output, reader, waiter, background, exited>>

\* drain_pending
Poll(c, s) ==
  /\ call[c] = Idle /\ s \in running /\ background[s]
  /\ pendingOut' = [pendingOut EXCEPT ![s] = <<>>]
  /\ shown' = [shown EXCEPT ![s] = read[s]]
  /\ UNCHANGED <<child, printed, read, truncated, reader, waiter, registry, call>>

DropFinished(gone) ==
  /\ gone # {}
  /\ finished' = [s \in Shells |-> IF s \in gone THEN "absent" ELSE finished[s]]
  /\ kept' = [s \in Shells |-> IF s \in gone THEN 0 ELSE kept[s]]
  /\ UNCHANGED <<child, output, reader, waiter, background, exited, running, call>>

Held == {s \in Shells : finished[s] # "absent"}

ClearFinished(c) == call[c] = Idle /\ DropFinished(Held)

\* The sweeper drops the sessions whose time to live is over.
PruneFinished == \E gone \in SUBSET Held : DropFinished(gone)

-----------------------------------------------------------------------------

Tasks(s) ==
  \/ ReadStream(s) \/ ReadEof(s)
  \/ WaitProcess(s) \/ WaitReaders(s) \/ WaitReadersTimeout(s)

Requests(c, s) ==
  \/ RunFinished(c, s) \/ YieldTimeout(c, s) \/ ForegroundTimeout(c, s)
  \/ ChildSeenDead(c, s) \/ SigtermTimeout(c, s) \/ SigkillTimeout(c, s)
  \/ Joined(c, s) \/ JoinTimeout(c, s) \/ JoinCancelled(c, s) \/ Forget(c, s)

ShellNext ==
  \/ \E s \in Shells : Exit(s) \/ PrintChar(s) \/ Tasks(s)
  \/ \E c \in Callers, s \in Shells :
       \/ Requests(c, s)
       \/ RunInBackground(c, s) \/ RunAndWait(c, s)
       \/ Kill(c, s) \/ RemoveRunning(c, s) \/ RemoveFinished(c, s) \/ Poll(c, s)
  \/ \E c \in Callers : ClearFinished(c)
  \/ PruneFinished

\* Timers fire and ready coroutines run; a process need not print or exit.
Continues(c) == \E s \in Shells : Requests(c, s)

ShellFairness == \A c \in Callers : WF_shellVars(Continues(c))

ShellSpec == ShellInit /\ [][ShellNext]_shellVars

-----------------------------------------------------------------------------
(* Properties *)

ShellTypeOK ==
  /\ child \in [Shells -> {"new", "up"} \cup ExitCodes]
  /\ printed \in [Shells -> 0..MaxPrinted] /\ \A s \in Shells : read[s] \in 0..printed[s]
  /\ \A s \in Shells : TotalSize(pendingOut[s]) <= PendingCap
  /\ truncated \in [Shells -> BOOLEAN]
  /\ reader \in [Shells -> {"none", "reading", "eof", "cancelled"}]
  /\ waiter \in [Shells -> {"none", "process", "drain", "done", "cancelled"}]
  /\ background \in [Shells -> BOOLEAN] /\ exited \in [Shells -> BOOLEAN]
  /\ running \subseteq Shells
  /\ finished \in [Shells -> {"absent", "completed", "failed"}]
  /\ kept \in [Shells -> 0..MaxPrinted]
  /\ \A c \in Callers : call[c] = Idle
       \/ /\ call[c].op \in {"yield"} \cup Killers
          /\ call[c].at \in {"wait", "sigterm", "sigkill", "join", "forget"}
          /\ \E s \in Shells : call[c].on = {s}
  /\ shown \in [Shells -> 0..MaxPrinted]

\* The buffer a poll will return is exactly the output since the last poll, or the
\* last PendingCap characters of it when there is more, whatever the chunks.
\* (append_output, _cap_pending_buffer, drain_pending)
PendingIsRecent ==
  \A s \in Shells :
    LET from == Max({shown[s], read[s] - PendingCap}) IN
      /\ TotalSize(pendingOut[s]) = read[s] - from
      /\ \A i \in DOMAIN pendingOut[s] :
           /\ pendingOut[s][i][1] = IF i = 1 THEN from + 1 ELSE pendingOut[s][i - 1][2] + 1
           /\ pendingOut[s][i][2] >= pendingOut[s][i][1]

\* Output that a poll or the log no longer shows leaves the truncated flag set, and
\* the flag is set for nothing else.  (append_output)
TruncatedTellsLoss ==
  \A s \in Shells :
    /\ read[s] - shown[s] > PendingCap \/ read[s] > AggregatedCap => truncated[s]
    /\ truncated[s] => read[s] > PendingCap

\* A session finishes after its output: what the process printed is in the finished
\* record unless its readers had to be cancelled.  One recorded as completed did exit,
\* with code 0, also when it was killed and its return code is not known.
\* (_wait_for_exit, mark_exited)
FinishedIsTrue ==
  \A s \in Shells :
    /\ finished[s] # "absent" /\ reader[s] # "cancelled" => kept[s] = printed[s]
    /\ finished[s] = "completed" => child[s] = "zero"

\* A session is in one of the two registries, and one in the running registry has
\* a live wait task or a request that will take it out.  (_finalize of kill and remove)
NoZombieEntry ==
  \A s \in running :
    /\ finished[s] = "absent"
    /\ Waiting(s) \/ \E c \in Callers : call[c].on = {s} /\ call[c].op \in Killers

\* What the agent is told of a shell session is true, whatever the order in which its
\* process, its readers, its wait task and the requests about it run: the output that
\* is new, that some was lost, how it ended, and that it is running.
SessionTellsTruth ==
  ShellTypeOK /\ PendingIsRecent /\ TruncatedTellsLoss /\ FinishedIsTrue /\ NoZombieEntry

\* A session that has left the registries comes back only through a kill that was
\* already under way on it.
GoneStaysGone ==
  [][\A s \in Shells :
       /\ child[s] # "new" /\ s \notin running /\ finished[s] = "absent"
       /\ ~ \E c \in Callers : call[c].op = "kill" /\ call[c].on = {s}
       => s \notin running' /\ finished'[s] = "absent"]_shellVars

\* Every request ends, whatever the process and its output do; each of them takes
\* its session further, so there is a last one.
ShellRequestsEnd == <>[](\A c \in Callers : call[c] = Idle)

=============================================================================
