--------------------------- MODULE MCLocalRuntime ---------------------------
(***************************************************************************)
(* Instances of ShellProcesses and McpClients for TLC.  The two share no   *)
(* state: `focus` says which of them runs, and the other one stays in its  *)
(* initial state.  McpClients runs with a call, two passes and two server  *)
(* processes whose tools are one page ("calls"), and with three passes and *)
(* one process ("closers"), so that two passes close the same client.      *)
(***************************************************************************)
EXTENDS ShellProcesses, McpClients

VARIABLE focus

vars == <<shellVars, mcpVars, focus>>

Init == ShellInit /\ McpInit /\ focus \in {"shell", "calls", "closers"}

ShellStep == focus = "shell" /\ ShellNext /\ UNCHANGED <<mcpVars, focus>>

\* Passes are numbers, and differ in nothing else: they begin in their order.
Begins(r) == task[r].at = "new" /\ task'[r].at # "new"
InOrder == \A r \in Passes : Begins(r) => \A o \in Passes : task[o].at = "new" => r <= o

McpStep ==
  /\ McpNext /\ InOrder /\ UNCHANGED <<shellVars, focus>>
  /\ \/ focus = "calls" /\ (\A r \in Passes : Begins(r) => r <= 2)
                        /\ ~ \E r \in Passes, c \in Clients : NextPage(r, c)
     \/ focus = "closers" /\ (\A t \in Calls : ~Begins(t))
                          /\ (Begins(2) => task[1].at = "done")
                          /\ \A p \in Procs : owner'[p] # {} => p = 1

Spec == Init /\ [][ShellStep \/ McpStep]_vars
     /\ \A c \in Callers : WF_vars(focus = "shell" /\ Continues(c) /\ UNCHANGED <<mcpVars, focus>>)
     /\ \A t \in ClientTasks :
          WF_vars(InProgress(t) /\ TaskContinues(t) /\ UNCHANGED <<shellVars, focus>>)

\* Every request of the local runtime ends: a command, a kill or a removal, whatever
\* the process and its output do; a tool call or a registration, with a server that
\* dies or never answers, unless it waits for a running server to read what it wrote
\* or for more pages of tools than MaxIds allows.
\* (terminate_process_session, request, ensure_started)
RequestsEnd ==
  <>[](/\ \A c \in Callers : call[c] = Idle
       /\ \A t \in ClientTasks : InProgress(t) => \E p \in alive : t \in draining[p])

=============================================================================
