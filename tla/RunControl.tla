----------------------------- MODULE RunControl -----------------------------
(***************************************************************************)
(* Hosted runs: the registry of VmRunControlService, the desktop workers   *)
(* that poll it over HTTP, and the clients that create and control runs.   *)
(*                                                                         *)
(* Every method of the service runs under one asyncio lock that it never   *)
(* holds across a suspension: one step each.  A worker's heartbeat tick    *)
(* awaits every request it makes, and only one tick runs at a time; the    *)
(* events of the query are relayed beside it, each by a request of its own.*)
(* A request or its response may be lost, and a worker may restart.        *)
(***************************************************************************)
EXTENDS Integers, FiniteSets, Sequences

CONSTANTS
  Runs,         \* runs that may be created
  Workers,      \* desktops in VM worker mode
  Workspaces,
  Home,         \* run or worker -> its workspace
  Conversation, \* run -> its conversation ref
  MaxActive,    \* max_active_runs_per_workspace
  MaxControls,  \* bound: controls that clients apply
  MaxFaults     \* bound: requests or responses lost, and restarts

ASSUME RunsAssumption ==
  /\ IsFiniteSet(Runs)
  /\ Home \in [Runs \cup Workers -> Workspaces] /\ DOMAIN Conversation = Runs
  /\ MaxActive \in Nat \ {0} /\ MaxControls \in Nat /\ MaxFaults \in Nat

VARIABLES
  status,      \* run -> its status; "none" before it is created
  assigned,    \* run -> the worker it is bound to: {} or one worker
  runQueue,    \* workspace -> _workspace_run_queues
  stopPending, \* runs whose pending_controls hold a stop: workers skip the others
  tick,        \* worker -> its heartbeat tick, see NoTick
  mapped,      \* worker -> activeRunConversationMap: the runs it executes
  live,        \* runs whose query is in progress in the worker's session
  relay,       \* run -> the request that relays its end: "none", "sent" or "answered"
  controls,    \* controls so far
  faults,      \* faults so far
  \* History, read by the properties only.
  sends,       \* run -> how often a worker sent its query
  halted,      \* runs whose query a worker was told to stop, and stopped
  lost,        \* runs whose assignment or stop command a worker lost
  skipped,     \* runs that were taken out of the queue without a worker
  revived      \* runs that became active again after they had ended

runVars == <<status, assigned, runQueue, stopPending, tick, mapped, live, relay, controls,
             faults, sends, halted, lost, skipped, revived>>

serviceVars == <<assigned, runQueue, stopPending, controls>>
workerVars == <<tick, mapped, live, relay, sends, halted>>
faultVars == <<faults, lost>>

\* "over" stands for completed and failed.
Terminal == {"stopped", "over"}
Active == {"awaiting_worker", "queued", "running", "paused"}
Waiting == {"awaiting_worker", "queued"}

\* A tick: where it is, the run it was assigned, and the runs it was told to stop.
\* While it posts run-control-applied, "post" is the run that is about.
NoTick == [at |-> "idle", run |-> {}, stop |-> {}, post |-> {}]
Ticks == [at : {"off", "idle", "asked", "answered", "posting", "sending", "acking", "erring"},
          run : SUBSET Runs, stop : SUBSET Runs, post : SUBSET Runs]

RunInit ==
  /\ status = [r \in Runs |-> "none"]
  /\ assigned = [r \in Runs |-> {}]
  /\ runQueue = [s \in Workspaces |-> <<>>]
  /\ stopPending = {}
  /\ tick = [w \in Workers |-> [NoTick EXCEPT !.at = "off"]]
  /\ mapped = [w \in Workers |-> {}]
  /\ live = {} /\ relay = [r \in Runs |-> "none"] /\ controls = 0 /\ faults = 0
  /\ sends = [r \in Runs |-> 0]
  /\ halted = {} /\ lost = {} /\ skipped = {} /\ revived = {}

ActiveIn(s) == {r \in Runs : Home[r] = s /\ status[r] \in Active}

\* The statuses become f.
Becomes(f) ==
  /\ status' = f
  /\ revived' = revived \cup {r \in Runs : status[r] \in Terminal /\ f[r] \in Active}

SetStatus(r, value) == Becomes([status EXCEPT ![r] = value])

-----------------------------------------------------------------------------
(* Clients *)

\* Mutant: only running runs count against the limit.
CreateRunUncounted(r) ==
  /\ status[r] = "none"
  /\ Cardinality({q \in ActiveIn(Home[r]) : status[q] = "running"}) < MaxActive
  /\ SetStatus(r, "awaiting_worker")
  /\ runQueue' = [runQueue EXCEPT ![Home[r]] = Append(@, r)]
  /\ UNCHANGED <<assigned, stopPending, controls, workerVars, faultVars, skipped>>

\* create_run; at the limit it raises and nothing changes.
CreateRun(r) ==
  /\ status[r] = "none" /\ Cardinality(ActiveIn(Home[r])) < MaxActive
  /\ SetStatus(r, "awaiting_worker")
  /\ runQueue' = [runQueue EXCEPT ![Home[r]] = Append(@, r)]
  /\ UNCHANGED <<assigned, stopPending, controls, workerVars, faultVars, skipped>>

Control == controls < MaxControls /\ controls' = controls + 1

\* apply_control, whatever the status of the run.
PauseRun(r) ==
  /\ status[r] # "none" /\ Control
  /\ SetStatus(r, "paused")
  /\ UNCHANGED <<assigned, runQueue, stopPending, workerVars, faultVars, skipped>>

ResumeRun(r) ==
  /\ status[r] # "none" /\ Control
  /\ SetStatus(r, IF assigned[r] # {} THEN "running" ELSE "awaiting_worker")
  /\ UNCHANGED <<assigned, runQueue, stopPending, workerVars, faultVars, skipped>>

StopRuns(runs) ==
  /\ Control
  /\ Becomes([r \in Runs |-> IF r \in runs THEN "stopped" ELSE status[r]])
  /\ stopPending' = stopPending \cup runs
  /\ UNCHANGED <<assigned, runQueue, workerVars, faultVars, skipped>>

StopRun(r) == status[r] # "none" /\ StopRuns({r})

\* stop_all_runs, of one workspace.
StopAllRuns(s) == StopRuns(ActiveIn(s))

-----------------------------------------------------------------------------
(* Heartbeats *)

Polls(w) ==
  /\ tick' = [tick EXCEPT ![w] = [NoTick EXCEPT !.at = "asked"]]
  /\ UNCHANGED <<status, revived, serviceVars, mapped, live, relay, sends, halted,
                 faultVars, skipped>>

\* start(): the first tick begins at once.
StartWorker(w) == tick[w].at = "off" /\ Polls(w)

\* The interval has passed.
Poll(w) == tick[w].at = "idle" /\ Polls(w)

Eligible(r, w) == status[r] \in Waiting /\ assigned[r] \subseteq {w}
Reserved(r, w) == status[r] \in Waiting /\ ~ assigned[r] \subseteq {w}

\* n is the position of the first run in w's queue that w may take, or the one after
\* the last run.
IsFirst(n, w) ==
  LET q == runQueue[Home[w]] IN
  /\ n \in 1 .. Len(q) + 1
  /\ n <= Len(q) => Eligible(q[n], w)
  /\ \A i \in 1 .. n - 1 : ~ Eligible(q[i], w)

\* The run at n, if any.
Taken(n, w) == {runQueue[Home[w]][i] : i \in {n} \cap DOMAIN runQueue[Home[w]]}

\* What assign_next_run_to_worker has popped before it: reserved runs go back to the
\* front, the others are gone.
Popped(n, w) == SubSeq(runQueue[Home[w]], 1, n - 1)
BackToFront(n, w) ==
  IF \E i \in DOMAIN Popped(n, w) : Reserved(Popped(n, w)[i], w)
  THEN SelectSeq(Popped(n, w), LAMBDA r : Reserved(r, w)) ELSE <<>>

\* The runs of taken become w's.
Bind(taken, w) ==
  /\ Becomes([r \in Runs |-> IF r \in taken THEN "queued" ELSE status[r]])
  /\ assigned' = [r \in Runs |-> IF r \in taken THEN {w} ELSE assigned[r]]

\* Mutant: the run that was assigned goes back to the front as well.
AssignKeeping(n, w) ==
  /\ runQueue' = [runQueue EXCEPT ![Home[w]] = SubSeq(@, n, Len(@))]
  /\ Bind(Taken(n, w), w)
  /\ UNCHANGED skipped

\* Mutant: a run that is not waiting holds up the queue.
AssignFirstOnly(n, w) ==
  /\ runQueue' = [runQueue EXCEPT ![Home[w]] = SubSeq(@, IF n = 1 THEN 2 ELSE 1, Len(@))]
  /\ Bind(IF n = 1 THEN Taken(n, w) ELSE {}, w)
  /\ UNCHANGED skipped

Assign(n, w) ==
  /\ runQueue' = [runQueue EXCEPT ![Home[w]] = BackToFront(n, w) \o SubSeq(@, n + 1, Len(@))]
  /\ Bind(Taken(n, w), w)
  /\ skipped' = skipped \cup {Popped(n, w)[i] :
                   i \in {k \in DOMAIN Popped(n, w) : ~ Reserved(Popped(n, w)[k], w)}}

\* Mutant: the commands of every worker's runs are drained.
AllCommands(w) == stopPending

\* The commands w is sent: those of its runs, the new one included.
Commands(w) == {r \in stopPending : assigned'[r] = {w}}

\* register_worker_heartbeat, for the statuses the worker sends (ready and running).
\* The answer may be lost.
Heartbeat(w, n) ==
  /\ tick[w].at = "asked" /\ IsFirst(n, w)
  /\ Assign(n, w)
  /\ stopPending' = stopPending \ Commands(w)
  /\ UNCHANGED <<controls, mapped, live, relay, sends, halted>>
  /\ \/ /\ tick' = [tick EXCEPT ![w] = [at |-> "answered", run |-> Taken(n, w),
                                        stop |-> Commands(w), post |-> {}]]
        /\ UNCHANGED faultVars
     \/ /\ faults < MaxFaults /\ faults' = faults + 1
        /\ tick' = [tick EXCEPT ![w] = NoTick]
        /\ lost' = lost \cup Taken(n, w) \cup Commands(w)

TickRest == <<serviceVars, skipped>>

\* applyControlCommands: a run it does not execute is skipped.  The loop goes on when
\* run-control-applied is posted.
ApplyStop(w) ==
  /\ tick[w].at = "answered"
  /\ \E r \in tick[w].stop :
       /\ tick' = [tick EXCEPT ![w] =
                     [@ EXCEPT !.stop = tick[w].stop \ {r}, !.post = {r} \cap mapped[w],
                               !.at = IF r \in mapped[w] THEN "posting" ELSE "answered"]]
       /\ halted' = halted \cup ({r} \cap mapped[w])
  /\ UNCHANGED <<status, revived, TickRest, mapped, live, relay, sends, faultVars>>

\* append_stream_event: an event that does not end the run shows that it is running.
Ingest(r, ends) ==
  IF ends THEN SetStatus(r, "over")
  ELSE IF status[r] \in Waiting THEN SetStatus(r, "running")
  ELSE UNCHANGED <<status, revived>>

\* The response to run-control-applied is lost: the tick ends there.
Posted(w) ==
  /\ tick[w].at = "posting"
  /\ \E r \in tick[w].post : Ingest(r, FALSE)
  /\ UNCHANGED <<TickRest, mapped, live, relay, sends, halted>>
  /\ \/ /\ tick' = [tick EXCEPT ![w] = [@ EXCEPT !.at = "answered", !.post = {}]]
        /\ UNCHANGED faultVars
     \/ /\ faults < MaxFaults /\ faults' = faults + 1
        /\ lost' = lost \cup tick[w].run \cup tick[w].stop
        /\ tick' = [tick EXCEPT ![w] = NoTick]

Clashes(r, w) == \E q \in mapped[w] : Conversation[q] = Conversation[r]

\* dispatchAssignedRun up to the send.  A run whose conversation is in use is dropped.
Dispatch(w) ==
  /\ tick[w].at = "answered" /\ tick[w].stop = {}
  /\ UNCHANGED <<status, revived, TickRest, live, relay, sends, halted, faults>>
  /\ \/ /\ \A r \in tick[w].run : Clashes(r, w)
        /\ tick' = [tick EXCEPT ![w] = NoTick]
        /\ lost' = lost \cup tick[w].run
        /\ UNCHANGED mapped
     \/ \E r \in tick[w].run :
          /\ ~ Clashes(r, w)
          /\ mapped' = [mapped EXCEPT ![w] = @ \cup {r}]
          /\ tick' = [tick EXCEPT ![w] = [@ EXCEPT !.at = "sending"]]
          /\ UNCHANGED lost

\* sendAutomatedQuery succeeds.
Sent(w) ==
  /\ tick[w].at = "sending"
  /\ \E r \in tick[w].run :
       /\ sends' = [sends EXCEPT ![r] = @ + 1]
       /\ live' = live \cup {r}
  /\ tick' = [tick EXCEPT ![w] = [@ EXCEPT !.at = "acking"]]
  /\ UNCHANGED <<status, revived, TickRest, mapped, relay, halted, faultVars>>

\* It fails: when it throws, the tick ends; otherwise the error is posted.
NotSent(w) ==
  /\ tick[w].at = "sending"
  /\ mapped' = [mapped EXCEPT ![w] = @ \ tick[w].run]
  /\ UNCHANGED <<status, revived, TickRest, live, relay, sends, halted, faults>>
  /\ \/ /\ tick' = [tick EXCEPT ![w] = [@ EXCEPT !.at = "erring"]]
        /\ UNCHANGED lost
     \/ /\ tick' = [tick EXCEPT ![w] = NoTick]
        /\ lost' = lost \cup tick[w].run

\* acknowledge_run_dispatch, whatever has become of the run.
Acknowledge(w) ==
  /\ tick[w].at = "acking"
  /\ \E r \in tick[w].run :
       IF assigned[r] = {w} THEN SetStatus(r, "running") ELSE UNCHANGED <<status, revived>>
  /\ tick' = [tick EXCEPT ![w] = NoTick]
  /\ UNCHANGED <<TickRest, mapped, live, relay, sends, halted, faultVars>>

ErrorPosted(w) ==
  /\ tick[w].at = "erring"
  /\ \E r \in tick[w].run : Ingest(r, TRUE)
  /\ tick' = [tick EXCEPT ![w] = NoTick]
  /\ UNCHANGED <<TickRest, mapped, live, relay, sends, halted, faultVars>>

\* A request of the tick does not reach the service: the tick ends.
RequestLost(w) ==
  /\ tick[w].at \in {"asked", "posting", "acking", "erring"}
  /\ faults < MaxFaults /\ faults' = faults + 1
  /\ tick' = [tick EXCEPT ![w] = NoTick]
  /\ lost' = IF tick[w].at = "posting" THEN lost \cup tick[w].run \cup tick[w].stop ELSE lost
  /\ UNCHANGED <<status, revived, TickRest, mapped, live, relay, sends, halted>>

-----------------------------------------------------------------------------
(* The events of the query *)

\* An event of the query is relayed.  Only the end of a run can come too late to make
\* a difference, so the others arrive at once.  (onBackendMessage)
RelayEvent(w, r) ==
  /\ r \in live \cap mapped[w]
  /\ Ingest(r, FALSE)
  /\ UNCHANGED <<serviceVars, workerVars, faultVars, skipped>>

\* The end: streaming-complete or error.
RelayEnd(w, r) ==
  /\ r \in live \cap mapped[w]
  /\ relay' = [relay EXCEPT ![r] = "sent"]
  /\ live' = live \ {r}
  /\ UNCHANGED <<status, revived, serviceVars, tick, mapped, sends, halted, faultVars, skipped>>

\* The request reaches the service and is answered.
RelayArrives(r) ==
  /\ relay[r] = "sent"
  /\ Ingest(r, TRUE)
  /\ relay' = [relay EXCEPT ![r] = "answered"]
  /\ UNCHANGED <<serviceVars, tick, mapped, live, sends, halted, faultVars, skipped>>

\* clearRunMapping, once the end of the run has been relayed.
ClearMapping(w, r) ==
  /\ relay[r] = "answered" /\ r \in mapped[w]
  /\ relay' = [relay EXCEPT ![r] = "none"]
  /\ mapped' = [mapped EXCEPT ![w] = @ \ {r}]
  /\ UNCHANGED <<status, revived, serviceVars, tick, live, sends, halted, faultVars, skipped>>

\* A relay fails: a warning, and the mapping stays.
RelayLost(r) ==
  /\ faults < MaxFaults /\ faults' = faults + 1
  /\ relay[r] # "none" /\ relay' = [relay EXCEPT ![r] = "none"]
  /\ UNCHANGED <<status, revived, serviceVars, tick, mapped, live, sends, halted, lost, skipped>>

\* The worker restarts: its maps, its tick and its relays are gone.
RestartWorker(w) ==
  /\ tick[w].at # "off"
  /\ faults < MaxFaults /\ faults' = faults + 1
  /\ tick' = [tick EXCEPT ![w] = [NoTick EXCEPT !.at = "off"]]
  /\ mapped' = [mapped EXCEPT ![w] = {}]
  /\ live' = live \ mapped[w]
  /\ relay' = [r \in Runs |-> IF r \in mapped[w] THEN "none" ELSE relay[r]]
  /\ lost' = lost \cup tick[w].run \cup tick[w].stop \cup mapped[w]
  /\ UNCHANGED <<status, revived, serviceVars, sends, halted, skipped>>

-----------------------------------------------------------------------------
ClientNext(r) == CreateRun(r) \/ PauseRun(r) \/ ResumeRun(r) \/ StopRun(r)

TickNext(w) ==
  \/ \E n \in 1 .. Len(runQueue[Home[w]]) + 1 : Heartbeat(w, n)
  \/ ApplyStop(w) \/ Posted(w) \/ Dispatch(w) \/ Sent(w) \/ NotSent(w)
  \/ Acknowledge(w) \/ ErrorPosted(w) \/ RequestLost(w)

RunNext ==
  \/ \E r \in Runs : ClientNext(r) \/ RelayArrives(r) \/ RelayLost(r)
  \/ \E s \in Workspaces : StopAllRuns(s)
  \/ \E w \in Workers : StartWorker(w) \/ Poll(w) \/ TickNext(w) \/ RestartWorker(w)
  \/ \E w \in Workers, r \in Runs :
       RelayEvent(w, r) \/ RelayEnd(w, r) \/ ClearMapping(w, r)

RunSpec == RunInit /\ [][RunNext]_runVars

\* A worker that is on polls at its interval, and its ticks go on.
RunFairness == \A w \in Workers : WF_runVars(Poll(w)) /\ WF_runVars(TickNext(w))

-----------------------------------------------------------------------------
RunTypeOK ==
  /\ status \in [Runs -> {"none"} \cup Active \cup Terminal]
  /\ assigned \in [Runs -> SUBSET Workers]
  /\ runQueue \in [Workspaces -> Seq(Runs)]
  /\ stopPending \subseteq Runs
  /\ tick \in [Workers -> Ticks]
  /\ mapped \in [Workers -> SUBSET Runs]
  /\ live \subseteq Runs /\ relay \in [Runs -> {"none", "sent", "answered"}]
  /\ controls \in 0..MaxControls /\ faults \in 0..MaxFaults
  /\ sends \in [Runs -> Nat]
  /\ halted \subseteq Runs /\ lost \subseteq Runs /\ skipped \subseteq Runs
  /\ revived \subseteq Runs

\* A run stays with the worker it was first assigned to, so a run in a queue has none:
\* no heartbeat ever skips a reserved run.  (assign_next_run_to_worker)
AssignmentIsFinal ==
  [][\A r \in Runs : assigned[r] # {} => assigned'[r] = assigned[r]]_runVars

\* The query of a run is sent at most once, whichever workers poll, restart or lose an
\* answer, however the run is paused, resumed and stopped meanwhile; and the state is
\* well typed.  (assign_next_run_to_worker, dispatchAssignedRun)
SentOnce == RunTypeOK /\ \A r \in Runs : sends[r] <= 1

\* A workspace has no more active runs than its limit, but for runs that a control or a
\* late acknowledgement has revived after they had ended.  (create_run)
CapPerWorkspace ==
  \A s \in Workspaces : Cardinality(ActiveIn(s) \ revived) <= MaxActive

\* A run that is stopped while a worker executes it is stopped there too: until the
\* worker has been told to, the command is pending or on its way, unless it was lost.
\* (collect_pending_control_commands_for_worker, applyControlCommands)
StopReachesWorker ==
  \A w \in Workers : \A r \in mapped[w] :
    status[r] = "stopped" => r \in stopPending \cup tick[w].stop \cup halted \cup lost

\* In the end no run waits for a worker, unless it was skipped while it was paused or
\* ended or no worker of its workspace is on, and no worker executes a run that it does
\* not know to be stopped.  (register_worker_heartbeat)
Attended(s) == \E w \in Workers : Home[w] = s /\ tick[w].at # "off"
RunsSettle ==
  <>[](\A r \in Runs :
         /\ status[r] = "awaiting_worker" /\ Attended(Home[r]) => r \in skipped
         /\ \A w \in Workers :
              r \in mapped[w] /\ status[r] = "stopped" => r \in halted \cup lost)

=============================================================================
