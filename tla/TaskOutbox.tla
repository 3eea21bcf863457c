----------------------------- MODULE TaskOutbox -----------------------------
(***************************************************************************)
(* The outbox of background commands: the table task_outbox, shared by all *)
(* server processes, and in every process the bounded command channel, the *)
(* command worker, the periodic pull task, the start-up recovery and the   *)
(* request handlers that submit commands                                   *)
(* (src/tasks/dispatcher.rs, manager.rs, handler/, periodic/outbox_pull.rs *)
(* and setup_task_runtime in src/startup.rs).                              *)
(*                                                                         *)
(* One step is one SQL statement or one operation on the channel: every    *)
(* .await between two of them lets other tasks and other processes run.    *)
(* NOW() is abstracted to two facts about a row: "due" (next_retry_at has  *)
(* passed) and "stale" (updated_at is older than the running timeout).     *)
(***************************************************************************)
EXTENDS Naturals, Sequences, FiniteSets

CONSTANTS
  Nodes,        \* server processes
  WorkerNodes,  \* those with command_worker_enabled
  Tasks,        \* ids of outbox rows (BIGSERIAL, handed out in order)
  Foreign,      \* rows found at start whose payload does not decode
  Callers,      \* request handlers of one process that may submit
  QueueSize,    \* capacity of the command channel
  MaxInFlight,  \* command_worker_concurrency
  BatchSize,    \* outbox_pull_batch_size
  MaxFaults,    \* bound: crashes, stops, failed statements, cancelled
                \* requests and retryable command failures, all together
  AllowLate     \* may a claim outlive the running timeout?

ASSUME OutboxAssumption ==
  /\ WorkerNodes \subseteq Nodes
  /\ Tasks \subseteq Nat \ {0}
  /\ IsFiniteSet(Tasks)
  /\ Foreign \subseteq Tasks
  /\ \A f \in Foreign, t \in Tasks \ Foreign : f < t
  /\ "recovery" \notin Callers
  /\ QueueSize \in Nat \ {0}
  /\ MaxInFlight \in Nat \ {0}
  /\ BatchSize \in Nat \ {0}
  /\ MaxFaults \in Nat
  /\ AllowLate \in BOOLEAN

VARIABLES
  row,        \* the table task_outbox
  phase,      \* life cycle of each process
  chan,       \* is the receiving half of the channel open?
  permits,    \* free slots of the channel
  queue,      \* commands sent and not yet received by the worker
  handler,    \* command handlers in flight
  pump,       \* the periodic pull task
  rec,        \* the start-up recovery
  enq,        \* calls of try_enqueue_outbox_task, one per caller
  faults,     \* faults so far
  succeeded,  \* history: rows whose command has executed with success
  late        \* history: rows reclaimed as stale while still held

nodeVars == <<phase, chan, permits, queue, handler, pump, rec, enq>>
vars     == <<row, phase, chan, permits, queue, handler, pump, rec, enq,
              faults, succeeded, late>>

-----------------------------------------------------------------------------
Slots     == 1 .. MaxInFlight
Enqueuers == Callers \cup {"recovery"}
NoTask    == 0
Results   == {"none", "ok", "retry", "dead"}

Statuses == {"none", "pending", "running", "dead", "deleted"}
Row      == [status : Statuses, due : BOOLEAN, stale : BOOLEAN]

NoRow      == [status |-> "none",    due |-> FALSE, stale |-> FALSE]
DueRow     == [status |-> "pending", due |-> TRUE,  stale |-> FALSE]
DelayedRow == [status |-> "pending", due |-> FALSE, stale |-> FALSE]
RunningRow == [status |-> "running", due |-> FALSE, stale |-> FALSE]
StaleRow   == [status |-> "running", due |-> FALSE, stale |-> TRUE]
DeadRow    == [status |-> "dead",    due |-> FALSE, stale |-> FALSE]
DeletedRow == [status |-> "deleted", due |-> FALSE, stale |-> FALSE]

Idle      == [task |-> NoTask, result |-> "none"]
NoCall    == [pc |-> "idle", task |-> NoTask]
PumpIdle  == [pc |-> "idle", todo |-> {}]
RecOff    == [pc |-> "off", todo |-> {}]

Handling == {Idle} \cup [task : Tasks, result : Results]
Call     == {NoCall} \cup [pc : {"begin", "reserved", "claimed"}, task : Tasks]
Pumping  == [pc : {"idle", "reclaim", "claim", "loop", "requeue"},
             todo : SUBSET Tasks]
Recovery == [pc : {"off", "reclaim", "select", "loop"}, todo : SUBSET Tasks]

(* Every variable stays within its type; a busy handler or a call in       *)
(* progress always names a row.                                            *)
TypeOK ==
  /\ row       \in [Tasks -> Row]
  /\ phase     \in [Nodes -> {"down", "recovering", "up", "stopping"}]
  /\ chan      \in [Nodes -> {"open", "closed"}]
  /\ permits   \in [Nodes -> Nat]
  /\ queue     \in [Nodes -> Seq(Tasks)]
  /\ handler   \in [Nodes -> [Slots -> Handling]]
  /\ pump      \in [Nodes -> Pumping]
  /\ rec       \in [Nodes -> Recovery]
  /\ enq       \in [Nodes -> [Enqueuers -> Call]]
  /\ faults    \in 0 .. MaxFaults
  /\ succeeded \in SUBSET Tasks
  /\ late      \in [Tasks -> BOOLEAN]

-----------------------------------------------------------------------------
(***************************************************************************)
(* Who holds a claim on a row: whoever will execute it or give it back.    *)
(***************************************************************************)
Place == [kind : {"queue", "pump"}, node : Nodes, at : {NoTask}]
           \cup [kind : {"handler"}, node : Nodes, at : Slots]
           \cup [kind : {"enqueue"}, node : Nodes, at : Enqueuers]

InQueue(n, t) == \E i \in DOMAIN queue[n] : queue[n][i] = t
Claimed(n, c, t) == enq[n][c].pc = "claimed" /\ enq[n][c].task = t

Holds(p, t) ==
  \/ p.kind = "queue"   /\ InQueue(p.node, t)
  \/ p.kind = "pump"    /\ t \in pump[p.node].todo
  \/ p.kind = "handler" /\ handler[p.node][p.at].task = t
  \/ p.kind = "enqueue" /\ Claimed(p.node, p.at, t)

Held(t) == \E p \in Place : Holds(p, t)

Present(t) == row[t].status \notin {"none", "deleted"}
DuePending == {t \in Tasks : row[t].status = "pending" /\ row[t].due}
(* Mutant: the reclaim looks for the wrong status.                         *)
StaleRunningWrongStatus == {t \in Tasks : row[t].status = "pending" /\ row[t].stale}
StaleRunning == {t \in Tasks : row[t].status = "running" /\ row[t].stale}

(* UPDATE ... WHERE id = ANY(S): rows that are gone are not touched.       *)
Update(S, r) == row' = [t \in Tasks |-> IF t \in S /\ Present(t) THEN r ELSE row[t]]

(* ORDER BY id LIMIT BatchSize *)
FirstBatch(S) == {t \in S : Cardinality({u \in S : u < t}) < BatchSize}

Fault == faults < MaxFaults /\ faults' = faults + 1
NoFault == UNCHANGED faults

(* Mutant: the channel has no capacity limit.                              *)
HasSlotUnbounded(n) == chan[n] = "open"
HasSlot(n) == chan[n] = "open" /\ permits[n] > 0

Init ==
  /\ row = [t \in Tasks |-> IF t \in Foreign THEN DueRow ELSE NoRow]
  /\ phase = [n \in Nodes |-> "down"]
  /\ chan = [n \in Nodes |-> "closed"]
  /\ permits = [n \in Nodes |-> QueueSize]
  /\ queue = [n \in Nodes |-> <<>>]
  /\ handler = [n \in Nodes |-> [s \in Slots |-> Idle]]
  /\ pump = [n \in Nodes |-> PumpIdle]
  /\ rec = [n \in Nodes |-> RecOff]
  /\ enq = [n \in Nodes |-> [c \in Enqueuers |-> NoCall]]
  /\ faults = 0
  /\ succeeded = {}
  /\ late = [t \in Tasks |-> FALSE]

-----------------------------------------------------------------------------
(***************************************************************************)
(* TaskDispatcher::submit and try_enqueue_outbox_task.  The slot of the    *)
(* channel is reserved before the row is claimed and is held across the    *)
(* UPDATE; a dropped permit returns to the channel.                        *)
(***************************************************************************)
SetCall(n, c, call) == enq' = [enq EXCEPT ![n] = [@ EXCEPT ![c] = call]]
TakePermit(n) == permits' = [permits EXCEPT ![n] = @ - 1]
ReturnPermit(n) == permits' = [permits EXCEPT ![n] = @ + 1]

Submit(n, c) ==
  /\ phase[n] = "up"
  /\ c \in Callers
  /\ enq[n][c] = NoCall
  /\ \E t \in Tasks :
       /\ row[t] = NoRow
       /\ \A u \in Tasks : u < t => row[u] # NoRow
       /\ row' = [row EXCEPT ![t] = DueRow]
       /\ SetCall(n, c, [pc |-> "begin", task |-> t])
  /\ UNCHANGED <<phase, chan, permits, queue, handler, pump, rec, faults,
                 succeeded, late>>

TryReserveSlot(n, c) ==
  /\ enq[n][c].pc = "begin"
  /\ \/ /\ HasSlot(n)
        /\ TakePermit(n)
        /\ SetCall(n, c, [pc |-> "reserved", task |-> enq[n][c].task])
     \/ /\ ~HasSlot(n)                       \* Full or Closed: stays pending
        /\ SetCall(n, c, NoCall)
        /\ UNCHANGED permits
  /\ UNCHANGED <<row, phase, chan, queue, handler, pump, rec, faults,
                 succeeded, late>>

(* Mutant: the UPDATE does not look at the status of the row.              *)
MarkRunningUnguarded(n, c) ==
  LET t == enq[n][c].task IN
  /\ enq[n][c].pc = "reserved"
  /\ Update({t}, RunningRow)
  /\ SetCall(n, c, [pc |-> "claimed", task |-> t])
  /\ UNCHANGED <<phase, chan, permits, queue, handler, pump, rec, faults,
                 succeeded, late>>

MarkRunning(n, c) ==
  LET t == enq[n][c].task IN
  /\ enq[n][c].pc = "reserved"
  /\ \/ /\ row[t].status = "pending"         \* rows_affected = 1
        /\ row' = [row EXCEPT ![t] = RunningRow]
        /\ SetCall(n, c, [pc |-> "claimed", task |-> t])
        /\ NoFault /\ UNCHANGED permits
     \/ /\ row[t].status # "pending"         \* already claimed
        /\ SetCall(n, c, NoCall) /\ ReturnPermit(n)
        /\ NoFault /\ UNCHANGED row
     \/ /\ SetCall(n, c, NoCall) /\ ReturnPermit(n)
        /\ Fault                             \* the UPDATE failed, or only
        /\ \/ UNCHANGED row                  \* its answer was lost
           \/ /\ row[t].status = "pending"
              /\ row' = [row EXCEPT ![t] = RunningRow]
  /\ UNCHANGED <<phase, chan, queue, handler, pump, rec, succeeded, late>>

(* permit.send: into a channel whose receiver is gone it loses the value.  *)
Send(n, c) ==
  /\ enq[n][c].pc = "claimed"
  /\ SetCall(n, c, NoCall)
  /\ queue' = IF chan[n] = "open"
                THEN [queue EXCEPT ![n] = Append(@, enq[n][c].task)]
                ELSE queue
  /\ UNCHANGED <<row, phase, chan, permits, handler, pump, rec, faults,
                 succeeded, late>>

(* Mutant: a permit dropped with its future does not return.               *)
CancelSubmitLeak(n, c) ==
  /\ c \in Callers
  /\ enq[n][c].pc # "idle"
  /\ SetCall(n, c, NoCall)
  /\ Fault
  /\ UNCHANGED <<row, phase, chan, permits, queue, handler, pump, rec,
                 succeeded, late>>

(* The future of a submit is dropped: the one second limit that            *)
(* create_archive_record_handler puts on it, or the client going away.     *)
CancelSubmit(n, c) ==
  /\ c \in Callers
  /\ enq[n][c].pc # "idle"
  /\ SetCall(n, c, NoCall)
  /\ \/ enq[n][c].pc = "begin" /\ UNCHANGED permits
     \/ enq[n][c].pc # "begin" /\ ReturnPermit(n)
  /\ Fault
  /\ UNCHANGED <<row, phase, chan, queue, handler, pump, rec, succeeded, late>>

-----------------------------------------------------------------------------
(***************************************************************************)
(* pull_outbox_tasks: reclaim_stale_running_outbox, then pump_outbox_once. *)
(* An error ends the tick; the interval task only logs it.                 *)
(***************************************************************************)
SetPump(n, p) == pump' = [pump EXCEPT ![n] = p]

ReclaimStaleRunning ==
  /\ row' = [t \in Tasks |-> IF t \in StaleRunning THEN DueRow ELSE row[t]]
  /\ late' = [t \in Tasks |-> late[t] \/ (t \in StaleRunning /\ Held(t))]

PullTick(n) ==
  /\ n \in WorkerNodes
  /\ phase[n] \in {"recovering", "up"}
  /\ pump[n] = PumpIdle
  /\ SetPump(n, [pc |-> "reclaim", todo |-> {}])
  /\ UNCHANGED <<row, phase, chan, permits, queue, handler, rec, enq, faults,
                 succeeded, late>>

PullReclaim(n) ==
  /\ pump[n].pc = "reclaim"
  /\ \/ ReclaimStaleRunning /\ NoFault /\ SetPump(n, [pc |-> "claim", todo |-> {}])
     \/ UNCHANGED <<row, late>> /\ Fault /\ SetPump(n, PumpIdle)
  /\ UNCHANGED <<phase, chan, permits, queue, handler, rec, enq, succeeded>>

(* One statement picks and marks the batch, so that concurrent pumps (FOR  *)
(* UPDATE SKIP LOCKED) never pick the same row.  When its answer is lost   *)
(* the marks stay and nobody works on the batch.                           *)
PumpClaim(n) ==
  LET batch == FirstBatch(DuePending) IN
  /\ pump[n].pc = "claim"
  /\ \/ /\ Update(batch, RunningRow)
        /\ SetPump(n, IF batch = {} THEN PumpIdle
                                    ELSE [pc |-> "loop", todo |-> batch])
        /\ NoFault
     \/ /\ Update(batch, RunningRow) \/ UNCHANGED row
        /\ SetPump(n, PumpIdle)
        /\ Fault
  /\ UNCHANGED <<phase, chan, permits, queue, handler, rec, enq, succeeded, late>>

(* What pump_outbox_once gives back when row t finds no slot: t and the    *)
(* rest of the batch.  Mutant: the rest is forgotten.                      *)
RemainingOnlyThis(n, t) == {t}
Remaining(n, t) == {t} \cup pump[n].todo

(* One round of the loop over the batch; RETURNING promises no order.      *)
PumpRow(n) ==
  /\ pump[n].pc = "loop"
  /\ \E t \in pump[n].todo :
       LET rest == pump[n].todo \ {t}
           next == IF rest = {} THEN PumpIdle ELSE [pc |-> "loop", todo |-> rest]
       IN
       \/ /\ t \in Foreign                   \* mark_outbox_dead
          /\ Update({t}, DeadRow) /\ SetPump(n, next)
          /\ NoFault /\ UNCHANGED <<permits, queue>>
       \/ /\ t \in Foreign                   \* ... failed: `?` leaves the loop
          /\ Update({t}, DeadRow) \/ UNCHANGED row
          /\ SetPump(n, PumpIdle)
          /\ Fault /\ UNCHANGED <<permits, queue>>
       \/ /\ t \notin Foreign /\ HasSlot(n)
          /\ TakePermit(n)
          /\ queue' = [queue EXCEPT ![n] = Append(@, t)]
          /\ SetPump(n, next)
          /\ NoFault /\ UNCHANGED row
       \/ /\ t \notin Foreign /\ ~HasSlot(n)
          /\ SetPump(n, [pc |-> "requeue", todo |-> Remaining(n, t)])
          /\ NoFault /\ UNCHANGED <<row, permits, queue>>
  /\ UNCHANGED <<phase, chan, handler, rec, enq, succeeded, late>>

(* requeue_outbox_rows for what found no slot, without looking at status.  *)
PumpRequeue(n) ==
  /\ pump[n].pc = "requeue"
  /\ \/ Update(pump[n].todo, DelayedRow) /\ NoFault
     \/ UNCHANGED row /\ Fault
  /\ SetPump(n, PumpIdle)
  /\ UNCHANGED <<phase, chan, permits, queue, handler, rec, enq, succeeded, late>>

-----------------------------------------------------------------------------
(***************************************************************************)
(* The command worker and DefaultTaskHandler::handle.                      *)
(***************************************************************************)
SetHandler(n, s, h) == handler' = [handler EXCEPT ![n] = [@ EXCEPT ![s] = h]]

WorkerRecv(n) ==
  /\ phase[n] \in {"recovering", "up"}
  /\ chan[n] = "open"
  /\ queue[n] # <<>>
  /\ \E s \in Slots :
       /\ handler[n][s] = Idle
       /\ \A r \in Slots : r < s => handler[n][r] # Idle
       /\ SetHandler(n, s, [task |-> Head(queue[n]), result |-> "none"])
  /\ queue' = [queue EXCEPT ![n] = Tail(@)]
  /\ ReturnPermit(n)
  /\ UNCHANGED <<row, phase, chan, pump, rec, enq, faults, succeeded, late>>

(* run_executable_with_retry has come to an end with this result.          *)
Execute(n, s) ==
  /\ handler[n][s].task # NoTask
  /\ handler[n][s].result = "none"
  /\ \/ /\ SetHandler(n, s, [task |-> handler[n][s].task, result |-> "ok"])
        /\ succeeded' = succeeded \cup {handler[n][s].task}
        /\ NoFault
     \/ /\ SetHandler(n, s, [task |-> handler[n][s].task, result |-> "dead"])
        /\ NoFault /\ UNCHANGED succeeded
     \/ /\ SetHandler(n, s, [task |-> handler[n][s].task, result |-> "retry"])
        /\ Fault /\ UNCHANGED succeeded
  /\ UNCHANGED <<row, phase, chan, permits, queue, pump, rec, enq, late>>

(* Mutants: a command that failed leaves the table.                        *)
SettledRowDropRetry(result) == IF result = "dead" THEN DeadRow ELSE DeletedRow
SettledRowDropDead(result) == IF result = "retry" THEN DelayedRow ELSE DeletedRow

(* delete_outbox_row, requeue_retryable_outbox or mark_outbox_dead: each   *)
(* is WHERE id = ... only.  If it fails the row is left as it is.          *)
SettledRow(result) == IF result = "ok" THEN DeletedRow
                      ELSE IF result = "retry" THEN DelayedRow ELSE DeadRow

Settle(n, s) ==
  LET h == handler[n][s] IN
  /\ h.result # "none"
  /\ \/ Update({h.task}, SettledRow(h.result)) /\ NoFault
     \/ UNCHANGED row /\ Fault
  /\ SetHandler(n, s, Idle)
  /\ UNCHANGED <<phase, chan, permits, queue, pump, rec, enq, succeeded, late>>

-----------------------------------------------------------------------------
(***************************************************************************)
(* Life of a process.  With the worker enabled the channel, the worker and *)
(* the pull task run while recover_outbox_tasks is still being awaited;    *)
(* requests are served only after it.                                      *)
(***************************************************************************)
SetRec(n, r) == rec' = [rec EXCEPT ![n] = r]
SetPhase(n, p) == phase' = [phase EXCEPT ![n] = p]

Start(n) ==
  /\ phase[n] = "down"
  /\ IF n \in WorkerNodes
       THEN /\ SetPhase(n, "recovering")
            /\ chan' = [chan EXCEPT ![n] = "open"]
            /\ SetRec(n, [pc |-> "reclaim", todo |-> {}])
       ELSE /\ SetPhase(n, "up")             \* close_command_channel
            /\ UNCHANGED <<chan, rec>>
  /\ UNCHANGED <<row, permits, queue, handler, pump, enq, faults, succeeded, late>>

EndRecovery(n) == SetRec(n, RecOff) /\ SetPhase(n, "up")

RecoverReclaim(n) ==
  /\ rec[n].pc = "reclaim"
  /\ \/ /\ ReclaimStaleRunning
        /\ SetRec(n, [pc |-> "select", todo |-> {}])
        /\ NoFault /\ UNCHANGED phase
     \/ EndRecovery(n) /\ Fault /\ UNCHANGED <<row, late>>
  /\ UNCHANGED <<chan, permits, queue, handler, pump, enq, succeeded>>

RecoverSelect(n) ==
  /\ rec[n].pc = "select"
  /\ \/ /\ SetRec(n, [pc |-> "loop", todo |-> DuePending])
        /\ NoFault /\ UNCHANGED phase
     \/ EndRecovery(n) /\ Fault
  /\ UNCHANGED <<row, chan, permits, queue, handler, pump, enq, succeeded, late>>

(* The next row in order of id; one that does not decode ends it all.      *)
RecoverNext(n) ==
  /\ rec[n].pc = "loop"
  /\ enq[n]["recovery"] = NoCall
  /\ \/ rec[n].todo = {} /\ EndRecovery(n) /\ UNCHANGED enq
     \/ \E t \in rec[n].todo :
          /\ \A u \in rec[n].todo : t <= u
          /\ \/ t \in Foreign /\ EndRecovery(n) /\ UNCHANGED enq
             \/ /\ t \notin Foreign
                /\ SetRec(n, [pc |-> "loop", todo |-> rec[n].todo \ {t}])
                /\ SetCall(n, "recovery", [pc |-> "begin", task |-> t])
                /\ UNCHANGED phase
  /\ UNCHANGED <<row, chan, permits, queue, handler, pump, faults, succeeded, late>>

(* run_until_stopped: the HTTP server has ended, then shutdown() signals.  *)
StopSignal(n) ==
  /\ phase[n] = "up"
  /\ \A c \in Enqueuers : enq[n][c] = NoCall
  /\ SetPhase(n, "stopping")
  /\ Fault
  /\ UNCHANGED <<row, chan, permits, queue, handler, pump, rec, enq, succeeded, late>>

(* The worker has no handler left in flight; what is queued goes with rx.  *)
WorkerExit(n) ==
  /\ phase[n] = "stopping"
  /\ chan[n] = "open"
  /\ \A s \in Slots : handler[n][s] = Idle
  /\ chan' = [chan EXCEPT ![n] = "closed"]
  /\ queue' = [queue EXCEPT ![n] = <<>>]
  /\ UNCHANGED <<row, phase, permits, handler, pump, rec, enq, faults,
                 succeeded, late>>

(* All of the process's memory is gone.                                    *)
Forget(n) ==
  /\ SetPhase(n, "down")
  /\ chan' = [chan EXCEPT ![n] = "closed"]
  /\ permits' = [permits EXCEPT ![n] = QueueSize]
  /\ queue' = [queue EXCEPT ![n] = <<>>]
  /\ handler' = [handler EXCEPT ![n] = [s \in Slots |-> Idle]]
  /\ pump' = [pump EXCEPT ![n] = PumpIdle]
  /\ rec' = [rec EXCEPT ![n] = RecOff]
  /\ enq' = [enq EXCEPT ![n] = [c \in Enqueuers |-> NoCall]]
  /\ UNCHANGED <<row, succeeded, late>>

ProcessExit(n) ==
  /\ phase[n] = "stopping"
  /\ chan[n] = "closed"
  /\ pump[n] = PumpIdle
  /\ Forget(n)
  /\ NoFault

(* A crash, or the abort of a task that did not stop within 30 seconds.    *)
Crash(n) ==
  /\ phase[n] # "down"
  /\ Forget(n)
  /\ Fault

-----------------------------------------------------------------------------
(***************************************************************************)
(* Time.  Without AllowLate a claim is always settled within the running   *)
(* timeout, so only rows that nobody holds any more get stale.             *)
(***************************************************************************)
BecomeDue(t) ==
  /\ row[t].status = "pending" /\ ~row[t].due
  /\ row' = [row EXCEPT ![t] = DueRow]
  /\ UNCHANGED <<nodeVars, faults, succeeded, late>>

BecomeStale(t) ==
  /\ row[t].status = "running" /\ ~row[t].stale
  /\ AllowLate \/ ~Held(t)
  /\ row' = [row EXCEPT ![t] = StaleRow]
  /\ UNCHANGED <<nodeVars, faults, succeeded, late>>

-----------------------------------------------------------------------------
EnqueueStep(n, c) == TryReserveSlot(n, c) \/ MarkRunning(n, c) \/ Send(n, c)
PullStep(n) == PullTick(n) \/ PullReclaim(n) \/ PumpClaim(n) \/ PumpRow(n)
                 \/ PumpRequeue(n)
HandlerStep(n, s) == Execute(n, s) \/ Settle(n, s)
RecoverStep(n) == RecoverReclaim(n) \/ RecoverSelect(n) \/ RecoverNext(n)
StopStep(n) == WorkerExit(n) \/ ProcessExit(n)

NodeStep(n) ==
  \/ \E c \in Enqueuers : Submit(n, c) \/ EnqueueStep(n, c) \/ CancelSubmit(n, c)
  \/ PullStep(n)
  \/ WorkerRecv(n)
  \/ \E s \in Slots : HandlerStep(n, s)
  \/ Start(n)
  \/ RecoverStep(n)
  \/ StopSignal(n)
  \/ StopStep(n)
  \/ Crash(n)

Next == \/ \E n \in Nodes : NodeStep(n)
        \/ \E t \in Tasks : BecomeDue(t) \/ BecomeStale(t)

Spec == Init /\ [][Next]_vars

(* The runtime polls every task that can go on, the interval ticks, a      *)
(* process that is down is started again, and time passes.                 *)
Fairness ==
  /\ \A n \in Nodes :
       /\ \A c \in Enqueuers : WF_vars(EnqueueStep(n, c))
       /\ WF_vars(PullStep(n))
       /\ WF_vars(WorkerRecv(n))
       /\ \A s \in Slots : WF_vars(HandlerStep(n, s))
       /\ WF_vars(Start(n))
       /\ WF_vars(RecoverStep(n))
       /\ WF_vars(StopStep(n))
  /\ \A t \in Tasks : WF_vars(BecomeDue(t)) /\ WF_vars(BecomeStale(t))

FairSpec == Spec /\ Fairness

-----------------------------------------------------------------------------
(***************************************************************************)
(* Properties                                                              *)
(***************************************************************************)
(* Every slot of an open channel is free, reserved by a call between       *)
(* try_reserve and send, or taken by a queued command: no path of          *)
(* try_enqueue_outbox_task, not even a cancelled one, leaks a permit or    *)
(* sends past the capacity.                                                *)
Reserving(n) == {c \in Enqueuers : enq[n][c].pc \in {"reserved", "claimed"}}

PermitConservation ==
  \A n \in Nodes : chan[n] = "open" =>
    permits[n] + Len(queue[n]) + Cardinality(Reserving(n)) = QueueSize

(* A row is claimed exactly once, whichever of submit, pump and recovery   *)
(* get to it first and in whichever processes: as long as no stale reclaim *)
(* took the row from a living holder, it has at most one holder, at most   *)
(* once in a queue, and is marked running.                                 *)
OnceInQueue(n, t) == \A i, j \in DOMAIN queue[n] :
                       queue[n][i] = t /\ queue[n][j] = t => i = j

HolderUnique(t) ==
  /\ \A p, q \in Place : Holds(p, t) /\ Holds(q, t) => p = q
  /\ \A n \in Nodes : OnceInQueue(n, t)

HolderMarked(t) == Held(t) => row[t].status = "running"

ExclusiveClaim == \A t \in Tasks : ~late[t] => HolderUnique(t) /\ HolderMarked(t)

(* A row leaves the table only after its command has executed with         *)
(* success, also when late handlers settle a row that is no longer theirs. *)
NothingLost == \A t \in Tasks : row[t].status = "deleted" => t \in succeeded

(* Without a crash, stop, cancellation or failed statement no row is left  *)
(* running with nobody holding it: only faults need the stale reclaim.     *)
StrandedOnlyByFault ==
  faults = 0 => \A t \in Tasks : row[t].status = "running" => Held(t)

(* A dead row stays in the table as dead.                                  *)
DeadStays ==
  [][\A t \in Tasks : row[t].status = "dead" => row'[t].status = "dead"]_row

(* The outbox implements the abstract ledger.                              *)
LedgerState(status) == CASE status = "none"    -> "absent"
                         [] status = "deleted" -> "done"
                         [] status = "dead"    -> "dead"
                         [] OTHER              -> "open"

Ledger == INSTANCE TaskLedger WITH
            ledger   <- [t \in Tasks |-> LedgerState(row[t].status)],
            executed <- succeeded

ImplementsLedger == Ledger!LedgerSpec

(* Once faults stop, every submitted command is settled: executed with     *)
(* success and removed, or marked dead.  Rows left behind by a crash, a    *)
(* cancelled submit, a queue dropped at shutdown or a failed statement are *)
(* reclaimed and pumped again, and an undecodable row never blocks others. *)
EveryTaskSettles ==
  \A t \in Tasks : row[t].status # "none" ~> row[t].status \in {"deleted", "dead"}

=============================================================================
