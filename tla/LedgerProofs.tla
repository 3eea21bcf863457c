---------------------------- MODULE LedgerProofs ----------------------------
(***************************************************************************)
(* The outbox implements the abstract ledger, rows are stranded by faults  *)
(* only, and no permit of a channel is lost: for any number of processes,  *)
(* rows, callers, slots and faults.                                        *)
(***************************************************************************)
EXTENDS TaskClaimProofs, FiniteSetTheorems

-----------------------------------------------------------------------------
(***************************************************************************)
(* What a step of one process does to the claims on rows.                  *)
(***************************************************************************)
(* Process m holds row t.                                                  *)
HeldAt(m, t) ==
  \/ InQueue(m, t)
  \/ t \in pump[m].todo
  \/ \E s \in Slots : handler[m][s].task = t
  \/ \E c \in Enqueuers : Claimed(m, c, t)

(* The step is one of process n.                                           *)
Local(n) == \A m \in Nodes : m # n =>
  queue'[m] = queue[m] /\ pump'[m] = pump[m] /\ handler'[m] = handler[m] /\ enq'[m] = enq[m]

(* Whoever takes a row has marked it just now.                             *)
Gains(n) == \A t \in Tasks : HeldAt(n, t)' => HeldAt(n, t) \/ ~row'[t].stale

(* No row gets stale by the step.                                          *)
Ages == \A t \in Tasks : row'[t].stale => row[t].stale

(* A row that is running afterwards is held, or was stranded before.       *)
Keeps(n) == \A t \in Tasks : row'[t].status = "running" =>
              HeldAt(n, t)' \/ (row[t].status = "running" /\ ~HeldAt(n, t))

Effects(n) == Local(n) /\ Gains(n) /\ Ages /\ (faults' = 0 => Keeps(n))

(* Between its rounds the pull task has no batch; and before any fault no  *)
(* process stops and no channel closes under a reserved slot.              *)
Steady ==
  /\ \A n \in Nodes : pump[n].pc \in {"reclaim", "claim"} => pump[n].todo = {}
  /\ faults = 0 => \A n \in Nodes : /\ phase[n] # "stopping"
                                    /\ Reserving(n) # {} => chan[n] = "open"

(* A row is held by some process; before and after a step.                 *)
LEMMA HeldSomewhere ==
  ASSUME NEW t \in Tasks
  PROVE  Held(t) <=> \E m \in Nodes : HeldAt(m, t)
<1>1. ASSUME Held(t) PROVE \E m \in Nodes : HeldAt(m, t)
  BY <1>1, PlaceEq DEF Held, Holds, HeldAt
<1>2. ASSUME NEW m \in Nodes, HeldAt(m, t) PROVE Held(t)
  <2>1. CASE InQueue(m, t)
    BY <2>1, PlaceIn DEF Held, Holds
  <2>2. CASE t \in pump[m].todo
    BY <2>2, PlaceIn DEF Held, Holds
  <2>3. ASSUME NEW s \in Slots, handler[m][s].task = t PROVE Held(t)
    <3>1. Holds([kind |-> "handler", node |-> m, at |-> s], t)
      BY <2>3 DEF Holds
    <3> QED  BY <3>1, PlaceIn DEF Held
  <2>4. ASSUME NEW c \in Enqueuers, Claimed(m, c, t) PROVE Held(t)
    <3>1. Holds([kind |-> "enqueue", node |-> m, at |-> c], t)
      BY <2>4 DEF Holds
    <3> QED  BY <3>1, PlaceIn DEF Held
  <2> QED  BY <1>2, <2>1, <2>2, <2>3, <2>4 DEF HeldAt
<1> QED  BY <1>1, <1>2

(* The same after a step.                                                 *)
LEMMA HeldSomewhereNext ==
  ASSUME NEW t \in Tasks
  PROVE  Held(t)' <=> \E m \in Nodes : HeldAt(m, t)'
<1>1. ASSUME Held(t)' PROVE \E m \in Nodes : HeldAt(m, t)'
  BY <1>1, PlaceEq DEF Held, Holds, HeldAt
<1>2. ASSUME NEW m \in Nodes, HeldAt(m, t)' PROVE Held(t)'
  <2>1. CASE InQueue(m, t)'
    BY <2>1, PlaceIn DEF Held, Holds
  <2>2. CASE t \in pump'[m].todo
    BY <2>2, PlaceIn DEF Held, Holds
  <2>3. ASSUME NEW s \in Slots, handler'[m][s].task = t PROVE Held(t)'
    <3>1. Holds([kind |-> "handler", node |-> m, at |-> s], t)'
      BY <2>3 DEF Holds
    <3> QED  BY <3>1, PlaceIn DEF Held
  <2>4. ASSUME NEW c \in Enqueuers, Claimed(m, c, t)' PROVE Held(t)'
    <3>1. Holds([kind |-> "enqueue", node |-> m, at |-> c], t)'
      BY <2>4 DEF Holds
    <3> QED  BY <3>1, PlaceIn DEF Held
  <2> QED  BY <1>2, <2>1, <2>2, <2>3, <2>4 DEF HeldAt
<1> QED  BY <1>1, <1>2

(* What the SQL statements write is not stale.                             *)
LEMMA FreshRows ==
  /\ ~DueRow.stale /\ ~DelayedRow.stale /\ ~RunningRow.stale /\ ~DeadRow.stale
  /\ ~DeletedRow.stale
  /\ DueRow.status = "pending" /\ DelayedRow.status = "pending"
  /\ RunningRow.status = "running" /\ DeadRow.status = "dead"
  /\ DeletedRow.status = "deleted"
BY DEF DueRow, DelayedRow, RunningRow, DeadRow, DeletedRow

(* What they do to each row.                                               *)
LEMMA UpdateAt ==
  ASSUME NEW S, NEW r, Update(S, r), NEW t \in Tasks
  PROVE  /\ row'[t] = r \/ row'[t] = row[t]
         /\ t \in S /\ Present(t) => row'[t] = r
         /\ t \in S /\ ~Present(t) => row'[t] = row[t]
         /\ t \notin S => row'[t] = row[t]
BY DEF Update

(* After a fault the count is not zero.                                    *)
LEMMA FaultCounts ==
  ASSUME TypeOK, Fault
  PROVE  faults' # 0
BY OutboxAssumption DEF TypeOK, Fault

(* A row that is not in the table is not running.                          *)
LEMMA AbsentNotRunning == \A t \in Tasks : row[t].status = "running" => Present(t)
BY DEF Present

(* A step that moves no claim and marks no row.                            *)
LEMMA QuietEffects ==
  ASSUME NEW n \in Nodes, UNCHANGED <<queue, pump, handler, enq>>, Ages,
         \A t \in Tasks : row'[t].status = "running" => row[t].status = "running"
  PROVE  Effects(n)
<1>1. \A t \in Tasks : HeldAt(n, t)' <=> HeldAt(n, t)
  BY DEF HeldAt, InQueue, Claimed
<1> QED  BY <1>1 DEF Effects, Local, Gains, Keeps

(* A step of one call of try_enqueue_outbox_task, short of its send.       *)
LEMMA CallEffects ==
  ASSUME TypeOK, NEW n \in Nodes, NEW c \in Enqueuers, NEW k, SetCall(n, c, k),
         UNCHANGED <<queue, pump, handler>>, Ages,
         k.pc = "claimed" => ~row'[k.task].stale,
         faults' = 0 =>
           /\ enq[n][c].pc # "claimed"
           /\ \A t \in Tasks : row'[t].status = "running" =>
                row[t].status = "running" \/ (k.pc = "claimed" /\ k.task = t)
  PROVE  Effects(n)
<1>1. /\ enq'[n][c] = k
      /\ \A m \in Nodes, d \in Enqueuers : m # n \/ d # c => enq'[m][d] = enq[m][d]
  BY SetCallHolds
<1>2. Local(n)
  BY DEF Local, SetCall, TypeOK
<1>3. Gains(n)
  <2> SUFFICES ASSUME NEW t \in Tasks, HeldAt(n, t)' PROVE HeldAt(n, t) \/ ~row'[t].stale
    BY DEF Gains
  <2>1. ASSUME NEW d \in Enqueuers, Claimed(n, d, t)' PROVE HeldAt(n, t) \/ ~row'[t].stale
    BY <1>1, <2>1 DEF Claimed, HeldAt
  <2> QED  BY <2>1 DEF HeldAt, InQueue
<1>4. ASSUME faults' = 0 PROVE Keeps(n)
  <2> SUFFICES ASSUME NEW t \in Tasks, row'[t].status = "running",
                      ~(row[t].status = "running" /\ ~HeldAt(n, t))
               PROVE  HeldAt(n, t)'
    BY DEF Keeps
  <2>1. CASE k.pc = "claimed" /\ k.task = t
    BY <1>1, <2>1 DEF Claimed, HeldAt
  <2>2. CASE HeldAt(n, t)
    <3>1. ASSUME NEW d \in Enqueuers, Claimed(n, d, t) PROVE Claimed(n, d, t)'
      BY <1>1, <1>4, <3>1 DEF Claimed
    <3> QED  BY <2>2, <3>1 DEF HeldAt, InQueue
  <2> QED  BY <1>4, <2>1, <2>2
<1> QED  BY <1>2, <1>3, <1>4 DEF Effects

(* A step of the pull task that sends nothing.                             *)
LEMMA PumpEffects ==
  ASSUME TypeOK, NEW n \in Nodes, NEW p, SetPump(n, p),
         UNCHANGED <<queue, handler, enq>>, Ages,
         \A t \in Tasks : t \in p.todo => t \in pump[n].todo \/ ~row'[t].stale,
         faults' = 0 => \A t \in Tasks : row'[t].status = "running" =>
           t \in p.todo \/ (row[t].status = "running" /\ t \notin pump[n].todo)
  PROVE  Effects(n)
<1>1. pump'[n] = p /\ \A m \in Nodes : m # n => pump'[m] = pump[m]
  BY SetPumpHolds
<1>2. \A t \in Tasks : HeldAt(n, t)' <=> t \in p.todo \/ InQueue(n, t)
        \/ (\E s \in Slots : handler[n][s].task = t) \/ (\E c \in Enqueuers : Claimed(n, c, t))
  BY <1>1 DEF HeldAt, InQueue, Claimed
<1>3. Gains(n)
  BY <1>2 DEF Gains, HeldAt
<1>4. faults' = 0 => Keeps(n)
  BY <1>2 DEF Keeps, HeldAt
<1> QED  BY <1>1, <1>3, <1>4 DEF Effects, Local

-----------------------------------------------------------------------------
(***************************************************************************)
(* The steps of a process, one by one.                                     *)
(***************************************************************************)
(* submit, its reservation and its UPDATE, and a call that is dropped.     *)
LEMMA CallStepEffects ==
  ASSUME TypeOK, NEW n \in Nodes, NEW c \in Enqueuers,
         Submit(n, c) \/ TryReserveSlot(n, c) \/ MarkRunning(n, c) \/ CancelSubmit(n, c)
  PROVE  Effects(n)
<1>0. row \in [Tasks -> Row] /\ enq[n][c] \in Call
  BY DEF TypeOK
<1>1. CASE Submit(n, c)
  <2>1. PICK t0 \in Tasks : /\ row' = [row EXCEPT ![t0] = DueRow]
                            /\ SetCall(n, c, [pc |-> "begin", task |-> t0])
    BY <1>1 DEF Submit
  <2>2. \A t \in Tasks : row'[t] = DueRow \/ row'[t] = row[t]
    BY <1>0, <2>1
  <2>3. Ages /\ \A t \in Tasks : row'[t].status = "running" => row[t].status = "running"
    BY <2>2, FreshRows DEF Ages
  <2>4. enq[n][c].pc # "claimed"
    BY <1>1 DEF Submit, NoCall
  <2> QED  BY <1>1, <2>1, <2>3, <2>4, CallEffects DEF Submit
<1>2. CASE TryReserveSlot(n, c)
  <2>1. UNCHANGED <<row, queue, pump, handler>> /\ enq[n][c].pc # "claimed" /\ Ages
    BY <1>2 DEF TryReserveSlot, Ages
  <2>2. PICK k : SetCall(n, c, k) /\ k.pc # "claimed"
    BY <1>2 DEF TryReserveSlot, NoCall
  <2> QED  BY <2>1, <2>2, CallEffects
<1>3. CASE MarkRunning(n, c)
  <2> DEFINE t0 == enq[n][c].task
  <2>0. t0 \in Tasks /\ enq[n][c].pc = "reserved" /\ UNCHANGED <<queue, pump, handler>>
    BY <1>0, <1>3, CallFacts DEF MarkRunning
  <2>1. Ages
    <3>1. row' = [row EXCEPT ![t0] = RunningRow] \/ UNCHANGED row
      BY <1>3 DEF MarkRunning
    <3>2. \A t \in Tasks : row'[t] = RunningRow \/ row'[t] = row[t]
      BY <1>0, <3>1
    <3> QED  BY <3>2, FreshRows DEF Ages
  <2>2. CASE /\ row' = [row EXCEPT ![t0] = RunningRow]
             /\ SetCall(n, c, [pc |-> "claimed", task |-> t0])
    <3>1. row'[t0] = RunningRow /\ \A t \in Tasks : t # t0 => row'[t] = row[t]
      BY <1>0, <2>0, <2>2
    <3> QED  BY <2>0, <2>1, <2>2, <3>1, FreshRows, CallEffects
  <2>3. CASE SetCall(n, c, NoCall) /\ (UNCHANGED row \/ Fault)
    BY <2>0, <2>1, <2>3, FaultCounts, CallEffects DEF NoCall
  <2> QED  BY <1>3, <2>2, <2>3 DEF MarkRunning
<1>4. CASE CancelSubmit(n, c)
  <2>1. /\ UNCHANGED <<row, queue, pump, handler>> /\ SetCall(n, c, NoCall) /\ faults' # 0
        /\ Ages
    BY <1>4, FaultCounts DEF CancelSubmit, Ages
  <2> QED  BY <2>1, CallEffects DEF NoCall
<1> QED  BY <1>1, <1>2, <1>3, <1>4

(* permit.send: the claim moves to the channel, which is open before any   *)
(* fault.                                                                  *)
LEMMA SendEffects ==
  ASSUME TypeOK, Steady, NEW n \in Nodes, NEW c \in Enqueuers, Send(n, c)
  PROVE  Effects(n)
<1>0. enq[n][c].pc = "claimed" /\ UNCHANGED <<row, pump, handler, faults>>
  BY DEF Send
<1>t. PICK t0 \in Tasks : t0 = enq[n][c].task
  BY <1>0, CallFacts DEF TypeOK
<1>1. /\ enq'[n][c] = NoCall
      /\ \A m \in Nodes, d \in Enqueuers : m # n \/ d # c => enq'[m][d] = enq[m][d]
  BY SetCallHolds DEF Send
<1>2. Local(n)
  BY DEF Local, Send, SetCall, TypeOK
<1>3. Gains(n)
  <2> SUFFICES ASSUME NEW t \in Tasks, HeldAt(n, t)' PROVE HeldAt(n, t)
    BY DEF Gains
  <2>1. InQueue(n, t)' => InQueue(n, t) \/ t = t0
    BY <1>t, QueueAppend DEF Send, InQueue
  <2>2. HeldAt(n, t0)
    BY <1>0, <1>t DEF HeldAt, Claimed
  <2>3. \A d \in Enqueuers : Claimed(n, d, t)' => Claimed(n, d, t)
    BY <1>1 DEF Claimed, NoCall
  <2> QED  BY <1>0, <2>1, <2>2, <2>3 DEF HeldAt
<1>4. ASSUME faults' = 0 PROVE Keeps(n)
  <2>1. c \in Reserving(n)
    BY <1>0 DEF Reserving
  <2>2. queue'[n] = Append(queue[n], t0) /\ queue[n] \in Seq(Tasks)
    BY <1>0, <1>t, <1>4, <2>1 DEF Steady, Send, TypeOK
  <2>3. \A t \in Tasks : InQueue(n, t) => InQueue(n, t)'
    BY <1>0, <2>2 DEF InQueue
  <2>4. InQueue(n, t0)'
    <3>1. Len(queue[n]) + 1 \in DOMAIN queue'[n] /\ queue'[n][Len(queue[n]) + 1] = t0
      BY <1>0, <2>2
    <3> QED  BY <3>1 DEF InQueue
  <2>5. \A t \in Tasks, d \in Enqueuers : Claimed(n, d, t) => Claimed(n, d, t)' \/ t = t0
    BY <1>1, <1>t DEF Claimed
  <2>6. \A t \in Tasks : HeldAt(n, t) => HeldAt(n, t)'
    BY <1>0, <2>3, <2>4, <2>5 DEF HeldAt
  <2> QED  BY <1>0, <2>6 DEF Keeps
<1>5. Ages
  BY <1>0 DEF Ages
<1> QED  BY <1>2, <1>3, <1>4, <1>5 DEF Effects

(* The pull task: its reclaim, its claim and what it gives back.           *)
LEMMA PullEffects ==
  ASSUME TypeOK, Steady, NEW n \in Nodes,
         PullTick(n) \/ PullReclaim(n) \/ PumpClaim(n) \/ PumpRequeue(n)
  PROVE  Effects(n)
<1>0. row \in [Tasks -> Row] /\ UNCHANGED <<queue, handler, enq>>
  BY DEF TypeOK, PullTick, PullReclaim, PumpClaim, PumpRequeue
<1>1. CASE PullTick(n)
  <2>1. UNCHANGED row /\ pump[n].todo = {} /\ SetPump(n, [pc |-> "reclaim", todo |-> {}])
    BY <1>1 DEF PullTick, PumpIdle
  <2>2. Ages
    BY <2>1 DEF Ages
  <2> QED  BY <1>0, <2>1, <2>2, PumpEffects
<1>2. CASE PullReclaim(n)
  <2>1. \A t \in Tasks : row'[t] = DueRow \/ row'[t] = row[t]
    BY <1>2 DEF PullReclaim, ReclaimStaleRunning
  <2>2. Ages /\ \A t \in Tasks : row'[t].status = "running" => row[t].status = "running"
    BY <2>1, FreshRows DEF Ages
  <2>3. pump[n].todo = {}
    BY <1>2 DEF PullReclaim, Steady
  <2>4. PICK p : SetPump(n, p) /\ p.todo = {}
    BY <1>2 DEF PullReclaim, PumpIdle
  <2> QED  BY <1>0, <2>2, <2>3, <2>4, PumpEffects
<1>3. CASE PumpClaim(n)
  <2> DEFINE batch == FirstBatch(DuePending)
  <2>0. \A t \in batch : t \in Tasks /\ Present(t)
    BY DEF FirstBatch, DuePending, Present
  <2>1. Update(batch, RunningRow) \/ UNCHANGED row
    BY <1>3 DEF PumpClaim
  <2>2. Ages
    BY <2>1, UpdateAt, FreshRows DEF Ages
  <2>3. pump[n].todo = {}
    BY <1>3 DEF PumpClaim, Steady
  <2>4. CASE /\ Update(batch, RunningRow)
             /\ SetPump(n, IF batch = {} THEN PumpIdle ELSE [pc |-> "loop", todo |-> batch])
    <3>1. PICK p : SetPump(n, p) /\ p.todo = batch
      BY <2>4 DEF PumpIdle
    <3> HIDE DEF batch
    <3>2. \A t \in Tasks : /\ t \in batch => row'[t] = RunningRow
                           /\ t \notin batch => row'[t] = row[t]
      BY <2>0, <2>4, UpdateAt
    <3> QED  BY <1>0, <2>2, <2>3, <3>1, <3>2, FreshRows, PumpEffects
  <2>5. CASE SetPump(n, PumpIdle) /\ Fault
    BY <1>0, <2>2, <2>5, FaultCounts, PumpEffects DEF PumpIdle
  <2> QED  BY <1>3, <2>4, <2>5 DEF PumpClaim
<1>4. CASE PumpRequeue(n)
  <2>1. Update(pump[n].todo, DelayedRow) \/ (UNCHANGED row /\ Fault)
    BY <1>4 DEF PumpRequeue
  <2>2. Ages
    BY <2>1, UpdateAt, FreshRows DEF Ages
  <2>3. SetPump(n, PumpIdle) /\ PumpIdle.todo = {}
    BY <1>4 DEF PumpRequeue, PumpIdle
  <2>4. ASSUME NEW t \in Tasks, row'[t].status = "running", faults' = 0
        PROVE  row[t].status = "running" /\ t \notin pump[n].todo
    <3>1. Update(pump[n].todo, DelayedRow)
      BY <2>1, <2>4, FaultCounts
    <3> QED  BY <2>4, <3>1, UpdateAt, FreshRows, AbsentNotRunning
  <2> QED  BY <1>0, <2>2, <2>3, <2>4, PumpEffects
<1> QED  BY <1>1, <1>2, <1>3, <1>4

(* One row of the batch: dead, sent, or given back with the rest.          *)
LEMMA PumpRowEffects ==
  ASSUME TypeOK, NEW n \in Nodes, PumpRow(n)
  PROVE  Effects(n)
<1>0. /\ row \in [Tasks -> Row] /\ UNCHANGED <<handler, enq>> /\ pump[n].todo \in SUBSET Tasks
  BY PumpingFacts DEF TypeOK, PumpRow
<1>1. PICK t0 \in pump[n].todo :
        LET rest == pump[n].todo \ {t0}
            next == IF rest = {} THEN PumpIdle ELSE [pc |-> "loop", todo |-> rest]
        IN \/ Update({t0}, DeadRow) /\ SetPump(n, next) /\ UNCHANGED queue
           \/ /\ Update({t0}, DeadRow) \/ UNCHANGED row
              /\ SetPump(n, PumpIdle) /\ Fault /\ UNCHANGED queue
           \/ /\ queue' = [queue EXCEPT ![n] = Append(@, t0)]
              /\ SetPump(n, next) /\ UNCHANGED row
           \/ /\ SetPump(n, [pc |-> "requeue", todo |-> Remaining(n, t0)])
              /\ UNCHANGED <<row, queue>>
  BY DEF PumpRow
<1> DEFINE rest == pump[n].todo \ {t0}
           next == IF rest = {} THEN PumpIdle ELSE [pc |-> "loop", todo |-> rest]
<1>2. next.todo = rest /\ PumpIdle.todo = {} /\ t0 \in Tasks
  BY <1>0 DEF PumpIdle
<1>3. Ages
  <2>1. Update({t0}, DeadRow) \/ UNCHANGED row
    BY <1>1
  <2> QED  BY <2>1, UpdateAt, FreshRows DEF Ages
<1>4. CASE Update({t0}, DeadRow) /\ SetPump(n, next) /\ UNCHANGED queue
  <2>1. ASSUME NEW t \in Tasks, row'[t].status = "running"
        PROVE  t \in rest \/ (row[t].status = "running" /\ t \notin pump[n].todo)
    BY <1>4, <2>1, UpdateAt, FreshRows, AbsentNotRunning
  <2> HIDE DEF next
  <2> QED  BY <1>0, <1>2, <1>3, <1>4, <2>1, PumpEffects
<1>5. CASE SetPump(n, PumpIdle) /\ Fault /\ UNCHANGED queue
  BY <1>0, <1>2, <1>3, <1>5, FaultCounts, PumpEffects
<1>6. CASE SetPump(n, [pc |-> "requeue", todo |-> Remaining(n, t0)]) /\ UNCHANGED <<row, queue>>
  <2>1. Remaining(n, t0) = pump[n].todo
    BY RemainingAll
  <2> QED  BY <1>0, <1>3, <1>6, <2>1, PumpEffects
<1>7. CASE /\ queue' = [queue EXCEPT ![n] = Append(@, t0)]
           /\ SetPump(n, next) /\ UNCHANGED row
  <2> HIDE DEF next
  <2>1. pump'[n].todo = rest /\ \A m \in Nodes : m # n => pump'[m] = pump[m]
    BY <1>2, <1>7, SetPumpHolds
  <2>2. queue'[n] = Append(queue[n], t0) /\ queue[n] \in Seq(Tasks)
        /\ \A m \in Nodes : m # n => queue'[m] = queue[m]
    BY <1>7 DEF TypeOK
  <2>3. \A t \in Tasks : /\ InQueue(n, t) => InQueue(n, t)'
                         /\ InQueue(n, t)' => InQueue(n, t) \/ t = t0
    BY <1>2, <2>2 DEF InQueue
  <2>4. InQueue(n, t0)'
    <3>1. Len(queue[n]) + 1 \in DOMAIN queue'[n] /\ queue'[n][Len(queue[n]) + 1] = t0
      BY <1>2, <2>2
    <3> QED  BY <3>1 DEF InQueue
  <2>5. ASSUME NEW t \in Tasks PROVE HeldAt(n, t)' <=> HeldAt(n, t)
    BY <1>0, <2>1, <2>3, <2>4 DEF HeldAt, Claimed
  <2>6. Gains(n) /\ Keeps(n)
    BY <1>7, <2>5 DEF Gains, Keeps
  <2> QED  BY <1>0, <1>3, <2>1, <2>2, <2>6 DEF Effects, Local
<1> QED  BY <1>1, <1>4, <1>5, <1>6, <1>7

(* rx.recv: the claim moves from the channel to a free handler.            *)
LEMMA RecvEffects ==
  ASSUME TypeOK, NEW n \in Nodes, WorkerRecv(n)
  PROVE  Effects(n)
<1>0. UNCHANGED <<row, pump, enq>> /\ queue[n] # <<>> /\ NoTask \notin Tasks
  BY OutboxAssumption DEF WorkerRecv, NoTask
<1>1. PICK s \in Slots : /\ handler[n][s] = Idle
                         /\ SetHandler(n, s, [task |-> Head(queue[n]), result |-> "none"])
  BY DEF WorkerRecv
<1>2. PICK h \in Tasks : h = Head(queue[n])
  BY <1>0 DEF TypeOK
<1>3. /\ handler'[n][s] = [task |-> h, result |-> "none"]
      /\ \A m \in Nodes, r \in Slots : m # n \/ r # s => handler'[m][r] = handler[m][r]
  BY <1>1, <1>2, SetHandlerHolds
<1>4. \A t \in Tasks : /\ InQueue(n, t)' => InQueue(n, t)
                       /\ InQueue(n, h)
  BY <1>0, <1>2, QueueTail DEF WorkerRecv
<1>5. \A t \in Tasks : InQueue(n, t) => InQueue(n, t)' \/ t = h
  <2> DEFINE q == queue[n]
             r == queue'[n]
  <2>1. q \in Seq(Tasks) /\ q # <<>> /\ r = Tail(q) /\ h = Head(q)
    BY <1>0, <1>2 DEF TypeOK, WorkerRecv
  <2> SUFFICES ASSUME NEW t \in Tasks, NEW i \in DOMAIN q, q[i] = t, t # h
               PROVE  \E j \in DOMAIN r : r[j] = t
    BY DEF InQueue
  <2> HIDE DEF q, r
  <2>2. i \in 1 .. Len(q) /\ i # 1 /\ Len(q) \in Nat
    BY <2>1
  <2>3. i - 1 \in DOMAIN r /\ r[i - 1] = t
    BY <2>1, <2>2
  <2> QED  BY <2>3
<1>6. ASSUME NEW t \in Tasks PROVE HeldAt(n, t)' <=> HeldAt(n, t)
  <2>1. ASSUME HeldAt(n, t)' PROVE HeldAt(n, t)
    <3>1. ASSUME NEW r \in Slots, handler'[n][r].task = t PROVE HeldAt(n, t)
      BY <1>3, <1>4, <3>1 DEF HeldAt
    <3> QED  BY <1>0, <1>4, <2>1, <3>1 DEF HeldAt, Claimed
  <2>2. ASSUME HeldAt(n, t) PROVE HeldAt(n, t)'
    <3>1. InQueue(n, t) => HeldAt(n, t)'
      BY <1>3, <1>5 DEF HeldAt
    <3>2. ASSUME NEW r \in Slots, handler[n][r].task = t PROVE HeldAt(n, t)'
      <4>1. r # s
        BY <1>0, <1>1, <3>2 DEF Idle
      <4> QED  BY <1>3, <3>2, <4>1 DEF HeldAt
    <3> QED  BY <1>0, <2>2, <3>1, <3>2 DEF HeldAt, Claimed
  <2> QED  BY <2>1, <2>2
<1>7. Gains(n) /\ Keeps(n) /\ Ages
  BY <1>0, <1>6 DEF Gains, Keeps, Ages
<1>8. Local(n)
  BY DEF Local, WorkerRecv, SetHandler, TypeOK
<1> QED  BY <1>7, <1>8 DEF Effects

(* A command has run: its handler still holds the row.                     *)
LEMMA ExecuteEffects ==
  ASSUME TypeOK, NEW n \in Nodes, NEW s \in Slots, Execute(n, s)
  PROVE  Effects(n)
<1>0. UNCHANGED <<row, queue, pump, enq>>
  BY DEF Execute
<1>1. PICK r : SetHandler(n, s, [task |-> handler[n][s].task, result |-> r])
  BY DEF Execute
<1>2. \A q \in Slots : handler'[n][q].task = handler[n][q].task
  BY <1>1, SetHandlerAt
<1>3. \A t \in Tasks : HeldAt(n, t)' <=> HeldAt(n, t)
  BY <1>0, <1>2 DEF HeldAt, InQueue, Claimed
<1>4. Gains(n) /\ Keeps(n) /\ Ages
  BY <1>0, <1>3 DEF Gains, Keeps, Ages
<1>5. Local(n)
  BY <1>0, <1>1 DEF Local, SetHandler, TypeOK
<1> QED  BY <1>4, <1>5 DEF Effects

(* A handler settles its row, which is not running afterwards.             *)
LEMMA SettleEffects ==
  ASSUME TypeOK, NEW n \in Nodes, NEW s \in Slots, Settle(n, s)
  PROVE  Effects(n)
<1>0. /\ UNCHANGED <<queue, pump, enq>> /\ SetHandler(n, s, Idle)
      /\ handler[n][s].result # "none" /\ NoTask \notin Tasks
  BY OutboxAssumption DEF Settle, NoTask
<1>1. PICK t0 \in Tasks : t0 = handler[n][s].task
  BY <1>0, HandlingFacts DEF TypeOK
<1>2. SettledRow(handler[n][s].result) \in {DeletedRow, DelayedRow, DeadRow}
  BY DEF SettledRow
<1>3. PICK r \in {DeletedRow, DelayedRow, DeadRow} : Update({t0}, r) \/ (UNCHANGED row /\ Fault)
  BY <1>1, <1>2 DEF Settle
<1>4. Ages
  BY <1>3, UpdateAt, FreshRows DEF Ages
<1>5. \A q \in Slots : handler'[n][q] = IF q = s THEN Idle ELSE handler[n][q]
  BY <1>0, SetHandlerAt
<1>6. Gains(n)
  <2> SUFFICES ASSUME NEW t \in Tasks, HeldAt(n, t)' PROVE HeldAt(n, t)
    BY DEF Gains
  <2>1. ASSUME NEW q \in Slots, handler'[n][q].task = t PROVE handler[n][q].task = t
    BY <1>0, <1>5, <2>1 DEF Idle
  <2> QED  BY <1>0, <2>1 DEF HeldAt, InQueue, Claimed
<1>7. ASSUME faults' = 0 PROVE Keeps(n)
  <2>0. Update({t0}, r)
    BY <1>3, <1>7, FaultCounts
  <2> SUFFICES ASSUME NEW t \in Tasks, row'[t].status = "running", HeldAt(n, t)
               PROVE  HeldAt(n, t)'
    BY <2>0, <1>3, UpdateAt, FreshRows DEF Keeps
  <2>1. t # t0
    BY <1>3, <2>0, UpdateAt, FreshRows, AbsentNotRunning
  <2>2. ASSUME NEW q \in Slots, handler[n][q].task = t PROVE handler'[n][q].task = t
    BY <1>1, <1>5, <2>1, <2>2
  <2> QED  BY <1>0, <2>2 DEF HeldAt, InQueue, Claimed
<1>8. Local(n)
  BY <1>0 DEF Local, SetHandler, TypeOK
<1> QED  BY <1>4, <1>6, <1>7, <1>8 DEF Effects

(* Start, recovery and stop signal.                                        *)
LEMMA LifeEffects ==
  ASSUME TypeOK, NEW n \in Nodes,
         Start(n) \/ RecoverReclaim(n) \/ RecoverSelect(n) \/ StopSignal(n)
  PROVE  Effects(n)
<1>1. UNCHANGED <<queue, pump, handler, enq>>
  BY DEF Start, RecoverReclaim, RecoverSelect, StopSignal
<1>2. \A t \in Tasks : row'[t] = DueRow \/ row'[t] = row[t]
  BY DEF Start, RecoverReclaim, RecoverSelect, StopSignal, ReclaimStaleRunning
<1>3. Ages /\ \A t \in Tasks : row'[t].status = "running" => row[t].status = "running"
  BY <1>2, FreshRows DEF Ages
<1> QED  BY <1>1, <1>3, QuietEffects

(* The recovery hands a row to its own call.                               *)
LEMMA RecoverNextEffects ==
  ASSUME TypeOK, NEW n \in Nodes, RecoverNext(n)
  PROVE  Effects(n)
<1>0. /\ UNCHANGED <<row, queue, pump, handler>> /\ enq[n]["recovery"] = NoCall
      /\ "recovery" \in Enqueuers
  BY DEF RecoverNext, Enqueuers
<1>1. Ages /\ enq[n]["recovery"].pc # "claimed"
  BY <1>0 DEF Ages, NoCall
<1>2. CASE UNCHANGED enq
  BY <1>0, <1>1, <1>2, QuietEffects
<1>3. ASSUME NEW t \in Tasks, SetCall(n, "recovery", [pc |-> "begin", task |-> t])
      PROVE  Effects(n)
  BY <1>0, <1>1, <1>3, CallEffects
<1>4. UNCHANGED enq \/ \E t \in Tasks : SetCall(n, "recovery", [pc |-> "begin", task |-> t])
  BY RecoveryFacts DEF RecoverNext, TypeOK
<1> QED  BY <1>2, <1>3, <1>4

(* A process loses its claims only by a fault.                             *)
LEMMA EndEffects ==
  ASSUME TypeOK, Steady, NEW n \in Nodes, WorkerExit(n) \/ ProcessExit(n) \/ Crash(n)
  PROVE  Effects(n)
<1>0. faults' # 0 /\ UNCHANGED row
  BY FaultCounts DEF WorkerExit, ProcessExit, Crash, Forget, Steady, NoFault
<1>1. Local(n) /\ Ages
  BY <1>0 DEF WorkerExit, ProcessExit, Crash, Forget, Local, Ages, TypeOK
<1>2. queue'[n] = <<>>
  BY DEF WorkerExit, ProcessExit, Crash, Forget, TypeOK
<1>3. \/ pump'[n] = pump[n] /\ handler'[n] = handler[n] /\ enq'[n] = enq[n]
      \/ /\ pump'[n] = PumpIdle /\ handler'[n] = [s \in Slots |-> Idle]
         /\ enq'[n] = [c \in Enqueuers |-> NoCall]
  BY DEF WorkerExit, ProcessExit, Crash, Forget, TypeOK
<1>4. NoTask \notin Tasks
  BY OutboxAssumption DEF NoTask
<1>5. Gains(n)
  BY <1>2, <1>3, <1>4 DEF Gains, HeldAt, InQueue, Claimed, PumpIdle, Idle, NoCall
<1> QED  BY <1>0, <1>1, <1>5 DEF Effects

(* Every step of a process.                                                *)
LEMMA NodeEffects ==
  ASSUME TypeOK, Steady, NEW n \in Nodes, NodeStep(n)
  PROVE  Effects(n)
<1>1. CASE \E c \in Enqueuers : Submit(n, c) \/ EnqueueStep(n, c) \/ CancelSubmit(n, c)
  BY <1>1, CallStepEffects, SendEffects DEF EnqueueStep
<1>2. CASE PullStep(n)
  BY <1>2, PullEffects, PumpRowEffects DEF PullStep
<1>3. CASE \E s \in Slots : HandlerStep(n, s)
  BY <1>3, ExecuteEffects, SettleEffects DEF HandlerStep
<1>4. CASE Start(n) \/ RecoverStep(n) \/ StopSignal(n)
  BY <1>4, LifeEffects, RecoverNextEffects DEF RecoverStep
<1>5. CASE StopStep(n) \/ Crash(n)
  BY <1>5, EndEffects DEF StopStep
<1> QED  BY <1>1, <1>2, <1>3, <1>4, <1>5, RecvEffects DEF NodeStep

-----------------------------------------------------------------------------
(***************************************************************************)
(* Rows are stranded by faults only.                                       *)
(***************************************************************************)
(* The steps that move the pull task leave it without a batch unless it is *)
(* in its loop or gives rows back.                                         *)
BatchInHand(p) == p.pc \in {"reclaim", "claim"} => p.todo = {}

(* A slot stays reserved under an open channel before any fault.           *)
LEMMA ReservingStep ==
  ASSUME TypeOK, NEW n \in Nodes, NEW c \in Enqueuers, NEW k, SetCall(n, c, k)
  PROVE  /\ \A m \in Nodes : m # n => Reserving(m)' = Reserving(m)
         /\ k.pc \in {"reserved", "claimed"} => Reserving(n)' = Reserving(n) \cup {c}
         /\ k.pc \notin {"reserved", "claimed"} => Reserving(n)' = Reserving(n) \ {c}
<1>1. /\ enq'[n][c] = k
      /\ \A m \in Nodes, d \in Enqueuers : m # n \/ d # c => enq'[m][d] = enq[m][d]
  BY SetCallHolds
<1>2. ASSUME NEW m \in Nodes, m # n PROVE Reserving(m)' = Reserving(m)
  BY <1>1, <1>2 DEF Reserving
<1>3. CASE k.pc \in {"reserved", "claimed"}
  BY <1>1, <1>2, <1>3 DEF Reserving
<1>4. CASE k.pc \notin {"reserved", "claimed"}
  BY <1>1, <1>2, <1>4 DEF Reserving
<1> QED  BY <1>3, <1>4

(* The part of Steady about the pull task.                                 *)
LEMMA BatchStep ==
  ASSUME TypeOK, \A n \in Nodes : BatchInHand(pump[n]), [Next]_vars
  PROVE  \A n \in Nodes : BatchInHand(pump'[n])
<1>1. ASSUME NEW n \in Nodes, NEW p, SetPump(n, p), BatchInHand(p)
      PROVE  \A m \in Nodes : BatchInHand(pump'[m])
  BY <1>1, SetPumpHolds
<1>2. BatchInHand(PumpIdle) /\ \A S : BatchInHand([pc |-> "loop", todo |-> S])
        /\ BatchInHand([pc |-> "requeue", todo |-> S])
  BY DEF BatchInHand, PumpIdle
<1>3. BatchInHand([pc |-> "reclaim", todo |-> {}]) /\ BatchInHand([pc |-> "claim", todo |-> {}])
  BY DEF BatchInHand
<1>4. ASSUME NEW n \in Nodes, PullStep(n) PROVE \A m \in Nodes : BatchInHand(pump'[m])
  <2>1. PICK p : SetPump(n, p) /\ BatchInHand(p)
    <3>1. CASE PullTick(n) \/ PullReclaim(n) \/ PumpRequeue(n)
      BY <1>2, <1>3, <3>1 DEF PullTick, PullReclaim, PumpRequeue
    <3>2. CASE PumpClaim(n)
      BY <1>2, <3>2 DEF PumpClaim
    <3>3. CASE PumpRow(n)
      BY <1>2, <3>3 DEF PumpRow
    <3> QED  BY <1>4, <3>1, <3>2, <3>3 DEF PullStep
  <2> QED  BY <1>1, <2>1
<1>5. ASSUME NEW n \in Nodes, Forget(n) PROVE \A m \in Nodes : BatchInHand(pump'[m])
  <2>1. \A m \in Nodes : pump'[m] \in {PumpIdle, pump[m]}
    BY <1>5 DEF Forget, TypeOK
  <2> QED  BY <1>2, <2>1
<1>6. CASE UNCHANGED pump
  BY <1>6
<1>7. ASSUME NEW n \in Nodes, NodeStep(n) PROVE PullStep(n) \/ Forget(n) \/ UNCHANGED pump
  <2>1. CASE \E c \in Enqueuers : Submit(n, c) \/ EnqueueStep(n, c) \/ CancelSubmit(n, c)
    BY <2>1 DEF Submit, EnqueueStep, TryReserveSlot, MarkRunning, Send, CancelSubmit
  <2>2. CASE WorkerRecv(n) \/ (\E s \in Slots : HandlerStep(n, s))
    BY <2>2 DEF WorkerRecv, HandlerStep, Execute, Settle
  <2>3. CASE Start(n) \/ RecoverStep(n) \/ StopSignal(n)
    BY <2>3 DEF Start, RecoverStep, RecoverReclaim, RecoverSelect, RecoverNext, StopSignal
  <2>4. CASE StopStep(n) \/ Crash(n)
    BY <2>4 DEF StopStep, WorkerExit, ProcessExit, Crash
  <2> QED  BY <1>7, <2>1, <2>2, <2>3, <2>4 DEF NodeStep
<1>8. ASSUME NEW t \in Tasks, BecomeDue(t) \/ BecomeStale(t) PROVE UNCHANGED pump
  BY <1>8 DEF BecomeDue, BecomeStale, nodeVars
<1>9. UNCHANGED vars => UNCHANGED pump
  BY DEF vars
<1> QED  BY <1>4, <1>5, <1>6, <1>7, <1>8, <1>9 DEF Next

(* The number of faults never goes down.                                   *)
LEMMA FaultsGrow ==
  ASSUME [Next]_vars
  PROVE  faults' = faults \/ faults' = faults + 1
<1>1. ASSUME NEW n \in Nodes, NodeStep(n) PROVE UNCHANGED faults \/ Fault
  <2>1. CASE \E c \in Enqueuers : Submit(n, c) \/ EnqueueStep(n, c) \/ CancelSubmit(n, c)
    BY <2>1 DEF Submit, EnqueueStep, TryReserveSlot, MarkRunning, Send, CancelSubmit, NoFault
  <2>2. CASE PullStep(n)
    BY <2>2 DEF PullStep, PullTick, PullReclaim, PumpClaim, PumpRow, PumpRequeue, NoFault
  <2>3. CASE WorkerRecv(n) \/ (\E s \in Slots : HandlerStep(n, s))
    BY <2>3 DEF WorkerRecv, HandlerStep, Execute, Settle, NoFault
  <2>4. CASE Start(n) \/ RecoverStep(n) \/ StopSignal(n)
    BY <2>4 DEF Start, RecoverStep, RecoverReclaim, RecoverSelect, RecoverNext, StopSignal, NoFault
  <2>5. CASE StopStep(n) \/ Crash(n)
    BY <2>5 DEF StopStep, WorkerExit, ProcessExit, Crash, NoFault
  <2> QED  BY <1>1, <2>1, <2>2, <2>3, <2>4, <2>5 DEF NodeStep
<1>2. Fault => faults' = faults + 1
  BY DEF Fault
<1> QED  BY <1>1, <1>2 DEF Next, BecomeDue, BecomeStale, vars

(* The part of Steady about stops and channels.                            *)
Serving(n) == phase[n] # "stopping" /\ (Reserving(n) # {} => chan[n] = "open")

(* Before any fault no process stops and no channel closes.                *)
LEMMA ServingStep ==
  ASSUME TypeOK, faults = 0 => \A n \in Nodes : Serving(n), [Next]_vars
  PROVE  faults' = 0 => \A n \in Nodes : Serving(n)'
<1> SUFFICES ASSUME faults' = 0 PROVE \A n \in Nodes : Serving(n)'
  OBVIOUS
<1>0. faults = 0 /\ \A n \in Nodes : Serving(n)
  BY FaultsGrow DEF TypeOK
<1>1. ASSUME UNCHANGED <<phase, chan, enq>> PROVE \A n \in Nodes : Serving(n)'
  BY <1>0, <1>1 DEF Serving, Reserving
<1>2. ASSUME NEW n \in Nodes, NEW c \in Enqueuers, NEW k, SetCall(n, c, k), UNCHANGED chan,
             \A m \in Nodes : phase'[m] # "stopping",
             k.pc \in {"reserved", "claimed"} => chan[n] = "open" \/ c \in Reserving(n)
      PROVE  \A m \in Nodes : Serving(m)'
  BY <1>0, <1>2, ReservingStep DEF Serving
<1>3. ASSUME NEW n \in Nodes, UNCHANGED enq, \A m \in Nodes : phase'[m] # "stopping",
             \A m \in Nodes : chan'[m] \in {chan[m], "open"}
      PROVE  \A m \in Nodes : Serving(m)'
  BY <1>0, <1>3 DEF Serving, Reserving
<1>4. \A n \in Nodes : phase[n] # "stopping"
  BY <1>0 DEF Serving
<1>5. ASSUME NEW n \in Nodes, NEW p, SetPhase(n, p), p # "stopping"
      PROVE  \A m \in Nodes : phase'[m] # "stopping"
  BY <1>4, <1>5 DEF SetPhase, TypeOK
<1>6. ASSUME NEW n \in Nodes, NEW c \in Enqueuers, Submit(n, c) \/ EnqueueStep(n, c)
      PROVE  \A m \in Nodes : Serving(m)'
  <2>1. UNCHANGED <<chan, phase>>
    BY <1>6 DEF Submit, EnqueueStep, TryReserveSlot, MarkRunning, Send
  <2>2. PICK k : /\ SetCall(n, c, k)
                 /\ k.pc \in {"reserved", "claimed"} => chan[n] = "open" \/ c \in Reserving(n)
    <3>0. CASE Submit(n, c)
      <4>1. PICK t \in Tasks : SetCall(n, c, [pc |-> "begin", task |-> t])
        BY <3>0 DEF Submit
      <4>2. [pc |-> "begin", task |-> t].pc \notin {"reserved", "claimed"}
        OBVIOUS
      <4> QED  BY <4>1, <4>2
    <3>1. CASE Send(n, c)
      BY <3>1 DEF Send, NoCall
    <3>2. CASE TryReserveSlot(n, c)
      BY <3>2 DEF TryReserveSlot, NoCall, HasSlot
    <3>3. CASE MarkRunning(n, c)
      <4>1. c \in Reserving(n)
        BY <3>3 DEF MarkRunning, Reserving
      <4> QED  BY <3>3, <4>1 DEF MarkRunning
    <3> QED  BY <1>6, <3>0, <3>1, <3>2, <3>3 DEF EnqueueStep
  <2> QED  BY <1>2, <1>4, <2>1, <2>2
<1>7. ASSUME NEW n \in Nodes, Start(n) PROVE \A m \in Nodes : Serving(m)'
  <2>1. \A m \in Nodes : phase'[m] # "stopping"
    BY <1>5, <1>7 DEF Start
  <2>2. \A m \in Nodes : chan'[m] \in {chan[m], "open"}
    BY <1>7 DEF Start, TypeOK
  <2> QED  BY <1>3, <1>7, <2>1, <2>2 DEF Start
<1>8. ASSUME NEW n \in Nodes, RecoverStep(n) PROVE \A m \in Nodes : Serving(m)'
  <2>1. \A m \in Nodes : phase'[m] # "stopping"
    BY <1>4, <1>5, <1>8 DEF RecoverStep, RecoverReclaim, RecoverSelect, RecoverNext, EndRecovery
  <2>2. UNCHANGED chan
    BY <1>8 DEF RecoverStep, RecoverReclaim, RecoverSelect, RecoverNext
  <2>3. UNCHANGED enq \/ \E t : SetCall(n, "recovery", [pc |-> "begin", task |-> t])
    BY <1>8 DEF RecoverStep, RecoverReclaim, RecoverSelect, RecoverNext
  <2>4. CASE UNCHANGED enq
    BY <1>3, <2>1, <2>2, <2>4
  <2>5. ASSUME NEW t, SetCall(n, "recovery", [pc |-> "begin", task |-> t])
        PROVE  \A m \in Nodes : Serving(m)'
    <3>1. "recovery" \in Enqueuers
      BY DEF Enqueuers
    <3> QED  BY <1>2, <2>1, <2>2, <2>5, <3>1
  <2> QED  BY <2>3, <2>4, <2>5
<1>9. ASSUME NEW n \in Nodes, StopSignal(n) \/ StopStep(n) \/ Crash(n)
               \/ \E c \in Enqueuers : CancelSubmit(n, c)
      PROVE  FALSE
  BY <1>4, <1>9, FaultCounts
  DEF CancelSubmit, StopSignal, StopStep, WorkerExit, ProcessExit, Crash
<1>10. ASSUME NEW n \in Nodes,
              PullStep(n) \/ WorkerRecv(n) \/ (\E s \in Slots : HandlerStep(n, s))
       PROVE  UNCHANGED <<phase, chan, enq>>
  BY <1>10 DEF PullStep, PullTick, PullReclaim, PumpClaim, PumpRow, PumpRequeue,
       WorkerRecv, HandlerStep, Execute, Settle
<1>11. ASSUME NEW t \in Tasks, BecomeDue(t) \/ BecomeStale(t) PROVE UNCHANGED <<phase, chan, enq>>
  BY <1>11 DEF BecomeDue, BecomeStale, nodeVars
<1>12. UNCHANGED vars => UNCHANGED <<phase, chan, enq>>
  BY DEF vars
<1>13. ASSUME NEW n \in Nodes, NodeStep(n) PROVE \A m \in Nodes : Serving(m)'
  BY <1>1, <1>6, <1>7, <1>8, <1>9, <1>10, <1>13 DEF NodeStep
<1> QED  BY <1>1, <1>11, <1>12, <1>13 DEF Next

(* Steady, by its parts.                                                   *)
LEMMA SteadyParts ==
  Steady <=> /\ \A n \in Nodes : BatchInHand(pump[n])
             /\ faults = 0 => \A n \in Nodes : Serving(n)
BY DEF Steady, BatchInHand, Serving

(* It holds at the start.                                                  *)
LEMMA SteadyInit == Init => Steady
BY DEF Init, Steady, PumpIdle, Reserving, NoCall

(* Every step keeps it.                                                    *)
LEMMA SteadyStep == TypeOK /\ Steady /\ [Next]_vars => Steady'
<1> SUFFICES ASSUME TypeOK, Steady, [Next]_vars PROVE Steady'
  OBVIOUS
<1>1. /\ \A n \in Nodes : BatchInHand(pump'[n])
      /\ faults' = 0 => \A n \in Nodes : Serving(n)'
  BY SteadyParts, BatchStep, ServingStep
<1> QED  BY <1>1 DEF Steady, BatchInHand, Serving

(* It is an invariant.                                                     *)
LEMMA AlwaysSteady == Spec => []Steady
BY SteadyInit, SteadyStep, TypeCorrect, PTL DEF Spec

(* What a step of one process keeps.                                       *)
LEMMA StrandedStep ==
  TypeOK /\ Steady /\ StrandedOnlyByFault /\ [Next]_vars => StrandedOnlyByFault'
<1> SUFFICES ASSUME TypeOK, Steady, StrandedOnlyByFault, [Next]_vars, faults' = 0,
                    NEW t \in Tasks, row'[t].status = "running"
             PROVE  Held(t)'
  BY DEF StrandedOnlyByFault
<1>0. row[t].status = "running" => Held(t)
  BY FaultsGrow DEF TypeOK, StrandedOnlyByFault
<1>1. ASSUME NEW n \in Nodes, NodeStep(n) PROVE Held(t)'
  <2>1. Effects(n)
    BY <1>1, NodeEffects
  <2>2. CASE HeldAt(n, t)'
    BY <2>2, HeldSomewhereNext
  <2>3. CASE row[t].status = "running" /\ ~HeldAt(n, t)
    <3>1. PICK m \in Nodes : HeldAt(m, t) /\ m # n
      BY <1>0, <2>3, HeldSomewhere
    <3>2. HeldAt(m, t)'
      BY <2>1, <3>1 DEF Effects, Local, HeldAt, InQueue, Claimed
    <3> QED  BY <3>2, HeldSomewhereNext
  <2> QED  BY <2>1, <2>2, <2>3 DEF Effects, Keeps
<1>2. CASE UNCHANGED nodeVars
  <2>1. \A m \in Nodes : HeldAt(m, t)' <=> HeldAt(m, t)
    BY <1>2 DEF nodeVars, HeldAt, InQueue, Claimed
  <2>2. row[t].status = "running" => Held(t)'
    BY <1>0, <2>1, HeldSomewhere, HeldSomewhereNext
  <2>3. ASSUME NEW u \in Tasks, BecomeDue(u) \/ BecomeStale(u) PROVE row[t].status = "running"
    <3>1. \/ row' = [row EXCEPT ![u] = DueRow]
          \/ row' = [row EXCEPT ![u] = StaleRow] /\ row[u].status = "running"
      BY <2>3 DEF BecomeDue, BecomeStale
    <3>2. row'[t] = row[t] \/ row'[t] = DueRow \/ (t = u /\ row[u].status = "running")
      BY <3>1 DEF TypeOK
    <3> QED  BY <3>2, FreshRows
  <2>4. UNCHANGED vars => row[t].status = "running"
    BY DEF vars
  <2> QED  BY <1>1, <2>2, <2>3, <2>4 DEF Next
<1> QED  BY <1>1, <1>2 DEF Next, BecomeDue, BecomeStale, vars, nodeVars

(* Without a crash, stop, cancellation or failed statement no row is left  *)
(* running with nobody holding it, whichever of submit, pump, recovery and *)
(* handlers touch it and in whichever processes: only faults need the      *)
(* stale reclaim.                                                          *)
THEOREM FaultsAloneStrand == Spec => []StrandedOnlyByFault
<1>1. Init => StrandedOnlyByFault
  BY DEF Init, StrandedOnlyByFault, DueRow, NoRow
<1> QED  BY <1>1, StrandedStep, AlwaysSteady, TypeCorrect, PTL DEF Spec

-----------------------------------------------------------------------------
(***************************************************************************)
(* The outbox implements the ledger, when every claim is settled within    *)
(* the running timeout: then no reclaim takes a row from a living holder.  *)
(***************************************************************************)
Timely == \A t \in Tasks : ~late[t] /\ (row[t].stale => ~Held(t))

(* Only the reclaim writes the history variable.                           *)
LEMMA LateStep ==
  ASSUME NEW n \in Nodes, NodeStep(n)
  PROVE  \/ UNCHANGED late
         \/ late' = [t \in Tasks |-> late[t] \/ (t \in StaleRunning /\ Held(t))]
<1>1. CASE \E c \in Enqueuers : Submit(n, c) \/ EnqueueStep(n, c) \/ CancelSubmit(n, c)
  BY <1>1 DEF Submit, EnqueueStep, TryReserveSlot, MarkRunning, Send, CancelSubmit
<1>2. CASE PullStep(n)
  BY <1>2 DEF PullStep, PullTick, PullReclaim, PumpClaim, PumpRow, PumpRequeue,
       ReclaimStaleRunning
<1>3. CASE WorkerRecv(n) \/ (\E s \in Slots : HandlerStep(n, s))
  BY <1>3 DEF WorkerRecv, HandlerStep, Execute, Settle
<1>4. CASE Start(n) \/ RecoverStep(n) \/ StopSignal(n)
  BY <1>4 DEF Start, RecoverStep, RecoverReclaim, RecoverSelect, RecoverNext, StopSignal,
       ReclaimStaleRunning
<1>5. CASE StopStep(n) \/ Crash(n)
  BY <1>5 DEF StopStep, WorkerExit, ProcessExit, Crash, Forget
<1> QED  BY <1>1, <1>2, <1>3, <1>4, <1>5 DEF NodeStep

(* A stale row is taken by nobody before the reclaim makes it due.         *)
LEMMA TimelyStep ==
  ~AllowLate /\ TypeOK /\ Steady /\ Timely /\ [Next]_vars => Timely'
<1> SUFFICES ASSUME ~AllowLate, TypeOK, Steady, Timely, [Next]_vars PROVE Timely'
  OBVIOUS
<1>1. ASSUME NEW n \in Nodes, NodeStep(n), NEW t \in Tasks
      PROVE  ~late'[t] /\ (row'[t].stale => ~Held(t)')
  <2>1. Effects(n)
    BY <1>1, NodeEffects
  <2>2. ~late'[t]
    <3>1. t \in StaleRunning => ~Held(t)
      BY DEF Timely, StaleRunning
    <3> QED  BY <1>1, <3>1, LateStep DEF Timely
  <2>3. ASSUME row'[t].stale, NEW m \in Nodes, HeldAt(m, t)' PROVE FALSE
    <3>1. ~Held(t)
      BY <2>1, <2>3 DEF Effects, Ages, Timely
    <3>2. ~HeldAt(m, t)
      BY <3>1, HeldSomewhere
    <3>3. CASE m = n
      BY <2>1, <2>3, <3>2, <3>3 DEF Effects, Gains
    <3>4. CASE m # n
      <4>1. HeldAt(m, t)' <=> HeldAt(m, t)
        BY <2>1, <3>4 DEF Effects, Local, HeldAt, InQueue, Claimed
      <4> QED  BY <2>3, <3>2, <4>1
    <3> QED  BY <3>3, <3>4
  <2> QED  BY <2>2, <2>3, HeldSomewhereNext
<1>2. ASSUME UNCHANGED <<nodeVars, late>>, NEW t \in Tasks PROVE Held(t)' <=> Held(t)
  BY <1>2 DEF nodeVars, Held, Holds, InQueue, Claimed
<1>3. ASSUME NEW u \in Tasks, BecomeDue(u) \/ BecomeStale(u), NEW t \in Tasks
      PROVE  ~late'[t] /\ (row'[t].stale => ~Held(t)')
  <2>0. UNCHANGED <<nodeVars, late>>
    BY <1>3 DEF BecomeDue, BecomeStale
  <2>1. row' = [row EXCEPT ![u] = DueRow] \/ (row' = [row EXCEPT ![u] = StaleRow] /\ ~Held(u))
    BY <1>3 DEF BecomeDue, BecomeStale
  <2>2. row'[t] = row[t] \/ row'[t] = DueRow \/ (t = u /\ ~Held(u))
    BY <2>1 DEF TypeOK
  <2> QED  BY <1>2, <2>0, <2>2, FreshRows DEF Timely
<1>4. CASE UNCHANGED vars
  BY <1>2, <1>4 DEF vars, nodeVars, Timely
<1>5. CASE Next
  BY <1>1, <1>3, <1>5 DEF Next, Timely
<1> QED  BY <1>4, <1>5

(* So it holds throughout.                                                 *)
LEMMA AlwaysTimely ==
  ASSUME ~AllowLate
  PROVE  Spec => []Timely
<1>1. Init => Timely
  BY DEF Init, Timely, NoRow, DueRow
<1>2. TypeOK /\ Steady /\ Timely /\ [Next]_vars => Timely'
  BY TimelyStep
<1> QED  BY <1>1, <1>2, AlwaysSteady, TypeCorrect, PTL DEF Spec

-----------------------------------------------------------------------------
(***************************************************************************)
(* The refinement, step by step.                                           *)
(***************************************************************************)
Open(t) == row[t].status \in {"pending", "running"}

(* The statuses a row may change between without the ledger seeing it.     *)
SameBook == \A t \in Tasks : row'[t].status = row[t].status \/ (Open(t) /\ Open(t)')

(* The row of one command changes its place in the ledger.                 *)
Moves(t, status) == /\ row'[t].status = status
                    /\ \A u \in Tasks : u # t => row'[u].status = row[u].status

(* What the ledger shows of each status.                                   *)
LEMMA LedgerStates ==
  /\ LedgerState("none") = "absent" /\ LedgerState("deleted") = "done"
  /\ LedgerState("dead") = "dead"
  /\ LedgerState("pending") = "open" /\ LedgerState("running") = "open"
BY DEF LedgerState

(* A held row is running.                                                  *)
LEMMA HeldOpen ==
  ASSUME Timely, ExclusiveClaim, NEW n \in Nodes, NEW t \in Tasks, HeldAt(n, t)
  PROVE  row[t].status = "running"
BY HeldSomewhere DEF Timely, ExclusiveClaim, HolderMarked

(* Steps the ledger does not see.                                          *)
LEMMA BookUnseen ==
  ASSUME SameBook, UNCHANGED succeeded
  PROVE  UNCHANGED Ledger!ledgerVars
<1>1. \A t \in Tasks : LedgerState(row[t].status)' = LedgerState(row[t].status)
  BY LedgerStates DEF SameBook, Open
<1> QED  BY <1>1 DEF Ledger!ledgerVars

(* submit: Accept.                                                         *)
LEMMA BookAccept ==
  ASSUME NEW t \in Tasks, row[t].status = "none", Moves(t, "pending"), UNCHANGED succeeded
  PROVE  Ledger!Accept(t)
<1>1. \A u \in Tasks : LedgerState(row'[u].status) =
        IF u = t THEN "open" ELSE LedgerState(row[u].status)
  BY LedgerStates DEF Moves
<1> QED  BY <1>1, LedgerStates DEF Ledger!Accept

(* A command has run with success: Perform.                                *)
LEMMA BookPerform ==
  ASSUME NEW t \in Tasks, Open(t), UNCHANGED row, succeeded' = succeeded \cup {t}
  PROVE  Ledger!Perform(t)
BY LedgerStates DEF Ledger!Perform, Open

(* delete_outbox_row: Complete.                                            *)
LEMMA BookComplete ==
  ASSUME NEW t \in Tasks, Open(t), t \in succeeded, Moves(t, "deleted"), UNCHANGED succeeded
  PROVE  Ledger!Complete(t)
<1>1. \A u \in Tasks : LedgerState(row'[u].status) =
        IF u = t THEN "done" ELSE LedgerState(row[u].status)
  BY LedgerStates DEF Moves
<1> QED  BY <1>1, LedgerStates DEF Ledger!Complete, Open

(* mark_outbox_dead: Bury.                                                 *)
LEMMA BookBury ==
  ASSUME NEW t \in Tasks, Open(t), Moves(t, "dead"), UNCHANGED succeeded
  PROVE  Ledger!Bury(t)
<1>1. \A u \in Tasks : LedgerState(row'[u].status) =
        IF u = t THEN "dead" ELSE LedgerState(row[u].status)
  BY LedgerStates DEF Moves
<1> QED  BY <1>1, LedgerStates DEF Ledger!Bury, Open

(* What has to hold for the steps to be steps of the ledger.               *)
BookInv == TypeOK /\ Timely /\ ExclusiveClaim /\ OkExecuted

LedgerStep == [Ledger!LedgerNext]_(Ledger!ledgerVars)

(* Rows written as pending or running were open.                           *)
LEMMA UpdateBook ==
  ASSUME NEW S, NEW r, r.status \in {"pending", "running"}, Update(S, r),
         \A t \in Tasks : t \in S => Open(t)
  PROVE  SameBook
<1>1. ASSUME NEW t \in Tasks PROVE row'[t].status = row[t].status \/ (Open(t) /\ Open(t)')
  BY UpdateAt DEF Open
<1> QED  BY <1>1 DEF SameBook

(* The same for a statement on one row.                                    *)
LEMMA AssignBook ==
  ASSUME TypeOK, NEW t \in Tasks, NEW r, r.status \in {"pending", "running"}, Open(t),
         row' = [row EXCEPT ![t] = r]
  PROVE  SameBook
BY DEF TypeOK, SameBook, Open

(* Calls of try_enqueue_outbox_task.                                       *)
LEMMA CallBook ==
  ASSUME BookInv, NEW n \in Nodes, NEW c \in Enqueuers,
         Submit(n, c) \/ EnqueueStep(n, c) \/ CancelSubmit(n, c)
  PROVE  LedgerStep
<1>0. TypeOK
  BY DEF BookInv
<1>1. CASE Submit(n, c)
  <2>1. PICK t \in Tasks : row[t] = NoRow /\ row' = [row EXCEPT ![t] = DueRow]
    BY <1>1 DEF Submit
  <2>2. row[t].status = "none" /\ Moves(t, "pending") /\ UNCHANGED succeeded
    BY <1>0, <1>1, <2>1 DEF TypeOK, Moves, NoRow, DueRow, Submit
  <2> QED  BY <2>2, BookAccept DEF LedgerStep, Ledger!LedgerNext
<1>2. CASE MarkRunning(n, c)
  <2>1. PICK t \in Tasks : t = enq[n][c].task
    BY <1>0, <1>2, CallFacts DEF TypeOK, MarkRunning
  <2>2. UNCHANGED row \/ (row[t].status = "pending" /\ row' = [row EXCEPT ![t] = RunningRow])
    BY <1>2, <2>1 DEF MarkRunning
  <2>3. SameBook
    BY <1>0, <2>2, FreshRows, AssignBook DEF SameBook, Open
  <2> QED  BY <1>2, <2>3, BookUnseen DEF MarkRunning, LedgerStep
<1>3. CASE UNCHANGED <<row, succeeded>>
  BY <1>3, BookUnseen DEF SameBook, LedgerStep
<1> QED  BY <1>1, <1>2, <1>3 DEF EnqueueStep, TryReserveSlot, Send, CancelSubmit

(* The reclaim: a running row becomes pending.                             *)
LEMMA ReclaimBook ==
  ASSUME ReclaimStaleRunning
  PROVE  SameBook
BY FreshRows DEF ReclaimStaleRunning, SameBook, Open, StaleRunning

(* The pull task: what it gives back and what it buries is held by it.     *)
LEMMA PullBook ==
  ASSUME BookInv, NEW n \in Nodes, PullStep(n)
  PROVE  LedgerStep
<1>0. TypeOK /\ UNCHANGED succeeded
  BY DEF BookInv, PullStep, PullTick, PullReclaim, PumpClaim, PumpRow, PumpRequeue
<1>1. \A t \in Tasks : t \in pump[n].todo => row[t].status = "running"
  BY HeldOpen DEF HeldAt, BookInv
<1>2. CASE UNCHANGED row
  BY <1>0, <1>2, BookUnseen DEF SameBook, LedgerStep
<1>3. CASE ReclaimStaleRunning
  BY <1>0, <1>3, ReclaimBook, BookUnseen DEF LedgerStep
<1>4. CASE Update(FirstBatch(DuePending), RunningRow)
  <2>1. \A t \in Tasks : t \in FirstBatch(DuePending) => Open(t)
    BY DEF FirstBatch, DuePending, Open
  <2> QED  BY <1>0, <1>4, <2>1, UpdateBook, FreshRows, BookUnseen DEF LedgerStep
<1>5. CASE Update(pump[n].todo, DelayedRow)
  BY <1>0, <1>1, <1>5, UpdateBook, FreshRows, BookUnseen DEF LedgerStep, Open
<1>6. ASSUME NEW t \in pump[n].todo, Update({t}, DeadRow) PROVE LedgerStep
  <2>1. t \in Tasks /\ row[t].status = "running"
    BY <1>0, <1>1, <1>6, PumpingFacts DEF TypeOK
  <2>2. Present(t)
    BY <2>1 DEF Present
  <2>3. Moves(t, "dead")
    BY <1>6, <2>1, <2>2, UpdateAt, FreshRows DEF Moves
  <2> QED  BY <1>0, <2>1, <2>3, BookBury DEF LedgerStep, Ledger!LedgerNext, Open
<1> QED  BY <1>2, <1>3, <1>4, <1>5, <1>6
         DEF PullStep, PullTick, PullReclaim, PumpClaim, PumpRow, PumpRequeue

(* Handlers: they hold the row they execute and settle.                    *)
LEMMA HandlerBook ==
  ASSUME BookInv, NEW n \in Nodes, NEW s \in Slots, HandlerStep(n, s)
  PROVE  LedgerStep
<1>0. TypeOK /\ OkExecuted
  BY DEF BookInv
<1>t. PICK t \in Tasks : t = handler[n][s].task
  BY <1>0, HandlingFacts DEF TypeOK, HandlerStep, Execute, Settle
<1>1. row[t].status = "running"
  BY <1>t, HeldOpen DEF HeldAt, BookInv
<1>2. CASE UNCHANGED <<row, succeeded>>
  BY <1>2, BookUnseen DEF SameBook, LedgerStep
<1>3. CASE UNCHANGED row /\ succeeded' = succeeded \cup {t}
  BY <1>1, <1>3, BookPerform DEF LedgerStep, Ledger!LedgerNext, Open
<1>4. CASE /\ Settle(n, s)
           /\ Update({t}, SettledRow(handler[n][s].result)) /\ UNCHANGED succeeded
  <2>0. Present(t)
    BY <1>1 DEF Present
  <2>1. /\ row'[t] = SettledRow(handler[n][s].result)
        /\ \A u \in Tasks : u # t => row'[u] = row[u]
    BY <1>4, <2>0, UpdateAt
  <2>2. CASE handler[n][s].result = "ok"
    <3>1. t \in succeeded
      BY <1>0, <1>t, <2>2 DEF OkExecuted
    <3>2. Moves(t, "deleted")
      BY <2>1, <2>2, FreshRows DEF SettledRow, Moves
    <3> QED  BY <1>1, <1>4, <3>1, <3>2, BookComplete DEF LedgerStep, Ledger!LedgerNext, Open
  <2>3. CASE handler[n][s].result = "retry"
    <3>1. SameBook
      BY <1>1, <2>1, <2>3, FreshRows DEF SettledRow, SameBook, Open
    <3> QED  BY <1>4, <3>1, BookUnseen DEF LedgerStep
  <2>4. CASE handler[n][s].result \notin {"ok", "retry"}
    <3>1. Moves(t, "dead")
      BY <2>1, <2>4, FreshRows DEF SettledRow, Moves
    <3> QED  BY <1>1, <1>4, <3>1, BookBury DEF LedgerStep, Ledger!LedgerNext, Open
  <2> QED  BY <2>2, <2>3, <2>4
<1>5. CASE Execute(n, s)
  BY <1>t, <1>2, <1>3, <1>5 DEF Execute
<1>6. CASE Settle(n, s)
  BY <1>t, <1>2, <1>4, <1>6 DEF Settle
<1> QED  BY <1>5, <1>6 DEF HandlerStep

(* Every step of the outbox is a step of the ledger or none.               *)
LEMMA NextBook ==
  BookInv /\ [Next]_vars => LedgerStep
<1> SUFFICES ASSUME BookInv, [Next]_vars PROVE LedgerStep
  OBVIOUS
<1>0. TypeOK
  BY DEF BookInv
<1>1. CASE UNCHANGED <<row, succeeded>>
  BY <1>1, BookUnseen DEF SameBook, LedgerStep
<1>2. ASSUME NEW n \in Nodes, NodeStep(n) PROVE LedgerStep
  <2>1. CASE RecoverReclaim(n)
    BY <1>1, <2>1, ReclaimBook, BookUnseen DEF RecoverReclaim, LedgerStep
  <2>2. CASE WorkerRecv(n) \/ Start(n) \/ RecoverSelect(n) \/ RecoverNext(n) \/ StopSignal(n)
               \/ StopStep(n) \/ Crash(n)
    BY <1>1, <2>2 DEF WorkerRecv, Start, RecoverSelect, RecoverNext, StopSignal, StopStep,
         WorkerExit, ProcessExit, Crash, Forget
  <2> QED  BY <1>2, <2>1, <2>2, CallBook, PullBook, HandlerBook DEF NodeStep, RecoverStep
<1>3. ASSUME NEW t \in Tasks, BecomeDue(t) \/ BecomeStale(t) PROVE LedgerStep
  <2>1. SameBook
    BY <1>0, <1>3, AssignBook DEF BecomeDue, BecomeStale, Open, DueRow, StaleRow
  <2> QED  BY <1>3, <2>1, BookUnseen DEF BecomeDue, BecomeStale, LedgerStep
<1>4. CASE UNCHANGED vars
  BY <1>1, <1>4 DEF vars
<1> QED  BY <1>2, <1>3, <1>4 DEF Next

(***************************************************************************)
(* The outbox implements the abstract ledger: a submitted command stays    *)
(* open until it has executed with success (and then leaves the table) or  *)
(* is buried as dead, for ever, whatever processes crash, stop, retry or   *)
(* lose answers, as long as every claim is settled within the running      *)
(* timeout (~AllowLate).                                                   *)
(***************************************************************************)
THEOREM LedgerImplemented ==
  ASSUME ~AllowLate
  PROVE  Spec => ImplementsLedger
<1>1. Init => Ledger!LedgerInit
  <2> SUFFICES ASSUME Init PROVE Ledger!LedgerInit
    OBVIOUS
  <2>1. ASSUME NEW t \in Tasks
        PROVE  LedgerState(row[t].status) = IF t \in Foreign THEN "open" ELSE "absent"
    BY LedgerStates DEF Init, NoRow, DueRow
  <2> QED  BY <2>1 DEF Init, Ledger!LedgerInit
<1>2. TypeOK /\ Timely /\ ExclusiveClaim /\ OkExecuted /\ [Next]_vars
        => [Ledger!LedgerNext]_(Ledger!ledgerVars)
  BY NextBook DEF BookInv, LedgerStep
<1> QED
  BY <1>1, <1>2, TypeCorrect, AlwaysTimely, ClaimCorrect, ResultsOwn, PTL
  DEF Spec, ImplementsLedger, Ledger!LedgerSpec

(* What is buried in the ledger stays buried.                              *)
LEMMA BuriedStay ==
  ASSUME LedgerStep, NEW t \in Tasks, LedgerState(row[t].status) = "dead"
  PROVE  LedgerState(row'[t].status) = "dead"
<1> DEFINE book == [u \in Tasks |-> LedgerState(row[u].status)]
<1>1. book[t] = "dead"
  OBVIOUS
<1>2. book'[t] = "dead"
  <2>1. CASE Ledger!LedgerNext
    BY <1>1, <2>1 DEF Ledger!LedgerNext, Ledger!Accept, Ledger!Perform, Ledger!Complete, Ledger!Bury
  <2>2. CASE UNCHANGED Ledger!ledgerVars
    BY <1>1, <2>2 DEF Ledger!ledgerVars
  <2> QED  BY <2>1, <2>2 DEF LedgerStep
<1> QED  BY <1>2

(***************************************************************************)
(* A row marked dead remains for inspection, which the repository's tests  *)
(* expect and mark_outbox_task_dead alone does not give: requeues, retries *)
(* and reclaims of any process update rows by their id.  It holds as long  *)
(* as every claim is settled within the running timeout.                   *)
(***************************************************************************)
THEOREM DeadRowsStay ==
  ASSUME ~AllowLate
  PROVE  Spec => DeadStays
<1>1. TypeOK /\ Timely /\ ExclusiveClaim /\ OkExecuted /\ [Next]_vars
        => [\A t \in Tasks : row[t].status = "dead" => row'[t].status = "dead"]_row
  <2> SUFFICES ASSUME BookInv, [Next]_vars, NEW t \in Tasks, row[t].status = "dead"
               PROVE  row'[t].status = "dead"
    BY DEF BookInv
  <2>1. LedgerStep
    BY NextBook
  <2>2. LedgerState(row'[t].status) = "dead"
    BY <2>1, BuriedStay, LedgerStates
  <2> QED  BY <2>2 DEF LedgerState
<1> QED
  BY <1>1, TypeCorrect, AlwaysTimely, ClaimCorrect, ResultsOwn, PTL DEF Spec, DeadStays

-----------------------------------------------------------------------------
(***************************************************************************)
(* No permit of a channel is lost.  A process that is down has none taken, *)
(* which is what a start begins with.                                      *)
(***************************************************************************)
Blank(n) ==
  /\ permits[n] = QueueSize /\ queue[n] = <<>>
  /\ \A c \in Enqueuers : enq[n][c] = NoCall
  /\ pump[n] = PumpIdle /\ rec[n] = RecOff

Balanced(n) ==
  /\ IsFiniteSet(Reserving(n))
  /\ chan[n] = "open" => permits[n] + Len(queue[n]) + Cardinality(Reserving(n)) = QueueSize
  /\ phase[n] = "down" => Blank(n)

(* The processes other than n see nothing of the step.                     *)
Apart(n) == \A m \in Nodes : m # n =>
  /\ permits'[m] = permits[m] /\ queue'[m] = queue[m] /\ enq'[m] = enq[m]
  /\ chan'[m] = chan[m] /\ phase'[m] = phase[m] /\ pump'[m] = pump[m] /\ rec'[m] = rec[m]

(* ... and keep their balance.                                             *)
LEMMA BalancedApart ==
  ASSUME NEW n \in Nodes, Apart(n), \A m \in Nodes : Balanced(m), Balanced(n)'
  PROVE  \A m \in Nodes : Balanced(m)'
<1>1. ASSUME NEW m \in Nodes, m # n PROVE Balanced(m)'
  <2>1. Reserving(m)' = Reserving(m)
    BY <1>1 DEF Apart, Reserving
  <2>2. Balanced(m)
    OBVIOUS
  <2> QED  BY <1>1, <2>1, <2>2 DEF Apart, Balanced, Blank
<1> QED  BY <1>1

(* Types that the sums need.                                               *)
LEMMA SumTypes ==
  ASSUME TypeOK, NEW n \in Nodes, Balanced(n)
  PROVE  /\ permits[n] \in Nat /\ Len(queue[n]) \in Nat /\ Cardinality(Reserving(n)) \in Nat
         /\ QueueSize \in Nat /\ queue[n] \in Seq(Tasks)
<1>1. queue[n] \in Seq(Tasks)
  BY DEF TypeOK
<1> QED  BY <1>1, FS_CardinalityType, OutboxAssumption DEF TypeOK, Balanced

(* A call reserves, gives back or passes on one slot.                      *)
LEMMA CallBalance ==
  ASSUME TypeOK, NEW n \in Nodes, Balanced(n), NEW c \in Enqueuers, NEW k, SetCall(n, c, k),
         phase'[n] # "down", chan'[n] = chan[n],
         LET in  == c \in Reserving(n)
             in2 == k.pc \in {"reserved", "claimed"}
             sum == permits[n] + Len(queue[n])
             sum2 == permits'[n] + Len(queue'[n])
         IN  chan[n] = "open" =>
               /\ (in <=> in2) => sum2 = sum
               /\ ~in /\ in2 => sum2 = sum - 1
               /\ in /\ ~in2 => sum2 = sum + 1
  PROVE  Balanced(n)'
<1> DEFINE R == Reserving(n)
           S == Reserving(n)'
           sum == permits[n] + Len(queue[n])
           sum2 == permits'[n] + Len(queue'[n])
<1>1. /\ k.pc \in {"reserved", "claimed"} => S = R \cup {c}
      /\ k.pc \notin {"reserved", "claimed"} => S = R \ {c}
  BY ReservingStep
<1>2. IsFiniteSet(R) /\ Cardinality(R) \in Nat /\ sum \in Nat /\ QueueSize \in Nat
  BY SumTypes DEF Balanced
<1>3. /\ IsFiniteSet(R \cup {c}) /\ IsFiniteSet(R \ {c})
      /\ Cardinality(R \cup {c}) = IF c \in R THEN Cardinality(R) ELSE Cardinality(R) + 1
      /\ Cardinality(R \ {c}) = IF c \in R THEN Cardinality(R) - 1 ELSE Cardinality(R)
  <2>0. IsFiniteSet(R)
    BY <1>2
  <2> HIDE DEF R
  <2>1. /\ IsFiniteSet(R \cup {c})
        /\ Cardinality(R \cup {c}) = IF c \in R THEN Cardinality(R) ELSE Cardinality(R) + 1
    BY <2>0, FS_AddElement
  <2>2. /\ IsFiniteSet(R \ {c})
        /\ Cardinality(R \ {c}) = IF c \in R THEN Cardinality(R) - 1 ELSE Cardinality(R)
    BY <2>0, FS_RemoveElement
  <2> QED  BY <2>1, <2>2
<1>4. chan[n] = "open" => sum + Cardinality(R) = QueueSize
  BY DEF Balanced
<1>5. chan[n] = "open" =>
        /\ (c \in R <=> k.pc \in {"reserved", "claimed"}) => sum2 = sum
        /\ c \notin R /\ k.pc \in {"reserved", "claimed"} => sum2 = sum - 1
        /\ c \in R /\ k.pc \notin {"reserved", "claimed"} => sum2 = sum + 1
  OBVIOUS
<1> HIDE DEF R, S, sum, sum2
<1>6. IsFiniteSet(S)
  BY <1>1, <1>3
<1>7. chan[n] = "open" => sum2 + Cardinality(S) = QueueSize
  <2> SUFFICES ASSUME chan[n] = "open" PROVE sum2 + Cardinality(S) = QueueSize
    OBVIOUS
  <2> DEFINE in == c \in R
             in2 == k.pc \in {"reserved", "claimed"}
  <2>1. Cardinality(S) = IF in2 THEN (IF in THEN Cardinality(R) ELSE Cardinality(R) + 1)
                         ELSE (IF in THEN Cardinality(R) - 1 ELSE Cardinality(R))
    BY <1>1, <1>3
  <2>2. sum2 = IF in2 THEN (IF in THEN sum ELSE sum - 1) ELSE (IF in THEN sum + 1 ELSE sum)
    BY <1>5
  <2> HIDE DEF in, in2
  <2> QED  BY <1>2, <1>4, <2>1, <2>2
<1> QED  BY <1>6, <1>7 DEF Balanced, S, sum2

(* A process whose calls, pull task or recovery go on is not down.         *)
LEMMA ActiveNotDown ==
  ASSUME NEW n \in Nodes, Balanced(n),
         \/ \E c \in Enqueuers : enq[n][c].pc # "idle"
         \/ pump[n].pc # "idle" \/ rec[n].pc # "off"
  PROVE  phase[n] # "down"
BY DEF Balanced, Blank, NoCall, PumpIdle, RecOff

(* A step that leaves channel, queue and calls of the process alone.       *)
LEMMA StillBalance ==
  ASSUME NEW n \in Nodes, Balanced(n), phase'[n] # "down" \/ Blank(n)',
         permits'[n] = permits[n], queue'[n] = queue[n], enq'[n] = enq[n],
         chan'[n] = chan[n]
  PROVE  Balanced(n)'
<1>1. Reserving(n)' = Reserving(n)
  BY DEF Reserving
<1> QED  BY <1>1 DEF Balanced

(* try_enqueue_outbox_task: every path returns the permit it took or sends *)
(* with it.                                                                *)
LEMMA CallBalanced ==
  ASSUME TypeOK, NEW n \in Nodes, Balanced(n), NEW c \in Enqueuers,
         Submit(n, c) \/ EnqueueStep(n, c) \/ CancelSubmit(n, c)
  PROVE  Balanced(n)' /\ Apart(n)
<1>0. /\ permits[n] \in Nat /\ Len(queue[n]) \in Nat /\ queue[n] \in Seq(Tasks)
      /\ enq[n][c] \in Call
      /\ UNCHANGED <<chan, phase, pump, rec>>
  BY SumTypes DEF TypeOK, Submit, EnqueueStep, TryReserveSlot, MarkRunning, Send, CancelSubmit
<1>1. phase'[n] # "down"
  BY <1>0, ActiveNotDown
  DEF Submit, EnqueueStep, TryReserveSlot, MarkRunning, Send, CancelSubmit
<1>2. c \in Reserving(n) <=> enq[n][c].pc \in {"reserved", "claimed"}
  BY DEF Reserving
<1>3. Apart(n)
  <2>1. \A m \in Nodes : m # n => enq'[m] = enq[m]
    BY DEF Submit, EnqueueStep, TryReserveSlot, MarkRunning, Send, CancelSubmit, SetCall, TypeOK
  <2>2. \A m \in Nodes : m # n => permits'[m] = permits[m] /\ queue'[m] = queue[m]
    BY DEF Submit, EnqueueStep, TryReserveSlot, MarkRunning, Send, CancelSubmit, TypeOK,
           TakePermit, ReturnPermit
  <2> QED  BY <1>0, <2>1, <2>2 DEF Apart
<1>4. CASE Submit(n, c)
  <2>1. PICK t : SetCall(n, c, [pc |-> "begin", task |-> t])
    BY <1>4 DEF Submit
  <2>2. permits'[n] = permits[n] /\ queue'[n] = queue[n] /\ c \notin Reserving(n)
    BY <1>2, <1>4 DEF Submit, NoCall
  <2> QED  BY <1>0, <1>1, <1>3, <2>1, <2>2, CallBalance
<1>5. CASE TryReserveSlot(n, c)
  <2>1. queue'[n] = queue[n] /\ c \notin Reserving(n)
    BY <1>2, <1>5 DEF TryReserveSlot
  <2>2. CASE TakePermit(n) /\ SetCall(n, c, [pc |-> "reserved", task |-> enq[n][c].task])
    <3>1. permits'[n] = permits[n] - 1
      BY <2>2 DEF TakePermit, TypeOK
    <3>2. PICK k : SetCall(n, c, k) /\ k.pc = "reserved"
      BY <2>2
    <3>3. permits'[n] + Len(queue'[n]) = (permits[n] + Len(queue[n])) - 1
      BY <1>0, <2>1, <3>1
    <3>4. k.pc \in {"reserved", "claimed"} /\ chan'[n] = chan[n]
      BY <1>0, <3>2
    <3> QED  BY <1>1, <1>3, <2>1, <3>2, <3>3, <3>4, CallBalance
  <2>3. CASE SetCall(n, c, NoCall) /\ UNCHANGED permits
    BY <1>0, <1>1, <1>3, <2>1, <2>3, CallBalance DEF NoCall
  <2> QED  BY <1>5, <2>2, <2>3 DEF TryReserveSlot
<1>6. CASE MarkRunning(n, c)
  <2>1. queue'[n] = queue[n] /\ c \in Reserving(n)
    BY <1>2, <1>6 DEF MarkRunning
  <2>2. CASE SetCall(n, c, [pc |-> "claimed", task |-> enq[n][c].task]) /\ UNCHANGED permits
    <3>1. [pc |-> "claimed", task |-> enq[n][c].task].pc = "claimed"
      OBVIOUS
    <3> QED  BY <1>0, <1>1, <1>3, <2>1, <2>2, <3>1, CallBalance
  <2>3. CASE SetCall(n, c, NoCall) /\ ReturnPermit(n)
    <3>1. permits'[n] = permits[n] + 1
      BY <2>3 DEF ReturnPermit, TypeOK
    <3>2. permits'[n] + Len(queue'[n]) = permits[n] + Len(queue[n]) + 1
      BY <1>0, <2>1, <3>1
    <3>3. NoCall.pc \notin {"reserved", "claimed"}
      BY DEF NoCall
    <3> QED  BY <1>0, <1>1, <1>3, <2>1, <2>3, <3>2, <3>3, CallBalance
  <2> QED  BY <1>6, <2>2, <2>3 DEF MarkRunning
<1>7. CASE Send(n, c)
  <2>1. SetCall(n, c, NoCall) /\ c \in Reserving(n) /\ permits'[n] = permits[n]
    BY <1>2, <1>7 DEF Send
  <2>2. enq[n][c].task \in Tasks
    BY <1>0, <1>7, CallFacts DEF Send
  <2>3. chan[n] = "open" => Len(queue'[n]) = Len(queue[n]) + 1
    <3>1. chan[n] = "open" => queue'[n] = Append(queue[n], enq[n][c].task)
      BY <1>7 DEF Send, TypeOK
    <3> QED  BY <1>0, <2>2, <3>1
  <2>4. chan[n] = "open" => permits'[n] + Len(queue'[n]) = permits[n] + Len(queue[n]) + 1
    BY <1>0, <2>1, <2>3
  <2>5. NoCall.pc \notin {"reserved", "claimed"}
    BY DEF NoCall
  <2> QED  BY <1>0, <1>1, <1>3, <2>1, <2>4, <2>5, CallBalance
<1>8. CASE CancelSubmit(n, c)
  <2>1. SetCall(n, c, NoCall) /\ queue'[n] = queue[n] /\ NoCall.pc \notin {"reserved", "claimed"}
    BY <1>8 DEF CancelSubmit, NoCall
  <2>2. CASE enq[n][c].pc = "begin" /\ UNCHANGED permits
    BY <1>0, <1>1, <1>2, <1>3, <2>1, <2>2, CallBalance
  <2>3. CASE enq[n][c].pc # "begin" /\ ReturnPermit(n)
    <3>1. permits'[n] = permits[n] + 1
      BY <2>3 DEF ReturnPermit, TypeOK
    <3>2. permits'[n] + Len(queue'[n]) = permits[n] + Len(queue[n]) + 1
      BY <1>0, <2>1, <3>1
    <3>3. c \in Reserving(n)
      BY <1>0, <1>2, <1>8, <2>3 DEF CancelSubmit, Call, NoCall
    <3> QED  BY <1>0, <1>1, <1>3, <2>1, <3>2, <3>3, CallBalance
  <2> QED  BY <1>8, <2>2, <2>3 DEF CancelSubmit
<1> QED  BY <1>4, <1>5, <1>6, <1>7, <1>8 DEF EnqueueStep

(* The pump sends with a permit of its own.                                *)
LEMMA PullBalanced ==
  ASSUME TypeOK, NEW n \in Nodes, Balanced(n), PullStep(n)
  PROVE  Balanced(n)' /\ Apart(n)
<1>0. /\ permits[n] \in Nat /\ Len(queue[n]) \in Nat /\ queue[n] \in Seq(Tasks)
      /\ Cardinality(Reserving(n)) \in Nat /\ QueueSize \in Nat
      /\ UNCHANGED <<chan, phase, enq, rec>>
  BY SumTypes DEF PullStep, PullTick, PullReclaim, PumpClaim, PumpRow, PumpRequeue
<1>1. phase'[n] # "down"
  BY <1>0, ActiveNotDown DEF PullStep, PullTick, PullReclaim, PumpClaim, PumpRow, PumpRequeue
<1>2. \A m \in Nodes : m # n => pump'[m] = pump[m]
  <2>1. \E p : SetPump(n, p)
    BY DEF PullStep, PullTick, PullReclaim, PumpClaim, PumpRow, PumpRequeue
  <2> QED  BY <2>1, SetPumpHolds
<1>3. CASE UNCHANGED <<permits, queue>>
  BY <1>0, <1>1, <1>2, <1>3, StillBalance DEF Apart
<1>4. ASSUME NEW t \in Tasks, HasSlot(n), TakePermit(n),
             queue' = [queue EXCEPT ![n] = Append(@, t)]
      PROVE  Balanced(n)' /\ Apart(n)
  <2>1. /\ permits'[n] = permits[n] - 1 /\ queue'[n] = Append(queue[n], t)
        /\ \A m \in Nodes : m # n => permits'[m] = permits[m] /\ queue'[m] = queue[m]
    BY <1>4 DEF TakePermit, TypeOK
  <2>2. Len(queue'[n]) = Len(queue[n]) + 1
    BY <1>0, <2>1
  <2>3. Reserving(n)' = Reserving(n)
    BY <1>0 DEF Reserving
  <2>4. Balanced(n)'
    BY <1>0, <1>1, <2>1, <2>2, <2>3 DEF Balanced
  <2> QED  BY <1>0, <1>2, <2>1, <2>4 DEF Apart
<1>5. CASE PumpRow(n)
  <2>1. pump[n].todo \subseteq Tasks
    BY PumpingFacts DEF TypeOK
  <2> QED  BY <1>3, <1>4, <1>5, <2>1 DEF PumpRow
<1> QED  BY <1>3, <1>5 DEF PullStep, PullTick, PullReclaim, PumpClaim, PumpRequeue

(* rx.recv returns the permit of the command it takes.                     *)
LEMMA RecvBalanced ==
  ASSUME TypeOK, NEW n \in Nodes, Balanced(n), WorkerRecv(n)
  PROVE  Balanced(n)' /\ Apart(n)
<1>0. /\ permits[n] \in Nat /\ queue[n] \in Seq(Tasks) /\ queue[n] # <<>>
      /\ Cardinality(Reserving(n)) \in Nat /\ QueueSize \in Nat
      /\ UNCHANGED <<chan, phase, enq, rec, pump>> /\ phase[n] # "down"
  BY SumTypes DEF WorkerRecv
<1>1. /\ permits'[n] = permits[n] + 1 /\ queue'[n] = Tail(queue[n])
      /\ \A m \in Nodes : m # n => permits'[m] = permits[m] /\ queue'[m] = queue[m]
  BY DEF WorkerRecv, ReturnPermit, TypeOK
<1>2. Len(queue'[n]) = Len(queue[n]) - 1 /\ Len(queue[n]) \in Nat
  BY <1>0, <1>1
<1>3. Reserving(n)' = Reserving(n)
  BY <1>0 DEF Reserving
<1>4. Balanced(n)'
  BY <1>0, <1>1, <1>2, <1>3 DEF Balanced
<1> QED  BY <1>0, <1>1, <1>4 DEF Apart

(* Start, recovery, stop and end of a process.                             *)
LEMMA LifeBalanced ==
  ASSUME TypeOK, NEW n \in Nodes, Balanced(n),
         Start(n) \/ RecoverStep(n) \/ StopSignal(n) \/ StopStep(n) \/ Crash(n)
  PROVE  Balanced(n)' /\ Apart(n)
<1>1. CASE Start(n)
  <2>1. Blank(n) /\ UNCHANGED <<permits, queue, enq, pump>>
    BY <1>1 DEF Start, Balanced
  <2>2. Reserving(n)' = {}
    BY <2>1 DEF Blank, Reserving, NoCall
  <2>3. phase'[n] # "down"
    BY <1>1 DEF Start, SetPhase, TypeOK
  <2>4. permits'[n] = QueueSize /\ Len(queue'[n]) = 0 /\ QueueSize \in Nat
    BY <2>1, OutboxAssumption DEF Blank
  <2>5. Balanced(n)'
    BY <2>2, <2>3, <2>4, FS_EmptySet DEF Balanced
  <2>6. Apart(n)
    BY <1>1 DEF Start, Apart, SetPhase, SetRec, TypeOK
  <2> QED  BY <2>5, <2>6
<1>2. CASE \/ RecoverReclaim(n) \/ RecoverSelect(n) \/ StopSignal(n)
           \/ RecoverNext(n) /\ UNCHANGED enq
  <2>1. UNCHANGED <<permits, queue, enq, pump, chan>> /\ phase[n] # "down"
    BY <1>2, ActiveNotDown DEF RecoverReclaim, RecoverSelect, RecoverNext, StopSignal
  <2>2. phase'[n] # "down"
    BY <1>2, <2>1 DEF RecoverReclaim, RecoverSelect, RecoverNext, StopSignal, EndRecovery,
         SetPhase, TypeOK
  <2>3. Apart(n)
    <3>1. \A m \in Nodes : m # n => phase'[m] = phase[m] /\ rec'[m] = rec[m]
      BY <1>2 DEF RecoverReclaim, RecoverSelect, RecoverNext, StopSignal, EndRecovery,
           SetPhase, SetRec, TypeOK
    <3> QED  BY <2>1, <3>1 DEF Apart
  <2> QED  BY <2>1, <2>2, <2>3, StillBalance
<1>3. ASSUME NEW t, RecoverNext(n), SetCall(n, "recovery", [pc |-> "begin", task |-> t])
      PROVE  Balanced(n)' /\ Apart(n)
  <2>1. /\ UNCHANGED <<permits, queue, pump, chan>> /\ phase[n] # "down"
        /\ "recovery" \in Enqueuers /\ "recovery" \notin Reserving(n)
    BY <1>3, ActiveNotDown DEF RecoverNext, Reserving, NoCall, Enqueuers
  <2>2. phase'[n] # "down"
    BY <1>3, <2>1 DEF RecoverNext, EndRecovery, SetPhase, TypeOK
  <2>3. Balanced(n)'
    BY <1>3, <2>1, <2>2, CallBalance
  <2>4. Apart(n)
    <3>1. \A m \in Nodes : m # n => phase'[m] = phase[m] /\ rec'[m] = rec[m] /\ enq'[m] = enq[m]
      BY <1>3 DEF RecoverNext, EndRecovery, SetPhase, SetRec, SetCall, TypeOK
    <3> QED  BY <2>1, <3>1 DEF Apart
  <2> QED  BY <2>3, <2>4
<1>4. CASE WorkerExit(n)
  <2>1. chan'[n] = "closed" /\ phase'[n] # "down" /\ Reserving(n)' = Reserving(n)
    BY <1>4 DEF WorkerExit, TypeOK, Reserving
  <2>2. Apart(n)
    BY <1>4 DEF WorkerExit, TypeOK, Apart
  <2> QED  BY <2>1, <2>2 DEF Balanced
<1>5. CASE Forget(n)
  <2>1. Blank(n)' /\ chan'[n] = "closed"
    BY <1>5 DEF Forget, Blank, TypeOK
  <2>2. Reserving(n)' = {}
    BY <2>1 DEF Blank, Reserving, NoCall
  <2>3. Apart(n)
    BY <1>5 DEF Forget, Apart, SetPhase, TypeOK
  <2> QED  BY <2>1, <2>2, <2>3, FS_EmptySet DEF Balanced
<1>6. CASE RecoverNext(n)
  BY <1>2, <1>3, <1>6 DEF RecoverNext
<1> QED  BY <1>1, <1>2, <1>4, <1>5, <1>6 DEF RecoverStep, StopStep, ProcessExit, Crash

(* Every step.                                                             *)
LEMMA BalancedStep ==
  TypeOK /\ (\A n \in Nodes : Balanced(n)) /\ [Next]_vars => \A n \in Nodes : Balanced(n)'
<1> SUFFICES ASSUME TypeOK, \A n \in Nodes : Balanced(n), [Next]_vars
             PROVE  \A n \in Nodes : Balanced(n)'
  OBVIOUS
<1>1. CASE UNCHANGED <<permits, queue, enq, chan, phase, pump, rec>>
  <2>1. ASSUME NEW n \in Nodes PROVE Balanced(n)'
    <3>1. Balanced(n) /\ Reserving(n)' = Reserving(n)
      BY <1>1 DEF Reserving
    <3> QED  BY <1>1, <3>1 DEF Balanced, Blank
  <2> QED  BY <2>1
<1>2. ASSUME NEW n \in Nodes, NodeStep(n) PROVE \A m \in Nodes : Balanced(m)'
  <2>0. Balanced(n)
    OBVIOUS
  <2>1. CASE \E s \in Slots : HandlerStep(n, s)
    BY <1>1, <2>1 DEF HandlerStep, Execute, Settle
  <2>2. CASE ~\E s \in Slots : HandlerStep(n, s)
    <3>1. Balanced(n)' /\ Apart(n)
      BY <1>2, <2>0, <2>2, CallBalanced, PullBalanced, RecvBalanced, LifeBalanced DEF NodeStep
    <3> QED  BY <3>1, BalancedApart
  <2> QED  BY <2>1, <2>2
<1> QED  BY <1>1, <1>2 DEF Next, BecomeDue, BecomeStale, vars, nodeVars

(* Every slot of an open channel is free, reserved by a call between       *)
(* try_reserve and send, or taken by a queued command, for any number of   *)
(* callers and any capacity: no path of try_enqueue_outbox_task, the pump  *)
(* or the worker, cancelled or not, leaks a permit or sends past the       *)
(* capacity of the channel.                                                *)
THEOREM PermitsConserved == Spec => []PermitConservation
<1>1. Init => \A n \in Nodes : Balanced(n)
  <2> SUFFICES ASSUME Init, NEW n \in Nodes PROVE Balanced(n)
    OBVIOUS
  <2>1. Blank(n) /\ chan[n] = "closed"
    BY DEF Init, Blank
  <2>2. Reserving(n) = {}
    BY <2>1 DEF Blank, Reserving, NoCall
  <2> QED  BY <2>1, <2>2, FS_EmptySet DEF Balanced
<1>2. (\A n \in Nodes : Balanced(n)) => PermitConservation
  BY DEF Balanced, PermitConservation
<1>3. TypeOK /\ (\A n \in Nodes : Balanced(n)) /\ [Next]_vars => (\A n \in Nodes : Balanced(n))'
  BY BalancedStep
<1> QED  BY <1>1, <1>2, <1>3, TypeCorrect, PTL DEF Spec

=============================================================================
