-------------------------- MODULE TaskOutboxProofs --------------------------
(***************************************************************************)
(* Theorems about TaskOutbox for every number of processes, rows, callers  *)
(* and slots, and every queue and batch size.                              *)
(***************************************************************************)
EXTENDS TaskOutbox, TLAPS

-----------------------------------------------------------------------------
(***************************************************************************)
(* The records the actions write belong to the types of TypeOK.  They are  *)
(* stated once, so that the steps below never expand a record type.        *)
(***************************************************************************)
(* Every state the SQL statements leave a row in is a row.                 *)
LEMMA RowFacts ==
  /\ NoRow \in Row /\ DueRow \in Row /\ DelayedRow \in Row /\ RunningRow \in Row
  /\ StaleRow \in Row /\ DeadRow \in Row /\ DeletedRow \in Row
  BY DEF Row, Statuses, NoRow, DueRow, DelayedRow, RunningRow, StaleRow,
         DeadRow, DeletedRow

(* A call of try_enqueue_outbox_task that is in progress names a row.      *)
LEMMA CallFacts ==
  /\ NoCall \in Call
  /\ \A t \in Tasks : /\ [pc |-> "begin", task |-> t] \in Call
                      /\ [pc |-> "reserved", task |-> t] \in Call
                      /\ [pc |-> "claimed", task |-> t] \in Call
  /\ \A k \in Call : k.pc # "idle" => k.task \in Tasks
  BY DEF Call, NoCall

(* A handler that has something to do names a row.                         *)
LEMMA HandlingFacts ==
  /\ Idle \in Handling
  /\ \A t \in Tasks, r \in Results : [task |-> t, result |-> r] \in Handling
  /\ \A h \in Handling : h.task # NoTask => h.task \in Tasks
  /\ \A h \in Handling : h.result # "none" => h.task \in Tasks
  BY DEF Handling, Idle, Results, NoTask

(* The states of the pull task.                                            *)
LEMMA PumpingFacts ==
  /\ PumpIdle \in Pumping
  /\ \A S \in SUBSET Tasks : /\ [pc |-> "reclaim", todo |-> S] \in Pumping
                             /\ [pc |-> "claim", todo |-> S] \in Pumping
                             /\ [pc |-> "loop", todo |-> S] \in Pumping
                             /\ [pc |-> "requeue", todo |-> S] \in Pumping
  /\ \A p \in Pumping : p.todo \in SUBSET Tasks
  BY DEF Pumping, PumpIdle

(* Giving back row t of a batch and the rest is giving back the batch.     *)
LEMMA RemainingAll ==
  ASSUME NEW n, NEW t \in pump[n].todo
  PROVE  Remaining(n, t) = pump[n].todo
BY DEF Remaining

(* The states of the start-up recovery.                                    *)
LEMMA RecoveryFacts ==
  /\ RecOff \in Recovery
  /\ \A S \in SUBSET Tasks : /\ [pc |-> "reclaim", todo |-> S] \in Recovery
                             /\ [pc |-> "select", todo |-> S] \in Recovery
                             /\ [pc |-> "loop", todo |-> S] \in Recovery
  /\ \A r \in Recovery : r.todo \in SUBSET Tasks
  BY DEF Recovery, RecOff

-----------------------------------------------------------------------------
(***************************************************************************)
(* What the parts of the actions do to the types.                          *)
(***************************************************************************)
(* Writing one call keeps the table of calls.                              *)
LEMMA SetCallType ==
  ASSUME TypeOK, NEW n \in Nodes, NEW c \in Enqueuers, NEW k \in Call, SetCall(n, c, k)
  PROVE  enq' \in [Nodes -> [Enqueuers -> Call]]
  BY DEF TypeOK, SetCall

(* Writing one handler slot keeps the table of handlers.                   *)
LEMMA SetHandlerType ==
  ASSUME TypeOK, NEW n \in Nodes, NEW s \in Slots, NEW h \in Handling,
         SetHandler(n, s, h)
  PROVE  handler' \in [Nodes -> [Slots -> Handling]]
  BY DEF TypeOK, SetHandler

(* Moving one pull task keeps the table of pull tasks.                     *)
LEMMA SetPumpType ==
  ASSUME TypeOK, NEW n \in Nodes, NEW p \in Pumping, SetPump(n, p)
  PROVE  pump' \in [Nodes -> Pumping]
  BY DEF TypeOK, SetPump

(* Moving one recovery keeps the table of recoveries.                      *)
LEMMA SetRecType ==
  ASSUME TypeOK, NEW n \in Nodes, NEW r \in Recovery, SetRec(n, r)
  PROVE  rec' \in [Nodes -> Recovery]
  BY DEF TypeOK, SetRec

(* Moving one process keeps the table of phases.                           *)
LEMMA SetPhaseType ==
  ASSUME TypeOK, NEW n \in Nodes,
         NEW p \in {"down", "recovering", "up", "stopping"}, SetPhase(n, p)
  PROVE  phase' \in [Nodes -> {"down", "recovering", "up", "stopping"}]
  BY DEF TypeOK, SetPhase

(* A permit is taken only when there is one, so the count stays natural.   *)
LEMMA PermitType ==
  ASSUME TypeOK, NEW n \in Nodes,
         ReturnPermit(n) \/ (HasSlot(n) /\ TakePermit(n))
  PROVE  permits' \in [Nodes -> Nat]
<1>1. permits[n] \in Nat
  BY DEF TypeOK
<1>2. CASE ReturnPermit(n)
  <2>1. permits[n] + 1 \in Nat
    BY <1>1
  <2> QED
    BY <1>2, <2>1 DEF TypeOK, ReturnPermit
<1>3. CASE HasSlot(n) /\ TakePermit(n)
  <2>1. permits[n] - 1 \in Nat
    BY <1>1, <1>3 DEF HasSlot
  <2> QED
    BY <1>3, <2>1 DEF TypeOK, TakePermit
<1> QED
  BY <1>2, <1>3

(* UPDATE and DELETE statements keep the table.                            *)
LEMMA UpdateType ==
  ASSUME TypeOK, NEW S, NEW r \in Row, Update(S, r)
  PROVE  row' \in [Tasks -> Row]
  BY DEF TypeOK, Update

(* So does the stale reclaim.                                              *)
LEMMA ReclaimType ==
  ASSUME TypeOK, ReclaimStaleRunning
  PROVE  row' \in [Tasks -> Row] /\ late' \in [Tasks -> BOOLEAN]
<1>1. row' \in [Tasks -> Row]
  BY RowFacts DEF TypeOK, ReclaimStaleRunning
<1>2. \A t \in Tasks : (late[t] \/ (t \in StaleRunning /\ Held(t))) \in BOOLEAN
  BY DEF TypeOK
<1> QED
  BY <1>1, <1>2 DEF ReclaimStaleRunning

(* The number of faults never passes its bound.                            *)
LEMMA FaultType ==
  ASSUME TypeOK, Fault \/ NoFault
  PROVE  faults' \in 0 .. MaxFaults
  BY OutboxAssumption DEF TypeOK, Fault, NoFault

(* A command sent or received leaves a sequence of rows in the channel.    *)
LEMMA QueueType ==
  ASSUME TypeOK, NEW n \in Nodes, NEW t \in Tasks
  PROVE  /\ [queue EXCEPT ![n] = Append(@, t)] \in [Nodes -> Seq(Tasks)]
         /\ [queue EXCEPT ![n] = <<>>] \in [Nodes -> Seq(Tasks)]
         /\ queue[n] # <<>> =>
              /\ Head(queue[n]) \in Tasks
              /\ [queue EXCEPT ![n] = Tail(@)] \in [Nodes -> Seq(Tasks)]
  BY DEF TypeOK

-----------------------------------------------------------------------------
(* The types hold in every reachable state of the outbox.                  *)
THEOREM TypeCorrect == Spec => []TypeOK
<1> USE DEF TypeOK
<1>1. Init => TypeOK
  BY OutboxAssumption, RowFacts, CallFacts, HandlingFacts, PumpingFacts,
     RecoveryFacts
  DEF Init
<1>2. TypeOK /\ [Next]_vars => TypeOK'
  <2> SUFFICES ASSUME TypeOK, [Next]_vars
               PROVE  TypeOK'
    OBVIOUS
  <2>1. ASSUME NEW n \in Nodes, NEW c \in Enqueuers, Submit(n, c)
        PROVE  TypeOK'
    <3> PICK t \in Tasks : /\ row' = [row EXCEPT ![t] = DueRow]
                           /\ SetCall(n, c, [pc |-> "begin", task |-> t])
      BY <2>1 DEF Submit
    <3>1. row' \in [Tasks -> Row]
      BY RowFacts
    <3>2. enq' \in [Nodes -> [Enqueuers -> Call]]
      BY CallFacts, SetCallType
    <3> QED
      BY <2>1, <3>1, <3>2 DEF Submit
  <2>2. ASSUME NEW n \in Nodes, NEW c \in Enqueuers, TryReserveSlot(n, c)
        PROVE  TypeOK'
    <3>1. enq[n][c] \in Call
      OBVIOUS
    <3>2. enq' \in [Nodes -> [Enqueuers -> Call]]
      BY <2>2, <3>1, CallFacts, SetCallType DEF TryReserveSlot
    <3>3. permits' \in [Nodes -> Nat]
      BY <2>2, PermitType DEF TryReserveSlot
    <3> QED
      BY <2>2, <3>2, <3>3 DEF TryReserveSlot
  <2>3. ASSUME NEW n \in Nodes, NEW c \in Enqueuers, MarkRunning(n, c)
        PROVE  TypeOK'
    <3>1. enq[n][c] \in Call
      OBVIOUS
    <3>2. enq[n][c].task \in Tasks
      BY <2>3, <3>1, CallFacts DEF MarkRunning
    <3>3. enq' \in [Nodes -> [Enqueuers -> Call]]
      BY <2>3, <3>2, CallFacts, SetCallType DEF MarkRunning
    <3>4. permits' \in [Nodes -> Nat]
      BY <2>3, PermitType DEF MarkRunning
    <3>5. row' \in [Tasks -> Row]
      BY <2>3, <3>2, RowFacts DEF MarkRunning
    <3>6. faults' \in 0 .. MaxFaults
      BY <2>3, FaultType DEF MarkRunning
    <3> QED
      BY <2>3, <3>3, <3>4, <3>5, <3>6 DEF MarkRunning
  <2>4. ASSUME NEW n \in Nodes, NEW c \in Enqueuers, Send(n, c)
        PROVE  TypeOK'
    <3>1. enq[n][c] \in Call
      OBVIOUS
    <3>2. enq[n][c].task \in Tasks
      BY <2>4, <3>1, CallFacts DEF Send
    <3>3. enq' \in [Nodes -> [Enqueuers -> Call]]
      BY <2>4, CallFacts, SetCallType DEF Send
    <3>4. queue' \in [Nodes -> Seq(Tasks)]
      BY <2>4, <3>2, QueueType DEF Send
    <3> QED
      BY <2>4, <3>3, <3>4 DEF Send
  <2>5. ASSUME NEW n \in Nodes, NEW c \in Enqueuers, CancelSubmit(n, c)
        PROVE  TypeOK'
    <3>1. enq' \in [Nodes -> [Enqueuers -> Call]]
      BY <2>5, CallFacts, SetCallType DEF CancelSubmit
    <3>2. permits' \in [Nodes -> Nat]
      BY <2>5, PermitType DEF CancelSubmit
    <3>3. faults' \in 0 .. MaxFaults
      BY <2>5, FaultType DEF CancelSubmit
    <3> QED
      BY <2>5, <3>1, <3>2, <3>3 DEF CancelSubmit
  <2>6. ASSUME NEW n \in Nodes, PullTick(n)
        PROVE  TypeOK'
    BY <2>6, PumpingFacts, SetPumpType DEF PullTick
  <2>7. ASSUME NEW n \in Nodes, PullReclaim(n)
        PROVE  TypeOK'
    <3>1. pump' \in [Nodes -> Pumping]
      BY <2>7, PumpingFacts, SetPumpType DEF PullReclaim
    <3>2. row' \in [Tasks -> Row] /\ late' \in [Tasks -> BOOLEAN]
      BY <2>7, ReclaimType DEF PullReclaim
    <3>3. faults' \in 0 .. MaxFaults
      BY <2>7, FaultType DEF PullReclaim
    <3> QED
      BY <2>7, <3>1, <3>2, <3>3 DEF PullReclaim
  <2>8. ASSUME NEW n \in Nodes, PumpClaim(n)
        PROVE  TypeOK'
    <3>1. FirstBatch(DuePending) \in SUBSET Tasks
      BY DEF FirstBatch, DuePending
    <3>2. pump' \in [Nodes -> Pumping]
      BY <2>8, <3>1, PumpingFacts, SetPumpType DEF PumpClaim
    <3>3. row' \in [Tasks -> Row]
      BY <2>8, RowFacts, UpdateType DEF PumpClaim
    <3>4. faults' \in 0 .. MaxFaults
      BY <2>8, FaultType DEF PumpClaim
    <3> QED
      BY <2>8, <3>2, <3>3, <3>4 DEF PumpClaim
  <2>9. ASSUME NEW n \in Nodes, PumpRow(n)
        PROVE  TypeOK'
    <3>1. pump[n] \in Pumping
      OBVIOUS
    <3>2. pump[n].todo \in SUBSET Tasks
      BY <3>1, PumpingFacts
    <3>3. \A t : pump[n].todo \ {t} \in SUBSET Tasks
      BY <3>2
    <3>4. pump' \in [Nodes -> Pumping]
      <4>1. \A t \in pump[n].todo : Remaining(n, t) \in SUBSET Tasks
        BY <3>2, RemainingAll
      <4> QED
        BY <2>9, <3>2, <3>3, <4>1, PumpingFacts, SetPumpType DEF PumpRow
    <3>5. row' \in [Tasks -> Row]
      <4>1. (\E t \in pump[n].todo : Update({t}, DeadRow)) \/ UNCHANGED row
        BY <2>9 DEF PumpRow
      <4> QED
        BY <4>1, RowFacts, UpdateType
    <3>6. faults' \in 0 .. MaxFaults
      BY <2>9, FaultType DEF PumpRow
    <3>7. permits' \in [Nodes -> Nat]
      <4>1. (HasSlot(n) /\ TakePermit(n)) \/ UNCHANGED permits
        BY <2>9 DEF PumpRow
      <4> QED
        BY <4>1, PermitType
    <3>8. queue' \in [Nodes -> Seq(Tasks)]
      <4>1. \/ \E t \in pump[n].todo : queue' = [queue EXCEPT ![n] = Append(@, t)]
            \/ UNCHANGED queue
        BY <2>9 DEF PumpRow
      <4>2. ASSUME NEW t \in Tasks, queue' = [queue EXCEPT ![n] = Append(@, t)]
            PROVE  queue' \in [Nodes -> Seq(Tasks)]
        BY <4>2
      <4> QED
        BY <4>1, <4>2, <3>2
    <3> QED
      BY <2>9, <3>4, <3>5, <3>6, <3>7, <3>8 DEF PumpRow
  <2>10. ASSUME NEW n \in Nodes, PumpRequeue(n)
         PROVE  TypeOK'
    <3>1. pump' \in [Nodes -> Pumping]
      BY <2>10, PumpingFacts, SetPumpType DEF PumpRequeue
    <3>2. row' \in [Tasks -> Row]
      BY <2>10, RowFacts, UpdateType DEF PumpRequeue
    <3>3. faults' \in 0 .. MaxFaults
      BY <2>10, FaultType DEF PumpRequeue
    <3> QED
      BY <2>10, <3>1, <3>2, <3>3 DEF PumpRequeue
  <2>11. ASSUME NEW n \in Nodes, WorkerRecv(n)
         PROVE  TypeOK'
    <3>1. Head(queue[n]) \in Tasks /\ queue' \in [Nodes -> Seq(Tasks)]
      BY <2>11 DEF WorkerRecv
    <3>2. "none" \in Results
      BY DEF Results
    <3>3. handler' \in [Nodes -> [Slots -> Handling]]
      BY <2>11, <3>1, <3>2, HandlingFacts, SetHandlerType DEF WorkerRecv
    <3>4. permits' \in [Nodes -> Nat]
      BY <2>11, PermitType DEF WorkerRecv
    <3> QED
      BY <2>11, <3>1, <3>3, <3>4 DEF WorkerRecv
  <2>12. ASSUME NEW n \in Nodes, NEW s \in Slots, Execute(n, s)
         PROVE  TypeOK'
    <3>1. handler[n][s] \in Handling
      OBVIOUS
    <3>2. handler[n][s].task \in Tasks
      BY <2>12, <3>1, HandlingFacts DEF Execute
    <3>3. {"ok", "dead", "retry"} \subseteq Results
      BY DEF Results
    <3>4. handler' \in [Nodes -> [Slots -> Handling]]
      BY <2>12, <3>2, <3>3, HandlingFacts, SetHandlerType DEF Execute
    <3>5. faults' \in 0 .. MaxFaults
      BY <2>12, FaultType DEF Execute
    <3>6. succeeded' \in SUBSET Tasks
      BY <2>12, <3>2 DEF Execute
    <3> QED
      BY <2>12, <3>4, <3>5, <3>6 DEF Execute
  <2>13. ASSUME NEW n \in Nodes, NEW s \in Slots, Settle(n, s)
         PROVE  TypeOK'
    <3>1. handler' \in [Nodes -> [Slots -> Handling]]
      BY <2>13, HandlingFacts, SetHandlerType DEF Settle
    <3>2. \A r : SettledRow(r) \in Row
      BY RowFacts DEF SettledRow
    <3>3. row' \in [Tasks -> Row]
      BY <2>13, <3>2, UpdateType DEF Settle
    <3>4. faults' \in 0 .. MaxFaults
      BY <2>13, FaultType DEF Settle
    <3> QED
      BY <2>13, <3>1, <3>3, <3>4 DEF Settle
  <2>14. ASSUME NEW n \in Nodes, Start(n)
         PROVE  TypeOK'
    <3>1. phase' \in [Nodes -> {"down", "recovering", "up", "stopping"}]
      BY <2>14, SetPhaseType DEF Start
    <3>2. rec' \in [Nodes -> Recovery]
      BY <2>14, RecoveryFacts, SetRecType DEF Start
    <3>3. chan' \in [Nodes -> {"open", "closed"}]
      BY <2>14 DEF Start
    <3> QED
      BY <2>14, <3>1, <3>2, <3>3 DEF Start
  <2>15. ASSUME NEW n \in Nodes, RecoverReclaim(n)
         PROVE  TypeOK'
    <3>1. phase' \in [Nodes -> {"down", "recovering", "up", "stopping"}]
      BY <2>15, SetPhaseType DEF RecoverReclaim, EndRecovery
    <3>2. rec' \in [Nodes -> Recovery]
      BY <2>15, RecoveryFacts, SetRecType DEF RecoverReclaim, EndRecovery
    <3>3. row' \in [Tasks -> Row] /\ late' \in [Tasks -> BOOLEAN]
      BY <2>15, ReclaimType DEF RecoverReclaim
    <3>4. faults' \in 0 .. MaxFaults
      BY <2>15, FaultType DEF RecoverReclaim
    <3> QED
      BY <2>15, <3>1, <3>2, <3>3, <3>4 DEF RecoverReclaim
  <2>16. ASSUME NEW n \in Nodes, RecoverSelect(n)
         PROVE  TypeOK'
    <3>1. phase' \in [Nodes -> {"down", "recovering", "up", "stopping"}]
      BY <2>16, SetPhaseType DEF RecoverSelect, EndRecovery
    <3>2. DuePending \in SUBSET Tasks
      BY DEF DuePending
    <3>3. rec' \in [Nodes -> Recovery]
      BY <2>16, <3>2, RecoveryFacts, SetRecType DEF RecoverSelect, EndRecovery
    <3>4. faults' \in 0 .. MaxFaults
      BY <2>16, FaultType DEF RecoverSelect
    <3> QED
      BY <2>16, <3>1, <3>3, <3>4 DEF RecoverSelect
  <2>17. ASSUME NEW n \in Nodes, RecoverNext(n)
         PROVE  TypeOK'
    <3>1. rec[n] \in Recovery
      OBVIOUS
    <3>2. rec[n].todo \in SUBSET Tasks
      BY <3>1, RecoveryFacts
    <3>3. \A t : rec[n].todo \ {t} \in SUBSET Tasks
      BY <3>2
    <3>4. phase' \in [Nodes -> {"down", "recovering", "up", "stopping"}]
      BY <2>17, SetPhaseType DEF RecoverNext, EndRecovery
    <3>5. rec' \in [Nodes -> Recovery]
      BY <2>17, <3>3, RecoveryFacts, SetRecType DEF RecoverNext, EndRecovery
    <3>6. "recovery" \in Enqueuers
      BY DEF Enqueuers
    <3>7. enq' \in [Nodes -> [Enqueuers -> Call]]
      BY <2>17, <3>2, <3>6, CallFacts, SetCallType DEF RecoverNext
    <3> QED
      BY <2>17, <3>4, <3>5, <3>7 DEF RecoverNext
  <2>18. ASSUME NEW n \in Nodes, StopSignal(n)
         PROVE  TypeOK'
    BY <2>18, SetPhaseType, FaultType DEF StopSignal
  <2>19. ASSUME NEW n \in Nodes, WorkerExit(n)
         PROVE  TypeOK'
    BY <2>19 DEF WorkerExit
  <2>20. ASSUME NEW n \in Nodes, ProcessExit(n) \/ Crash(n)
         PROVE  TypeOK'
    <3>1. Forget(n)
      BY <2>20 DEF ProcessExit, Crash
    <3>2. phase' \in [Nodes -> {"down", "recovering", "up", "stopping"}]
      BY <3>1, SetPhaseType DEF Forget
    <3>3. chan' \in [Nodes -> {"open", "closed"}] /\ queue' \in [Nodes -> Seq(Tasks)]
      BY <3>1 DEF Forget
    <3>4. permits' \in [Nodes -> Nat]
      BY <3>1, OutboxAssumption DEF Forget
    <3>5. handler' \in [Nodes -> [Slots -> Handling]]
      BY <3>1, HandlingFacts DEF Forget
    <3>6. pump' \in [Nodes -> Pumping] /\ rec' \in [Nodes -> Recovery]
      BY <3>1, PumpingFacts, RecoveryFacts DEF Forget
    <3>7. enq' \in [Nodes -> [Enqueuers -> Call]]
      BY <3>1, CallFacts DEF Forget
    <3>8. faults' \in 0 .. MaxFaults
      BY <2>20, FaultType DEF ProcessExit, Crash
    <3> QED
      BY <3>1, <3>2, <3>3, <3>4, <3>5, <3>6, <3>7, <3>8 DEF Forget
  <2>21. ASSUME NEW t \in Tasks, BecomeDue(t) \/ BecomeStale(t)
         PROVE  TypeOK'
    BY <2>21, RowFacts DEF BecomeDue, BecomeStale, nodeVars
  <2>22. CASE UNCHANGED vars
    BY <2>22 DEF vars
  <2> QED
    BY <2>1, <2>2, <2>3, <2>4, <2>5, <2>6, <2>7, <2>8, <2>9, <2>10, <2>11,
       <2>12, <2>13, <2>14, <2>15, <2>16, <2>17, <2>18, <2>19, <2>20, <2>21,
       <2>22
    DEF Next, NodeStep, EnqueueStep, PullStep, HandlerStep, RecoverStep, StopStep
<1> QED
  BY <1>1, <1>2, PTL DEF Spec

-----------------------------------------------------------------------------
(***************************************************************************)
(* No command is lost.  What makes NothingLost inductive is that a handler *)
(* about to delete its row has seen its command succeed: the result it     *)
(* carries from run_executable_with_retry to delete_outbox_row is its own, *)
(* however long ago the row was taken from it.                             *)
(***************************************************************************)
OkExecuted == \A n \in Nodes, s \in Slots :
  handler[n][s].result = "ok" => handler[n][s].task \in succeeded

NothingLostInv == TypeOK /\ OkExecuted /\ NothingLost

(* A step that deletes no row and forgets no success.                      *)
RowsKept == \A t \in Tasks : row'[t].status = "deleted" => row[t].status = "deleted"

(* Statements that write anything but "deleted" keep the rows.             *)
LEMMA UpdateKeeps ==
  ASSUME TypeOK, NEW S, NEW r \in Row, r.status # "deleted", Update(S, r)
  PROVE  RowsKept
BY DEF TypeOK, RowsKept, Update

(* The statements of single rows.                                          *)
LEMMA AssignKeeps ==
  ASSUME TypeOK, NEW t \in Tasks, NEW r \in Row, r.status # "deleted",
         row' = [row EXCEPT ![t] = r]
  PROVE  RowsKept
BY DEF TypeOK, RowsKept

(* reclaim_stale_running_outbox.                                           *)
LEMMA ReclaimKeepsRows ==
  ASSUME TypeOK, ReclaimStaleRunning
  PROVE  RowsKept
BY DEF TypeOK, RowsKept, ReclaimStaleRunning, DueRow

(* None of these is "deleted".                                             *)
LEMMA LiveRows ==
  /\ DueRow.status # "deleted" /\ DelayedRow.status # "deleted"
  /\ RunningRow.status # "deleted" /\ StaleRow.status # "deleted"
  /\ DeadRow.status # "deleted"
BY DEF DueRow, DelayedRow, RunningRow, StaleRow, DeadRow

(* What setting one slot leaves in every slot.                             *)
LEMMA SetHandlerAt ==
  ASSUME TypeOK, NEW n \in Nodes, NEW s \in Slots, NEW h, SetHandler(n, s, h)
  PROVE  \A m \in Nodes, q \in Slots :
           handler'[m][q] = IF m = n /\ q = s THEN h ELSE handler[m][q]
BY DEF TypeOK, SetHandler

(* A step that touches no handler and no history and keeps the rows.       *)
LEMMA KeepsNothingLost ==
  ASSUME NothingLostInv, RowsKept, UNCHANGED <<handler, succeeded>>
  PROVE  OkExecuted' /\ NothingLost'
BY DEF NothingLostInv, OkExecuted, NothingLost, RowsKept

(* At the start there is no result and no row that was deleted.            *)
LEMMA NothingLostInit == Init => OkExecuted /\ NothingLost
BY DEF Init, OkExecuted, NothingLost, Idle, DueRow, NoRow

(* Every step keeps both, whoever takes it.                                *)
LEMMA NothingLostStep ==
  TypeOK /\ OkExecuted /\ NothingLost /\ [Next]_vars => OkExecuted' /\ NothingLost'
<1> SUFFICES ASSUME TypeOK, OkExecuted, NothingLost, [Next]_vars
             PROVE  OkExecuted' /\ NothingLost'
  OBVIOUS
<1> NothingLostInv
  BY DEF NothingLostInv
<1>1. ASSUME NEW n \in Nodes, NEW c \in Enqueuers, Submit(n, c)
      PROVE  OkExecuted' /\ NothingLost'
  BY <1>1, RowFacts, LiveRows, AssignKeeps, KeepsNothingLost DEF Submit
<1>2. ASSUME NEW n \in Nodes, NEW c \in Enqueuers, MarkRunning(n, c)
      PROVE  OkExecuted' /\ NothingLost'
  <2>1. enq[n][c] \in Call
    BY DEF TypeOK
  <2>2. enq[n][c].task \in Tasks
    BY <1>2, <2>1, CallFacts DEF MarkRunning
  <2>3. RowsKept
    BY <1>2, <2>2, RowFacts, LiveRows, AssignKeeps DEF MarkRunning, RowsKept
  <2> QED
    BY <1>2, <2>3, KeepsNothingLost DEF MarkRunning
<1>3. ASSUME NEW n \in Nodes, NEW c \in Enqueuers,
             TryReserveSlot(n, c) \/ Send(n, c) \/ CancelSubmit(n, c)
      PROVE  OkExecuted' /\ NothingLost'
  BY <1>3, KeepsNothingLost DEF TryReserveSlot, Send, CancelSubmit, RowsKept
<1>4. ASSUME NEW n \in Nodes, PullTick(n) \/ RecoverSelect(n) \/ RecoverNext(n)
               \/ Start(n) \/ StopSignal(n) \/ WorkerExit(n)
      PROVE  OkExecuted' /\ NothingLost'
  BY <1>4, KeepsNothingLost
  DEF PullTick, RecoverSelect, RecoverNext, Start, StopSignal, WorkerExit, RowsKept
<1>5. ASSUME NEW n \in Nodes, PullReclaim(n) \/ RecoverReclaim(n)
      PROVE  OkExecuted' /\ NothingLost'
  <2>1. RowsKept
    BY <1>5, ReclaimKeepsRows DEF PullReclaim, RecoverReclaim, RowsKept
  <2> QED
    BY <1>5, <2>1, KeepsNothingLost DEF PullReclaim, RecoverReclaim
<1>6. ASSUME NEW n \in Nodes, PumpClaim(n)
      PROVE  OkExecuted' /\ NothingLost'
  <2>1. RowsKept
    BY <1>6, RowFacts, LiveRows, UpdateKeeps DEF PumpClaim, RowsKept
  <2> QED
    BY <1>6, <2>1, KeepsNothingLost DEF PumpClaim
<1>7. ASSUME NEW n \in Nodes, PumpRow(n)
      PROVE  OkExecuted' /\ NothingLost'
  <2>1. RowsKept
    BY <1>7, RowFacts, LiveRows, UpdateKeeps DEF PumpRow, RowsKept
  <2> QED
    BY <1>7, <2>1, KeepsNothingLost DEF PumpRow
<1>8. ASSUME NEW n \in Nodes, PumpRequeue(n)
      PROVE  OkExecuted' /\ NothingLost'
  <2>1. RowsKept
    BY <1>8, RowFacts, LiveRows, UpdateKeeps DEF PumpRequeue, RowsKept
  <2> QED
    BY <1>8, <2>1, KeepsNothingLost DEF PumpRequeue
<1>9. ASSUME NEW n \in Nodes, WorkerRecv(n)
      PROVE  OkExecuted' /\ NothingLost'
  BY <1>9 DEF WorkerRecv, SetHandler, TypeOK, OkExecuted, NothingLost
<1>10. ASSUME NEW n \in Nodes, NEW s \in Slots, Execute(n, s)
       PROVE  OkExecuted' /\ NothingLost'
  <2> DEFINE t == handler[n][s].task
  <2>1. NothingLost'
    BY <1>10 DEF Execute, NothingLost
  <2>2. CASE SetHandler(n, s, [task |-> t, result |-> "ok"])
               /\ succeeded' = succeeded \cup {t}
    BY <2>1, <2>2, SetHandlerAt DEF OkExecuted
  <2>3. ASSUME NEW r \in {"dead", "retry"},
               SetHandler(n, s, [task |-> t, result |-> r]), UNCHANGED succeeded
        PROVE  OkExecuted'
    BY <2>3, SetHandlerAt DEF OkExecuted
  <2>4. OkExecuted'
    BY <1>10, <2>2, <2>3 DEF Execute
  <2> QED
    BY <2>1, <2>4
<1>11. ASSUME NEW n \in Nodes, NEW s \in Slots, Settle(n, s)
       PROVE  OkExecuted' /\ NothingLost'
  <2>1. handler' \in [Nodes -> [Slots -> Handling]] /\ SetHandler(n, s, Idle)
    BY <1>11, HandlingFacts, SetHandlerType DEF Settle, TypeOK
  <2>2. OkExecuted'
    BY <1>11, <2>1 DEF Settle, SetHandler, TypeOK, OkExecuted, Idle
  <2>3. CASE UNCHANGED row
    BY <1>11, <2>2, <2>3 DEF Settle, NothingLost
  <2>4. CASE Update({handler[n][s].task}, SettledRow(handler[n][s].result))
    <3>1. CASE handler[n][s].result = "ok"
      BY <1>11, <2>2, <2>4, <3>1 DEF Settle, Update, TypeOK, OkExecuted, NothingLost
    <3>2. CASE handler[n][s].result # "ok"
      <4>1. SettledRow(handler[n][s].result) \in {DelayedRow, DeadRow}
        BY <3>2 DEF SettledRow
      <4>2. RowsKept
        BY <2>4, <4>1, RowFacts, LiveRows, UpdateKeeps
      <4> QED
        BY <1>11, <2>2, <4>2 DEF Settle, NothingLost, RowsKept
    <3> QED
      BY <3>1, <3>2
  <2> QED
    BY <1>11, <2>3, <2>4 DEF Settle
<1>12. ASSUME NEW n \in Nodes, ProcessExit(n) \/ Crash(n)
       PROVE  OkExecuted' /\ NothingLost'
  <2>1. Forget(n)
    BY <1>12 DEF ProcessExit, Crash
  <2>2. \A m \in Nodes, q \in Slots : handler'[m][q] \in {handler[m][q], Idle}
    BY <2>1 DEF Forget, TypeOK
  <2> QED
    BY <2>1, <2>2 DEF Forget, OkExecuted, NothingLost, Idle
<1>13. ASSUME NEW t \in Tasks, BecomeDue(t) \/ BecomeStale(t)
       PROVE  OkExecuted' /\ NothingLost'
  <2>1. RowsKept
    BY <1>13, RowFacts, LiveRows, AssignKeeps DEF BecomeDue, BecomeStale
  <2> QED
    BY <1>13, <2>1, KeepsNothingLost DEF BecomeDue, BecomeStale, nodeVars
<1>14. CASE UNCHANGED vars
  BY <1>14 DEF vars, OkExecuted, NothingLost
<1> QED
  BY <1>1, <1>2, <1>3, <1>4, <1>5, <1>6, <1>7, <1>8, <1>9, <1>10, <1>11,
     <1>12, <1>13, <1>14
  DEF Next, NodeStep, EnqueueStep, PullStep, HandlerStep, RecoverStep, StopStep

(* The result a handler carries is its own, throughout.                    *)
LEMMA ResultsOwn == Spec => []OkExecuted
BY NothingLostInit, NothingLostStep, TypeCorrect, PTL DEF Spec

(* Whatever crashes, cancellations, stale reclaims and late handlers do, a *)
(* row leaves task_outbox only after its command executed with success.    *)
THEOREM NeverLost == Spec => []NothingLost
BY NothingLostInit, NothingLostStep, TypeCorrect, PTL DEF Spec

=============================================================================
