-------------------------- MODULE TaskClaimProofs --------------------------
(***************************************************************************)
(* ExclusiveClaim is an invariant of the outbox.  It is inductive relative *)
(* to TypeOK because it ties the two sides of a claim together: a row that *)
(* is held is marked running, so each statement that claims rows and looks *)
(* for pending ones (MarkRunning, PumpClaim) takes rows nobody holds; and  *)
(* a row has one holder, so the settling statements, which do not look at  *)
(* the status, only take the mark off a row that nobody else holds.        *)
(***************************************************************************)
EXTENDS TaskOutboxProofs

(* A holder is determined by its kind, its process and its position.       *)
LEMMA PlaceEq ==
  /\ \A p, q \in Place : p.kind = q.kind /\ p.node = q.node /\ p.at = q.at => p = q
  /\ \A p \in Place : /\ p.node \in Nodes
                      /\ p.kind \in {"queue", "pump", "handler", "enqueue"}
                      /\ p.kind \in {"queue", "pump"} => p.at = NoTask
                      /\ p.kind = "handler" => p.at \in Slots
                      /\ p.kind = "enqueue" => p.at \in Enqueuers
BY DEF Place

(* The channel, the pull task, each handler and each call are holders.     *)
LEMMA PlaceIn ==
  /\ \A n \in Nodes : [kind |-> "queue", node |-> n, at |-> NoTask] \in Place
  /\ \A n \in Nodes : [kind |-> "pump", node |-> n, at |-> NoTask] \in Place
  /\ \A n \in Nodes, s \in Slots : [kind |-> "handler", node |-> n, at |-> s] \in Place
  /\ \A n \in Nodes, c \in Enqueuers : [kind |-> "enqueue", node |-> n, at |-> c] \in Place
BY DEF Place

(* permit.send adds its own row to one channel and nothing else.           *)
LEMMA QueueAppend ==
  ASSUME TypeOK, NEW n \in Nodes, NEW t0 \in Tasks,
         queue' = [queue EXCEPT ![n] = Append(@, t0)],
         NEW m \in Nodes, NEW t \in Tasks
  PROVE  /\ InQueue(m, t)' => InQueue(m, t) \/ (m = n /\ t = t0)
         /\ OnceInQueue(m, t) /\ ~(m = n /\ t = t0 /\ InQueue(n, t0))
              => OnceInQueue(m, t)'
<1>1. CASE m # n
  BY <1>1 DEF TypeOK, InQueue, OnceInQueue
<1>2. CASE m = n
  <2>1. /\ queue[n] \in Seq(Tasks)
        /\ queue'[n] = Append(queue[n], t0)
    BY DEF TypeOK
  <2> QED
    BY <1>2, <2>1 DEF InQueue, OnceInQueue
<1> QED
  BY <1>1, <1>2

(* rx.recv takes the oldest row out of one channel.                        *)
LEMMA QueueTail ==
  ASSUME TypeOK, NEW n \in Nodes, queue[n] # <<>>,
         queue' = [queue EXCEPT ![n] = Tail(@)],
         NEW h, h = Head(queue[n]), NEW m \in Nodes, NEW t \in Tasks
  PROVE  /\ InQueue(m, t)' => InQueue(m, t)
         /\ OnceInQueue(m, t) => OnceInQueue(m, t)'
         /\ InQueue(n, h)
         /\ OnceInQueue(n, h) => ~InQueue(n, h)'
<1> DEFINE q == queue[n]
           r == queue'[n]
<1>1. q \in Seq(Tasks) /\ r = Tail(q) /\ q # <<>>
  BY DEF TypeOK
<1>2. /\ Len(q) \in Nat \ {0}
      /\ DOMAIN q = 1 .. Len(q)
      /\ DOMAIN r = 1 .. Len(q) - 1
      /\ h = q[1] /\ 1 \in DOMAIN q
      /\ \A i \in DOMAIN r : r[i] = q[i + 1]
  <2> HIDE DEF q, r
  <2>1. Len(q) \in Nat \ {0} /\ DOMAIN q = 1 .. Len(q)
    BY <1>1
  <2>2. r \in Seq(Tasks) /\ Len(r) = Len(q) - 1
    BY <1>1
  <2>3. DOMAIN r = 1 .. Len(q) - 1
    BY <2>2
  <2>4. \A i \in 1 .. Len(q) - 1 : r[i] = q[i + 1]
    BY <1>1, <2>1
  <2>5. h = q[1]
    BY <1>1 DEF q
  <2> QED
    BY <2>1, <2>3, <2>4, <2>5
<1>3. InQueue(n, h)
  BY <1>2 DEF InQueue
<1>4. OnceInQueue(n, h) => ~InQueue(n, h)'
  <2> HIDE DEF q, r
  <2>1. SUFFICES ASSUME \A i, j \in DOMAIN q : q[i] = h /\ q[j] = h => i = j,
                        NEW k \in DOMAIN r, r[k] = h
                 PROVE  FALSE
    BY <1>1 DEF InQueue, OnceInQueue, q, r
  <2>2. k + 1 \in DOMAIN q /\ 1 \in DOMAIN q /\ k + 1 # 1
    BY <1>2
  <2> QED
    BY <1>2, <2>1, <2>2
<1>5. CASE m # n
  <2>1. queue'[m] = queue[m]
    BY <1>5 DEF TypeOK
  <2> QED
    BY <1>3, <1>4, <2>1 DEF InQueue, OnceInQueue
<1>6. CASE m = n
  <2>1. InQueue(m, t)' => InQueue(m, t)
    BY <1>2, <1>6 DEF InQueue
  <2>2. OnceInQueue(m, t) => OnceInQueue(m, t)'
    BY <1>2, <1>6 DEF OnceInQueue
  <2> QED
    BY <1>3, <1>4, <2>1, <2>2
<1> QED
  BY <1>5, <1>6

(* A step that adds at most the rows S to the holder x, and to no other.   *)
LEMMA HoldsStep ==
  ASSUME NEW S, NEW x \in Place,
    \A m \in Nodes, t \in Tasks :
      InQueue(m, t)' => InQueue(m, t) \/ (t \in S /\ x.kind = "queue" /\ x.node = m),
    \A m \in Nodes, t \in Tasks :
      t \in pump'[m].todo =>
        t \in pump[m].todo \/ (t \in S /\ x.kind = "pump" /\ x.node = m),
    \A m \in Nodes, s \in Slots, t \in Tasks :
      handler'[m][s].task = t =>
        handler[m][s].task = t
          \/ (t \in S /\ x.kind = "handler" /\ x.node = m /\ x.at = s),
    \A m \in Nodes, c \in Enqueuers, t \in Tasks :
      Claimed(m, c, t)' =>
        Claimed(m, c, t) \/ (t \in S /\ x.kind = "enqueue" /\ x.node = m /\ x.at = c)
  PROVE \A p \in Place, t \in Tasks :
          Holds(p, t)' => Holds(p, t) \/ (t \in S /\ p = x)
<1> SUFFICES ASSUME NEW p \in Place, NEW t \in Tasks, Holds(p, t)'
             PROVE  Holds(p, t) \/ (t \in S /\ p = x)
  OBVIOUS
<1>1. CASE p.kind = "queue"
  BY <1>1, PlaceEq DEF Holds
<1>2. CASE p.kind = "pump"
  BY <1>2, PlaceEq DEF Holds
<1>3. CASE p.kind = "handler"
  BY <1>3, PlaceEq DEF Holds
<1>4. CASE p.kind = "enqueue"
  BY <1>4, PlaceEq DEF Holds
<1> QED
  BY <1>1, <1>2, <1>3, <1>4, PlaceEq

(* A step that gives the rows S to x keeps claims exclusive when nobody    *)
(* but x holds them afterwards and they are marked running.                *)
LEMMA ClaimStep ==
  ASSUME ExclusiveClaim, NEW S, NEW x \in Place,
    \A t \in Tasks : ~late'[t] => ~late[t],
    \A p \in Place, t \in Tasks : Holds(p, t)' => Holds(p, t) \/ (t \in S /\ p = x),
    \A t \in Tasks : ~late[t] /\ t \in S => \A p \in Place : Holds(p, t)' => p = x,
    \A m \in Nodes, t \in Tasks : ~late[t] => OnceInQueue(m, t)',
    \A t \in Tasks : ~late'[t] /\ Held(t)' => row'[t].status = "running"
  PROVE ExclusiveClaim'
<1> SUFFICES ASSUME NEW t \in Tasks, ~late'[t]
             PROVE  HolderUnique(t)' /\ HolderMarked(t)'
  BY DEF ExclusiveClaim
<1>1. HolderUnique(t)
  BY DEF ExclusiveClaim
<1>2. \A p, q \in Place : Holds(p, t)' /\ Holds(q, t)' => p = q
  BY <1>1 DEF HolderUnique
<1>3. HolderUnique(t)'
  BY <1>2 DEF HolderUnique
<1> QED
  BY <1>3 DEF HolderMarked

(* A step that adds no holder keeps claims exclusive as long as the rows   *)
(* still held keep their mark.                                             *)
LEMMA DropStep ==
  ASSUME ExclusiveClaim,
    \A t \in Tasks : ~late'[t] => ~late[t],
    \A m \in Nodes, t \in Tasks : InQueue(m, t)' => InQueue(m, t),
    \A m \in Nodes, t \in Tasks : t \in pump'[m].todo => t \in pump[m].todo,
    \A m \in Nodes, s \in Slots, t \in Tasks :
      handler'[m][s].task = t => handler[m][s].task = t,
    \A m \in Nodes, c \in Enqueuers, t \in Tasks :
      Claimed(m, c, t)' => Claimed(m, c, t),
    \A m \in Nodes, t \in Tasks : OnceInQueue(m, t) => OnceInQueue(m, t)',
    \A t \in Tasks : ~late'[t] /\ row[t].status = "running" /\ Held(t)'
                       => row'[t].status = "running"
  PROVE  ExclusiveClaim'
<1>1. ASSUME NEW p \in Place, NEW t \in Tasks, Holds(p, t)'
      PROVE  Holds(p, t)
  <2>1. CASE p.kind = "queue"
    BY <1>1, <2>1, PlaceEq DEF Holds
  <2>2. CASE p.kind = "pump"
    BY <1>1, <2>2, PlaceEq DEF Holds
  <2>3. CASE p.kind = "handler"
    BY <1>1, <2>3, PlaceEq DEF Holds
  <2>4. CASE p.kind = "enqueue"
    BY <1>1, <2>4, PlaceEq DEF Holds
  <2> QED
    BY <2>1, <2>2, <2>3, <2>4, PlaceEq
<1> SUFFICES ASSUME NEW t \in Tasks, ~late'[t]
             PROVE  HolderUnique(t)' /\ HolderMarked(t)'
  BY DEF ExclusiveClaim
<1>2. HolderUnique(t) /\ HolderMarked(t)
  BY DEF ExclusiveClaim
<1>3. HolderUnique(t)'
  BY <1>1, <1>2 DEF HolderUnique
<1>4. Held(t)' => Held(t)
  BY <1>1 DEF Held
<1>5. HolderMarked(t)'
  BY <1>2, <1>4 DEF HolderMarked
<1> QED
  BY <1>3, <1>5

(* What SetCall writes.                                                    *)
LEMMA SetCallHolds ==
  ASSUME TypeOK, NEW n \in Nodes, NEW c \in Enqueuers, NEW k, SetCall(n, c, k)
  PROVE  /\ enq'[n][c] = k
         /\ \A m \in Nodes, d \in Enqueuers :
              m # n \/ d # c => enq'[m][d] = enq[m][d]
  BY DEF TypeOK, SetCall

(* What SetHandler writes.                                                 *)
LEMMA SetHandlerHolds ==
  ASSUME TypeOK, NEW n \in Nodes, NEW s \in Slots, NEW h, SetHandler(n, s, h)
  PROVE  /\ handler'[n][s] = h
         /\ \A m \in Nodes, r \in Slots :
              m # n \/ r # s => handler'[m][r] = handler[m][r]
  BY DEF TypeOK, SetHandler

(* What SetPump writes.                                                    *)
LEMMA SetPumpHolds ==
  ASSUME TypeOK, NEW n \in Nodes, NEW p, SetPump(n, p)
  PROVE  /\ pump'[n] = p
         /\ \A m \in Nodes : m # n => pump'[m] = pump[m]
  BY DEF TypeOK, SetPump

(* submit inserts a pending row, which nobody holds yet.                   *)
LEMMA SubmitClaim ==
  ASSUME TypeOK, ExclusiveClaim, NEW n \in Nodes, NEW c \in Enqueuers, Submit(n, c)
  PROVE  ExclusiveClaim'
<1>1. PICK t0 \in Tasks : /\ row[t0] = NoRow
                          /\ row' = [row EXCEPT ![t0] = DueRow]
                          /\ SetCall(n, c, [pc |-> "begin", task |-> t0])
  BY DEF Submit
<1>2. \A m \in Nodes, d \in Enqueuers, t \in Tasks :
        Claimed(m, d, t)' => Claimed(m, d, t)
  BY <1>1, SetCallHolds DEF Claimed
<1>3. row[t0].status # "running"
  BY <1>1 DEF NoRow
<1>4. \A t \in Tasks : row[t].status = "running" => row'[t].status = "running"
  BY <1>1, <1>3 DEF TypeOK
<1> QED
  BY <1>2, <1>4, DropStep DEF Submit, InQueue, OnceInQueue

(* try_reserve_slot holds a permit, not a row.                             *)
LEMMA TryReserveSlotClaim ==
  ASSUME TypeOK, ExclusiveClaim, NEW n \in Nodes, NEW c \in Enqueuers,
         TryReserveSlot(n, c)
  PROVE  ExclusiveClaim'
<1>1. \A m \in Nodes, d \in Enqueuers, t \in Tasks :
        Claimed(m, d, t)' => Claimed(m, d, t)
  BY SetCallHolds DEF TryReserveSlot, Claimed, NoCall
<1> QED
  BY <1>1, DropStep DEF TryReserveSlot, InQueue, OnceInQueue

(* A dropped submit only gives up what it held.                            *)
LEMMA CancelSubmitClaim ==
  ASSUME TypeOK, ExclusiveClaim, NEW n \in Nodes, NEW c \in Enqueuers,
         CancelSubmit(n, c)
  PROVE  ExclusiveClaim'
<1>1. \A m \in Nodes, d \in Enqueuers, t \in Tasks :
        Claimed(m, d, t)' => Claimed(m, d, t)
  BY SetCallHolds DEF CancelSubmit, Claimed, NoCall
<1> QED
  BY <1>1, DropStep DEF CancelSubmit, InQueue, OnceInQueue

(* The guarded UPDATE of try_enqueue_outbox_task claims only a pending     *)
(* row, and a pending row has no holder.                                   *)
LEMMA MarkRunningClaim ==
  ASSUME TypeOK, ExclusiveClaim, NEW n \in Nodes, NEW c \in Enqueuers,
         MarkRunning(n, c)
  PROVE  ExclusiveClaim'
<1>0. PICK t0 \in Tasks : t0 = enq[n][c].task
  <2>1. enq[n][c] \in Call
    BY DEF TypeOK
  <2> QED
    BY <2>1, CallFacts DEF MarkRunning
<1> DEFINE x == [kind |-> "enqueue", node |-> n, at |-> c]
<1>1. x \in Place
  BY PlaceIn
<1>2. CASE /\ SetCall(n, c, NoCall)
           /\ row' = row \/ row' = [row EXCEPT ![t0] = RunningRow]
  <2>1. \A m \in Nodes, d \in Enqueuers, t \in Tasks :
          Claimed(m, d, t)' => Claimed(m, d, t)
    BY <1>2, SetCallHolds DEF Claimed, NoCall
  <2>2. \A t \in Tasks : row[t].status = "running" => row'[t].status = "running"
    <3>1. CASE row' = row
      BY <3>1
    <3>2. CASE row' = [row EXCEPT ![t0] = RunningRow]
      BY <3>2 DEF TypeOK, RunningRow
    <3> QED
      BY <1>2, <3>1, <3>2
  <2> QED
    BY <2>1, <2>2, DropStep DEF MarkRunning, InQueue, OnceInQueue
<1>3. CASE /\ row[t0].status = "pending"
           /\ row' = [row EXCEPT ![t0] = RunningRow]
           /\ SetCall(n, c, [pc |-> "claimed", task |-> t0])
  <2>1. \A m \in Nodes, d \in Enqueuers, t \in Tasks :
          Claimed(m, d, t)' =>
            Claimed(m, d, t) \/ (t \in {t0} /\ x.kind = "enqueue" /\ x.node = m /\ x.at = d)
    BY <1>3, SetCallHolds DEF Claimed
  <2>2. \A p \in Place, t \in Tasks :
          Holds(p, t)' => Holds(p, t) \/ (t \in {t0} /\ p = x)
    <3> DEFINE S == {t0}
    <3>1. \A m \in Nodes, t \in Tasks :
            InQueue(m, t)' => InQueue(m, t) \/ (t \in S /\ x.kind = "queue" /\ x.node = m)
      BY DEF MarkRunning, InQueue
    <3>2. \A m \in Nodes, t \in Tasks :
            t \in pump'[m].todo =>
              t \in pump[m].todo \/ (t \in S /\ x.kind = "pump" /\ x.node = m)
      BY DEF MarkRunning
    <3>3. \A m \in Nodes, s \in Slots, t \in Tasks :
            handler'[m][s].task = t =>
              handler[m][s].task = t
                \/ (t \in S /\ x.kind = "handler" /\ x.node = m /\ x.at = s)
      BY DEF MarkRunning
    <3>4. \A m \in Nodes, d \in Enqueuers, t \in Tasks :
            Claimed(m, d, t)' =>
              Claimed(m, d, t) \/ (t \in S /\ x.kind = "enqueue" /\ x.node = m /\ x.at = d)
      BY <2>1
    <3> HIDE DEF S, x
    <3>5. \A p \in Place, t \in Tasks :
            Holds(p, t)' => Holds(p, t) \/ (t \in S /\ p = x)
      BY <1>1, <3>1, <3>2, <3>3, <3>4, HoldsStep
    <3> QED
      BY <3>5 DEF S
  <2>3. ~late[t0] => ~Held(t0)
    BY <1>3 DEF ExclusiveClaim, HolderMarked
  <2>4. \A t \in Tasks : ~late[t] /\ t \in {t0} =>
          \A p \in Place : Holds(p, t)' => p = x
    BY <2>2, <2>3 DEF Held
  <2>5. \A m \in Nodes, t \in Tasks : ~late[t] => OnceInQueue(m, t)'
    BY DEF ExclusiveClaim, HolderUnique, OnceInQueue, MarkRunning
  <2>6. \A t \in Tasks : t # t0 => row'[t] = row[t]
    BY <1>3 DEF TypeOK
  <2>7. row'[t0].status = "running"
    BY <1>1, <1>3 DEF TypeOK, RunningRow
  <2>8. ASSUME NEW t \in Tasks, ~late[t], Held(t)'
        PROVE  row'[t].status = "running"
    <3>1. CASE t = t0
      BY <3>1, <2>7
    <3>2. CASE t # t0
      <4>1. Held(t)
        BY <2>2, <2>8, <3>2 DEF Held
      <4> QED
        BY <4>1, <2>6, <2>8, <3>2 DEF ExclusiveClaim, HolderMarked
    <3> QED
      BY <3>1, <3>2
  <2>9. late' = late
    BY DEF MarkRunning
  <2> HIDE DEF x
  <2> QED
    BY <1>1, <2>2, <2>4, <2>5, <2>8, <2>9, ClaimStep
<1> QED
  BY <1>0, <1>2, <1>3 DEF MarkRunning

(* permit.send moves the claim from the call to the channel, or drops it.  *)
LEMMA SendClaim ==
  ASSUME TypeOK, ExclusiveClaim, NEW n \in Nodes, NEW c \in Enqueuers, Send(n, c)
  PROVE  ExclusiveClaim'
<1>0. PICK t0 \in Tasks : t0 = enq[n][c].task
  <2>1. enq[n][c] \in Call
    BY DEF TypeOK
  <2> QED
    BY <2>1, CallFacts DEF Send
<1> DEFINE e == [kind |-> "enqueue", node |-> n, at |-> c]
           x == [kind |-> "queue", node |-> n, at |-> NoTask]
<1>1. e \in Place /\ x \in Place
  BY PlaceIn
<1>2. \A m \in Nodes, d \in Enqueuers, t \in Tasks :
        Claimed(m, d, t)' => Claimed(m, d, t)
  BY SetCallHolds DEF Claimed, NoCall, Send
<1>3. CASE queue' = queue
  BY <1>2, <1>3, DropStep DEF Send, InQueue, OnceInQueue
<1>4. CASE queue' = [queue EXCEPT ![n] = Append(@, t0)]
  <2>1. \A m \in Nodes, t \in Tasks :
          /\ InQueue(m, t)' => InQueue(m, t) \/ (m = n /\ t = t0)
          /\ OnceInQueue(m, t) /\ ~(m = n /\ t = t0 /\ InQueue(n, t0))
               => OnceInQueue(m, t)'
    BY <1>1, <1>4, QueueAppend
  <2>2. \A p \in Place, t \in Tasks :
          Holds(p, t)' => Holds(p, t) \/ (t \in {t0} /\ p = x)
    <3> DEFINE S == {t0}
    <3>1. \A m \in Nodes, t \in Tasks :
            InQueue(m, t)' => InQueue(m, t) \/ (t \in S /\ x.kind = "queue" /\ x.node = m)
      BY <2>1
    <3>2. \A m \in Nodes, t \in Tasks :
            t \in pump'[m].todo =>
              t \in pump[m].todo \/ (t \in S /\ x.kind = "pump" /\ x.node = m)
      BY DEF Send
    <3>3. \A m \in Nodes, s \in Slots, t \in Tasks :
            handler'[m][s].task = t =>
              handler[m][s].task = t
                \/ (t \in S /\ x.kind = "handler" /\ x.node = m /\ x.at = s)
      BY DEF Send
    <3>4. \A m \in Nodes, d \in Enqueuers, t \in Tasks :
            Claimed(m, d, t)' =>
              Claimed(m, d, t) \/ (t \in S /\ x.kind = "enqueue" /\ x.node = m /\ x.at = d)
      BY <1>2
    <3> HIDE DEF S, x
    <3>5. \A p \in Place, t \in Tasks :
            Holds(p, t)' => Holds(p, t) \/ (t \in S /\ p = x)
      BY <1>1, <3>1, <3>2, <3>3, <3>4, HoldsStep
    <3> QED
      BY <3>5 DEF S
  <2>3. Holds(e, t0) /\ ~Holds(e, t0)'
    BY <1>0, SetCallHolds DEF Send, Holds, Claimed, NoCall
  <2>4. ~late[t0] => \A p \in Place : Holds(p, t0) => p = e
    BY <1>1, <2>3 DEF ExclusiveClaim, HolderUnique
  <2>5. \A t \in Tasks : ~late[t] /\ t \in {t0} =>
          \A p \in Place : Holds(p, t)' => p = x
    BY <2>2, <2>3, <2>4
  <2>6. ~late[t0] => ~InQueue(n, t0)
    <3>1. x # e
      OBVIOUS
    <3>2. InQueue(n, t0) => Holds(x, t0)
      BY DEF Holds
    <3> QED
      BY <1>1, <2>4, <3>1, <3>2
  <2>7. \A m \in Nodes, t \in Tasks : ~late[t] => OnceInQueue(m, t)'
    BY <2>1, <2>6 DEF ExclusiveClaim, HolderUnique
  <2>8. \A t \in Tasks : Held(t)' => Held(t)
    BY <1>1, <2>2, <2>3 DEF Held
  <2>9. row' = row /\ late' = late
    BY DEF Send
  <2>10. \A t \in Tasks : ~late[t] /\ Held(t)' => row'[t].status = "running"
    BY <2>8, <2>9 DEF ExclusiveClaim, HolderMarked
  <2> HIDE DEF x, e
  <2> QED
    BY <1>1, <2>2, <2>5, <2>7, <2>9, <2>10, ClaimStep
<1> QED
  BY <1>0, <1>3, <1>4 DEF Send

(* A tick claims nothing.                                                  *)
LEMMA PullTickClaim ==
  ASSUME TypeOK, ExclusiveClaim, NEW n \in Nodes, PullTick(n)
  PROVE  ExclusiveClaim'
<1>1. \A m \in Nodes, t \in Tasks : t \in pump'[m].todo => t \in pump[m].todo
  BY SetPumpHolds DEF PullTick
<1> QED
  BY <1>1, DropStep DEF PullTick, InQueue, OnceInQueue, Claimed

(* reclaim_stale_running_outbox takes a held row back only by recording it *)
(* as late.                                                                *)
LEMMA ReclaimKeeps ==
  ASSUME TypeOK, ReclaimStaleRunning,
         \A t \in Tasks : Held(t)' => Held(t)
  PROVE  \A t \in Tasks : /\ ~late'[t] => ~late[t]
                          /\ ~late'[t] /\ row[t].status = "running" /\ Held(t)'
                               => row'[t].status = "running"
<1> TAKE t \in Tasks
<1>1. late'[t] = (late[t] \/ (t \in StaleRunning /\ Held(t)))
  BY DEF ReclaimStaleRunning
<1>2. t \notin StaleRunning => row'[t] = row[t]
  BY DEF ReclaimStaleRunning
<1> QED
  BY <1>1, <1>2

(* The reclaim of the pull task keeps claims exclusive.                    *)
LEMMA PullReclaimClaim ==
  ASSUME TypeOK, ExclusiveClaim, NEW n \in Nodes, PullReclaim(n)
  PROVE  ExclusiveClaim'
<1>1. \A m \in Nodes, t \in Tasks : t \in pump'[m].todo => t \in pump[m].todo
  BY SetPumpHolds DEF PullReclaim, PumpIdle
<1>2. \A t \in Tasks : Held(t)' => Held(t)
  BY <1>1, PlaceEq DEF Held, Holds, PullReclaim, InQueue, Claimed
<1>3. CASE ReclaimStaleRunning
  BY <1>1, <1>2, <1>3, ReclaimKeeps, DropStep
  DEF PullReclaim, InQueue, OnceInQueue, Claimed
<1>4. CASE UNCHANGED <<row, late>>
  BY <1>1, <1>4, DropStep DEF PullReclaim, InQueue, OnceInQueue, Claimed
<1> QED
  BY <1>3, <1>4 DEF PullReclaim

(* The claiming statement of pump_outbox_once picks pending rows only, so  *)
(* the whole batch is held by this pump and by nobody else.                *)
LEMMA PumpClaimClaim ==
  ASSUME TypeOK, ExclusiveClaim, NEW n \in Nodes, PumpClaim(n)
  PROVE  ExclusiveClaim'
<1>0. PICK S : S = FirstBatch(DuePending)
  OBVIOUS
<1> DEFINE x == [kind |-> "pump", node |-> n, at |-> NoTask]
<1>1. x \in Place
  BY PlaceIn
<1>2. \A t \in S : t \in Tasks /\ row[t].status = "pending"
  BY <1>0 DEF FirstBatch, DuePending
<1>3. ~ \E t \in S : ~late[t] /\ Held(t)
  BY <1>2 DEF ExclusiveClaim, HolderMarked
<1>4. \A t \in Tasks : row[t].status = "running" => row'[t].status = "running"
  BY <1>0 DEF PumpClaim, Update, RunningRow
<1>5. CASE pump'[n] = PumpIdle
  <2>1. \A m \in Nodes, t \in Tasks : t \in pump'[m].todo => t \in pump[m].todo
    BY <1>5, SetPumpHolds DEF PumpClaim, PumpIdle
  <2> QED
    BY <1>4, <2>1, DropStep DEF PumpClaim, InQueue, OnceInQueue, Claimed
<1>6. CASE Update(S, RunningRow) /\ SetPump(n, [pc |-> "loop", todo |-> S])
  <2>1. \A p \in Place, t \in Tasks :
          Holds(p, t)' => Holds(p, t) \/ (t \in S /\ p = x)
    <3>1. \A m \in Nodes, t \in Tasks :
            InQueue(m, t)' => InQueue(m, t) \/ (t \in S /\ x.kind = "queue" /\ x.node = m)
      BY DEF PumpClaim, InQueue
    <3>2. \A m \in Nodes, t \in Tasks :
            t \in pump'[m].todo =>
              t \in pump[m].todo \/ (t \in S /\ x.kind = "pump" /\ x.node = m)
      BY <1>6, SetPumpHolds
    <3>3. \A m \in Nodes, s \in Slots, t \in Tasks :
            handler'[m][s].task = t =>
              handler[m][s].task = t
                \/ (t \in S /\ x.kind = "handler" /\ x.node = m /\ x.at = s)
      BY DEF PumpClaim
    <3>4. \A m \in Nodes, d \in Enqueuers, t \in Tasks :
            Claimed(m, d, t)' =>
              Claimed(m, d, t) \/ (t \in S /\ x.kind = "enqueue" /\ x.node = m /\ x.at = d)
      BY DEF PumpClaim, Claimed
    <3> HIDE DEF x
    <3> QED
      BY <1>1, <3>1, <3>2, <3>3, <3>4, HoldsStep
  <2>2. \A t \in Tasks : ~late[t] /\ t \in S =>
          \A p \in Place : Holds(p, t)' => p = x
    BY <1>3, <2>1 DEF Held
  <2>3. \A m \in Nodes, t \in Tasks : ~late[t] => OnceInQueue(m, t)'
    BY DEF ExclusiveClaim, HolderUnique, OnceInQueue, PumpClaim
  <2>4. ASSUME NEW t \in Tasks, ~late[t], Held(t)'
        PROVE  row'[t].status = "running"
    <3>1. CASE t \in S
      BY <1>2, <1>6, <3>1 DEF Update, RunningRow, Present
    <3>2. CASE t \notin S
      <4>1. Held(t)
        BY <2>1, <2>4, <3>2 DEF Held
      <4> QED
        BY <1>4, <2>4, <4>1 DEF ExclusiveClaim, HolderMarked
    <3> QED
      BY <3>1, <3>2
  <2>5. late' = late
    BY DEF PumpClaim
  <2> HIDE DEF x
  <2> QED
    BY <1>1, <2>1, <2>2, <2>3, <2>4, <2>5, ClaimStep
<1> QED
  BY <1>0, <1>5, <1>6, SetPumpHolds DEF PumpClaim

(* A round of the loop of pump_outbox_once moves one row from the pump to  *)
(* the channel, marks it dead, or leaves the loop.                         *)
LEMMA PumpRowClaim ==
  ASSUME TypeOK, ExclusiveClaim, NEW n \in Nodes, PumpRow(n)
  PROVE  ExclusiveClaim'
<1> DEFINE e == [kind |-> "pump", node |-> n, at |-> NoTask]
           x == [kind |-> "queue", node |-> n, at |-> NoTask]
<1>1. e \in Place /\ x \in Place
  BY PlaceIn
<1>2. pump[n].todo \in SUBSET Tasks
  <2>1. pump[n] \in Pumping
    BY DEF TypeOK
  <2> QED
    BY <2>1, PumpingFacts
<1>3. late' = late /\ handler' = handler /\ enq' = enq
  BY DEF PumpRow
<1>4. CASE \E t \in pump[n].todo :
             /\ Update({t}, DeadRow) \/ UNCHANGED row
             /\ pump'[n].todo = pump[n].todo \ {t} \/ pump'[n].todo = {}
             /\ \A m \in Nodes : m # n => pump'[m] = pump[m]
             /\ queue' = queue
  <2>1. PICK t0 \in pump[n].todo :
             /\ Update({t0}, DeadRow) \/ UNCHANGED row
             /\ pump'[n].todo = pump[n].todo \ {t0} \/ pump'[n].todo = {}
             /\ \A m \in Nodes : m # n => pump'[m] = pump[m]
             /\ queue' = queue
    BY <1>4
  <2>2. Holds(e, t0) /\ ~Holds(e, t0)'
    BY <2>1 DEF Holds
  <2>3. \A m \in Nodes, t \in Tasks : t \in pump'[m].todo => t \in pump[m].todo
    BY <2>1
  <2>4. ~late[t0] => ~Held(t0)'
    <3>1. \A p \in Place : Holds(p, t0)' => Holds(p, t0)
      BY <1>3, <2>1, <2>3, <1>2, PlaceEq DEF Holds, InQueue, Claimed
    <3> QED
      BY <1>1, <1>2, <2>2, <3>1 DEF ExclusiveClaim, HolderUnique, Held
  <2>5. \A t \in Tasks : t # t0 => row'[t] = row[t]
    BY <2>1 DEF Update
  <2> QED
    BY <1>3, <2>1, <2>3, <2>4, <2>5, DropStep DEF InQueue, OnceInQueue, Claimed
<1>5. CASE pump'[n].todo = pump[n].todo /\ (\A m \in Nodes : m # n => pump'[m] = pump[m])
             /\ row' = row /\ queue' = queue
  BY <1>3, <1>5, DropStep DEF InQueue, OnceInQueue, Claimed
<1>6. CASE \E t \in pump[n].todo :
             /\ queue' = [queue EXCEPT ![n] = Append(@, t)]
             /\ pump'[n].todo = pump[n].todo \ {t}
             /\ \A m \in Nodes : m # n => pump'[m] = pump[m]
             /\ row' = row
  <2>0. PICK t0 \in Tasks :
             /\ t0 \in pump[n].todo
             /\ queue' = [queue EXCEPT ![n] = Append(@, t0)]
             /\ pump'[n].todo = pump[n].todo \ {t0}
             /\ \A m \in Nodes : m # n => pump'[m] = pump[m]
             /\ row' = row
    BY <1>2, <1>6
  <2>1. \A m \in Nodes, t \in Tasks :
          /\ InQueue(m, t)' => InQueue(m, t) \/ (m = n /\ t = t0)
          /\ OnceInQueue(m, t) /\ ~(m = n /\ t = t0 /\ InQueue(n, t0))
               => OnceInQueue(m, t)'
    BY <2>0, QueueAppend
  <2>2. \A p \in Place, t \in Tasks :
          Holds(p, t)' => Holds(p, t) \/ (t \in {t0} /\ p = x)
    <3> DEFINE S == {t0}
    <3>1. \A m \in Nodes, t \in Tasks :
            InQueue(m, t)' => InQueue(m, t) \/ (t \in S /\ x.kind = "queue" /\ x.node = m)
      BY <2>1
    <3>2. \A m \in Nodes, t \in Tasks :
            t \in pump'[m].todo =>
              t \in pump[m].todo \/ (t \in S /\ x.kind = "pump" /\ x.node = m)
      BY <2>0
    <3>3. \A m \in Nodes, s \in Slots, t \in Tasks :
            handler'[m][s].task = t =>
              handler[m][s].task = t
                \/ (t \in S /\ x.kind = "handler" /\ x.node = m /\ x.at = s)
      BY <1>3
    <3>4. \A m \in Nodes, d \in Enqueuers, t \in Tasks :
            Claimed(m, d, t)' =>
              Claimed(m, d, t) \/ (t \in S /\ x.kind = "enqueue" /\ x.node = m /\ x.at = d)
      BY <1>3 DEF Claimed
    <3> HIDE DEF S, x
    <3>5. \A p \in Place, t \in Tasks :
            Holds(p, t)' => Holds(p, t) \/ (t \in S /\ p = x)
      BY <1>1, <3>1, <3>2, <3>3, <3>4, HoldsStep
    <3> QED
      BY <3>5 DEF S
  <2>3. Holds(e, t0) /\ ~Holds(e, t0)'
    BY <2>0 DEF Holds
  <2>4. ~late[t0] => \A p \in Place : Holds(p, t0) => p = e
    BY <1>1, <2>3 DEF ExclusiveClaim, HolderUnique
  <2>5. \A t \in Tasks : ~late[t] /\ t \in {t0} =>
          \A p \in Place : Holds(p, t)' => p = x
    BY <2>2, <2>3, <2>4
  <2>6. ~late[t0] => ~InQueue(n, t0)
    <3>1. x # e
      OBVIOUS
    <3>2. InQueue(n, t0) => Holds(x, t0)
      BY DEF Holds
    <3> QED
      BY <1>1, <2>4, <3>1, <3>2
  <2>7. \A m \in Nodes, t \in Tasks : ~late[t] => OnceInQueue(m, t)'
    BY <2>1, <2>6 DEF ExclusiveClaim, HolderUnique
  <2>8. \A t \in Tasks : Held(t)' => Held(t)
    BY <1>1, <2>2, <2>3 DEF Held
  <2>10. \A t \in Tasks : ~late[t] /\ Held(t)' => row'[t].status = "running"
    BY <2>0, <2>8 DEF ExclusiveClaim, HolderMarked
  <2> HIDE DEF x, e
  <2> QED
    BY <1>1, <1>3, <2>2, <2>5, <2>7, <2>10, ClaimStep
<1> QED
  <2>1. PICK t \in pump[n].todo :
          \/ /\ (Update({t}, DeadRow) \/ UNCHANGED row) /\ queue' = queue
             /\ \/ SetPump(n, IF pump[n].todo \ {t} = {} THEN PumpIdle
                              ELSE [pc |-> "loop", todo |-> pump[n].todo \ {t}])
                \/ SetPump(n, PumpIdle)
          \/ /\ queue' = [queue EXCEPT ![n] = Append(@, t)] /\ row' = row
             /\ SetPump(n, IF pump[n].todo \ {t} = {} THEN PumpIdle
                           ELSE [pc |-> "loop", todo |-> pump[n].todo \ {t}])
          \/ /\ row' = row /\ queue' = queue
             /\ SetPump(n, [pc |-> "requeue", todo |-> pump[n].todo])
    BY RemainingAll DEF PumpRow
  <2>2. \A m \in Nodes : m # n => pump'[m] = pump[m]
    BY <2>1, SetPumpHolds
  <2>3. SetPump(n, IF pump[n].todo \ {t} = {} THEN PumpIdle
                   ELSE [pc |-> "loop", todo |-> pump[n].todo \ {t}])
          => pump'[n].todo = pump[n].todo \ {t}
    BY SetPumpHolds DEF PumpIdle
  <2>4. SetPump(n, PumpIdle) => pump'[n].todo = {}
    BY SetPumpHolds DEF PumpIdle
  <2>5. SetPump(n, [pc |-> "requeue", todo |-> pump[n].todo])
          => pump'[n].todo = pump[n].todo
    BY SetPumpHolds
  <2> QED
    BY <1>4, <1>5, <1>6, <2>1, <2>2, <2>3, <2>4, <2>5

(* requeue_outbox_rows gives back rows that only this pump holds.          *)
LEMMA PumpRequeueClaim ==
  ASSUME TypeOK, ExclusiveClaim, NEW n \in Nodes, PumpRequeue(n)
  PROVE  ExclusiveClaim'
<1> DEFINE e == [kind |-> "pump", node |-> n, at |-> NoTask]
<1>1. e \in Place
  BY PlaceIn
<1>2. pump'[n].todo = {} /\ \A m \in Nodes : m # n => pump'[m] = pump[m]
  BY SetPumpHolds DEF PumpRequeue, PumpIdle
<1>3. \A m \in Nodes, t \in Tasks : t \in pump'[m].todo => t \in pump[m].todo
  BY <1>2
<1>4. \A t \in Tasks : ~late[t] /\ t \in pump[n].todo => ~Held(t)'
  <2> SUFFICES ASSUME NEW t \in Tasks, ~late[t], t \in pump[n].todo,
                      NEW p \in Place, Holds(p, t)'
               PROVE  FALSE
    BY DEF Held
  <2>1. Holds(p, t)
    BY <1>3, PlaceEq DEF Holds, PumpRequeue, InQueue, Claimed
  <2>2. Holds(e, t)
    BY DEF Holds
  <2>3. p = e
    BY <1>1, <2>1, <2>2 DEF ExclusiveClaim, HolderUnique
  <2> QED
    BY <1>2, <2>3 DEF Holds
<1>5. \A t \in Tasks : t \notin pump[n].todo => row'[t] = row[t]
  BY DEF PumpRequeue, Update
<1> QED
  BY <1>3, <1>4, <1>5, DropStep DEF PumpRequeue, InQueue, OnceInQueue, Claimed

(* rx.recv moves the claim from the channel to a handler.                  *)
LEMMA WorkerRecvClaim ==
  ASSUME TypeOK, ExclusiveClaim, NEW n \in Nodes, WorkerRecv(n)
  PROVE  ExclusiveClaim'
<1>0. PICK r \in Slots : SetHandler(n, r, [task |-> Head(queue[n]), result |-> "none"])
  BY DEF WorkerRecv
<1>a. PICK t0 \in Tasks : t0 = Head(queue[n])
  BY DEF WorkerRecv, TypeOK
<1> DEFINE x == [kind |-> "handler", node |-> n, at |-> r]
           e == [kind |-> "queue", node |-> n, at |-> NoTask]
<1>1. x \in Place /\ e \in Place
  BY PlaceIn
<1>2. \A m \in Nodes, t \in Tasks :
        /\ InQueue(m, t)' => InQueue(m, t)
        /\ OnceInQueue(m, t) => OnceInQueue(m, t)'
        /\ InQueue(n, t0)
        /\ OnceInQueue(n, t0) => ~InQueue(n, t0)'
  BY <1>a, QueueTail DEF WorkerRecv
<1>3. handler'[n][r].task = t0 /\ \A m \in Nodes, s \in Slots :
        m # n \/ s # r => handler'[m][s] = handler[m][s]
  BY <1>0, <1>a, SetHandlerHolds
<1>4. \A p \in Place, t \in Tasks :
        Holds(p, t)' => Holds(p, t) \/ (t \in {t0} /\ p = x)
  <2> DEFINE S == {t0}
  <2>1. \A m \in Nodes, t \in Tasks :
          InQueue(m, t)' => InQueue(m, t) \/ (t \in S /\ x.kind = "queue" /\ x.node = m)
    BY <1>2
  <2>2. \A m \in Nodes, t \in Tasks :
          t \in pump'[m].todo =>
            t \in pump[m].todo \/ (t \in S /\ x.kind = "pump" /\ x.node = m)
    BY DEF WorkerRecv
  <2>3. \A m \in Nodes, s \in Slots, t \in Tasks :
          handler'[m][s].task = t =>
            handler[m][s].task = t
              \/ (t \in S /\ x.kind = "handler" /\ x.node = m /\ x.at = s)
    BY <1>3
  <2>4. \A m \in Nodes, d \in Enqueuers, t \in Tasks :
          Claimed(m, d, t)' =>
            Claimed(m, d, t) \/ (t \in S /\ x.kind = "enqueue" /\ x.node = m /\ x.at = d)
    BY DEF WorkerRecv, Claimed
  <2> HIDE DEF S, x
  <2>5. \A p \in Place, t \in Tasks :
          Holds(p, t)' => Holds(p, t) \/ (t \in S /\ p = x)
    BY <1>1, <2>1, <2>2, <2>3, <2>4, HoldsStep
  <2> QED
    BY <2>5 DEF S
<1>5. Holds(e, t0)
  BY <1>2 DEF Holds
<1>6. ~late[t0] => ~Holds(e, t0)'
  BY <1>2 DEF Holds, ExclusiveClaim, HolderUnique
<1>7. \A t \in Tasks : ~late[t] /\ t \in {t0} =>
        \A p \in Place : Holds(p, t)' => p = x
  BY <1>1, <1>4, <1>5, <1>6 DEF ExclusiveClaim, HolderUnique
<1>8. \A m \in Nodes, t \in Tasks : ~late[t] => OnceInQueue(m, t)'
  BY <1>2 DEF ExclusiveClaim, HolderUnique
<1>9. \A t \in Tasks : Held(t)' => Held(t)
  BY <1>1, <1>4, <1>5 DEF Held
<1>10. row' = row /\ late' = late
  BY DEF WorkerRecv
<1>11. \A t \in Tasks : ~late[t] /\ Held(t)' => row'[t].status = "running"
  BY <1>9, <1>10 DEF ExclusiveClaim, HolderMarked
<1> HIDE DEF x, e
<1> QED
  BY <1>1, <1>4, <1>7, <1>8, <1>10, <1>11, ClaimStep

(* Running the command leaves the claim with its handler.                  *)
LEMMA ExecuteClaim ==
  ASSUME TypeOK, ExclusiveClaim, NEW n \in Nodes, NEW s \in Slots, Execute(n, s)
  PROVE  ExclusiveClaim'
<1>1. /\ handler'[n][s].task = handler[n][s].task
      /\ \A m \in Nodes, r \in Slots :
           m # n \/ r # s => handler'[m][r] = handler[m][r]
  BY SetHandlerHolds DEF Execute
<1> QED
  BY <1>1, DropStep DEF Execute, InQueue, OnceInQueue, Claimed

(* A handler that settles its row is its only holder, so dropping the mark *)
(* is safe.                                                                *)
LEMMA SettleClaim ==
  ASSUME TypeOK, ExclusiveClaim, NEW n \in Nodes, NEW s \in Slots, Settle(n, s)
  PROVE  ExclusiveClaim'
<1>0. PICK t0 \in Tasks : t0 = handler[n][s].task
  <2>1. handler[n][s] \in Handling
    BY DEF TypeOK
  <2> QED
    BY <2>1, HandlingFacts DEF Settle
<1> DEFINE e == [kind |-> "handler", node |-> n, at |-> s]
<1>1. e \in Place
  BY PlaceIn
<1>2. /\ handler'[n][s].task = NoTask
      /\ \A m \in Nodes, r \in Slots :
           m # n \/ r # s => handler'[m][r] = handler[m][r]
  BY SetHandlerHolds DEF Settle, Idle
<1>3. NoTask \notin Tasks
  BY OutboxAssumption DEF NoTask
<1>4. \A m \in Nodes, r \in Slots, t \in Tasks :
        handler'[m][r].task = t => handler[m][r].task = t
  BY <1>2, <1>3
<1>5. ~late[t0] => ~Held(t0)'
  <2> SUFFICES ASSUME ~late[t0], NEW p \in Place, Holds(p, t0)'
               PROVE  FALSE
    BY DEF Held
  <2>1. Holds(p, t0)
    BY <1>4, PlaceEq DEF Holds, Settle, InQueue, Claimed
  <2>2. Holds(e, t0)
    BY <1>0 DEF Holds
  <2>3. p = e
    BY <1>1, <2>1, <2>2 DEF ExclusiveClaim, HolderUnique
  <2> QED
    BY <1>2, <1>3, <2>3 DEF Holds
<1>6. \A t \in Tasks : t # t0 => row'[t] = row[t]
  BY <1>0 DEF Settle, Update
<1> QED
  BY <1>4, <1>5, <1>6, DropStep DEF Settle, InQueue, OnceInQueue, Claimed

(* The reclaim at start-up keeps claims exclusive.                         *)
LEMMA RecoverReclaimClaim ==
  ASSUME TypeOK, ExclusiveClaim, NEW n \in Nodes, RecoverReclaim(n)
  PROVE  ExclusiveClaim'
<1>1. \A t \in Tasks : Held(t)' => Held(t)
  BY DEF Held, Holds, RecoverReclaim, InQueue, Claimed
<1>2. CASE ReclaimStaleRunning
  BY <1>1, <1>2, ReclaimKeeps, DropStep
  DEF RecoverReclaim, InQueue, OnceInQueue, Claimed
<1>3. CASE UNCHANGED <<row, late>>
  BY <1>3, DropStep DEF RecoverReclaim, InQueue, OnceInQueue, Claimed
<1> QED
  BY <1>2, <1>3 DEF RecoverReclaim

(* recover_outbox_tasks hands a row to a call that has not claimed it yet. *)
LEMMA RecoverNextClaim ==
  ASSUME TypeOK, ExclusiveClaim, NEW n \in Nodes, RecoverNext(n)
  PROVE  ExclusiveClaim'
<1>1. "recovery" \in Enqueuers
  BY DEF Enqueuers
<1>2. \/ UNCHANGED enq
      \/ \E t \in rec[n].todo : SetCall(n, "recovery", [pc |-> "begin", task |-> t])
  BY DEF RecoverNext
<1>3. \A m \in Nodes, d \in Enqueuers, t \in Tasks :
        Claimed(m, d, t)' => Claimed(m, d, t)
  <2>1. CASE UNCHANGED enq
    BY <2>1 DEF Claimed
  <2>2. ASSUME NEW t0 \in rec[n].todo,
               SetCall(n, "recovery", [pc |-> "begin", task |-> t0])
        PROVE  \A m \in Nodes, d \in Enqueuers, t \in Tasks :
                 Claimed(m, d, t)' => Claimed(m, d, t)
    <3>1. [pc |-> "begin", task |-> t0].pc # "claimed"
      OBVIOUS
    <3> QED
      BY <1>1, <2>2, <3>1, SetCallHolds DEF Claimed
  <2> QED
    BY <1>2, <2>1, <2>2
<1> QED
  BY <1>3, DropStep DEF RecoverNext, InQueue, OnceInQueue

(* The end of the worker drops the claims in the channel.                  *)
LEMMA WorkerExitClaim ==
  ASSUME TypeOK, ExclusiveClaim, NEW n \in Nodes, WorkerExit(n)
  PROVE  ExclusiveClaim'
<1>1. \A m \in Nodes : queue'[m] = queue[m] \/ queue'[m] = <<>>
  BY DEF TypeOK, WorkerExit
<1>2. \A m \in Nodes, t \in Tasks :
        /\ InQueue(m, t)' => InQueue(m, t)
        /\ OnceInQueue(m, t) => OnceInQueue(m, t)'
  BY <1>1 DEF InQueue, OnceInQueue
<1> QED
  BY <1>2, DropStep DEF WorkerExit, Claimed

(* The end of a process drops all its claims.                              *)
LEMMA ForgetClaim ==
  ASSUME TypeOK, ExclusiveClaim, NEW n \in Nodes, Forget(n)
  PROVE  ExclusiveClaim'
<1>1. \A m \in Nodes : queue'[m] = queue[m] \/ queue'[m] = <<>>
  BY DEF TypeOK, Forget
<1>2. \A m \in Nodes, t \in Tasks :
        /\ InQueue(m, t)' => InQueue(m, t)
        /\ OnceInQueue(m, t) => OnceInQueue(m, t)'
  BY <1>1 DEF InQueue, OnceInQueue
<1>3. \A m \in Nodes : pump'[m] = pump[m] \/ pump'[m].todo = {}
  BY DEF TypeOK, Forget, PumpIdle
<1>4. \A m \in Nodes, s \in Slots :
        handler'[m][s] = handler[m][s] \/ handler'[m][s].task = NoTask
  BY DEF TypeOK, Forget, Idle
<1>5. NoTask \notin Tasks
  BY OutboxAssumption DEF NoTask
<1>6. \A m \in Nodes, c \in Enqueuers :
        enq'[m][c] = enq[m][c] \/ enq'[m][c].pc = "idle"
  <2>1. enq' = [enq EXCEPT ![n] = [c \in Enqueuers |-> NoCall]]
    BY DEF Forget
  <2>2. \A m \in Nodes, c \in Enqueuers :
          enq'[m][c] = enq[m][c] \/ enq'[m][c] = NoCall
    BY <2>1 DEF TypeOK
  <2> QED
    BY <2>2 DEF NoCall
<1>7. \A m \in Nodes, c \in Enqueuers, t \in Tasks :
        Claimed(m, c, t)' => Claimed(m, c, t)
  BY <1>6 DEF Claimed
<1> QED
  BY <1>2, <1>3, <1>4, <1>5, <1>7, DropStep DEF Forget

(* A step that touches no holder and unmarks no running row.               *)
LEMMA QuietStep ==
  ASSUME ExclusiveClaim, UNCHANGED <<queue, pump, handler, enq, late>>,
         \A t \in Tasks : row[t].status = "running" => row'[t].status = "running"
  PROVE  ExclusiveClaim'
  BY DropStep DEF InQueue, OnceInQueue, Claimed

(* One outbox row is claimed exactly once, for any number of processes,    *)
(* callers, rows, queue slots and faults: unless the stale reclaim took it *)
(* from a living holder, a row has at most one holder among all submitting *)
(* calls, pumps, channels and handlers, at most once in a channel, and is  *)
(* marked running while it is held.                                        *)
THEOREM ClaimCorrect == Spec => []ExclusiveClaim
<1>1. Init => ExclusiveClaim
  <2> SUFFICES ASSUME Init
               PROVE  ExclusiveClaim
    OBVIOUS
  <2>1. NoTask \notin Tasks
    BY OutboxAssumption DEF NoTask
  <2>2. \A t \in Tasks, p \in Place : ~Holds(p, t)
    BY <2>1, PlaceEq DEF Init, Holds, InQueue, Claimed, PumpIdle, Idle, NoCall
  <2>3. \A n \in Nodes, t \in Tasks : OnceInQueue(n, t)
    BY DEF Init, OnceInQueue
  <2> QED
    BY <2>2, <2>3 DEF ExclusiveClaim, HolderUnique, HolderMarked, Held
<1>2. TypeOK /\ ExclusiveClaim /\ [Next]_vars => ExclusiveClaim'
  <2> SUFFICES ASSUME TypeOK, ExclusiveClaim, [Next]_vars
               PROVE  ExclusiveClaim'
    OBVIOUS
  <2>1. ASSUME NEW n \in Nodes, NEW c \in Enqueuers,
               Submit(n, c) \/ EnqueueStep(n, c) \/ CancelSubmit(n, c)
        PROVE  ExclusiveClaim'
    BY <2>1, SubmitClaim, TryReserveSlotClaim, MarkRunningClaim, SendClaim,
       CancelSubmitClaim
    DEF EnqueueStep
  <2>2. ASSUME NEW n \in Nodes, PullStep(n)
        PROVE  ExclusiveClaim'
    BY <2>2, PullTickClaim, PullReclaimClaim, PumpClaimClaim, PumpRowClaim,
       PumpRequeueClaim
    DEF PullStep
  <2>3. ASSUME NEW n \in Nodes, WorkerRecv(n)
        PROVE  ExclusiveClaim'
    BY <2>3, WorkerRecvClaim
  <2>4. ASSUME NEW n \in Nodes, NEW s \in Slots, HandlerStep(n, s)
        PROVE  ExclusiveClaim'
    BY <2>4, ExecuteClaim, SettleClaim DEF HandlerStep
  <2>5. ASSUME NEW n \in Nodes, RecoverReclaim(n) \/ RecoverNext(n)
        PROVE  ExclusiveClaim'
    BY <2>5, RecoverReclaimClaim, RecoverNextClaim
  <2>6. ASSUME NEW n \in Nodes, WorkerExit(n) \/ ProcessExit(n) \/ Crash(n)
        PROVE  ExclusiveClaim'
    BY <2>6, WorkerExitClaim, ForgetClaim DEF ProcessExit, Crash
  <2>7. ASSUME NEW n \in Nodes, Start(n) \/ RecoverSelect(n) \/ StopSignal(n)
        PROVE  ExclusiveClaim'
    BY <2>7, QuietStep DEF Start, RecoverSelect, StopSignal
  <2>8. ASSUME NEW t0 \in Tasks, BecomeDue(t0) \/ BecomeStale(t0)
        PROVE  ExclusiveClaim'
    <3>1. \A t \in Tasks : row[t].status = "running" => row'[t].status = "running"
      <4>1. CASE BecomeDue(t0)
        <5>1. row' = [row EXCEPT ![t0] = DueRow] /\ row[t0].status = "pending"
          BY <4>1 DEF BecomeDue
        <5> QED
          BY <5>1 DEF TypeOK
      <4>2. CASE BecomeStale(t0)
        <5>1. row' = [row EXCEPT ![t0] = StaleRow]
          BY <4>2 DEF BecomeStale
        <5> QED
          BY <5>1 DEF TypeOK, StaleRow
      <4> QED
        BY <2>8, <4>1, <4>2
    <3> QED
      BY <2>8, <3>1, QuietStep DEF BecomeDue, BecomeStale, nodeVars
  <2>9. CASE UNCHANGED vars
    BY <2>9, QuietStep DEF vars
  <2> QED
    BY <2>1, <2>2, <2>3, <2>4, <2>5, <2>6, <2>7, <2>8, <2>9
    DEF Next, NodeStep, RecoverStep, StopStep
<1> QED
  BY <1>1, <1>2, TypeCorrect, PTL DEF Spec
=============================================================================
