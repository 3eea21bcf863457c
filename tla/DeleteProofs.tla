---------------------------- MODULE DeleteProofs ----------------------------
(***************************************************************************)
(* What the delete command accounts for when it ends, and how long its     *)
(* ladder of retries can get, for every set of keys, chunk size, retry     *)
(* configuration and number of executions.                                 *)
(***************************************************************************)
EXTENDS DeleteCommand, FiniteSetTheorems, TLAPS

(* Every object left is accounted for: dropped by an earlier attempt, or in*)
(* what this attempt still has to send or has seen fail, by its key or     *)
(* without; and while the attempt runs, these are keys it started from.  A *)
(* failed attempt leaves only what is pending or dropped.  Neither of the  *)
(* two properties is inductive without it: both look at an end whose keys  *)
(* were sorted into todo, retry, refused and unnamed chunk by chunk.       *)
Accounted ==
  /\ pc = "attempt" =>
       /\ objects \subseteq dropped \cup todo \cup retry \cup refused \cup unnamed
       /\ todo \cup retry \cup RefusedObjects \subseteq pending
       /\ unnamed # {} => Unknown \in refused
  /\ pc = "failed"  => objects \subseteq dropped \cup pending

DInv == TypeOK /\ Accounted /\ OkLeavesOnlyDropped /\ DeadNamesTheRest

(* The next sleep is a number of seconds, capped or not.                   *)
LEMMA BackoffType == \A b \in Nat : NextBackoff(b) \in Nat
BY CommandAssumption DEF NextBackoff

-----------------------------------------------------------------------------
(* The first execution has every key still to do.                          *)
LEMMA InitDInv == Init => DInv
<1> SUFFICES ASSUME Init PROVE DInv
  OBVIOUS
<1>1. TypeOK
  BY CommandAssumption DEF Init, TypeOK, Ended
<1>2. Accounted /\ OkLeavesOnlyDropped /\ DeadNamesTheRest
  BY DEF Init, Accounted, RefusedObjects, OkLeavesOnlyDropped, DeadNamesTheRest
<1> QED  BY <1>1, <1>2 DEF DInv

(* Every step stays within the types; retries are counted below the limit. *)
LEMMA NextTyped == TypeOK /\ [Next]_vars => TypeOK'
<1> SUFFICES ASSUME TypeOK, [Next]_vars PROVE TypeOK'
  OBVIOUS
<1> USE CommandAssumption
<1>1. CASE DeleteChunk /\ UNCHANGED execution
  BY <1>1 DEF DeleteChunk, TypeOK
<1>2. CASE RequestFails /\ UNCHANGED execution
  BY <1>2 DEF RequestFails, TypeOK, Ended
<1>3. CASE Evaluate /\ UNCHANGED execution
  BY <1>3 DEF Evaluate, RefusedObjects, TypeOK, Ended
<1>4. CASE SleepAndRetry /\ UNCHANGED execution
  BY <1>4, BackoffType DEF SleepAndRetry, GiveUp, TypeOK
<1>5. CASE RetriesExhausted /\ UNCHANGED execution
  BY <1>5 DEF RetriesExhausted, TypeOK, Ended
<1>6. CASE ExecuteAgain
  BY <1>6 DEF ExecuteAgain, TypeOK
<1>7. CASE UNCHANGED vars
  BY <1>7 DEF vars, runVars, TypeOK
<1> QED  BY <1>1, <1>2, <1>3, <1>4, <1>5, <1>6, <1>7 DEF Next, Run

(* Every step keeps the account of the objects.                            *)
LEMMA NextDInv == DInv /\ [Next]_vars => DInv'
<1> SUFFICES ASSUME DInv, [Next]_vars PROVE DInv'
  OBVIOUS
<1>0. TypeOK'
  BY NextTyped DEF DInv
<1> SUFFICES Accounted' /\ OkLeavesOnlyDropped' /\ DeadNamesTheRest'
  BY <1>0 DEF DInv
<1> USE DEF Accounted, OkLeavesOnlyDropped, DeadNamesTheRest, FailedKeys
<1>1. CASE DeleteChunk
  <2> DEFINE Answered(C, R, N, U) ==
          /\ objects' = objects \ (C \ (R \cup N \cup U))
          /\ retry' = retry \cup R
          /\ refused' = refused \cup N \cup {Unknown : u \in U}
          /\ unnamed' = unnamed \cup U
          /\ todo' = todo \ C
  <2>1. PICK C \in SUBSET todo : \E R \in SUBSET C : \E N \in SUBSET (C \ R) :
          \E U \in SUBSET (C \ (R \cup N)) : Answered(C, R, N, U)
    BY <1>1 DEF DeleteChunk
  <2>2. PICK R \in SUBSET C : \E N \in SUBSET (C \ R) :
          \E U \in SUBSET (C \ (R \cup N)) : Answered(C, R, N, U)
    BY <2>1
  <2>3. PICK N \in SUBSET (C \ R) :
          \E U \in SUBSET (C \ (R \cup N)) : Answered(C, R, N, U)
    BY <2>2
  <2>4. PICK U \in SUBSET (C \ (R \cup N)) : Answered(C, R, N, U)
    BY <2>3
  <2>5. pc = "attempt" /\ UNCHANGED <<pending, dropped, pc>>
    BY <1>1 DEF DeleteChunk
  <2>6. objects' \subseteq dropped' \cup todo' \cup retry' \cup refused' \cup unnamed'
    BY <2>4, <2>5 DEF DInv
  <2>7. todo' \cup retry' \cup RefusedObjects' \subseteq pending'
    <3>1. RefusedObjects' \subseteq RefusedObjects \cup N \cup U
      BY <2>4 DEF RefusedObjects
    <3> QED  BY <2>4, <2>5, <3>1 DEF DInv
  <2>8. unnamed' # {} => Unknown \in refused'
    BY <2>4, <2>5 DEF DInv
  <2> QED  BY <2>5, <2>6, <2>7, <2>8
<1>2. CASE RequestFails
  <2>1. objects' \subseteq objects /\ pc = "attempt" /\ UNCHANGED <<pending, dropped>>
        /\ pc' \in {"failed", "dead"} /\ refused' = {} /\ unnamed' = {}
    BY <1>2 DEF RequestFails
  <2>2. objects' \subseteq dropped' \cup pending'
    <3>1. objects \subseteq dropped \cup pending
      BY <2>1, CommandAssumption DEF DInv, RefusedObjects, TypeOK
    <3> QED  BY <2>1, <3>1
  <2> QED  BY <2>1, <2>2
<1>3. CASE Evaluate
  BY <1>3, CommandAssumption DEF Evaluate, RefusedObjects, DInv, TypeOK
<1>4. CASE SleepAndRetry
  BY <1>4 DEF SleepAndRetry, RefusedObjects, DInv
<1>5. CASE RetriesExhausted
  BY <1>5 DEF RetriesExhausted, DInv
<1>6. CASE ExecuteAgain
  BY <1>6 DEF ExecuteAgain, RefusedObjects, DInv, TypeOK
<1>7. CASE UNCHANGED vars
  BY <1>7 DEF vars, runVars, RefusedObjects, DInv
<1> QED  BY <1>1, <1>2, <1>3, <1>4, <1>5, <1>6, <1>7 DEF Next, Run

(* So the account is right at all times.                                   *)
LEMMA AlwaysDInv == Spec => []DInv
BY InitDInv, NextDInv, PTL DEF Spec

-----------------------------------------------------------------------------
(* Every variable of the command stays within its type: no attempt works on*)
(* a key outside the payload and no execution counts more retries than     *)
(* RetryConfig allows.                                                     *)
THEOREM CommandTyped == Spec => []TypeOK
<1>1. DInv => TypeOK
  BY DEF DInv
<1> QED  BY <1>1, AlwaysDInv, PTL

(* A command that reports success leaves no object but those that S3       *)
(* refused to delete in an attempt that others survived (execute).         *)
THEOREM SuccessAccounts == Spec => []OkLeavesOnlyDropped
<1>1. DInv => OkLeavesOnlyDropped
  BY DEF DInv
<1> QED  BY <1>1, AlwaysDInv, PTL

(* The keys named by a command that is given up are all that is left, apart*)
(* from those dropped before and those whose failure S3 reported without a *)
(* key, which "<unknown>" among the keys stands for (execute,              *)
(* delete_objects_with_report, mark_outbox_dead).                          *)
THEOREM DeathAccounts == Spec => []DeadNamesTheRest
<1>1. DInv => DeadNamesTheRest
  BY DEF DInv
<1> QED  BY <1>1, AlwaysDInv, PTL

-----------------------------------------------------------------------------
(***************************************************************************)
(* The ladder                                                              *)
(***************************************************************************)
(* No sleep is longer than the cap, so that the time slept is bounded by   *)
(* the number of retries.                                                  *)
LInv == TypeOK /\ backoff <= MaxWait /\ waited <= retries * MaxWait

(* Arithmetic: one more sleep, and no more sleeps than retries.            *)
LEMMA OneMore == \A r, m \in Nat : (r + 1) * m = r * m + m
OBVIOUS

LEMMA Product == \A r, s, m \in Nat : r <= s => r * m <= s * m
OBVIOUS

(* The sleeps of one execution together never outlast the running timeout, *)
(* for every retry configuration whose backoff starts below its cap and    *)
(* whose number of retries times that cap fits the timeout; that of the    *)
(* code does, with 10 times 30 s and 300 s (run_executable_with_retry,     *)
(* outbox_running_timeout_seconds).                                        *)
THEOREM LadderBounded ==
  ASSUME Backoff <= MaxWait, MaxRetries * MaxWait <= RunningTimeout
  PROVE  Spec => []LadderWithinTimeout
<1> USE CommandAssumption
<1>1. Init => LInv
  <2> SUFFICES ASSUME Init PROVE LInv
    OBVIOUS
  <2>1. TypeOK
    BY InitDInv DEF DInv
  <2> QED  BY <2>1 DEF Init, LInv
<1>2. LInv /\ [Next]_vars => LInv'
  <2> SUFFICES ASSUME LInv, [Next]_vars PROVE LInv'
    OBVIOUS
  <2>1. TypeOK'
    BY NextTyped DEF LInv
  <2>2. CASE SleepAndRetry
    <3>1. backoff' <= MaxWait
      BY <2>2 DEF SleepAndRetry, NextBackoff, LInv, TypeOK
    <3>2. waited' <= retries * MaxWait + MaxWait
      <4>1. retries * MaxWait \in Nat
        BY DEF LInv, TypeOK
      <4>2. waited' = waited + backoff /\ waited \in Nat /\ backoff \in Nat
            /\ backoff <= MaxWait /\ waited <= retries * MaxWait
        BY <2>2 DEF SleepAndRetry, LInv, TypeOK
      <4> QED  BY <4>1, <4>2
    <3>3. retries' * MaxWait = retries * MaxWait + MaxWait
      BY <2>2, OneMore DEF SleepAndRetry, LInv, TypeOK
    <3> QED  BY <2>1, <3>1, <3>2, <3>3 DEF LInv
  <2>3. CASE ExecuteAgain
    BY <2>1, <2>3 DEF ExecuteAgain, LInv
  <2>4. CASE UNCHANGED <<retries, backoff, waited>>
    BY <2>1, <2>4 DEF LInv
  <2> QED  BY <2>2, <2>3, <2>4 DEF Next, Run, DeleteChunk, RequestFails, Evaluate,
              RetriesExhausted, vars, runVars
<1>3. LInv => LadderWithinTimeout
  <2> SUFFICES ASSUME LInv PROVE waited <= RunningTimeout
    BY DEF LadderWithinTimeout
  <2>1. retries * MaxWait <= MaxRetries * MaxWait /\ retries * MaxWait \in Nat
        /\ MaxRetries * MaxWait \in Nat
    BY Product DEF LInv, TypeOK
  <2> QED  BY <2>1 DEF LInv, TypeOK
<1> QED  BY <1>1, <1>2, <1>3, PTL DEF Spec

-----------------------------------------------------------------------------
(***************************************************************************)
(* How many steps an execution can still take                              *)
(***************************************************************************)
PhaseSteps == CASE pc = "attempt" -> Cardinality(todo) + 2
                [] pc = "failed"  -> 1
                [] OTHER          -> 0
Weight == Cardinality(Keys) + 2

LEMMA Sizes ==
  /\ Cardinality(Keys) \in Nat
  /\ \A S \in SUBSET Keys : Cardinality(S) \in Nat /\ Cardinality(S) <= Cardinality(Keys)
  /\ \A S \in SUBSET Keys : S # {} => Cardinality(S) > 0
  /\ \A S \in SUBSET Keys : \A C \in SUBSET S : C # {} => Cardinality(S \ C) < Cardinality(S)
<1>1. \A S \in SUBSET Keys : IsFiniteSet(S) /\ Cardinality(S) <= Cardinality(Keys)
  BY CommandAssumption, FS_Subset
<1>2. \A S \in SUBSET Keys : Cardinality(S) \in Nat
  BY <1>1, FS_CardinalityType
<1>3. \A S \in SUBSET Keys : S # {} => Cardinality(S) > 0
  BY <1>1, <1>2, FS_EmptySet
<1>4. ASSUME NEW S \in SUBSET Keys, NEW C \in SUBSET S, C # {}
      PROVE  Cardinality(S \ C) < Cardinality(S)
  <2>1. IsFiniteSet(S) /\ S \ C \in SUBSET S /\ S \ C # S /\ S \ C \in SUBSET Keys
    BY <1>1, <1>4
  <2>2. Cardinality(S \ C) <= Cardinality(S) /\ Cardinality(S \ C) # Cardinality(S)
    BY <2>1, FS_Subset
  <2> QED  BY <1>2, <2>1, <2>2
<1> QED  BY <1>1, <1>2, <1>3, <1>4, CommandAssumption, FS_CardinalityType

(* A chunk of a non-empty list has a key.                                  *)
LEMMA ChunkNonEmpty ==
  ASSUME TypeOK, todo # {}, NEW C \in SUBSET todo, Chunk(C)
  PROVE  C # {}
<1>1. Cardinality(todo) \in Nat /\ Cardinality(todo) > 0
  BY Sizes DEF TypeOK
<1>2. Cardinality(C) > 0
  BY <1>1, CommandAssumption DEF Chunk
<1> QED  BY <1>2, FS_EmptySet

(* Steps within an attempt.                                                *)
LEMMA AttemptWinds ==
  ASSUME TypeOK, DeleteChunk \/ RequestFails \/ Evaluate \/ RetriesExhausted
  PROVE  /\ UNCHANGED retries /\ PhaseSteps' < PhaseSteps
         /\ PhaseSteps \in Nat /\ PhaseSteps' \in Nat
<1>0. todo \in SUBSET Keys /\ Cardinality(todo) \in Nat
  BY Sizes DEF TypeOK
<1>1. CASE DeleteChunk
  <2>1. PICK C \in SUBSET todo : Chunk(C) /\ todo' = todo \ C
    BY <1>1 DEF DeleteChunk
  <2>2. pc = "attempt" /\ pc' = "attempt" /\ todo # {} /\ UNCHANGED retries
    BY <1>1 DEF DeleteChunk
  <2>3. Cardinality(todo \ C) < Cardinality(todo) /\ Cardinality(todo \ C) \in Nat
    BY <1>0, <2>1, <2>2, ChunkNonEmpty, Sizes
  <2>4. PhaseSteps = Cardinality(todo) + 2 /\ PhaseSteps' = Cardinality(todo \ C) + 2
    BY <2>1, <2>2 DEF PhaseSteps
  <2> QED  BY <1>0, <2>2, <2>3, <2>4
<1>2. CASE RequestFails \/ Evaluate
  <2>1. pc = "attempt" /\ pc' \in {"failed", "dead", "ok"} /\ UNCHANGED retries
    BY <1>2 DEF RequestFails, Evaluate
  <2>2. PhaseSteps = Cardinality(todo) + 2 /\ PhaseSteps' \in {0, 1}
    BY <2>1 DEF PhaseSteps
  <2> QED  BY <1>0, <2>1, <2>2
<1>3. CASE RetriesExhausted
  <2>1. pc = "failed" /\ pc' = "retryable" /\ UNCHANGED retries
    BY <1>3 DEF RetriesExhausted
  <2>2. PhaseSteps = 1 /\ PhaseSteps' = 0
    BY <2>1 DEF PhaseSteps
  <2> QED  BY <2>1, <2>2
<1> QED  BY <1>1, <1>2, <1>3

(* A retry spends more than the attempt it begins can take.                *)
LEMMA RetryWinds ==
  ASSUME TypeOK, SleepAndRetry
  PROVE  /\ retries' = retries + 1 /\ retries' <= MaxRetries
         /\ PhaseSteps = 1 /\ PhaseSteps' \in Nat /\ PhaseSteps' <= Weight
<1>1. /\ retries' = retries + 1 /\ retries < MaxRetries
      /\ pc = "failed" /\ pc' = "attempt" /\ todo' = pending
  BY CommandAssumption DEF SleepAndRetry, GiveUp, TypeOK
<1>2. Cardinality(pending) \in Nat /\ Cardinality(pending) <= Cardinality(Keys)
      /\ Cardinality(Keys) \in Nat
  BY Sizes DEF TypeOK
<1>3. PhaseSteps = 1 /\ PhaseSteps' = Cardinality(pending) + 2
  BY <1>1 DEF PhaseSteps
<1>4. PhaseSteps' \in Nat /\ PhaseSteps' <= Weight
  BY <1>2, <1>3 DEF Weight
<1>5. retries' <= MaxRetries
  BY <1>1, CommandAssumption DEF TypeOK
<1> QED  BY <1>1, <1>3, <1>4, <1>5

LEMMA OneLess == \A r, m, w \in Nat : r + 1 <= m => /\ (m - r) * w = (m - (r + 1)) * w + w
                                                    /\ (m - (r + 1)) * w \in Nat
<1> SUFFICES ASSUME NEW r \in Nat, NEW m \in Nat, NEW w \in Nat, r + 1 <= m
             PROVE  /\ (m - r) * w = (m - (r + 1)) * w + w /\ (m - (r + 1)) * w \in Nat
  OBVIOUS
<1>1. PICK k \in Nat : k = m - (r + 1)
  OBVIOUS
<1>2. m - r = k + 1
  BY <1>1
<1>3. (k + 1) * w = k * w + w /\ k * w \in Nat
  BY OneMore
<1> QED  BY <1>1, <1>2, <1>3

LEMMA Shifted == \A k, a, b \in Nat : b < a => k + b \in Nat /\ k + b < k + a
OBVIOUS

(***************************************************************************)
(* Every step of an execution brings it nearer to its end: from the first  *)
(* chunk it takes at most (MaxRetries + 1) * (Cardinality(Keys) + 2) steps,*)
(* for every set of keys, chunk size and retry configuration and whatever  *)
(* S3 answers.  This is what makes it end once the runtime polls it        *)
(* (ExecutionEnds).                                                        *)
(***************************************************************************)
THEOREM ExecutionsWindDown == Spec => ExecutionWindsDown
<1>1. ASSUME TypeOK, Run PROVE StepsLeft' \in Nat /\ StepsLeft' < StepsLeft
  <2>0. /\ retries \in Nat /\ retries <= MaxRetries /\ MaxRetries \in Nat /\ Weight \in Nat
        /\ StepsLeft = (MaxRetries - retries) * Weight + PhaseSteps
        /\ StepsLeft' = (MaxRetries - retries') * Weight + PhaseSteps'
    BY <1>1, Sizes, CommandAssumption DEF TypeOK, StepsLeft, PhaseSteps, Weight
  <2> HIDE DEF Weight
  <2>1. CASE DeleteChunk \/ RequestFails \/ Evaluate \/ RetriesExhausted
    <3>1. UNCHANGED retries /\ PhaseSteps' < PhaseSteps
          /\ PhaseSteps \in Nat /\ PhaseSteps' \in Nat
      BY <1>1, <2>1, AttemptWinds
    <3>2. PICK k \in Nat : k = (MaxRetries - retries) * Weight
      <4>1. MaxRetries - retries \in Nat
        BY <2>0
      <4> QED  BY <2>0, <4>1
    <3>3. StepsLeft = k + PhaseSteps /\ StepsLeft' = k + PhaseSteps'
      BY <2>0, <3>1, <3>2
    <3> QED  BY <3>1, <3>3, Shifted
  <2>2. CASE SleepAndRetry
    <3>1. /\ retries' = retries + 1 /\ retries' <= MaxRetries
          /\ PhaseSteps = 1 /\ PhaseSteps' \in Nat /\ PhaseSteps' <= Weight
      BY <1>1, <2>2, RetryWinds
    <3>2. PICK k \in Nat : k = (MaxRetries - (retries + 1)) * Weight
      BY <2>0, <3>1, OneLess
    <3>3. (MaxRetries - retries) * Weight = k + Weight
      BY <2>0, <3>1, <3>2, OneLess
    <3>4. StepsLeft = k + Weight + 1 /\ StepsLeft' = k + PhaseSteps'
      BY <2>0, <3>1, <3>2, <3>3
    <3>5. Weight \in Nat /\ Weight + 1 \in Nat /\ PhaseSteps' < Weight + 1
      BY <2>0, <3>1
    <3>6. StepsLeft = k + (Weight + 1)
      BY <3>4, <3>5
    <3> QED  BY <3>1, <3>4, <3>5, <3>6, Shifted
  <2> QED  BY <1>1, <2>1, <2>2 DEF Run
<1>2. DInv /\ [Next]_vars => [Run => StepsLeft' \in Nat /\ StepsLeft' < StepsLeft]_vars
  BY <1>1 DEF DInv
<1> QED  BY <1>2, AlwaysDInv, PTL DEF Spec, ExecutionWindsDown

=============================================================================
