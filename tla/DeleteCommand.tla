---------------------------- MODULE DeleteCommand ----------------------------
(***************************************************************************)
(* The one command of the outbox: DeleteArchiveObjectsCommand::execute     *)
(* under run_executable_with_retry and DefaultTaskHandler::handle, on top  *)
(* of delete_objects_with_report, which deletes chunk by chunk.            *)
(*                                                                         *)
(* A failed delete of one key is retryable or not by its error code        *)
(* (is_retryable_delete_object_failure), a failed request by its kind      *)
(* (classify_delete_archive_error); the codes themselves are abstracted to *)
(* that verdict.  S3 may report a failure without saying of which key:     *)
(* s3_storage.rs puts "<unknown>" in its place, and the command refuses to *)
(* retry it, so that its error names "<unknown>" and not the object.       *)
(***************************************************************************)
EXTENDS Naturals, FiniteSets

CONSTANTS
  Keys,            \* object_keys in the payload of the outbox row
  Unknown,         \* "<unknown>", or an empty key: a failure without its key
  ChunkSize,       \* MAX_DELETE_PER_REQUEST
  MaxRetries,      \* RetryConfig
  Backoff,
  Multiplier,
  MaxWait,
  RunningTimeout,  \* outbox_running_timeout_seconds
  MaxExecutions    \* bound: executions of the row

ASSUME CommandAssumption ==
  /\ IsFiniteSet(Keys)
  /\ Unknown \notin Keys
  /\ ChunkSize \in Nat \ {0}
  /\ MaxRetries \in Nat
  /\ Backoff \in Nat /\ Multiplier \in Nat \ {0} /\ MaxWait \in Nat
  /\ RunningTimeout \in Nat
  /\ MaxExecutions \in Nat \ {0}

VARIABLES
  objects,   \* keys that still have an object
  pending,   \* pending_keys
  todo,      \* keys of this attempt not yet sent to S3
  retry,     \* failures of this attempt that can be retried
  refused,   \* failures of this attempt that cannot, as they are reported
  unnamed,   \* history: objects of this attempt refused without their key
  dropped,   \* history: refused objects that an earlier attempt left behind
  pc,
  retries,
  backoff,
  waited,    \* history: time slept in this execution
  execution  \* history: number of this execution

runVars == <<objects, pending, todo, retry, refused, unnamed, dropped, pc,
             retries, backoff, waited>>
vars == <<runVars, execution>>

Ended == {"ok", "retryable", "dead"}

(* Every variable stays within its type.                                   *)
TypeOK ==
  /\ objects \in SUBSET Keys /\ pending \in SUBSET Keys /\ todo \in SUBSET Keys
  /\ retry \in SUBSET Keys /\ refused \in SUBSET (Keys \cup {Unknown})
  /\ unnamed \in SUBSET Keys /\ dropped \in SUBSET Keys
  /\ pc \in {"attempt", "failed"} \cup Ended
  /\ retries \in 0 .. MaxRetries
  /\ backoff \in Nat /\ waited \in Nat
  /\ execution \in 1 .. MaxExecutions

(* The first execution starts from the payload of the row.                 *)
Init ==
  /\ objects = Keys
  /\ execution = 1
  /\ pending = Keys /\ todo = Keys
  /\ retry = {} /\ refused = {} /\ unnamed = {} /\ dropped = {}
  /\ pc = "attempt"
  /\ retries = 0 /\ backoff = Backoff /\ waited = 0

-----------------------------------------------------------------------------
Chunk(C) == C \subseteq todo /\ Cardinality(C) = IF Cardinality(todo) < ChunkSize
                                                 THEN Cardinality(todo) ELSE ChunkSize

(* S3 answers for every key of the chunk: deleted, or failed and reported  *)
(* by its key (R can be retried, N cannot) or without one (U).             *)
DeleteChunk ==
  /\ pc = "attempt"
  /\ todo # {}
  /\ \E C \in SUBSET todo : \E R \in SUBSET C : \E N \in SUBSET (C \ R) :
     \E U \in SUBSET (C \ (R \cup N)) :
       /\ Chunk(C)
       /\ objects' = objects \ (C \ (R \cup N \cup U))
       /\ retry' = retry \cup R
       /\ refused' = refused \cup N \cup {Unknown : u \in U}
       /\ unnamed' = unnamed \cup U
       /\ todo' = todo \ C
  /\ UNCHANGED <<pending, dropped, pc, retries, backoff, waited>>

(* The request as a whole fails, perhaps after it has deleted some; what   *)
(* earlier chunks reported is lost with it.                                *)
RequestFails ==
  /\ pc = "attempt"
  /\ todo # {}
  /\ \E C \in SUBSET todo : \E D \in SUBSET C :
       Chunk(C) /\ objects' = objects \ D
  /\ pc' \in {"failed", "dead"}
  /\ retry' = {} /\ refused' = {} /\ unnamed' = {} /\ todo' = {}
  /\ UNCHANGED <<pending, dropped, retries, backoff, waited>>

(* The objects S3 refused to delete in this attempt, named or not.         *)
RefusedObjects == (refused \ {Unknown}) \cup unnamed

(* The rest of execute, once every chunk is answered.  Mutant: keys that   *)
(* may be retried are forgotten when others were refused.                  *)
EvaluateForgetful ==
  /\ pc = "attempt"
  /\ todo = {}
  /\ \/ /\ refused = {} /\ retry = {} /\ pc' = "ok"
        /\ UNCHANGED <<pending, dropped>>
     \/ /\ refused # {}
        /\ pending' = {} /\ pc' = "failed"
        /\ dropped' = dropped \cup RefusedObjects
     \/ /\ refused = {} /\ retry # {}
        /\ pending' = retry /\ pc' = "failed"
        /\ UNCHANGED dropped
  /\ UNCHANGED <<objects, todo, retry, refused, unnamed, retries, backoff, waited>>

(* Mutant: a mixed failure is not retried.                                 *)
EvaluateMixedDead ==
  /\ pc = "attempt"
  /\ todo = {}
  /\ pc' = IF refused # {} THEN "dead" ELSE IF retry # {} THEN "failed" ELSE "ok"
  /\ pending' = IF retry # {} THEN retry ELSE pending
  /\ UNCHANGED <<objects, todo, retry, refused, unnamed, dropped, retries, backoff,
                 waited>>

Evaluate ==
  /\ pc = "attempt"
  /\ todo = {}
  /\ \/ /\ retry = {} /\ refused = {}
        /\ pc' = "ok"
        /\ UNCHANGED <<pending, dropped>>
     \/ /\ retry # {}                        \* what was refused is dropped
        /\ pending' = retry
        /\ dropped' = dropped \cup RefusedObjects
        /\ pc' = "failed"
     \/ /\ retry = {} /\ refused # {}
        /\ pc' = "dead"
        /\ UNCHANGED <<pending, dropped>>
  /\ UNCHANGED <<objects, todo, retry, refused, unnamed, retries, backoff, waited>>

(* The loop of run_executable_with_retry.  Mutant: no cap on the backoff.  *)
NextBackoffUncapped(b) == b * Multiplier
NextBackoff(b) == IF b * Multiplier < MaxWait THEN b * Multiplier ELSE MaxWait

(* Mutant: the limit on retries is compared the wrong way round.           *)
GiveUpLate == retries > MaxRetries
GiveUp == retries >= MaxRetries

(* Mutant: retries are not counted.                                        *)
SleepAndRetryUncounted ==
  /\ pc = "failed"
  /\ pc' = "attempt"
  /\ todo' = pending /\ retry' = {} /\ refused' = {} /\ unnamed' = {}
  /\ UNCHANGED <<objects, pending, dropped, retries, backoff, waited>>

SleepAndRetry ==
  /\ pc = "failed"
  /\ ~GiveUp
  /\ retries' = retries + 1
  /\ waited' = waited + backoff
  /\ backoff' = NextBackoff(backoff)
  /\ pc' = "attempt"
  /\ todo' = pending /\ retry' = {} /\ refused' = {} /\ unnamed' = {}
  /\ UNCHANGED <<objects, pending, dropped>>

RetriesExhausted ==
  /\ pc = "failed"
  /\ GiveUp
  /\ pc' = "retryable"
  /\ UNCHANGED <<objects, pending, todo, retry, refused, unnamed, dropped,
                 retries, backoff, waited>>

(* The row is executed again from its payload: it was requeued, its        *)
(* execution was lost, or the statement that settles it failed.            *)
ExecuteAgain ==
  /\ execution < MaxExecutions
  /\ execution' = execution + 1
  /\ pending' = Keys /\ todo' = Keys
  /\ retry' = {} /\ refused' = {} /\ unnamed' = {} /\ dropped' = {}
  /\ pc' = "attempt"
  /\ retries' = 0 /\ backoff' = Backoff /\ waited' = 0
  /\ UNCHANGED objects

Run == /\ DeleteChunk \/ RequestFails \/ Evaluate \/ SleepAndRetry \/ RetriesExhausted
       /\ UNCHANGED execution
Next == Run \/ ExecuteAgain

Spec == Init /\ [][Next]_vars

(* The runtime polls an execution until it ends.                           *)
FairSpec == Spec /\ WF_vars(Run)

-----------------------------------------------------------------------------
(* When the command reports success and its row leaves the outbox, every   *)
(* object is gone except those S3 refused to delete while others could     *)
(* still be retried.                                                       *)
OkLeavesOnlyDropped == pc = "ok" => objects \subseteq dropped

(* The failed_keys that end up in last_error of a row marked dead name     *)
(* every object left behind, except those a mixed failure had dropped and  *)
(* those whose failure S3 reported without a key; where there are any of   *)
(* the latter, "<unknown>" is among the failed_keys and says so.           *)
FailedKeys == IF refused = {} THEN pending ELSE refused
DeadNamesTheRest ==
  pc = "dead" => /\ objects \subseteq dropped \cup FailedKeys \cup unnamed
                 /\ unnamed # {} => Unknown \in FailedKeys

(* The ladder of retries alone never outlasts the running timeout, so a    *)
(* row whose handler only sleeps between its retries is not reclaimed.     *)
LadderWithinTimeout == waited <= RunningTimeout

(* An execution has a bounded number of steps left: every chunk, answer,   *)
(* evaluation and retry takes it nearer to its end, also when chunks fail, *)
(* keys are dropped and attempts start over with what is pending.          *)
StepsLeft ==
  (MaxRetries - retries) * (Cardinality(Keys) + 2)
    + CASE pc = "attempt" -> Cardinality(todo) + 2
        [] pc = "failed"  -> 1
        [] OTHER          -> 0
ExecutionWindsDown == [][Run => StepsLeft' \in Nat /\ StepsLeft' < StepsLeft]_vars

(* Every execution ends with one of the three results, unless it is cut    *)
(* short and the row is executed again.                                    *)
ExecutionEnds == pc \notin Ended ~> pc \in Ended

=============================================================================
