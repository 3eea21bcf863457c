---------------------------- MODULE ArchiveStore ----------------------------
(***************************************************************************)
(* Files of archive records and user avatars.  They live in two stores that*)
(* have no common transaction: PostgreSQL (archive_record, sys_file,       *)
(* sys_user.avatar_key) and S3 (archive/<record>/<file>, avatar/<user> and *)
(* the uploads under temp/).  The module follows the handlers that create  *)
(* and delete records and set avatars, the delete commands they leave in   *)
(* the outbox, and cleanup_orphan_persistent_objects, the periodic task    *)
(* that removes what none of them did                                      *)
(* (src/modules/archive, src/modules/user, src/tasks/periodic/             *)
(* s3_cleanup.rs, src/utils/s3_storage.rs).                                *)
(*                                                                         *)
(* One step is one SQL statement, Redis command or S3 request.             *)
(***************************************************************************)
EXTENDS Naturals, Sequences, FiniteSets

CONSTANTS
  Records,    \* create requests; each gets a record_id of its own
  Files,      \* uploads of one upload session
  Users,      \* users that set an avatar
  Deleters,   \* delete requests
  Cleaners,   \* processes running the periodic cleanup
  MaxFaults,  \* bound: failed or cancelled steps, all together
  AllowSlow,  \* may a request outlive the minimum age of the cleanup?
  Nobody      \* no record, no process

ASSUME StoreAssumption ==
  /\ MaxFaults \in Nat
  /\ AllowSlow \in BOOLEAN
  /\ Nobody \notin Records \cup Files \cup Cleaners
  /\ Users \cap (Records \X Files) = {}

VARIABLES
  session,   \* is the upload session in Redis?
  temp,      \* uploads present under temp/
  object,    \* persistent objects: absent, or by their age
  landing,   \* copies S3 still carries out after the caller saw an error
  record,    \* archive_record and the transaction that inserts it
  fileRow,   \* sys_file: its primary key is file_id
  create,    \* create requests
  delete,    \* delete requests
  command,   \* keys of the delete command of a record in the outbox
  account,   \* sys_user
  avatar,    \* requests that set an avatar
  clean,     \* periodic cleanup of each process
  lock,      \* holder of the advisory lock
  faults

vars    == <<session, temp, object, landing, record, fileRow, create, delete,
             command, account, avatar, clean, lock, faults>>

-----------------------------------------------------------------------------
ArchiveKeys == Records \X Files
Keys        == ArchiveKeys \cup Users
PooledLock  == "pooled"

NoCreate == [pc |-> "idle", files |-> {}, todo |-> {}, at |-> Nobody]
NoDelete == [pc |-> "idle", of |-> Nobody, keys |-> {}]
NoClean  == [pc |-> "idle", listed |-> {}, orphans |-> {}]

(* build_archive_dest_key.  Mutant: the record is not part of the key.     *)
KeysOfFileOnly(r, S) == S
KeysOf(r, S) == {<<r, f>> : f \in S}

(* Every variable stays within its type.                                   *)
TypeOK ==
  /\ session \in BOOLEAN
  /\ temp \in SUBSET (Files \cup Users)
  /\ object \in [Keys -> {"none", "fresh", "old"}]
  /\ landing \in SUBSET Keys
  /\ record \in [Records -> {"none", "open", "committed", "aborted", "deleted"}]
  /\ fileRow \in [Files -> Records \cup {Nobody}]
  /\ create \in [Records ->
       [pc : {"idle", "check", "copy", "insert", "commit", "rollback",
              "submit", "endSession", "done"},
        files : SUBSET Files, todo : SUBSET Files,
        at : Files \cup {Nobody}]]
  /\ delete \in [Deleters ->
       [pc : {"idle", "row", "objects", "submit"},
        of : Records \cup {Nobody}, keys : SUBSET ArchiveKeys]]
  /\ command \in [Records -> SUBSET ArchiveKeys]
  /\ account \in [Users -> {"plain", "avatar", "gone"}]
  /\ avatar \in [Users -> {"idle", "copy", "delete", "save"}]
  /\ clean \in [Cleaners ->
       [pc : {"idle", "listArchive", "listAvatar", "dbArchive", "dbAvatar",
              "delete", "unlock"},
        listed : SUBSET Keys, orphans : SUBSET Keys]]
  /\ lock \in Cleaners \cup {Nobody, PooledLock}
  /\ faults \in 0 .. MaxFaults

Fault   == faults < MaxFaults /\ faults' = faults + 1
NoFault == UNCHANGED faults

(* What other transactions see of sys_file.                                *)
StoredKeys == {<<fileRow[f], f>> : f \in {g \in Files :
                 fileRow[g] # Nobody /\ record[fileRow[g]] = "committed"}}
AvatarKeys == {u \in Users : account[u] = "avatar"}
Referenced(k) == k \in StoredKeys \cup AvatarKeys

Init ==
  /\ session = TRUE
  /\ temp = {}
  /\ object = [k \in Keys |-> "none"]
  /\ landing = {}
  /\ record = [r \in Records |-> "none"]
  /\ fileRow = [f \in Files |-> Nobody]
  /\ create = [r \in Records |-> NoCreate]
  /\ delete = [d \in Deleters |-> NoDelete]
  /\ command = [r \in Records |-> {}]
  /\ account = [u \in Users |-> "plain"]
  /\ avatar = [u \in Users |-> "idle"]
  /\ clean = [n \in Cleaners |-> NoClean]
  /\ lock = Nobody
  /\ faults = 0

-----------------------------------------------------------------------------
(***************************************************************************)
(* S3: uploads by the client with a presigned URL, the lifecycle rule on   *)
(* temp/, late effects of copies that were given up, and age.              *)
(***************************************************************************)
Put(k) == object' = [object EXCEPT ![k] = "fresh"]
Remove(S) == object' = [k \in Keys |-> IF k \in S THEN "none" ELSE object[k]]

Upload(x) ==
  /\ x \notin temp
  /\ x \in Files => session
  /\ temp' = temp \cup {x}
  /\ UNCHANGED <<session, object, landing, record, fileRow, create, delete,
                 command, account, avatar, clean, lock, faults>>

TempExpires(x) ==
  /\ x \in temp
  /\ temp' = temp \ {x}
  /\ Fault
  /\ UNCHANGED <<session, object, landing, record, fileRow, create, delete,
                 command, account, avatar, clean, lock>>

SessionExpires ==
  /\ session
  /\ session' = FALSE
  /\ UNCHANGED <<temp, object, landing, record, fileRow, create, delete,
                 command, account, avatar, clean, lock, faults>>

LateCopy(k) ==
  /\ k \in landing
  /\ landing' = landing \ {k}
  /\ Put(k)
  /\ UNCHANGED <<session, temp, record, fileRow, create, delete, command,
                 account, avatar, clean, lock, faults>>

(* Is the request that wrote the object still at work?                     *)
InFlight(k) == IF k \in Users THEN avatar[k] # "idle"
                              ELSE record[k[1]] = "open"

Age(k) ==
  /\ object[k] = "fresh"
  /\ AllowSlow \/ ~InFlight(k)
  /\ object' = [object EXCEPT ![k] = "old"]
  /\ UNCHANGED <<session, temp, landing, record, fileRow, create, delete,
                 command, account, avatar, clean, lock, faults>>

(* CopyObject answers with an error: it had no effect, it had one, or it   *)
(* will have one later.                                                    *)
CopyFails(k) ==
  /\ Fault
  /\ \/ UNCHANGED <<object, landing>>
     \/ Put(k) /\ UNCHANGED landing
     \/ landing' = landing \cup {k} /\ UNCHANGED object

-----------------------------------------------------------------------------
(***************************************************************************)
(* create_archive_record_handler: the row and the sys_file rows are written*)
(* in one transaction while the uploads are copied one by one.             *)
(***************************************************************************)
SetCreate(r, pc, todo, at) ==
  create' = [create EXCEPT ![r] = [pc |-> pc, files |-> create[r].files,
                                   todo |-> todo, at |-> at]]
Goto(r, pc) == SetCreate(r, pc, create[r].todo, create[r].at)

SetRecord(r, status) == record' = [record EXCEPT ![r] = status]

(* Rollback, by request or because the connection went away.               *)
Rollback(r) ==
  /\ SetRecord(r, "aborted")
  /\ fileRow' = [f \in Files |-> IF fileRow[f] = r THEN Nobody ELSE fileRow[f]]

CreateBegin(r) ==
  /\ create[r] = NoCreate
  /\ SetRecord(r, "open")
  /\ \E S \in SUBSET Files :
       create' = [create EXCEPT ![r] =
         [pc |-> IF S = {} THEN "commit" ELSE "check",
          files |-> S, todo |-> S, at |-> Nobody]]
  /\ UNCHANGED <<session, temp, object, landing, fileRow, delete, command,
                 account, avatar, clean, lock, faults>>

CheckUploadSession(r) ==
  /\ create[r].pc = "check"
  /\ \/ session /\ Goto(r, "copy") /\ NoFault
     \/ ~session /\ Goto(r, "rollback") /\ NoFault
     \/ Goto(r, "rollback") /\ Fault
  /\ UNCHANGED <<session, temp, object, landing, record, fileRow, delete,
                 command, account, avatar, clean, lock>>

(* Mutant: an upload that is not there is no error.                        *)
CopyFileUnchecked(r) ==
  /\ create[r].pc = "copy"
  /\ \E f \in create[r].todo :
       /\ IF f \in temp THEN Put(<<r, f>>) ELSE UNCHANGED object
       /\ SetCreate(r, "insert", create[r].todo \ {f}, f)
  /\ UNCHANGED <<session, temp, landing, record, fileRow, delete, command,
                 account, avatar, clean, lock, faults>>

(* get_file_metadata and move_temp_file_to_save, in the client's order.    *)
CopyFile(r) ==
  /\ create[r].pc = "copy"
  /\ \E f \in create[r].todo :
       \/ /\ f \in temp
          /\ Put(<<r, f>>) /\ UNCHANGED landing
          /\ SetCreate(r, "insert", create[r].todo \ {f}, f)
          /\ NoFault
       \/ /\ f \notin temp
          /\ Goto(r, "rollback")
          /\ NoFault /\ UNCHANGED <<object, landing>>
       \/ /\ f \in temp
          /\ CopyFails(<<r, f>>)
          /\ Goto(r, "rollback")
  /\ UNCHANGED <<session, temp, record, fileRow, delete, command, account,
                 avatar, clean, lock>>

(* An INSERT of a file_id that an open transaction has inserted waits for  *)
(* that transaction; PostgreSQL aborts a member of a circle of waits.      *)
Waits(r) == /\ create[r].pc = "insert"
            /\ fileRow[create[r].at] \notin {r, Nobody}
            /\ record[fileRow[create[r].at]] = "open"
Deadlocked(r) == \E circle \in SUBSET Records :
  /\ r \in circle /\ \A q \in circle : Waits(q)
  /\ circle = {fileRow[create[q].at] : q \in circle}

(* Mutant: the record is committed after its first file.                   *)
AfterFirstInsert(todo) == "commit"
AfterInsert(todo) == IF todo = {} THEN "commit" ELSE "copy"

SaveFileMetadata(r) ==
  LET f == create[r].at IN
  /\ create[r].pc = "insert"
  /\ \/ /\ fileRow[f] = Nobody
        /\ fileRow' = [fileRow EXCEPT ![f] = r]
        /\ SetCreate(r, AfterInsert(create[r].todo), create[r].todo, Nobody)
        /\ NoFault
     \/ /\ fileRow[f] # Nobody               \* primary key violation
        /\ record[fileRow[f]] = "committed"
        /\ Goto(r, "rollback")
        /\ NoFault /\ UNCHANGED fileRow
     \/ /\ Deadlocked(r)
        /\ Goto(r, "rollback")
        /\ NoFault /\ UNCHANGED fileRow
     \/ /\ Goto(r, "rollback")
        /\ Fault /\ UNCHANGED fileRow
  /\ UNCHANGED <<session, temp, object, landing, record, delete, command,
                 account, avatar, clean, lock>>

(* Mutant: after an error of COMMIT the transaction stays open.            *)
CommitCreateLeavesOpen(r) ==
  /\ create[r].pc = "commit"
  /\ \/ /\ SetRecord(r, "committed") /\ NoFault
        /\ Goto(r, IF create[r].files = {} THEN "done" ELSE "endSession")
     \/ UNCHANGED record /\ Goto(r, "done") /\ Fault
  /\ UNCHANGED <<session, temp, object, landing, fileRow, delete, command,
                 account, avatar, clean, lock>>

(* An error of COMMIT ends the request at once; the outcome is either.     *)
CommitCreate(r) ==
  /\ create[r].pc = "commit"
  /\ \/ /\ SetRecord(r, "committed") /\ UNCHANGED fileRow
        /\ Goto(r, IF create[r].files = {} THEN "done" ELSE "endSession")
        /\ NoFault
     \/ /\ (SetRecord(r, "committed") /\ UNCHANGED fileRow) \/ Rollback(r)
        /\ Goto(r, "done")
        /\ Fault
  /\ UNCHANGED <<session, temp, object, landing, delete, command, account,
                 avatar, clean, lock>>

DeleteUploadSession(r) ==
  /\ create[r].pc = "endSession"
  /\ \/ session' = FALSE /\ NoFault
     \/ UNCHANGED session /\ Fault
  /\ Goto(r, "done")
  /\ UNCHANGED <<temp, object, landing, record, fileRow, delete, command,
                 account, avatar, clean, lock>>

RollbackCreate(r) ==
  /\ create[r].pc = "rollback"
  /\ Rollback(r)
  /\ Goto(r, "submit")
  /\ UNCHANGED <<session, temp, object, landing, delete, command, account,
                 avatar, clean, lock, faults>>

(* The compensation names every object the request may have copied.  It is *)
(* best effort: an error or the limit of one second drops it.              *)
SubmitCompensation(r) ==
  /\ create[r].pc = "submit"
  /\ \/ command' = [command EXCEPT ![r] = KeysOf(r, create[r].files)] /\ NoFault
     \/ UNCHANGED command /\ Fault
  /\ Goto(r, "done")
  /\ UNCHANGED <<session, temp, object, landing, record, fileRow, delete,
                 account, avatar, clean, lock>>

(* The request's future is dropped, or its process dies: an open           *)
(* transaction is rolled back and no compensation is submitted.            *)
CreateDropped(r) ==
  /\ create[r].pc \notin {"idle", "done"}
  /\ IF record[r] = "open" THEN Rollback(r) ELSE UNCHANGED <<record, fileRow>>
  /\ Goto(r, "done")
  /\ Fault
  /\ UNCHANGED <<session, temp, object, landing, delete, command, account,
                 avatar, clean, lock>>

-----------------------------------------------------------------------------
(***************************************************************************)
(* delete_archive_record_handler                                           *)
(***************************************************************************)
SetDelete(d, x) == delete' = [delete EXCEPT ![d] = x]

(* SELECT object_key FROM sys_file, in the transaction of the DELETE.      *)
DeleteBegin(d, r) ==
  /\ delete[d] = NoDelete
  /\ record[r] = "committed"
  /\ SetDelete(d, [pc |-> "row", of |-> r,
                   keys |-> KeysOf(r, {f \in Files : fileRow[f] = r})])
  /\ UNCHANGED <<session, temp, object, landing, record, fileRow, create,
                 command, account, avatar, clean, lock, faults>>

(* DELETE FROM archive_record (sys_file follows by CASCADE) and COMMIT.    *)
DropRows(r) ==
  /\ SetRecord(r, "deleted")
  /\ fileRow' = [f \in Files |-> IF fileRow[f] = r THEN Nobody ELSE fileRow[f]]

DeleteArchiveRecord(d) ==
  LET r == delete[d].of IN
  /\ delete[d].pc = "row"
  /\ \/ /\ record[r] = "committed"
        /\ DropRows(r)
        /\ SetDelete(d, IF delete[d].keys = {} THEN NoDelete
             ELSE [pc |-> "objects", of |-> r, keys |-> delete[d].keys])
        /\ NoFault
     \/ /\ record[r] # "committed"           \* no row: not found
        /\ SetDelete(d, NoDelete)
        /\ NoFault /\ UNCHANGED <<record, fileRow>>
     \/ /\ record[r] = "committed"           \* the commit failed, or its
        /\ DropRows(r) \/ UNCHANGED <<record, fileRow>>  \* answer was lost
        /\ SetDelete(d, NoDelete)
        /\ Fault
  /\ UNCHANGED <<session, temp, object, landing, create, command, account,
                 avatar, clean, lock>>

DeleteObjects(d) ==
  /\ delete[d].pc = "objects"
  /\ \/ Remove(delete[d].keys) /\ SetDelete(d, NoDelete) /\ NoFault
     \/ /\ \E S \in SUBSET delete[d].keys : Remove(S)
        /\ SetDelete(d, [pc |-> "submit", of |-> delete[d].of,
                         keys |-> delete[d].keys])
        /\ Fault
  /\ UNCHANGED <<session, temp, landing, record, fileRow, create, command,
                 account, avatar, clean, lock>>

DeleteSubmit(d) ==
  /\ delete[d].pc = "submit"
  /\ \/ command' = [command EXCEPT ![delete[d].of] = delete[d].keys] /\ NoFault
     \/ UNCHANGED command /\ Fault
  /\ SetDelete(d, NoDelete)
  /\ UNCHANGED <<session, temp, object, landing, record, fileRow, create,
                 account, avatar, clean, lock>>

DeleteDropped(d) ==
  /\ delete[d].pc # "idle"
  /\ SetDelete(d, NoDelete)
  /\ Fault
  /\ UNCHANGED <<session, temp, object, landing, record, fileRow, create,
                 command, account, avatar, clean, lock>>

(* A command of the outbox runs, once or again: it removes its keys and    *)
(* leaves the table; or part of them, and is retried, or is given up with  *)
(* the keys S3 refuses to delete.                                          *)
RunCommand(r) ==
  /\ command[r] # {}
  /\ \/ Remove(command[r]) /\ command' = [command EXCEPT ![r] = {}] /\ NoFault
     \/ /\ \E S \in SUBSET command[r] : Remove(S)
        /\ UNCHANGED command \/ command' = [command EXCEPT ![r] = {}]
        /\ Fault
  /\ UNCHANGED <<session, temp, landing, record, fileRow, create, delete,
                 account, avatar, clean, lock>>

-----------------------------------------------------------------------------
(***************************************************************************)
(* update_avatar_handler.  Every avatar of a user has the same key.        *)
(***************************************************************************)
SetAvatar(u, pc) == avatar' = [avatar EXCEPT ![u] = pc]

AvatarBegin(u) ==
  /\ avatar[u] = "idle"
  /\ account[u] # "gone"
  /\ u \in temp                              \* object_exists
  /\ SetAvatar(u, "copy")
  /\ UNCHANGED <<session, temp, object, landing, record, fileRow, create,
                 delete, command, account, clean, lock, faults>>

AvatarCopy(u) ==
  /\ avatar[u] = "copy"
  /\ \/ u \in temp /\ Put(u) /\ SetAvatar(u, "delete")
        /\ NoFault /\ UNCHANGED landing
     \/ u \notin temp /\ SetAvatar(u, "idle")
        /\ NoFault /\ UNCHANGED <<object, landing>>
     \/ u \in temp /\ CopyFails(u) /\ SetAvatar(u, "idle")
  /\ UNCHANGED <<session, temp, record, fileRow, create, delete, command,
                 account, clean, lock>>

(* An error leaves the object without the reference to it.                 *)
AvatarDeleteTemp(u) ==
  /\ avatar[u] = "delete"
  /\ \/ temp' = temp \ {u} /\ SetAvatar(u, "save") /\ NoFault
     \/ UNCHANGED temp /\ SetAvatar(u, "idle") /\ Fault
  /\ UNCHANGED <<session, object, landing, record, fileRow, create, delete,
                 command, account, clean, lock>>

(* The UPDATE fails, or build_avatar_key finds no extension.               *)
SaveUserAvatar(u) ==
  /\ avatar[u] = "save"
  /\ \/ /\ account' = [account EXCEPT ![u] = IF @ = "gone" THEN @ ELSE "avatar"]
        /\ NoFault
     \/ UNCHANGED account /\ Fault
  /\ SetAvatar(u, "idle")
  /\ UNCHANGED <<session, temp, object, landing, record, fileRow, create,
                 delete, command, clean, lock>>

AvatarDropped(u) ==
  /\ avatar[u] # "idle"
  /\ SetAvatar(u, "idle")
  /\ Fault
  /\ UNCHANGED <<session, temp, object, landing, record, fileRow, create,
                 delete, command, account, clean, lock>>

DeleteUser(u) ==
  /\ account[u] # "gone"
  /\ account' = [account EXCEPT ![u] = "gone"]
  /\ UNCHANGED <<session, temp, object, landing, record, fileRow, create,
                 delete, command, avatar, clean, lock, faults>>

-----------------------------------------------------------------------------
(***************************************************************************)
(* cleanup_orphan_persistent_objects: list both prefixes, then read the    *)
(* references, then delete the difference.                                 *)
(***************************************************************************)
SetClean(n, pc, listed, orphans) ==
  clean' = [clean EXCEPT ![n] = [pc |-> pc, listed |-> listed,
                                 orphans |-> orphans]]
cleanOnly == <<session, temp, object, landing, record, fileRow, create, delete,
               command, account, avatar, lock>>

(* list_object_keys_with_prefix_older_than.  Mutant: age is not looked at. *)
OldEnoughAnyAge(S) == {k \in S : object[k] # "none"}
OldEnough(S) == {k \in S : object[k] = "old"}

CleanupTick(n) ==
  /\ clean[n].pc = "idle"
  /\ lock = Nobody
  /\ lock' = n
  /\ SetClean(n, "listArchive", {}, {})
  /\ UNCHANGED <<session, temp, object, landing, record, fileRow, create,
                 delete, command, account, avatar, faults>>

ListArchive(n) ==
  /\ clean[n].pc = "listArchive"
  /\ SetClean(n, "listAvatar", OldEnough(ArchiveKeys), {})
  /\ NoFault /\ UNCHANGED cleanOnly

ListAvatar(n) ==
  /\ clean[n].pc = "listAvatar"
  /\ SetClean(n, "dbArchive", clean[n].listed \cup OldEnough(Users), {})
  /\ NoFault /\ UNCHANGED cleanOnly

ReadArchiveKeys(n) ==
  /\ clean[n].pc = "dbArchive"
  /\ SetClean(n, "dbAvatar", clean[n].listed,
              (clean[n].listed \cap ArchiveKeys) \ StoredKeys)
  /\ NoFault /\ UNCHANGED cleanOnly

ReadAvatarKeys(n) ==
  /\ clean[n].pc = "dbAvatar"
  /\ SetClean(n, "delete", clean[n].listed,
              clean[n].orphans \cup ((clean[n].listed \cap Users) \ AvatarKeys))
  /\ NoFault /\ UNCHANGED cleanOnly

(* Any of these fails: the pass is over.                                   *)
CleanupFails(n) ==
  /\ clean[n].pc \in {"listArchive", "listAvatar", "dbArchive", "dbAvatar"}
  /\ SetClean(n, "unlock", {}, {})
  /\ Fault /\ UNCHANGED cleanOnly

DeleteOrphans(n) ==
  /\ clean[n].pc = "delete"
  /\ \/ Remove(clean[n].orphans) /\ NoFault
     \/ (\E S \in SUBSET clean[n].orphans : Remove(S)) /\ Fault
  /\ SetClean(n, "unlock", {}, {})
  /\ UNCHANGED <<session, temp, landing, record, fileRow, create, delete,
                 command, account, avatar, lock>>

(* Mutant: the advisory lock is never released.                            *)
UnlockNever(n) ==
  /\ clean[n].pc = "unlock"
  /\ SetClean(n, "idle", {}, {})
  /\ UNCHANGED <<session, temp, object, landing, record, fileRow, create,
                 delete, command, account, avatar, lock, faults>>

(* A failed unlock leaves the lock with a connection of the pool.          *)
Unlock(n) ==
  /\ clean[n].pc = "unlock"
  /\ \/ lock' = Nobody /\ NoFault
     \/ lock' = PooledLock /\ Fault
  /\ SetClean(n, "idle", {}, {})
  /\ UNCHANGED <<session, temp, object, landing, record, fileRow, create,
                 delete, command, account, avatar>>

PoolClosesConnection ==
  /\ lock = PooledLock
  /\ lock' = Nobody
  /\ UNCHANGED <<session, temp, object, landing, record, fileRow, create,
                 delete, command, account, avatar, clean, faults>>

CleanerCrash(n) ==
  /\ clean[n].pc # "idle"
  /\ lock' = Nobody
  /\ SetClean(n, "idle", {}, {})
  /\ Fault
  /\ UNCHANGED <<session, temp, object, landing, record, fileRow, create,
                 delete, command, account, avatar>>

-----------------------------------------------------------------------------
CreateStep(r) == CheckUploadSession(r) \/ CopyFile(r) \/ SaveFileMetadata(r)
                   \/ CommitCreate(r) \/ DeleteUploadSession(r)
                   \/ RollbackCreate(r) \/ SubmitCompensation(r)
DeleteStep(d) == DeleteArchiveRecord(d) \/ DeleteObjects(d) \/ DeleteSubmit(d)
AvatarStep(u) == AvatarCopy(u) \/ AvatarDeleteTemp(u) \/ SaveUserAvatar(u)
CleanStep(n) == CleanupTick(n) \/ ListArchive(n) \/ ListAvatar(n)
                  \/ ReadArchiveKeys(n) \/ ReadAvatarKeys(n)
                  \/ DeleteOrphans(n) \/ Unlock(n) \/ CleanupFails(n)

Next ==
  \/ \E x \in Files \cup Users : Upload(x) \/ TempExpires(x)
  \/ SessionExpires
  \/ \E k \in Keys : LateCopy(k) \/ Age(k)
  \/ \E r \in Records : CreateBegin(r) \/ CreateStep(r) \/ CreateDropped(r)
  \/ \E d \in Deleters, r \in Records : DeleteBegin(d, r)
  \/ \E d \in Deleters : DeleteStep(d) \/ DeleteDropped(d)
  \/ \E r \in Records : RunCommand(r)
  \/ \E u \in Users : AvatarBegin(u) \/ AvatarStep(u) \/ AvatarDropped(u)
                       \/ DeleteUser(u)
  \/ \E n \in Cleaners : CleanStep(n) \/ CleanerCrash(n)
  \/ PoolClosesConnection

Spec == Init /\ [][Next]_vars

(* Requests that have begun are polled to their end, the interval of the   *)
(* cleanup ticks, objects age and a pooled connection is closed at the end *)
(* of its lifetime.  The compensations are not assumed to run at all.      *)
Fairness ==
  /\ \A r \in Records : WF_vars(CreateStep(r))
  /\ \A d \in Deleters : WF_vars(DeleteStep(d))
  /\ \A u \in Users : WF_vars(AvatarStep(u))
  /\ \A n \in Cleaners : WF_vars(CleanStep(n))
  /\ \A k \in Keys : WF_vars(Age(k)) /\ WF_vars(LateCopy(k))
  /\ WF_vars(PoolClosesConnection)

FairSpec == Spec /\ Fairness

-----------------------------------------------------------------------------
(***************************************************************************)
(* Properties                                                              *)
(***************************************************************************)
(* Every file of a committed record has its object, whatever compensation  *)
(* commands, retries, other requests for the same uploads and cleanups do, *)
(* as long as requests end within the minimum age of the cleanup.          *)
NoDanglingFile == \A k \in StoredKeys : object[k] # "none"

(* Nothing about to delete objects names a file of a record that is there  *)
(* or may still be committed: not the commands in the outbox, not a delete *)
(* request past its commit, not a cleanup past its reading of sys_file.    *)
Condemned ==
  (UNION {command[r] : r \in Records})
    \cup (UNION {delete[d].keys : d \in
                   {e \in Deleters : delete[e].pc \in {"objects", "submit"}}})
    \cup (UNION {clean[n].orphans \cap ArchiveKeys : n \in Cleaners})
CondemnedAreDead == \A k \in Condemned : record[k[1]] \in {"aborted", "deleted"}

(* An avatar that sys_user refers to has its object.                       *)
AvatarNotCleaned == \A u \in Users : account[u] = "avatar" => object[u] # "none"

(* The handler has a step that takes no fault: at every point but the      *)
(* INSERT of a file that another request has inserted and not committed    *)
(* (SaveFileMetadata), and there for the victim of a circle of waits.      *)
CanGoOn(r) ==
  \/ create[r].pc \in {"check", "commit", "rollback", "submit", "endSession"}
  \/ create[r].pc = "copy" /\ create[r].todo # {}
  \/ /\ create[r].pc = "insert"
     /\ \/ fileRow[create[r].at] = Nobody
        \/ record[fileRow[create[r].at]] = "committed"
        \/ Deadlocked(r)

(* Create requests never block each other for good: one that has begun and *)
(* cannot go on waits for the INSERT of another, and in every finite group *)
(* that waits only for its own members some request can go on without a    *)
(* fault, even when they insert the same uploads in opposite order.        *)
WaitsResolve ==
  /\ \A r \in Records :
       create[r].pc \notin {"idle", "done"} => Waits(r) \/ CanGoOn(r)
  /\ \A S \in SUBSET Records :
       /\ IsFiniteSet(S) /\ \E r \in S : Waits(r)
       /\ \A r \in S : Waits(r) => fileRow[create[r].at] \in S
       => \E q \in S : CanGoOn(q)

(* Rows, transactions, copies, compensations and cleanups together         *)
(* implement the abstract archive: a record appears with all its files or  *)
(* not at all, and its files stay readable until it is deleted.  A file can*)
(* be read when its row is visible and its object is there.                *)
ArchiveStatus(status) == CASE status \in {"none", "open"} -> "absent"
                           [] status = "committed"        -> "present"
                           [] OTHER                       -> "gone"

Archive == INSTANCE ArchiveLedger WITH
  asked  <- [r \in Records |-> create[r].files],
  status <- [r \in Records |-> ArchiveStatus(record[r])],
  shown  <- [r \in Records |-> IF record[r] # "committed" THEN {}
    ELSE {f \in Files : fileRow[f] = r /\ object[<<r, f>>] # "none"}]

ImplementsArchive == Archive!ArchiveSpec

(* Objects that nothing refers to do not stay for ever: whatever crash,    *)
(* cancelled request, failed or late copy, dropped compensation or failed  *)
(* unlock left them behind, the cleanup removes them in the end.           *)
OrphansVanish == \A k \in Keys :
  object[k] # "none" /\ ~Referenced(k) ~> object[k] = "none" \/ Referenced(k)

=============================================================================
