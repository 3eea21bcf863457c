---------------------------- MODULE ArchiveProofs ----------------------------
(***************************************************************************)
(* Files of records are safe from everything that deletes objects, for any *)
(* number of records, uploads, users, requests, processes and faults, as   *)
(* long as requests end within the minimum age of the cleanup.             *)
(***************************************************************************)
EXTENDS ArchiveStore, FiniteSetTheorems, WellFoundedInduction, TLAPS

(***************************************************************************)
(* The inductive invariant, in parts.                                      *)
(***************************************************************************)
Dead(r) == record[r] \in {"aborted", "deleted"}

(* Where a request stands tells what has become of its record.             *)
Working == {"check", "copy", "insert", "commit", "rollback"}
Phase(r) ==
  /\ create[r].pc = "idle" <=> record[r] = "none"
  /\ create[r].pc \in Working <=> record[r] = "open"
  /\ create[r].pc = "submit" => record[r] = "aborted"

(* Commands and delete requests name keys of one record, and once they may *)
(* delete objects that record is dead.                                     *)
CommandDead(r) == command[r] \subseteq KeysOf(r, Files) /\ (command[r] # {} => Dead(r))
DeleteDead(d) == delete[d].pc # "idle" =>
  /\ delete[d].of \in Records
  /\ delete[d].keys \subseteq KeysOf(delete[d].of, Files)
  /\ delete[d].pc \in {"objects", "submit"} => Dead(delete[d].of)

(* The file that a request has copied and not inserted yet.                *)
Inserting(r, f) == create[r].pc = "insert" /\ create[r].at = f

(* A file row is of a living record and has its object, from the copy on.  *)
Backed(r, f) ==
  fileRow[f] = r \/ Inserting(r, f)
    => record[r] \in {"open", "committed"} /\ object[<<r, f>>] # "none"

(* An object of a living record has its row, or is about to have it; one   *)
(* that has none belongs to a request on its way to ROLLBACK.              *)
Traced(r, f) == object[<<r, f>>] # "none" =>
  /\ record[r] # "none"
  /\ record[r] = "committed" => fileRow[f] = r
  /\ record[r] = "open" =>
       fileRow[f] = r \/ Inserting(r, f) \/ create[r].pc = "rollback"

(* A copy that S3 carries out late belongs to a request that failed.       *)
LateFailed(r, f) ==
  <<r, f>> \in landing => record[r] = "aborted" \/ create[r].pc = "rollback"

(* An old object is not of a request under way.                            *)
OldSettled(r, f) == object[<<r, f>>] = "old" => record[r] # "open"

FileLinked(r, f) == Backed(r, f) /\ Traced(r, f) /\ LateFailed(r, f) /\ OldSettled(r, f)

(* A key the cleanup has listed is of a record that is settled; if that is *)
(* in the table then the key is in sys_file.  An orphan is of a dead one.  *)
Settled(r, f) == record[r] \notin {"none", "open"} /\ (record[r] = "committed" => fileRow[f] = r)
CleanLinked(n) == \A r \in Records, f \in Files :
  /\ <<r, f>> \in clean[n].listed => Settled(r, f)
  /\ <<r, f>> \in clean[n].orphans => Dead(r)

Linked ==
  /\ \A r \in Records : Phase(r) /\ CommandDead(r)
  /\ \A d \in Deleters : DeleteDead(d)
  /\ \A r \in Records, f \in Files : FileLinked(r, f)
  /\ \A n \in Cleaners : CleanLinked(n)

AInv == TypeOK /\ Linked

-----------------------------------------------------------------------------
(***************************************************************************)
(* Types                                                                   *)
(***************************************************************************)
CreatePcs == {"idle", "check", "copy", "insert", "commit", "rollback", "submit",
              "endSession", "done"}
CreateType == [pc : CreatePcs, files : SUBSET Files, todo : SUBSET Files,
               at : Files \cup {Nobody}]
DeleteType == [pc : {"idle", "row", "objects", "submit"}, of : Records \cup {Nobody},
               keys : SUBSET ArchiveKeys]
CleanPcs  == {"idle", "listArchive", "listAvatar", "dbArchive", "dbAvatar", "delete", "unlock"}
CleanType == [pc : CleanPcs, listed : SUBSET Keys, orphans : SUBSET Keys]
RecordType == [Records -> {"none", "open", "committed", "aborted", "deleted"}]
ObjectType == [Keys -> {"none", "fresh", "old"}]
RowType    == [Files -> Records \cup {Nobody}]

(* The key of a file of a record determines both, and is no user's key.    *)
LEMMA KeyFacts ==
  /\ \A r \in Records, f \in Files : /\ <<r, f>> \in ArchiveKeys /\ <<r, f>> \in Keys
                                     /\ <<r, f>> \notin Users /\ <<r, f>>[1] = r
  /\ \A r, q \in Records, f, g \in Files : <<r, f>> = <<q, g>> <=> r = q /\ f = g
  /\ Users \subseteq Keys /\ ArchiveKeys \subseteq Keys
  /\ \A k \in ArchiveKeys : \E r \in Records, f \in Files : k = <<r, f>>
  /\ \A r \in Records, S \in SUBSET Files : KeysOf(r, S) \in SUBSET ArchiveKeys
BY StoreAssumption DEF ArchiveKeys, Keys, KeysOf

(* What the helpers of the actions write.                                  *)
LEMMA PutFacts ==
  ASSUME object \in ObjectType, NEW k \in Keys, Put(k)
  PROVE  /\ object' \in ObjectType
         /\ object'[k] = "fresh" /\ \A j \in Keys : j # k => object'[j] = object[j]
BY DEF ObjectType, Put

LEMMA RemoveFacts ==
  ASSUME object \in ObjectType, NEW S, Remove(S)
  PROVE  /\ object' \in ObjectType
         /\ \A k \in Keys : object'[k] = IF k \in S THEN "none" ELSE object[k]
BY DEF ObjectType, Remove

LEMMA SetCreateFacts ==
  ASSUME create \in [Records -> CreateType], NEW r \in Records, NEW pc \in CreatePcs,
         NEW todo \in SUBSET Files, NEW at \in Files \cup {Nobody}, SetCreate(r, pc, todo, at)
  PROVE  /\ create' \in [Records -> CreateType]
         /\ create'[r].pc = pc /\ create'[r].at = at
         /\ \A q \in Records : q # r => create'[q] = create[q]
BY DEF SetCreate, CreateType

LEMMA GotoFacts ==
  ASSUME create \in [Records -> CreateType], NEW r \in Records, NEW pc \in CreatePcs,
         Goto(r, pc)
  PROVE  /\ create' \in [Records -> CreateType]
         /\ create'[r].pc = pc
         /\ \A q \in Records : q # r => create'[q] = create[q]
<1>1. create[r].todo \in SUBSET Files /\ create[r].at \in Files \cup {Nobody}
  BY DEF CreateType
<1> QED  BY <1>1, SetCreateFacts DEF Goto

LEMMA SetRecordFacts ==
  ASSUME record \in RecordType, NEW r,
         NEW s \in {"none", "open", "committed", "aborted", "deleted"}, SetRecord(r, s)
  PROVE  /\ record' \in RecordType
         /\ r \in Records => record'[r] = s
         /\ \A q \in Records : q # r => record'[q] = record[q]
BY DEF SetRecord, RecordType

LEMMA UnlinkFacts ==
  ASSUME fileRow \in RowType, NEW r,
         fileRow' = [f \in Files |-> IF fileRow[f] = r THEN Nobody ELSE fileRow[f]]
  PROVE  /\ fileRow' \in RowType
         /\ \A f \in Files : fileRow[f] # r => fileRow'[f] = fileRow[f]
         /\ r # Nobody => \A f \in Files : fileRow'[f] # r
BY DEF RowType

LEMMA SetCleanFacts ==
  ASSUME clean \in [Cleaners -> CleanType], NEW n \in Cleaners, NEW pc \in CleanPcs,
         NEW listed \in SUBSET Keys, NEW orphans \in SUBSET Keys,
         SetClean(n, pc, listed, orphans)
  PROVE  /\ clean' \in [Cleaners -> CleanType]
         /\ clean'[n].listed = listed /\ clean'[n].orphans = orphans
         /\ \A m \in Cleaners : m # n => clean'[m] = clean[m]
BY DEF SetClean, CleanType

LEMMA SetDeleteFacts ==
  ASSUME delete \in [Deleters -> DeleteType], NEW d \in Deleters, NEW x \in DeleteType,
         SetDelete(d, x)
  PROVE  /\ delete' \in [Deleters -> DeleteType]
         /\ delete'[d] = x /\ \A e \in Deleters : e # d => delete'[e] = delete[e]
BY DEF SetDelete, DeleteType

LEMMA NoDeleteTyped == NoDelete \in DeleteType
BY DEF NoDelete, DeleteType

LEMMA FaultTyped == faults \in 0 .. MaxFaults /\ (Fault \/ NoFault) => faults' \in 0 .. MaxFaults
BY StoreAssumption DEF Fault, NoFault

(* TypeOK, by the types named above.                                       *)
LEMMA TypeParts ==
  TypeOK <=> /\ session \in BOOLEAN
             /\ temp \in SUBSET (Files \cup Users)
             /\ object \in ObjectType
             /\ landing \in SUBSET Keys
             /\ record \in RecordType
             /\ fileRow \in RowType
             /\ create \in [Records -> CreateType]
             /\ delete \in [Deleters -> DeleteType]
             /\ command \in [Records -> SUBSET ArchiveKeys]
             /\ account \in [Users -> {"plain", "avatar", "gone"}]
             /\ avatar \in [Users -> {"idle", "copy", "delete", "save"}]
             /\ clean \in [Cleaners -> CleanType]
             /\ lock \in Cleaners \cup {Nobody, PooledLock}
             /\ faults \in 0 .. MaxFaults
BY DEF TypeOK, ObjectType, RecordType, RowType, CreateType, CreatePcs, DeleteType,
       CleanType, CleanPcs

LEMMA TypePartsNext ==
  ASSUME session' \in BOOLEAN, temp' \in SUBSET (Files \cup Users),
         object' \in ObjectType, landing' \in SUBSET Keys,
         record' \in RecordType, fileRow' \in RowType,
         create' \in [Records -> CreateType], delete' \in [Deleters -> DeleteType],
         command' \in [Records -> SUBSET ArchiveKeys],
         account' \in [Users -> {"plain", "avatar", "gone"}],
         avatar' \in [Users -> {"idle", "copy", "delete", "save"}],
         clean' \in [Cleaners -> CleanType],
         lock' \in Cleaners \cup {Nobody, PooledLock}, faults' \in 0 .. MaxFaults
  PROVE  TypeOK'
BY DEF TypeOK, ObjectType, RecordType, RowType, CreateType, CreatePcs, DeleteType,
       CleanType, CleanPcs

(* S3 and the client.                                                      *)
LEMMA StoreTyped ==
  ASSUME TypeOK,
         \/ \E x \in Files \cup Users : Upload(x) \/ TempExpires(x)
         \/ SessionExpires
         \/ \E k \in Keys : LateCopy(k) \/ Age(k)
  PROVE  TypeOK'
<1> USE TypeParts, TypePartsNext, FaultTyped
<1>1. CASE \E x \in Files \cup Users : Upload(x) \/ TempExpires(x)
  BY <1>1 DEF Upload, TempExpires
<1>2. CASE SessionExpires
  BY <1>2 DEF SessionExpires
<1>3. ASSUME NEW k \in Keys, LateCopy(k) PROVE TypeOK'
  BY <1>3, PutFacts DEF LateCopy
<1>4. ASSUME NEW k \in Keys, Age(k) PROVE TypeOK'
  <2>1. object' \in ObjectType
    BY <1>4 DEF Age, ObjectType
  <2> QED  BY <1>4, <2>1 DEF Age
<1> QED  BY <1>1, <1>2, <1>3, <1>4

LEMMA CopyFailsTyped ==
  ASSUME TypeOK, NEW k \in Keys, CopyFails(k)
  PROVE  object' \in ObjectType /\ landing' \in SUBSET Keys /\ faults' \in 0 .. MaxFaults
<1>1. object \in ObjectType /\ landing \in SUBSET Keys /\ faults \in 0 .. MaxFaults
  BY TypeParts
<1> QED  BY <1>1, PutFacts, FaultTyped DEF CopyFails

(* create_archive_record_handler.                                          *)
LEMMA CreateTyped ==
  ASSUME TypeOK, NEW r \in Records, CreateBegin(r) \/ CreateStep(r) \/ CreateDropped(r)
  PROVE  TypeOK'
<1> USE TypeParts, TypePartsNext, FaultTyped
<1>0. /\ create[r] \in CreateType /\ create \in [Records -> CreateType]
      /\ create[r].todo \in SUBSET Files /\ create[r].files \in SUBSET Files
      /\ create[r].at \in Files \cup {Nobody} /\ create[r].pc \in CreatePcs
  BY DEF CreateType
<1>1. ASSUME NEW pc \in CreatePcs, Goto(r, pc) PROVE create' \in [Records -> CreateType]
  BY <1>0, <1>1, GotoFacts
<1>2. ASSUME NEW s \in {"open", "committed", "aborted"}, SetRecord(r, s)
      PROVE  record' \in RecordType
  BY <1>2, SetRecordFacts
<1>3. ASSUME Rollback(r) PROVE record' \in RecordType /\ fileRow' \in RowType
  BY <1>3, SetRecordFacts, UnlinkFacts DEF Rollback
<1>4. CASE CreateBegin(r)
  <2>1. create' \in [Records -> CreateType]
    BY <1>0, <1>4 DEF CreateBegin, CreateType, CreatePcs
  <2> QED  BY <1>2, <1>4, <2>1 DEF CreateBegin
<1>5. CASE CheckUploadSession(r)
  <2>1. create' \in [Records -> CreateType]
    BY <1>1, <1>5 DEF CheckUploadSession, CreatePcs
  <2> QED  BY <1>5, <2>1 DEF CheckUploadSession
<1>6. CASE CopyFile(r)
  <2>1. PICK f \in create[r].todo :
       \/ /\ Put(<<r, f>>) /\ UNCHANGED landing
          /\ SetCreate(r, "insert", create[r].todo \ {f}, f) /\ NoFault
       \/ Goto(r, "rollback") /\ NoFault /\ UNCHANGED <<object, landing>>
       \/ CopyFails(<<r, f>>) /\ Goto(r, "rollback")
    BY <1>6 DEF CopyFile
  <2>2. f \in Files /\ <<r, f>> \in Keys
    BY <1>0, <2>1, KeyFacts
  <2>3. create' \in [Records -> CreateType]
    <3>1. CASE SetCreate(r, "insert", create[r].todo \ {f}, f)
      <4>1. create[r].todo \ {f} \in SUBSET Files /\ "insert" \in CreatePcs
        BY <1>0 DEF CreatePcs
      <4> QED  BY <1>0, <2>2, <3>1, <4>1, SetCreateFacts
    <3> QED  BY <1>1, <2>1, <3>1 DEF CreatePcs
  <2>4. object' \in ObjectType /\ landing' \in SUBSET Keys /\ faults' \in 0 .. MaxFaults
    BY <2>1, <2>2, PutFacts, CopyFailsTyped
  <2> QED  BY <1>6, <2>3, <2>4 DEF CopyFile
<1>7. CASE SaveFileMetadata(r)
  <2>1. create' \in [Records -> CreateType]
    <3>1. ASSUME NEW pc \in {"commit", "copy"}, SetCreate(r, pc, create[r].todo, Nobody)
          PROVE  create' \in [Records -> CreateType]
      <4>1. pc \in CreatePcs /\ Nobody \in Files \cup {Nobody}
        BY DEF CreatePcs
      <4> QED  BY <1>0, <3>1, <4>1, SetCreateFacts
    <3>2. \/ SetCreate(r, "commit", create[r].todo, Nobody)
          \/ SetCreate(r, "copy", create[r].todo, Nobody)
          \/ Goto(r, "rollback")
      BY <1>7 DEF SaveFileMetadata, AfterInsert
    <3> QED  BY <1>1, <3>1, <3>2 DEF CreatePcs
  <2>2. fileRow' \in RowType
    BY <1>7 DEF SaveFileMetadata, RowType
  <2> QED  BY <1>7, <2>1, <2>2 DEF SaveFileMetadata
<1>8. CASE CommitCreate(r)
  <2>1. create' \in [Records -> CreateType]
    <3>1. Goto(r, "done") \/ Goto(r, "endSession")
      BY <1>8 DEF CommitCreate
    <3> QED  BY <1>1, <3>1 DEF CreatePcs
  <2>2. record' \in RecordType /\ fileRow' \in RowType
    BY <1>2, <1>3, <1>8 DEF CommitCreate
  <2> QED  BY <1>8, <2>1, <2>2 DEF CommitCreate
<1>9. CASE DeleteUploadSession(r)
  <2>1. create' \in [Records -> CreateType]
    BY <1>1, <1>9 DEF DeleteUploadSession, CreatePcs
  <2> QED  BY <1>9, <2>1 DEF DeleteUploadSession
<1>10. CASE RollbackCreate(r)
  <2>1. create' \in [Records -> CreateType]
    BY <1>1, <1>10 DEF RollbackCreate, CreatePcs
  <2> QED  BY <1>3, <1>10, <2>1 DEF RollbackCreate
<1>11. CASE SubmitCompensation(r)
  <2>1. create' \in [Records -> CreateType]
    BY <1>1, <1>11 DEF SubmitCompensation, CreatePcs
  <2>2. command' \in [Records -> SUBSET ArchiveKeys]
    <3>1. KeysOf(r, create[r].files) \in SUBSET ArchiveKeys
      BY <1>0, KeyFacts
    <3> QED  BY <1>11, <3>1 DEF SubmitCompensation
  <2> QED  BY <1>11, <2>1, <2>2 DEF SubmitCompensation
<1>12. CASE CreateDropped(r)
  <2>1. create' \in [Records -> CreateType]
    BY <1>1, <1>12 DEF CreateDropped, CreatePcs
  <2>2. record' \in RecordType /\ fileRow' \in RowType
    BY <1>3, <1>12 DEF CreateDropped
  <2> QED  BY <1>12, <2>1, <2>2 DEF CreateDropped
<1> QED  BY <1>4, <1>5, <1>6, <1>7, <1>8, <1>9, <1>10, <1>11, <1>12 DEF CreateStep

(* delete_archive_record_handler and the commands of the outbox.           *)
LEMMA DeleteTyped ==
  ASSUME TypeOK,
         \/ \E d \in Deleters, r \in Records : DeleteBegin(d, r)
         \/ \E d \in Deleters : DeleteStep(d) \/ DeleteDropped(d)
         \/ \E r \in Records : RunCommand(r)
  PROVE  TypeOK'
<1> USE TypeParts, TypePartsNext, FaultTyped
<1>1. ASSUME NEW d \in Deleters, NEW r \in Records, DeleteBegin(d, r) PROVE TypeOK'
  <2> DEFINE x == [pc |-> "row", of |-> r, keys |-> KeysOf(r, {f \in Files : fileRow[f] = r})]
  <2>1. x \in DeleteType
    BY KeyFacts DEF DeleteType
  <2> HIDE DEF x
  <2>2. delete' \in [Deleters -> DeleteType]
    BY <1>1, <2>1, SetDeleteFacts DEF DeleteBegin, x
  <2> QED  BY <1>1, <2>2 DEF DeleteBegin
<1>2. ASSUME NEW d \in Deleters, SetDelete(d, NoDelete)
      PROVE  delete' \in [Deleters -> DeleteType]
  BY <1>2, NoDeleteTyped, SetDeleteFacts
<1>3. ASSUME NEW d \in Deleters, NEW pc \in {"objects", "submit"},
             SetDelete(d, [pc |-> pc, of |-> delete[d].of, keys |-> delete[d].keys])
      PROVE  delete' \in [Deleters -> DeleteType]
  <2>1. [pc |-> pc, of |-> delete[d].of, keys |-> delete[d].keys] \in DeleteType
    BY DEF DeleteType
  <2> QED  BY <1>3, <2>1, SetDeleteFacts
<1>4. ASSUME NEW d \in Deleters, DeleteArchiveRecord(d) PROVE TypeOK'
  <2>1. delete' \in [Deleters -> DeleteType]
    BY <1>2, <1>3, <1>4 DEF DeleteArchiveRecord
  <2>2. record' \in RecordType /\ fileRow' \in RowType
    <3>1. DropRows(delete[d].of) \/ UNCHANGED <<record, fileRow>>
      BY <1>4 DEF DeleteArchiveRecord
    <3>2. ASSUME DropRows(delete[d].of) PROVE record' \in RecordType /\ fileRow' \in RowType
      BY <3>2, SetRecordFacts, UnlinkFacts DEF DropRows
    <3> QED  BY <3>1, <3>2
  <2> QED  BY <1>4, <2>1, <2>2 DEF DeleteArchiveRecord
<1>5. ASSUME NEW d \in Deleters, DeleteObjects(d) PROVE TypeOK'
  <2>1. delete' \in [Deleters -> DeleteType]
    BY <1>2, <1>3, <1>5 DEF DeleteObjects
  <2>2. object' \in ObjectType
    BY <1>5, RemoveFacts DEF DeleteObjects
  <2> QED  BY <1>5, <2>1, <2>2 DEF DeleteObjects
<1>6. ASSUME NEW d \in Deleters, DeleteSubmit(d) PROVE TypeOK'
  <2>1. delete[d].keys \in SUBSET ArchiveKeys
    BY DEF DeleteType
  <2>2. command' \in [Records -> SUBSET ArchiveKeys]
    BY <1>6, <2>1 DEF DeleteSubmit
  <2> QED  BY <1>2, <1>6, <2>2 DEF DeleteSubmit
<1>7. ASSUME NEW d \in Deleters, DeleteDropped(d) PROVE TypeOK'
  BY <1>2, <1>7 DEF DeleteDropped
<1>8. ASSUME NEW r \in Records, RunCommand(r) PROVE TypeOK'
  <2>1. command' \in [Records -> SUBSET ArchiveKeys]
    BY <1>8 DEF RunCommand
  <2>2. object' \in ObjectType
    BY <1>8, RemoveFacts DEF RunCommand
  <2> QED  BY <1>8, <2>1, <2>2 DEF RunCommand
<1> QED  BY <1>1, <1>4, <1>5, <1>6, <1>7, <1>8 DEF DeleteStep

(* update_avatar_handler and the deletion of users.                        *)
LEMMA AvatarTyped ==
  ASSUME TypeOK, NEW u \in Users,
         AvatarBegin(u) \/ AvatarStep(u) \/ AvatarDropped(u) \/ DeleteUser(u)
  PROVE  TypeOK'
<1> USE TypeParts, TypePartsNext, FaultTyped
<1>0. u \in Keys
  BY KeyFacts
<1>1. ASSUME NEW pc \in {"idle", "copy", "delete", "save"}, SetAvatar(u, pc)
      PROVE  avatar' \in [Users -> {"idle", "copy", "delete", "save"}]
  BY <1>1 DEF SetAvatar
<1>2. CASE AvatarBegin(u)
  BY <1>1, <1>2 DEF AvatarBegin
<1>3. CASE AvatarCopy(u)
  <2>1. avatar' \in [Users -> {"idle", "copy", "delete", "save"}]
    BY <1>1, <1>3 DEF AvatarCopy
  <2>2. object' \in ObjectType /\ landing' \in SUBSET Keys /\ faults' \in 0 .. MaxFaults
    BY <1>0, <1>3, PutFacts, CopyFailsTyped DEF AvatarCopy
  <2> QED  BY <1>3, <2>1, <2>2 DEF AvatarCopy
<1>4. CASE AvatarDeleteTemp(u)
  <2>1. avatar' \in [Users -> {"idle", "copy", "delete", "save"}]
    BY <1>1, <1>4 DEF AvatarDeleteTemp
  <2> QED  BY <1>4, <2>1 DEF AvatarDeleteTemp
<1>5. CASE SaveUserAvatar(u)
  <2>1. account' \in [Users -> {"plain", "avatar", "gone"}]
    BY <1>5 DEF SaveUserAvatar
  <2>2. avatar' \in [Users -> {"idle", "copy", "delete", "save"}]
    BY <1>1, <1>5 DEF SaveUserAvatar
  <2> QED  BY <1>5, <2>1, <2>2 DEF SaveUserAvatar
<1>6. CASE AvatarDropped(u)
  BY <1>1, <1>6 DEF AvatarDropped
<1>7. CASE DeleteUser(u)
  BY <1>7 DEF DeleteUser
<1> QED  BY <1>2, <1>3, <1>4, <1>5, <1>6, <1>7 DEF AvatarStep

(* cleanup_orphan_persistent_objects.                                      *)
LEMMA CleanTyped ==
  ASSUME TypeOK,
         (\E n \in Cleaners : CleanStep(n) \/ CleanerCrash(n)) \/ PoolClosesConnection
  PROVE  TypeOK'
<1> USE TypeParts, TypePartsNext, FaultTyped
<1>1. CASE PoolClosesConnection
  BY <1>1 DEF PoolClosesConnection
<1>2. ASSUME NEW n \in Cleaners, CleanStep(n) \/ CleanerCrash(n) PROVE TypeOK'
  <2>0. /\ clean[n].listed \in SUBSET Keys /\ clean[n].orphans \in SUBSET Keys
        /\ clean \in [Cleaners -> CleanType]
    BY DEF CleanType
  <2>1. ASSUME NEW pc \in CleanPcs, NEW listed \in SUBSET Keys, NEW orphans \in SUBSET Keys,
               SetClean(n, pc, listed, orphans)
        PROVE  clean' \in [Cleaners -> CleanType]
    BY <2>0, <2>1, SetCleanFacts
  <2>2. clean' \in [Cleaners -> CleanType]
    <3>1. CASE ListArchive(n)
      <4>1. OldEnough(ArchiveKeys) \in SUBSET Keys
        BY KeyFacts DEF OldEnough
      <4> QED  BY <2>1, <3>1, <4>1 DEF ListArchive, CleanPcs
    <3>2. CASE ListAvatar(n)
      <4>1. clean[n].listed \cup OldEnough(Users) \in SUBSET Keys
        BY <2>0, KeyFacts DEF OldEnough
      <4> QED  BY <2>1, <3>2, <4>1 DEF ListAvatar, CleanPcs
    <3>3. CASE ReadArchiveKeys(n)
      <4>1. (clean[n].listed \cap ArchiveKeys) \ StoredKeys \in SUBSET Keys
        BY <2>0
      <4> QED  BY <2>0, <2>1, <3>3, <4>1 DEF ReadArchiveKeys, CleanPcs
    <3>4. CASE ReadAvatarKeys(n)
      <4>1. clean[n].orphans \cup ((clean[n].listed \cap Users) \ AvatarKeys) \in SUBSET Keys
        BY <2>0
      <4> QED  BY <2>0, <2>1, <3>4, <4>1 DEF ReadAvatarKeys, CleanPcs
    <3>5. CASE SetClean(n, "listArchive", {}, {}) \/ SetClean(n, "unlock", {}, {})
               \/ SetClean(n, "idle", {}, {})
      <4>1. {} \in SUBSET Keys /\ "listArchive" \in CleanPcs /\ "unlock" \in CleanPcs
            /\ "idle" \in CleanPcs
        BY DEF CleanPcs
      <4> HIDE DEF CleanPcs
      <4> QED  BY <2>1, <3>5, <4>1
    <3> QED  BY <1>2, <3>1, <3>2, <3>3, <3>4, <3>5
              DEF CleanStep, CleanupTick, CleanupFails, DeleteOrphans, Unlock, CleanerCrash
  <2>3. object' \in ObjectType
    BY <1>2, RemoveFacts DEF CleanStep, CleanupTick, ListArchive, ListAvatar, ReadArchiveKeys,
         ReadAvatarKeys, CleanupFails, DeleteOrphans, Unlock, CleanerCrash, cleanOnly
  <2>4. lock' \in Cleaners \cup {Nobody, PooledLock}
    BY <1>2 DEF CleanStep, CleanupTick, ListArchive, ListAvatar, ReadArchiveKeys,
         ReadAvatarKeys, CleanupFails, DeleteOrphans, Unlock, CleanerCrash, cleanOnly
  <2>5. /\ UNCHANGED <<session, temp, landing, record, fileRow, create, delete, command,
                       account, avatar>>
        /\ Fault \/ NoFault
    BY <1>2 DEF CleanStep, CleanupTick, ListArchive, ListAvatar, ReadArchiveKeys,
         ReadAvatarKeys, CleanupFails, DeleteOrphans, Unlock, CleanerCrash, cleanOnly, NoFault
  <2> QED  BY <2>2, <2>3, <2>4, <2>5
<1> QED  BY <1>1, <1>2

LEMMA InitTyped == Init => TypeOK
<1> SUFFICES ASSUME Init PROVE TypeOK
  OBVIOUS
<1>1. NoCreate \in CreateType /\ NoClean \in CleanType
  BY DEF NoCreate, NoClean, CreateType, CreatePcs, CleanType, CleanPcs
<1> QED  BY <1>1, NoDeleteTyped, TypeParts, StoreAssumption
          DEF Init, ObjectType, RecordType, RowType

LEMMA NextTyped == TypeOK /\ [Next]_vars => TypeOK'
<1> SUFFICES ASSUME TypeOK, [Next]_vars PROVE TypeOK'
  OBVIOUS
<1>1. CASE UNCHANGED vars
  BY <1>1 DEF vars, TypeOK
<1> QED  BY <1>1, StoreTyped, CreateTyped, DeleteTyped, AvatarTyped, CleanTyped DEF Next

(* Every variable of the store stays within its type, for any number of    *)
(* requests, processes and faults (create_archive_record_handler,          *)
(* delete_archive_record_handler, update_avatar_handler,                   *)
(* cleanup_orphan_persistent_objects).                                     *)
THEOREM StoreTypeCorrect == Spec => []TypeOK
BY InitTyped, NextTyped, PTL DEF Spec

-----------------------------------------------------------------------------
(***************************************************************************)
(* Every step keeps the parts linked.                                      *)
(***************************************************************************)
tables == <<record, fileRow, create>>

(* A step that changes none of the parts.                                  *)
LEMMA Unaffected ==
  ASSUME Linked, UNCHANGED <<tables, object, landing, delete, command, clean>>
  PROVE  Linked'
BY DEF Linked, tables, Phase, CommandDead, DeleteDead, Dead, FileLinked, Backed, Traced,
       LateFailed, OldSettled, Inserting, CleanLinked, Settled

(* A step of S3.                                                           *)
LEMMA ObjectsOnly ==
  ASSUME Linked, UNCHANGED <<tables, delete, command, clean>>,
         \A r \in Records, f \in Files : FileLinked(r, f)'
  PROVE  Linked'
BY DEF Linked, tables, Phase, CommandDead, DeleteDead, Dead, CleanLinked, Settled

(* Removing keys of dead records harms no file.                            *)
LEMMA RemoveDead ==
  ASSUME TypeOK, Linked, UNCHANGED <<tables, landing>>, NEW S, Remove(S),
         \A r \in Records, f \in Files : <<r, f>> \in S => Dead(r)
  PROVE  \A r \in Records, f \in Files : FileLinked(r, f)'
<1> SUFFICES ASSUME NEW r \in Records, NEW f \in Files PROVE FileLinked(r, f)'
  OBVIOUS
<1>1. object'[<<r, f>>] = IF <<r, f>> \in S THEN "none" ELSE object[<<r, f>>]
  BY TypeParts, RemoveFacts, KeyFacts
<1>2. FileLinked(r, f)
  BY DEF Linked
<1>3. CASE <<r, f>> \in S
  BY <1>1, <1>2, <1>3 DEF FileLinked, Backed, Traced, LateFailed, OldSettled, Inserting, Dead, tables
<1>4. CASE <<r, f>> \notin S
  BY <1>1, <1>2, <1>4 DEF FileLinked, Backed, Traced, LateFailed, OldSettled, Inserting, tables
<1> QED  BY <1>3, <1>4

(* A step that leaves the objects of all records alone.                    *)
LEMMA OtherObjects ==
  ASSUME Linked, UNCHANGED tables,
         \A r \in Records, f \in Files : /\ object'[<<r, f>>] = object[<<r, f>>]
                                         /\ <<r, f>> \in landing' => <<r, f>> \in landing
  PROVE  \A r \in Records, f \in Files : FileLinked(r, f)'
<1> SUFFICES ASSUME NEW r \in Records, NEW f \in Files PROVE FileLinked(r, f)'
  OBVIOUS
<1>1. FileLinked(r, f)
  BY DEF Linked
<1> QED  BY <1>1 DEF tables, FileLinked, Backed, Traced, LateFailed, OldSettled, Inserting

(* S3 and the client: a late copy is of a request that failed, and an      *)
(* object gets old only after its request.                                 *)
LEMMA StoreLinked ==
  ASSUME AInv, ~AllowSlow,
         \/ \E x \in Files \cup Users : Upload(x) \/ TempExpires(x)
         \/ SessionExpires
         \/ \E k \in Keys : LateCopy(k) \/ Age(k)
  PROVE  Linked'
<1>0. TypeOK /\ Linked
  BY DEF AInv
<1>1. CASE (\E x \in Files \cup Users : Upload(x) \/ TempExpires(x)) \/ SessionExpires
  BY <1>0, <1>1, Unaffected DEF Upload, TempExpires, SessionExpires, tables
<1>2. ASSUME NEW k \in Keys, LateCopy(k) PROVE Linked'
  <2>1. /\ object'[k] = "fresh" /\ \A j \in Keys : j # k => object'[j] = object[j]
        /\ landing' \subseteq landing /\ k \in landing
        /\ UNCHANGED <<tables, delete, command, clean>>
    BY <1>0, <1>2, TypeParts, PutFacts DEF LateCopy, tables
  <2>2. ASSUME NEW r \in Records, NEW f \in Files PROVE FileLinked(r, f)'
    <3>0. FileLinked(r, f) /\ Phase(r) /\ <<r, f>> \in Keys
      BY <1>0, KeyFacts DEF Linked
    <3>1. CASE k = <<r, f>>
      <4>1. record[r] = "aborted" \/ create[r].pc = "rollback"
        BY <2>1, <3>0, <3>1 DEF FileLinked, LateFailed
      <4> QED  BY <2>1, <3>0, <3>1, <4>1
               DEF tables, FileLinked, Backed, Traced, LateFailed, OldSettled, Inserting,
                   Phase, Working
    <3>2. CASE k # <<r, f>>
      BY <2>1, <3>0, <3>2 DEF tables, FileLinked, Backed, Traced, LateFailed, OldSettled, Inserting
    <3> QED  BY <3>1, <3>2
  <2> QED  BY <1>0, <2>1, <2>2, ObjectsOnly
<1>3. ASSUME NEW k \in Keys, Age(k) PROVE Linked'
  <2>1. /\ object' = [object EXCEPT ![k] = "old"] /\ object[k] = "fresh"
        /\ UNCHANGED <<tables, landing, delete, command, clean>>
        /\ object \in [Keys -> {"none", "fresh", "old"}]
    BY <1>0, <1>3 DEF Age, tables, TypeOK
  <2>2. ASSUME NEW r \in Records, NEW f \in Files PROVE FileLinked(r, f)'
    <3>0. FileLinked(r, f) /\ <<r, f>> \in Keys /\ <<r, f>> \notin Users /\ <<r, f>>[1] = r
      BY <1>0, KeyFacts DEF Linked
    <3>1. CASE k = <<r, f>>
      <4>1. record[r] # "open"
        BY <1>3, <3>0, <3>1 DEF Age, InFlight
      <4> QED  BY <2>1, <3>0, <3>1, <4>1
               DEF tables, FileLinked, Backed, Traced, LateFailed, OldSettled, Inserting
    <3>2. CASE k # <<r, f>>
      BY <2>1, <3>0, <3>2 DEF tables, FileLinked, Backed, Traced, LateFailed, OldSettled, Inserting
    <3> QED  BY <3>1, <3>2
  <2> QED  BY <1>0, <2>1, <2>2, ObjectsOnly
<1> QED  BY <1>1, <1>2, <1>3

(* Avatars have keys of their own.                                         *)
LEMMA AvatarLinked ==
  ASSUME AInv, NEW u \in Users,
         AvatarBegin(u) \/ AvatarStep(u) \/ AvatarDropped(u) \/ DeleteUser(u)
  PROVE  Linked'
<1>0. TypeOK /\ Linked
  BY DEF AInv
<1>1. CASE AvatarBegin(u) \/ AvatarDeleteTemp(u) \/ SaveUserAvatar(u) \/ AvatarDropped(u)
           \/ DeleteUser(u)
  BY <1>0, <1>1, Unaffected
  DEF AvatarBegin, AvatarDeleteTemp, SaveUserAvatar, AvatarDropped, DeleteUser, tables
<1>2. CASE AvatarCopy(u)
  <2>1. UNCHANGED <<tables, delete, command, clean>>
    BY <1>2 DEF AvatarCopy, tables
  <2>2. /\ UNCHANGED object \/ Put(u)
        /\ landing' \subseteq landing \cup {u}
    BY <1>2 DEF AvatarCopy, CopyFails
  <2>3. \A r \in Records, f \in Files : /\ object'[<<r, f>>] = object[<<r, f>>]
                                        /\ <<r, f>> \in landing' => <<r, f>> \in landing
    <3>1. object \in ObjectType /\ u \in Keys
      BY <1>0, TypeParts, KeyFacts
    <3>2. \A k \in Keys : k # u => object'[k] = object[k]
      BY <2>2, <3>1, PutFacts
    <3>3. ASSUME NEW r \in Records, NEW f \in Files
          PROVE  <<r, f>> \in Keys /\ <<r, f>> # u
      <4>1. <<r, f>> \in Keys /\ <<r, f>> \notin Users
        BY KeyFacts
      <4> QED  BY <4>1
    <3> QED  BY <2>2, <3>2, <3>3
  <2> QED  BY <1>0, <2>1, <2>3, OtherObjects, ObjectsOnly
<1> QED  BY <1>1, <1>2 DEF AvatarStep

(* The cleanup lists settled keys only, because old objects are; those that*)
(* sys_file does not have by then are of dead records, and stay so.        *)
LEMMA CleanStepLinked ==
  ASSUME AInv, (\E n \in Cleaners : CleanStep(n) \/ CleanerCrash(n)) \/ PoolClosesConnection
  PROVE  Linked'
<1>0. TypeOK /\ Linked
  BY DEF AInv
<1>1. CASE PoolClosesConnection
  BY <1>0, <1>1, Unaffected DEF PoolClosesConnection, tables
<1>2. ASSUME NEW n \in Cleaners, CleanStep(n) \/ CleanerCrash(n) PROVE Linked'
  <2>1. UNCHANGED <<tables, landing, delete, command>>
    BY <1>2 DEF CleanStep, CleanupTick, ListArchive, ListAvatar, ReadArchiveKeys,
         ReadAvatarKeys, CleanupFails, DeleteOrphans, Unlock, CleanerCrash, cleanOnly, tables
  <2>2. \A r \in Records, f \in Files : FileLinked(r, f)'
    <3>1. CASE DeleteOrphans(n)
      <4>1. \E S \in SUBSET clean[n].orphans : Remove(S)
        BY <3>1 DEF DeleteOrphans
      <4>2. \A r \in Records, f \in Files : <<r, f>> \in clean[n].orphans => Dead(r)
        BY <1>0 DEF Linked, CleanLinked
      <4> QED  BY <1>0, <2>1, <4>1, <4>2, RemoveDead
    <3>2. CASE UNCHANGED object
      BY <1>0, <2>1, <3>2, OtherObjects
    <3> QED  BY <1>2, <3>1, <3>2 DEF CleanStep, CleanupTick, ListArchive, ListAvatar,
           ReadArchiveKeys, ReadAvatarKeys, CleanupFails, Unlock, CleanerCrash, cleanOnly
  <2>3. ASSUME NEW r \in Records, NEW f \in Files
        PROVE  /\ <<r, f>> \in clean'[n].listed => Settled(r, f)
               /\ <<r, f>> \in clean'[n].orphans => Dead(r)
    <3>0. /\ clean \in [Cleaners -> CleanType] /\ clean[n].listed \in SUBSET Keys
          /\ clean[n].orphans \in SUBSET Keys
      BY <1>0, TypeParts DEF CleanType
    <3>1. /\ <<r, f>> \in clean[n].listed => Settled(r, f)
          /\ <<r, f>> \in clean[n].orphans => Dead(r)
          /\ FileLinked(r, f) /\ <<r, f>> \notin Users
      BY <1>0, KeyFacts DEF Linked, CleanLinked
    <3>2. CASE ListArchive(n)
      <4>1. clean'[n].listed = OldEnough(ArchiveKeys) /\ clean'[n].orphans = {}
        BY <3>0, <3>2 DEF ListArchive, SetClean
      <4>2. <<r, f>> \in OldEnough(ArchiveKeys) => Settled(r, f)
        BY <1>0, <3>1, TypeParts DEF OldEnough, FileLinked, Traced, OldSettled, Settled, RecordType
      <4> QED  BY <4>1, <4>2
    <3>3. CASE ListAvatar(n)
      <4>1. clean'[n].listed = clean[n].listed \cup OldEnough(Users) /\ clean'[n].orphans = {}
        BY <3>0, <3>3 DEF ListAvatar, SetClean
      <4> QED  BY <3>1, <4>1 DEF OldEnough
    <3>4. CASE ReadArchiveKeys(n)
      <4>1. /\ clean'[n].listed = clean[n].listed
            /\ clean'[n].orphans = (clean[n].listed \cap ArchiveKeys) \ StoredKeys
        BY <3>0, <3>4 DEF ReadArchiveKeys, SetClean
      <4>2. fileRow[f] = r /\ record[r] = "committed" => <<r, f>> \in StoredKeys
        BY StoreAssumption DEF StoredKeys
      <4>3. Settled(r, f) /\ <<r, f>> \notin StoredKeys => Dead(r)
        BY <1>0, <4>2, TypeParts DEF Settled, Dead, RecordType
      <4> QED  BY <3>1, <4>1, <4>3
    <3>5. CASE ReadAvatarKeys(n)
      <4>1. /\ clean'[n].listed = clean[n].listed
            /\ clean'[n].orphans =
                 clean[n].orphans \cup ((clean[n].listed \cap Users) \ AvatarKeys)
        BY <3>0, <3>5 DEF ReadAvatarKeys, SetClean
      <4> QED  BY <3>1, <4>1
    <3>6. CASE \E pc : SetClean(n, pc, {}, {})
      <4>1. clean'[n].listed = {} /\ clean'[n].orphans = {}
        BY <3>0, <3>6 DEF SetClean
      <4> QED  BY <4>1
    <3> QED  BY <1>2, <3>2, <3>3, <3>4, <3>5, <3>6
             DEF CleanStep, CleanupTick, CleanupFails, DeleteOrphans, Unlock, CleanerCrash
  <2>4. \A m \in Cleaners : m # n => clean'[m] = clean[m]
    <3>1. \E pc, listed, orphans : SetClean(n, pc, listed, orphans)
      BY <1>2 DEF CleanStep, CleanupTick, ListArchive, ListAvatar, ReadArchiveKeys,
         ReadAvatarKeys, CleanupFails, DeleteOrphans, Unlock, CleanerCrash
    <3> QED  BY <1>0, <3>1, TypeParts DEF SetClean
  <2>5. \A m \in Cleaners : CleanLinked(m)'
    BY <1>0, <2>1, <2>3, <2>4 DEF Linked, CleanLinked, Settled, Dead, tables
  <2>6. /\ \A r \in Records : Phase(r)' /\ CommandDead(r)'
        /\ \A d \in Deleters : DeleteDead(d)'
    BY <1>0, <2>1 DEF Linked, Phase, CommandDead, DeleteDead, Dead, tables
  <2> QED  BY <2>2, <2>5, <2>6 DEF Linked
<1> QED  BY <1>1, <1>2

(* A step of a request for one record: the other records see nothing of it.*)
LEMMA OneRecord ==
  ASSUME Linked, NEW r \in Records, UNCHANGED clean,
         \A q \in Records : q # r =>
           /\ record'[q] = record[q] /\ create'[q] = create[q]
           /\ \A f \in Files : /\ fileRow'[f] = q <=> fileRow[f] = q
                               /\ object'[<<q, f>>] = object[<<q, f>>]
                               /\ <<q, f>> \in landing' => <<q, f>> \in landing,
         Phase(r)', Dead(r) => Dead(r)',
         \A f \in Files : FileLinked(r, f)' /\ (Settled(r, f) => Settled(r, f)'),
         \A q \in Records : CommandDead(q)', \A d \in Deleters : DeleteDead(d)'
  PROVE  Linked'
<1>1. ASSUME NEW q \in Records, q # r
      PROVE  /\ Phase(q)' /\ (Dead(q) => Dead(q)')
             /\ \A f \in Files : FileLinked(q, f)' /\ (Settled(q, f) => Settled(q, f)')
  BY <1>1 DEF Linked, Phase, Dead, FileLinked, Backed, Traced, LateFailed, OldSettled, Inserting,
              Settled
<1>2. \A q \in Records : /\ Phase(q)' /\ (Dead(q) => Dead(q)')
                         /\ \A f \in Files : FileLinked(q, f)' /\ (Settled(q, f) => Settled(q, f)')
  BY <1>1
<1>3. \A n \in Cleaners : CleanLinked(n)'
  <2> SUFFICES ASSUME NEW n \in Cleaners, NEW q \in Records, NEW f \in Files
               PROVE  /\ <<q, f>> \in clean'[n].listed => Settled(q, f)'
                      /\ <<q, f>> \in clean'[n].orphans => Dead(q)'
    BY DEF CleanLinked
  <2>1. /\ <<q, f>> \in clean[n].listed => Settled(q, f)
        /\ <<q, f>> \in clean[n].orphans => Dead(q)
    BY DEF Linked, CleanLinked
  <2> QED  BY <1>2, <2>1
<1> QED  BY <1>2, <1>3 DEF Linked

(* The same, when the commands and delete requests stay as they are.       *)
LEMMA OnlyRecord ==
  ASSUME Linked, NEW r \in Records, UNCHANGED <<clean, command, delete>>,
         \A q \in Records : q # r =>
           /\ record'[q] = record[q] /\ create'[q] = create[q]
           /\ \A f \in Files : /\ fileRow'[f] = q <=> fileRow[f] = q
                               /\ object'[<<q, f>>] = object[<<q, f>>]
                               /\ <<q, f>> \in landing' => <<q, f>> \in landing,
         Phase(r)', Dead(r) => Dead(r)',
         \A f \in Files : FileLinked(r, f)' /\ (Settled(r, f) => Settled(r, f)')
  PROVE  Linked'
<1>1. \A q \in Records : Dead(q) => Dead(q)'
  BY DEF Dead
<1>2. \A q \in Records : CommandDead(q)'
  BY <1>1 DEF Linked, CommandDead
<1>3. \A d \in Deleters : DeleteDead(d)'
  BY <1>1 DEF Linked, DeleteDead
<1> QED  BY <1>2, <1>3, OneRecord

(* Rows of other records survive a step on the rows of one.                *)
LEMMA UnlinkOthers ==
  ASSUME fileRow \in RowType, NEW r \in Records,
         fileRow' = [f \in Files |-> IF fileRow[f] = r THEN Nobody ELSE fileRow[f]]
  PROVE  /\ \A f \in Files : fileRow'[f] # r
         /\ \A q \in Records, f \in Files : q # r => (fileRow'[f] = q <=> fileRow[f] = q)
BY StoreAssumption DEF RowType

(* ROLLBACK: the rows go with the record.                                  *)
LEMMA RollbackLinked ==
  ASSUME AInv, NEW r \in Records, record[r] = "open", Rollback(r),
         NEW pc \in {"submit", "done"}, Goto(r, pc),
         UNCHANGED <<object, landing, clean, command, delete>>
  PROVE  Linked'
<1>0. /\ Linked /\ record \in RecordType /\ fileRow \in RowType
      /\ create \in [Records -> CreateType] /\ pc \in CreatePcs
  BY TypeParts DEF AInv, CreatePcs
<1>1. record'[r] = "aborted" /\ \A q \in Records : q # r => record'[q] = record[q]
  BY <1>0, SetRecordFacts DEF Rollback
<1>2. create'[r].pc = pc /\ \A q \in Records : q # r => create'[q] = create[q]
  BY <1>0, GotoFacts
<1>3. /\ \A f \in Files : fileRow'[f] # r
      /\ \A q \in Records, f \in Files : q # r => (fileRow'[f] = q <=> fileRow[f] = q)
  BY <1>0, UnlinkOthers DEF Rollback
<1>4. Phase(r)' /\ (Dead(r) => Dead(r)')
  BY <1>1, <1>2 DEF Phase, Dead, Working
<1>5. \A f \in Files : FileLinked(r, f)' /\ (Settled(r, f) => Settled(r, f)')
  BY <1>1, <1>2, <1>3 DEF FileLinked, Backed, Traced, LateFailed, OldSettled, Inserting, Settled
<1> QED  BY <1>0, <1>1, <1>2, <1>3, <1>4, <1>5, OnlyRecord

(* BEGIN and the INSERT of the record: no file of it exists yet.           *)
LEMMA BeginLinked ==
  ASSUME AInv, NEW r \in Records, CreateBegin(r)
  PROVE  Linked'
<1>0. /\ Linked /\ record \in RecordType /\ create \in [Records -> CreateType]
      /\ Phase(r) /\ \A f \in Files : FileLinked(r, f)
  BY TypeParts DEF AInv, Linked
<1>1. record'[r] = "open" /\ \A q \in Records : q # r => record'[q] = record[q]
  BY <1>0, SetRecordFacts DEF CreateBegin
<1>2. /\ create'[r].pc \in {"commit", "check"}
      /\ \A q \in Records : q # r => create'[q] = create[q]
  BY <1>0 DEF CreateBegin, CreateType
<1>3. record[r] = "none"
  BY <1>0 DEF CreateBegin, NoCreate, Phase
<1>4. Phase(r)' /\ (Dead(r) => Dead(r)')
  BY <1>1, <1>2, <1>3 DEF Phase, Dead, Working
<1>5. UNCHANGED <<clean, command, delete, fileRow, object, landing>>
  BY DEF CreateBegin
<1>6. ASSUME NEW f \in Files PROVE FileLinked(r, f)' /\ (Settled(r, f) => Settled(r, f)')
  <2>1. object[<<r, f>>] = "none" /\ fileRow[f] # r /\ <<r, f>> \notin landing
    BY <1>0, <1>3 DEF FileLinked, Traced, Backed, LateFailed, Phase, Working
  <2> QED  BY <1>2, <1>3, <1>5, <2>1
           DEF FileLinked, Backed, Traced, LateFailed, OldSettled, Inserting, Settled
<1> QED  BY <1>0, <1>1, <1>2, <1>4, <1>5, <1>6, OnlyRecord

(* A step that only moves the request on, to ROLLBACK or within its work   *)
(* without an uninserted copy.                                             *)
LEMMA MoveLinked ==
  ASSUME AInv, NEW r \in Records, NEW pc, Goto(r, pc),
         \/ create[r].pc \in Working /\ pc = "rollback"
         \/ create[r].pc = "check" /\ pc = "copy",
         UNCHANGED <<record, fileRow, object, landing, clean, command, delete>>
  PROVE  Linked'
<1>0. /\ Linked /\ create \in [Records -> CreateType] /\ pc \in CreatePcs
      /\ Phase(r) /\ \A f \in Files : FileLinked(r, f)
  BY TypeParts DEF AInv, Linked, CreatePcs
<1>1. create'[r].pc = pc /\ \A q \in Records : q # r => create'[q] = create[q]
  BY <1>0, GotoFacts
<1>2. Phase(r)' /\ (Dead(r) => Dead(r)') /\ record[r] = "open"
  BY <1>0, <1>1 DEF Phase, Dead, Working
<1>3. \A f \in Files : FileLinked(r, f)' /\ (Settled(r, f) => Settled(r, f)')
  BY <1>0, <1>1, <1>2
  DEF FileLinked, Backed, Traced, LateFailed, OldSettled, Inserting, Settled, Working
<1> QED  BY <1>0, <1>1, <1>2, <1>3, OnlyRecord

(* move_temp_file_to_save: the object is there before its row; after an    *)
(* error the request goes on to ROLLBACK, whatever S3 did.                 *)
LEMMA CopyLinked ==
  ASSUME AInv, NEW r \in Records, CopyFile(r)
  PROVE  Linked'
<1>0. /\ Linked /\ create \in [Records -> CreateType] /\ object \in ObjectType
      /\ Phase(r) /\ (\A f \in Files : FileLinked(r, f)) /\ create[r].todo \in SUBSET Files
  BY TypeParts DEF AInv, Linked, CreateType
<1>1. record[r] = "open" /\ create[r].pc = "copy"
  BY <1>0 DEF CopyFile, Phase, Working
<1>2. UNCHANGED <<record, fileRow, clean, command, delete>>
  BY DEF CopyFile
<1>3. PICK f \in create[r].todo :
        \/ Put(<<r, f>>) /\ UNCHANGED landing /\ SetCreate(r, "insert", create[r].todo \ {f}, f)
        \/ Goto(r, "rollback") /\ UNCHANGED <<object, landing>>
        \/ CopyFails(<<r, f>>) /\ Goto(r, "rollback")
  BY DEF CopyFile
<1>4. f \in Files /\ <<r, f>> \in Keys
  BY <1>0, KeyFacts
<1>5. CASE Goto(r, "rollback") /\ UNCHANGED <<object, landing>>
  BY <1>1, <1>2, <1>5, MoveLinked DEF Working
<1>6. CASE Put(<<r, f>>) /\ UNCHANGED landing /\ SetCreate(r, "insert", create[r].todo \ {f}, f)
  <2>1. /\ object'[<<r, f>>] = "fresh"
        /\ \A j \in Keys : j # <<r, f>> => object'[j] = object[j]
    BY <1>0, <1>4, <1>6, PutFacts
  <2>2. /\ create'[r].pc = "insert" /\ create'[r].at = f
        /\ \A q \in Records : q # r => create'[q] = create[q]
    BY <1>0, <1>4, <1>6, SetCreateFacts DEF CreatePcs
  <2>3. \A q \in Records, g \in Files : q # r => object'[<<q, g>>] = object[<<q, g>>]
    BY <1>4, <2>1, KeyFacts
  <2>4. Phase(r)' /\ (Dead(r) => Dead(r)')
    BY <1>0, <1>1, <1>2, <2>2 DEF Phase, Dead, Working
  <2>5. ASSUME NEW g \in Files PROVE FileLinked(r, g)' /\ (Settled(r, g) => Settled(r, g)')
    <3>0. FileLinked(r, g) /\ <<r, g>> \in Keys /\ (<<r, g>> = <<r, f>> <=> g = f)
      BY <1>0, <1>4, KeyFacts
    <3>1. CASE g = f
      BY <1>1, <1>2, <1>6, <2>1, <2>2, <3>0, <3>1
      DEF FileLinked, Backed, Traced, LateFailed, OldSettled, Inserting, Settled
    <3>2. CASE g # f
      BY <1>1, <1>2, <1>6, <2>1, <2>2, <3>0, <3>2
      DEF FileLinked, Backed, Traced, LateFailed, OldSettled, Inserting, Settled
    <3> QED  BY <3>1, <3>2
  <2> QED  BY <1>0, <1>2, <1>6, <2>2, <2>3, <2>4, <2>5, OnlyRecord
<1>7. CASE CopyFails(<<r, f>>) /\ Goto(r, "rollback")
  <2>1. /\ \A j \in Keys : j # <<r, f>> => object'[j] = object[j] /\ (j \in landing' => j \in landing)
        /\ object'[<<r, f>>] \in {object[<<r, f>>], "fresh"}
    BY <1>0, <1>4, <1>7, PutFacts DEF CopyFails
  <2>2. /\ create'[r].pc = "rollback"
        /\ \A q \in Records : q # r => create'[q] = create[q]
    BY <1>0, <1>7, GotoFacts DEF CreatePcs
  <2>3. \A q \in Records, g \in Files : q # r =>
          object'[<<q, g>>] = object[<<q, g>>] /\ (<<q, g>> \in landing' => <<q, g>> \in landing)
    BY <1>4, <2>1, KeyFacts
  <2>4. Phase(r)' /\ (Dead(r) => Dead(r)')
    BY <1>0, <1>1, <1>2, <2>2 DEF Phase, Dead, Working
  <2>5. ASSUME NEW g \in Files PROVE FileLinked(r, g)' /\ (Settled(r, g) => Settled(r, g)')
    <3>0. FileLinked(r, g) /\ <<r, g>> \in Keys /\ (<<r, g>> = <<r, f>> <=> g = f)
      BY <1>0, <1>4, KeyFacts
    <3>1. CASE g = f
      BY <1>1, <1>2, <2>1, <2>2, <3>0, <3>1
      DEF FileLinked, Backed, Traced, LateFailed, OldSettled, Inserting, Settled
    <3>2. CASE g # f
      BY <1>1, <1>2, <2>1, <2>2, <3>0, <3>2
      DEF FileLinked, Backed, Traced, LateFailed, OldSettled, Inserting, Settled
    <3> QED  BY <3>1, <3>2
  <2> QED  BY <1>0, <1>2, <2>2, <2>3, <2>4, <2>5, OnlyRecord
<1> QED  BY <1>3, <1>5, <1>6, <1>7

(* save_file_metadata: the row is inserted for the object just copied.     *)
LEMMA SaveLinked ==
  ASSUME AInv, NEW r \in Records, SaveFileMetadata(r)
  PROVE  Linked'
<1>0. /\ Linked /\ create \in [Records -> CreateType] /\ fileRow \in RowType
      /\ Phase(r) /\ \A f \in Files : FileLinked(r, f)
  BY TypeParts DEF AInv, Linked
<1>1. record[r] = "open" /\ create[r].pc = "insert"
  BY <1>0 DEF SaveFileMetadata, Phase, Working
<1>2. UNCHANGED <<record, object, landing, clean, command, delete>>
  BY DEF SaveFileMetadata
<1>3. CASE Goto(r, "rollback") /\ UNCHANGED fileRow
  BY <1>1, <1>2, <1>3, MoveLinked DEF Working
<1>4. CASE /\ fileRow[create[r].at] = Nobody
           /\ fileRow' = [fileRow EXCEPT ![create[r].at] = r]
           /\ SetCreate(r, IF create[r].todo = {} THEN "commit" ELSE "copy",
                        create[r].todo, Nobody)
  <2> DEFINE pc == IF create[r].todo = {} THEN "commit" ELSE "copy"
  <2>0. pc \in CreatePcs /\ pc \in {"commit", "copy"} /\ create[r].todo \in SUBSET Files
    BY <1>0 DEF CreatePcs, CreateType
  <2>1. /\ create'[r].pc \in {"commit", "copy"}
        /\ \A q \in Records : q # r => create'[q] = create[q]
    <3>1. SetCreate(r, pc, create[r].todo, Nobody)
      BY <1>4
    <3> HIDE DEF pc
    <3> QED  BY <1>0, <2>0, <3>1, SetCreateFacts
  <2>2. \A f \in Files : fileRow'[f] = IF f = create[r].at THEN r ELSE fileRow[f]
    BY <1>0, <1>4 DEF RowType
  <2>3. \A q \in Records, f \in Files : q # r => (fileRow'[f] = q <=> fileRow[f] = q)
    BY <1>4, <2>2, StoreAssumption
  <2>4. Phase(r)' /\ (Dead(r) => Dead(r)')
    BY <1>0, <1>1, <1>2, <2>1 DEF Phase, Dead, Working
  <2>5. \A f \in Files : FileLinked(r, f)' /\ (Settled(r, f) => Settled(r, f)')
    BY <1>0, <1>1, <1>2, <2>1, <2>2
    DEF FileLinked, Backed, Traced, LateFailed, OldSettled, Inserting, Settled
  <2> QED  BY <1>0, <1>2, <2>1, <2>3, <2>4, <2>5, OnlyRecord
<1> QED  BY <1>3, <1>4 DEF SaveFileMetadata, AfterInsert

(* COMMIT: every object of the record has its row by now.                  *)
LEMMA CommitLinked ==
  ASSUME AInv, NEW r \in Records, CommitCreate(r)
  PROVE  Linked'
<1>0. /\ Linked /\ create \in [Records -> CreateType] /\ record \in RecordType
      /\ Phase(r) /\ \A f \in Files : FileLinked(r, f)
  BY TypeParts DEF AInv, Linked
<1>1. record[r] = "open" /\ create[r].pc = "commit"
  BY <1>0 DEF CommitCreate, Phase, Working
<1>2. UNCHANGED <<object, landing, clean, command, delete>>
  BY DEF CommitCreate
<1>3. CASE Rollback(r) /\ Goto(r, "done")
  BY <1>1, <1>2, <1>3, RollbackLinked
<1>4. ASSUME NEW pc \in {"done", "endSession"}, SetRecord(r, "committed"), UNCHANGED fileRow,
             Goto(r, pc)
      PROVE  Linked'
  <2>1. record'[r] = "committed" /\ \A q \in Records : q # r => record'[q] = record[q]
    BY <1>0, <1>4, SetRecordFacts
  <2>2. create'[r].pc = pc /\ \A q \in Records : q # r => create'[q] = create[q]
    <3>1. pc \in CreatePcs
      BY DEF CreatePcs
    <3> QED  BY <1>0, <1>4, <3>1, GotoFacts
  <2>3. Phase(r)' /\ (Dead(r) => Dead(r)')
    BY <1>1, <2>1, <2>2 DEF Phase, Dead, Working
  <2>4. \A f \in Files : FileLinked(r, f)' /\ (Settled(r, f) => Settled(r, f)')
    BY <1>0, <1>1, <1>2, <1>4, <2>1, <2>2
    DEF FileLinked, Backed, Traced, LateFailed, OldSettled, Inserting, Settled
  <2> QED  BY <1>0, <1>2, <1>4, <2>1, <2>2, <2>3, <2>4, OnlyRecord
<1>5. (IF create[r].files = {} THEN "done" ELSE "endSession") \in {"done", "endSession"}
  OBVIOUS
<1> QED  BY <1>3, <1>4, <1>5 DEF CommitCreate

(* The request is over, or only has its session to end: its record stays.  *)
LEMMA EndLinked ==
  ASSUME AInv, NEW r \in Records, create[r].pc \notin Working \cup {"idle"}, Goto(r, "done"),
         UNCHANGED <<record, fileRow, object, landing, clean, delete>>,
         \/ UNCHANGED command
         \/ /\ create[r].pc = "submit"
            /\ command' = [command EXCEPT ![r] = KeysOf(r, create[r].files)]
  PROVE  Linked'
<1>0. /\ Linked /\ create \in [Records -> CreateType] /\ "done" \in CreatePcs
      /\ command \in [Records -> SUBSET ArchiveKeys] /\ create[r].files \in SUBSET Files
      /\ Phase(r) /\ \A f \in Files : FileLinked(r, f)
  BY TypeParts DEF AInv, Linked, CreatePcs, CreateType
<1>1. create'[r].pc = "done" /\ \A q \in Records : q # r => create'[q] = create[q]
  BY <1>0, GotoFacts
<1>2. record[r] # "open" /\ record[r] # "none"
  BY <1>0 DEF Phase
<1>3. Phase(r)' /\ \A q \in Records : Dead(q) <=> Dead(q)'
  BY <1>1, <1>2 DEF Phase, Dead, Working
<1>4. \A f \in Files : FileLinked(r, f)' /\ (Settled(r, f) => Settled(r, f)')
  BY <1>0, <1>1, <1>2
  DEF FileLinked, Backed, Traced, LateFailed, OldSettled, Inserting, Settled, Working
<1>5. \A q \in Records : CommandDead(q)'
  <2>1. CASE UNCHANGED command
    BY <1>0, <1>3, <2>1 DEF Linked, CommandDead
  <2>2. CASE create[r].pc = "submit" /\ command' = [command EXCEPT ![r] = KeysOf(r, create[r].files)]
    <3>1. Dead(r)
      BY <1>0, <2>2 DEF Phase, Dead
    <3>2. KeysOf(r, create[r].files) \subseteq KeysOf(r, Files)
      BY <1>0 DEF KeysOf
    <3>3. \A q \in Records : command'[q] = IF q = r THEN KeysOf(r, create[r].files) ELSE command[q]
      BY <1>0, <2>2
    <3> QED  BY <1>0, <1>3, <3>1, <3>2, <3>3 DEF Linked, CommandDead
  <2> QED  BY <2>1, <2>2
<1>6. \A d \in Deleters : DeleteDead(d)'
  <2>1. ASSUME NEW d \in Deleters PROVE DeleteDead(d)'
    BY <1>0, <1>3 DEF Linked, DeleteDead
  <2> QED  BY <2>1
<1> QED  BY <1>0, <1>1, <1>3, <1>4, <1>5, <1>6, OneRecord

(* Every step of create_archive_record_handler.                            *)
LEMMA CreateLinked ==
  ASSUME AInv, NEW r \in Records, CreateBegin(r) \/ CreateStep(r) \/ CreateDropped(r)
  PROVE  Linked'
<1>0. Phase(r)
  BY DEF AInv, Linked
<1>1. CASE CheckUploadSession(r)
  BY <1>1, MoveLinked DEF CheckUploadSession, Working
<1>2. CASE DeleteUploadSession(r) \/ SubmitCompensation(r)
  BY <1>2, EndLinked DEF DeleteUploadSession, SubmitCompensation, Working
<1>3. CASE RollbackCreate(r)
  <2>1. record[r] = "open"
    BY <1>0, <1>3 DEF RollbackCreate, Phase, Working
  <2> QED  BY <1>3, <2>1, RollbackLinked DEF RollbackCreate
<1>4. CASE CreateDropped(r)
  <2>1. CASE record[r] = "open"
    BY <1>4, <2>1, RollbackLinked DEF CreateDropped
  <2>2. CASE record[r] # "open"
    <3>1. create[r].pc \notin Working \cup {"idle"}
      BY <1>0, <1>4, <2>2 DEF CreateDropped, Phase
    <3> QED  BY <1>4, <2>2, <3>1, EndLinked DEF CreateDropped
  <2> QED  BY <2>1, <2>2
<1> QED  BY <1>1, <1>2, <1>3, <1>4, BeginLinked, CopyLinked, SaveLinked, CommitLinked
         DEF CreateStep

(* delete_archive_record: a request removes objects only after the rows    *)
(* are gone, and only keys of the record it has removed.                   *)
LEMMA DeleteRowLinked ==
  ASSUME AInv, NEW d \in Deleters, DeleteArchiveRecord(d)
  PROVE  Linked'
<1>0. /\ Linked /\ record \in RecordType /\ fileRow \in RowType
      /\ delete \in [Deleters -> DeleteType]
      /\ \A e \in Deleters : DeleteDead(e)
  BY TypeParts DEF AInv, Linked
<1>r. PICK r \in Records : r = delete[d].of
  BY <1>0 DEF DeleteArchiveRecord, DeleteDead
<1>1. /\ delete[d].keys \subseteq KeysOf(r, Files)
      /\ UNCHANGED <<create, object, landing, clean, command>>
  BY <1>0, <1>r DEF DeleteArchiveRecord, DeleteDead
<1>2. /\ \A e \in Deleters : e # d => delete'[e] = delete[e]
      /\ \/ delete'[d] = NoDelete
         \/ /\ delete'[d] = [pc |-> "objects", of |-> r, keys |-> delete[d].keys]
            /\ record[r] = "committed" /\ DropRows(r)
  <2>1. PICK x : /\ SetDelete(d, x)
                 /\ \/ x = NoDelete
                    \/ /\ x = [pc |-> "objects", of |-> r, keys |-> delete[d].keys]
                       /\ record[r] = "committed" /\ DropRows(r)
    BY <1>r DEF DeleteArchiveRecord
  <2> QED  BY <1>0, <2>1 DEF SetDelete
<1>3. CASE record[r] = "committed" /\ DropRows(r)
  <2>0. Phase(r) /\ \A f \in Files : FileLinked(r, f)
    BY <1>0, <1>1 DEF Linked
  <2>1. record'[r] = "deleted" /\ \A q \in Records : q # r => record'[q] = record[q]
    BY <1>0, <1>1, <1>3, SetRecordFacts DEF DropRows
  <2>2. /\ \A f \in Files : fileRow'[f] # r
        /\ \A q \in Records, f \in Files : q # r => (fileRow'[f] = q <=> fileRow[f] = q)
    BY <1>0, <1>1, <1>3, UnlinkOthers DEF DropRows
  <2>3. Phase(r)'
    BY <1>1, <1>3, <2>0, <2>1 DEF Phase, Working
  <2>4. \A q \in Records : (Dead(q) => Dead(q)') /\ (q = r => Dead(q)')
    BY <2>1 DEF Dead
  <2>5. \A f \in Files : FileLinked(r, f)' /\ (Settled(r, f) => Settled(r, f)')
    BY <1>1, <1>3, <2>0, <2>1, <2>2
    DEF FileLinked, Backed, Traced, LateFailed, OldSettled, Inserting, Settled, Phase, Working
  <2>6. \A q \in Records : CommandDead(q)'
    BY <1>0, <1>1, <2>4 DEF Linked, CommandDead
  <2>7. ASSUME NEW e \in Deleters PROVE DeleteDead(e)'
    <3>1. CASE e # d
      BY <1>0, <1>2, <2>4, <3>1 DEF DeleteDead
    <3>2. CASE e = d
      BY <1>1, <1>2, <2>4, <3>2 DEF DeleteDead, NoDelete
    <3> QED  BY <3>1, <3>2
  <2> QED  BY <1>0, <1>1, <2>1, <2>2, <2>3, <2>4, <2>5, <2>6, <2>7, OneRecord
<1>4. CASE UNCHANGED <<record, fileRow>> /\ delete'[d] = NoDelete
  <2>1. \A q \in Records, f \in Files : FileLinked(q, f)'
    BY <1>0, <1>1, <1>4, OtherObjects DEF tables
  <2>2. /\ \A q \in Records : Phase(q)' /\ CommandDead(q)'
        /\ \A n \in Cleaners : CleanLinked(n)'
    BY <1>0, <1>1, <1>4 DEF Linked, Phase, CommandDead, CleanLinked, Settled, Dead
  <2>3. ASSUME NEW e \in Deleters PROVE DeleteDead(e)'
    BY <1>0, <1>2, <1>4 DEF DeleteDead, Dead, NoDelete
  <2> QED  BY <2>1, <2>2, <2>3 DEF Linked
<1>5. \/ record[r] = "committed" /\ DropRows(r)
      \/ UNCHANGED <<record, fileRow>> /\ SetDelete(d, NoDelete)
  BY <1>r DEF DeleteArchiveRecord
<1>6. SetDelete(d, NoDelete) => delete'[d] = NoDelete
  BY <1>0 DEF SetDelete
<1> QED  BY <1>3, <1>4, <1>5, <1>6

(* Delete requests and commands that leave the tables alone: what they     *)
(* name is dead, and so is what they remove and submit.                    *)
LEMMA RemovingLinked ==
  ASSUME AInv, UNCHANGED <<tables, landing, clean>>,
         (\E S : Remove(S) /\ \A r \in Records, f \in Files : <<r, f>> \in S => Dead(r))
           \/ UNCHANGED object,
         \A r \in Records : CommandDead(r)', \A d \in Deleters : DeleteDead(d)'
  PROVE  Linked'
<1>0. TypeOK /\ Linked
  BY DEF AInv
<1>1. \A r \in Records, f \in Files : FileLinked(r, f)'
  BY <1>0, RemoveDead, OtherObjects
<1>2. /\ \A r \in Records : Phase(r)'
      /\ \A n \in Cleaners : CleanLinked(n)'
  BY <1>0 DEF tables, Linked, Phase, CleanLinked, Settled, Dead
<1> QED  BY <1>1, <1>2 DEF Linked

(* The keys of a record are of no other.                                   *)
LEMMA KeysOfOne ==
  ASSUME NEW q \in Records, NEW S, S \subseteq KeysOf(q, Files)
  PROVE  \A r \in Records, f \in Files : <<r, f>> \in S => r = q
BY DEF KeysOf

(* The other steps of delete_archive_record_handler.                       *)
LEMMA DeleteLinked ==
  ASSUME AInv, NEW d \in Deleters,
         \/ \E r \in Records : DeleteBegin(d, r)
         \/ DeleteObjects(d) \/ DeleteSubmit(d) \/ DeleteDropped(d)
  PROVE  Linked'
<1>0. /\ delete \in [Deleters -> DeleteType] /\ command \in [Records -> SUBSET ArchiveKeys]
      /\ (\A e \in Deleters : DeleteDead(e)) /\ (\A r \in Records : CommandDead(r))
  BY TypeParts DEF AInv, Linked
<1>1. UNCHANGED <<tables, landing, clean>>
  BY DEF DeleteBegin, DeleteObjects, DeleteSubmit, DeleteDropped, tables
<1>2. \A r \in Records : Dead(r) <=> Dead(r)'
  BY <1>1 DEF Dead, tables
<1>3. CASE \E r \in Records : DeleteBegin(d, r)
  <2>1. PICK r \in Records : DeleteBegin(d, r)
    BY <1>3
  <2>2. KeysOf(r, {f \in Files : fileRow[f] = r}) \subseteq KeysOf(r, Files)
    BY DEF KeysOf
  <2>3. UNCHANGED <<object, command>> /\ \A e \in Deleters : e # d => delete'[e] = delete[e]
    BY <1>0, <2>1 DEF DeleteBegin, SetDelete
  <2>4. delete'[d].pc = "row" /\ delete'[d].of = r /\ delete'[d].keys \subseteq KeysOf(r, Files)
    BY <1>0, <2>1, <2>2 DEF DeleteBegin, SetDelete
  <2>5. ASSUME NEW e \in Deleters PROVE DeleteDead(e)'
    BY <1>0, <1>2, <2>3, <2>4 DEF DeleteDead
  <2>6. ASSUME NEW q \in Records PROVE CommandDead(q)'
    BY <1>0, <1>2, <2>3 DEF CommandDead
  <2> QED  BY <1>1, <2>3, <2>5, <2>6, RemovingLinked
<1>4. CASE DeleteObjects(d)
  <2> DEFINE r == delete[d].of
  <2>1. r \in Records /\ Dead(r) /\ delete[d].keys \subseteq KeysOf(r, Files)
    BY <1>0, <1>4 DEF DeleteObjects, DeleteDead
  <2>2. PICK S : S \subseteq delete[d].keys /\ Remove(S)
    BY <1>4 DEF DeleteObjects
  <2>3. \A q \in Records, f \in Files : <<q, f>> \in S => Dead(q)
    BY <2>1, <2>2, KeysOfOne
  <2>4. /\ UNCHANGED command /\ \A e \in Deleters : e # d => delete'[e] = delete[e]
        /\ \/ delete'[d] = NoDelete
           \/ delete'[d] = [pc |-> "submit", of |-> r, keys |-> delete[d].keys]
    BY <1>0, <1>4 DEF DeleteObjects, SetDelete
  <2> HIDE DEF r
  <2>5. ASSUME NEW e \in Deleters PROVE DeleteDead(e)'
    BY <1>0, <1>2, <2>1, <2>4 DEF DeleteDead, NoDelete
  <2>6. ASSUME NEW q \in Records PROVE CommandDead(q)'
    BY <1>0, <1>2, <2>4 DEF CommandDead
  <2> QED  BY <1>1, <2>2, <2>3, <2>5, <2>6, RemovingLinked
<1>5. CASE DeleteSubmit(d) \/ DeleteDropped(d)
  <2> DEFINE r == delete[d].of
  <2>1. delete[d].pc = "submit" => r \in Records /\ Dead(r) /\ delete[d].keys \subseteq KeysOf(r, Files)
    BY <1>0 DEF DeleteDead
  <2>2. /\ UNCHANGED object /\ delete'[d] = NoDelete
        /\ \A e \in Deleters : e # d => delete'[e] = delete[e]
    BY <1>0, <1>5 DEF DeleteSubmit, DeleteDropped, SetDelete
  <2>3. \/ UNCHANGED command
        \/ delete[d].pc = "submit" /\ command' = [command EXCEPT ![r] = delete[d].keys]
    BY <1>5 DEF DeleteSubmit, DeleteDropped
  <2> HIDE DEF r
  <2>4. ASSUME NEW e \in Deleters PROVE DeleteDead(e)'
    BY <1>0, <1>2, <2>2 DEF DeleteDead, NoDelete
  <2>5. ASSUME NEW q \in Records PROVE CommandDead(q)'
    <3>1. command'[q] = command[q] \/ (q = r /\ delete[d].pc = "submit" /\ command'[q] = delete[d].keys)
      BY <1>0, <2>1, <2>3
    <3> QED  BY <1>0, <1>2, <2>1, <3>1 DEF CommandDead
  <2> QED  BY <1>1, <2>2, <2>4, <2>5, RemovingLinked
<1> QED  BY <1>3, <1>4, <1>5

(* A command removes keys of the record it names, which is dead.           *)
LEMMA CommandLinked ==
  ASSUME AInv, NEW r \in Records, RunCommand(r)
  PROVE  Linked'
<1>0. /\ command \in [Records -> SUBSET ArchiveKeys]
      /\ (\A e \in Deleters : DeleteDead(e)) /\ (\A q \in Records : CommandDead(q))
  BY TypeParts DEF AInv, Linked
<1>1. UNCHANGED <<tables, landing, clean, delete>>
  BY DEF RunCommand, tables
<1>2. \A q \in Records : Dead(q) <=> Dead(q)'
  BY <1>1 DEF Dead, tables
<1>3. PICK S : S \subseteq command[r] /\ Remove(S)
  BY DEF RunCommand
<1>4. Dead(r) /\ command[r] \subseteq KeysOf(r, Files)
  BY <1>0 DEF RunCommand, CommandDead
<1>5. \A q \in Records, f \in Files : <<q, f>> \in S => Dead(q)
  BY <1>3, <1>4, KeysOfOne
<1>6. ASSUME NEW q \in Records PROVE CommandDead(q)'
  <2>1. command'[q] \in {command[q], {}}
    BY <1>0 DEF RunCommand
  <2> QED  BY <1>0, <1>2, <2>1 DEF CommandDead
<1>7. ASSUME NEW d \in Deleters PROVE DeleteDead(d)'
  BY <1>0, <1>1, <1>2 DEF DeleteDead
<1> QED  BY <1>1, <1>3, <1>5, <1>6, <1>7, RemovingLinked

-----------------------------------------------------------------------------
(* The empty store.                                                        *)
LEMMA InitLinked == Init => Linked
<1> SUFFICES ASSUME Init PROVE Linked
  OBVIOUS
<1>1. ASSUME NEW r \in Records PROVE Phase(r) /\ CommandDead(r)
  BY DEF Init, Phase, CommandDead, NoCreate, Working
<1>2. ASSUME NEW d \in Deleters PROVE DeleteDead(d)
  BY DEF Init, DeleteDead, NoDelete
<1>3. ASSUME NEW r \in Records, NEW f \in Files PROVE FileLinked(r, f)
  <2>1. /\ object[<<r, f>>] = "none" /\ fileRow[f] = Nobody /\ create[r].pc = "idle"
        /\ landing = {} /\ r # Nobody
    BY KeyFacts, StoreAssumption DEF Init, NoCreate
  <2> QED  BY <2>1 DEF FileLinked, Backed, Traced, LateFailed, OldSettled, Inserting
<1>4. ASSUME NEW n \in Cleaners PROVE CleanLinked(n)
  BY DEF Init, CleanLinked, NoClean
<1> QED  BY <1>1, <1>2, <1>3, <1>4 DEF Linked

(* Every step, as long as no request outlives the minimum age.             *)
LEMMA NextLinked ==
  ASSUME AInv, ~AllowSlow, [Next]_vars
  PROVE  Linked'
<1>1. CASE UNCHANGED vars
  BY <1>1, Unaffected DEF vars, AInv, tables
<1>2. CASE Next
  <2>1. CASE \E d \in Deleters : DeleteStep(d) \/ DeleteDropped(d)
    BY <2>1, DeleteRowLinked, DeleteLinked DEF DeleteStep
  <2>2. CASE \E d \in Deleters, r \in Records : DeleteBegin(d, r)
    BY <2>2, DeleteLinked
  <2>3. CASE \E r \in Records : CreateBegin(r) \/ CreateStep(r) \/ CreateDropped(r)
    BY <2>3, CreateLinked
  <2>4. CASE \E r \in Records : RunCommand(r)
    BY <2>4, CommandLinked
  <2>5. CASE \E u \in Users : AvatarBegin(u) \/ AvatarStep(u) \/ AvatarDropped(u) \/ DeleteUser(u)
    BY <2>5, AvatarLinked
  <2>6. CASE (\E n \in Cleaners : CleanStep(n) \/ CleanerCrash(n)) \/ PoolClosesConnection
    BY <2>6, CleanStepLinked
  <2>7. CASE \/ \E x \in Files \cup Users : Upload(x) \/ TempExpires(x)
             \/ SessionExpires
             \/ \E k \in Keys : LateCopy(k) \/ Age(k)
    BY <2>7, StoreLinked
  <2> QED  BY <1>2, <2>1, <2>2, <2>3, <2>4, <2>5, <2>6, <2>7 DEF Next
<1> QED  BY <1>1, <1>2

(* The inductive invariant holds throughout.                               *)
LEMMA AlwaysLinked ==
  ASSUME ~AllowSlow
  PROVE  Spec => [](TypeOK /\ Linked)
<1>1. Init => Linked
  BY InitLinked
<1>2. TypeOK /\ Linked /\ ~AllowSlow /\ [Next]_vars => Linked'
  BY NextLinked DEF AInv
<1> QED  BY <1>1, <1>2, StoreTypeCorrect, PTL DEF Spec

-----------------------------------------------------------------------------
(***************************************************************************)
(* Nothing about to delete objects names a file of a record that is there  *)
(* or may still be committed: not the delete commands in the outbox, not a *)
(* delete request past its COMMIT, not a cleanup past its reading of       *)
(* sys_file; for any number of requests, processes and faults, as long as  *)
(* no request outlives the minimum age of the periodic cleanup.            *)
(***************************************************************************)
THEOREM CondemnedStayDead ==
  ASSUME ~AllowSlow
  PROVE  Spec => []CondemnedAreDead
<1>1. TypeOK /\ Linked => CondemnedAreDead
  <2> SUFFICES ASSUME TypeOK, Linked, NEW k \in Condemned PROVE record[k[1]] \in {"aborted", "deleted"}
    BY DEF CondemnedAreDead
  <2>1. CASE \E q \in Records : k \in command[q]
    <3>1. PICK q \in Records : k \in command[q]
      BY <2>1
    <3>2. k \in KeysOf(q, Files) /\ Dead(q)
      BY <3>1 DEF Linked, CommandDead
    <3> QED  BY <3>2 DEF KeysOf, Dead
  <2>2. CASE \E d \in Deleters : delete[d].pc \in {"objects", "submit"} /\ k \in delete[d].keys
    <3>1. PICK d \in Deleters : delete[d].pc \in {"objects", "submit"} /\ k \in delete[d].keys
      BY <2>2
    <3>2. k \in KeysOf(delete[d].of, Files) /\ Dead(delete[d].of)
      BY <3>1 DEF Linked, DeleteDead
    <3> QED  BY <3>2 DEF KeysOf, Dead
  <2>3. CASE \E n \in Cleaners : k \in clean[n].orphans \cap ArchiveKeys
    <3>1. PICK n \in Cleaners : k \in clean[n].orphans /\ k \in ArchiveKeys
      BY <2>3
    <3>2. PICK r \in Records, f \in Files : k = <<r, f>>
      BY <3>1, KeyFacts
    <3>3. Dead(r)
      BY <3>1, <3>2 DEF Linked, CleanLinked
    <3> QED  BY <3>2, <3>3 DEF Dead
  <2> QED  BY <2>1, <2>2, <2>3 DEF Condemned
<1> QED  BY <1>1, AlwaysLinked, PTL

(***************************************************************************)
(* Every file of a committed record has its object, whatever compensation  *)
(* commands, their retries, delete requests, other requests for the same   *)
(* uploads, late copies and cleanups do, in any number, as long as no      *)
(* request outlives the minimum age of the cleanup.                        *)
(***************************************************************************)
THEOREM FilesHaveObjects ==
  ASSUME ~AllowSlow
  PROVE  Spec => []NoDanglingFile
<1>1. TypeOK /\ Linked => NoDanglingFile
  <2> SUFFICES ASSUME TypeOK, Linked, NEW k \in StoredKeys PROVE object[k] # "none"
    BY DEF NoDanglingFile
  <2>1. PICK f \in Files : fileRow[f] # Nobody /\ k = <<fileRow[f], f>>
    BY DEF StoredKeys
  <2>2. fileRow[f] \in Records
    BY <2>1, TypeParts DEF RowType
  <2>3. Backed(fileRow[f], f)
    BY <2>2 DEF Linked, FileLinked
  <2> QED  BY <2>1, <2>3 DEF Backed
<1> QED  BY <1>1, AlwaysLinked, PTL

-----------------------------------------------------------------------------
(***************************************************************************)
(* The books of the create requests: which file rows a record holds while  *)
(* its request works through its files, and after.                         *)
(***************************************************************************)
Held(r) == {f \in Files : fileRow[f] = r}

Booked(r) ==
  /\ record[r] \notin {"open", "committed"} => Held(r) = {}
  /\ record[r] = "committed" => Held(r) = create[r].files
  /\ create[r].pc \in {"check", "copy"} =>
       /\ create[r].todo # {} /\ create[r].todo \subseteq create[r].files
       /\ Held(r) = create[r].files \ create[r].todo
  /\ create[r].pc = "insert" =>
       /\ create[r].at \in create[r].files \ create[r].todo
       /\ create[r].todo \subseteq create[r].files
       /\ Held(r) = create[r].files \ (create[r].todo \cup {create[r].at})
  /\ create[r].pc = "commit" => Held(r) = create[r].files

Books == \A r \in Records : Phase(r) /\ Booked(r)

(* A step concerns one record only.                                        *)
OthersKept(r) == \A q \in Records : q # r =>
  /\ record'[q] = record[q] /\ create'[q] = create[q]
  /\ \A f \in Files : fileRow'[f] = q <=> fileRow[f] = q

(* What a step may make of a record: a request begins, commits or fails,   *)
(* or the record is deleted.  Its files are settled from the beginning.    *)
Course(r) ==
  \/ record[r] = "none" /\ record'[r] = "open" /\ create[r].files = {}
  \/ /\ create'[r].files = create[r].files
     /\ \/ record'[r] = record[r]
        \/ record[r] = "open" /\ record'[r] \in {"committed", "aborted"}
        \/ record[r] = "committed" /\ record'[r] = "deleted"

BookStep(r) == OthersKept(r) /\ Phase(r)' /\ Booked(r)' /\ Course(r)

LEMMA SetCreateKeeps ==
  ASSUME create \in [Records -> CreateType], NEW r \in Records, NEW pc, NEW todo, NEW at,
         SetCreate(r, pc, todo, at)
  PROVE  /\ create'[r].pc = pc /\ create'[r].todo = todo /\ create'[r].at = at
         /\ create'[r].files = create[r].files
         /\ \A q \in Records : q # r => create'[q] = create[q]
BY DEF SetCreate

LEMMA GotoKeeps ==
  ASSUME create \in [Records -> CreateType], NEW r \in Records, NEW pc, Goto(r, pc)
  PROVE  /\ create'[r].pc = pc /\ create'[r].todo = create[r].todo
         /\ create'[r].at = create[r].at /\ create'[r].files = create[r].files
         /\ \A q \in Records : q # r => create'[q] = create[q]
BY SetCreateKeeps DEF Goto

(* A step for one record keeps the books of the others.                    *)
LEMMA OthersBooked ==
  ASSUME Books, NEW r \in Records, BookStep(r)
  PROVE  Books'
<1> SUFFICES ASSUME NEW q \in Records PROVE Phase(q)' /\ Booked(q)'
  BY DEF Books
<1>1. CASE q # r
  <2>1. Phase(q) /\ Booked(q) /\ record'[q] = record[q] /\ create'[q] = create[q]
    BY <1>1 DEF Books, BookStep, OthersKept
  <2>2. Held(q)' = Held(q)
    BY <1>1 DEF BookStep, OthersKept, Held
  <2> QED  BY <2>1, <2>2 DEF Phase, Booked
<1> QED  BY <1>1 DEF BookStep

(* The request only moves on.                                              *)
LEMMA MoveBooked ==
  ASSUME TypeOK, Books, NEW r \in Records, NEW pc, Goto(r, pc),
         \/ create[r].pc \in Working /\ pc = "rollback"
         \/ create[r].pc = "check" /\ pc = "copy"
         \/ create[r].pc \notin Working \cup {"idle"} /\ pc = "done",
         UNCHANGED <<record, fileRow>>
  PROVE  BookStep(r)
<1>1. /\ create'[r].pc = pc /\ create'[r].todo = create[r].todo
      /\ create'[r].at = create[r].at /\ create'[r].files = create[r].files
      /\ \A q \in Records : q # r => create'[q] = create[q]
  BY TypeParts, GotoKeeps
<1>2. Held(r)' = Held(r) /\ Phase(r) /\ Booked(r)
  BY DEF Held, Books
<1>3. Phase(r)'
  BY <1>1, <1>2 DEF Phase, Working
<1>4. Booked(r)'
  BY <1>1, <1>2 DEF Booked
<1> QED  BY <1>1, <1>3, <1>4 DEF BookStep, OthersKept, Course

(* ROLLBACK.                                                               *)
LEMMA RollbackBooked ==
  ASSUME TypeOK, Books, NEW r \in Records, record[r] = "open", Rollback(r),
         NEW pc \in {"submit", "done"}, Goto(r, pc)
  PROVE  BookStep(r)
<1>1. create'[r].pc = pc /\ create'[r].files = create[r].files
      /\ \A q \in Records : q # r => create'[q] = create[q]
  BY TypeParts, GotoKeeps
<1>2. record'[r] = "aborted" /\ \A q \in Records : q # r => record'[q] = record[q]
  BY TypeParts, SetRecordFacts DEF Rollback
<1>3. /\ \A f \in Files : fileRow'[f] # r
      /\ \A q \in Records, f \in Files : q # r => (fileRow'[f] = q <=> fileRow[f] = q)
  BY TypeParts, UnlinkOthers DEF Rollback
<1>4. Held(r)' = {}
  BY <1>3 DEF Held
<1>5. Phase(r)'
  BY <1>1, <1>2 DEF Phase, Working
<1>6. Booked(r)'
  BY <1>1, <1>2, <1>4 DEF Booked
<1> QED  BY <1>1, <1>2, <1>3, <1>5, <1>6 DEF BookStep, OthersKept, Course

(* BEGIN: all files are still to be copied, and no row is held.            *)
LEMMA BeginBooked ==
  ASSUME TypeOK, Books, NEW r \in Records, CreateBegin(r)
  PROVE  BookStep(r)
<1>0. Phase(r) /\ Booked(r) /\ create[r].pc = "idle" /\ create[r].files = {}
  BY DEF Books, CreateBegin, NoCreate
<1>1. record[r] = "none" /\ Held(r) = {}
  BY <1>0 DEF Phase, Booked
<1>2. record'[r] = "open" /\ \A q \in Records : q # r => record'[q] = record[q]
  BY TypeParts, SetRecordFacts DEF CreateBegin
<1>3. PICK S \in SUBSET Files :
        create' = [create EXCEPT ![r] = [pc |-> IF S = {} THEN "commit" ELSE "check",
                                         files |-> S, todo |-> S, at |-> Nobody]]
  BY DEF CreateBegin
<1>4. /\ create'[r].pc = IF S = {} THEN "commit" ELSE "check"
      /\ create'[r].files = S /\ create'[r].todo = S
      /\ \A q \in Records : q # r => create'[q] = create[q]
  BY <1>3, TypeParts
<1>5. Held(r)' = {}
  BY <1>1 DEF Held, CreateBegin
<1>6. Phase(r)'
  BY <1>2, <1>4 DEF Phase, Working
<1>7. Booked(r)'
  BY <1>2, <1>4, <1>5 DEF Booked
<1> QED  BY <1>0, <1>1, <1>2, <1>4, <1>6, <1>7 DEF BookStep, OthersKept, Course, CreateBegin

(* A file goes from todo to at with its copy.                              *)
LEMMA CopyBooked ==
  ASSUME TypeOK, Books, NEW r \in Records, CopyFile(r)
  PROVE  BookStep(r)
<1>1. create[r].pc = "copy" /\ Phase(r) /\ Booked(r) /\ UNCHANGED <<record, fileRow>>
  BY DEF CopyFile, Books
<1>2. CASE Goto(r, "rollback")
  BY <1>1, <1>2, MoveBooked DEF Working
<1>3. ASSUME NEW f \in create[r].todo, SetCreate(r, "insert", create[r].todo \ {f}, f)
      PROVE  BookStep(r)
  <2>1. /\ create'[r].pc = "insert" /\ create'[r].todo = create[r].todo \ {f}
        /\ create'[r].at = f /\ create'[r].files = create[r].files
        /\ \A q \in Records : q # r => create'[q] = create[q]
    BY <1>3, TypeParts, SetCreateKeeps
  <2>2. Held(r)' = create[r].files \ create[r].todo /\ create[r].todo \subseteq create[r].files
    BY <1>1 DEF Held, Booked
  <2>3. Phase(r)'
    BY <1>1, <2>1 DEF Phase, Working
  <2>4. record[r] = "open"
    BY <1>1 DEF Phase, Working
  <2>5. Booked(r)'
    BY <1>1, <2>1, <2>2, <2>4 DEF Booked
  <2> QED  BY <1>1, <2>1, <2>3, <2>5 DEF BookStep, OthersKept, Course
<1> QED  BY <1>2, <1>3 DEF CopyFile

(* The INSERT books the copied file.                                       *)
LEMMA SaveBooked ==
  ASSUME TypeOK, Books, NEW r \in Records, SaveFileMetadata(r)
  PROVE  BookStep(r)
<1>1. create[r].pc = "insert" /\ Phase(r) /\ Booked(r) /\ UNCHANGED record
  BY DEF SaveFileMetadata, Books
<1>2. CASE Goto(r, "rollback") /\ UNCHANGED fileRow
  BY <1>1, <1>2, MoveBooked DEF Working
<1>3. CASE /\ fileRow[create[r].at] = Nobody
           /\ fileRow' = [fileRow EXCEPT ![create[r].at] = r]
           /\ SetCreate(r, IF create[r].todo = {} THEN "commit" ELSE "copy",
                        create[r].todo, Nobody)
  <2>1. /\ create'[r].pc = IF create[r].todo = {} THEN "commit" ELSE "copy"
        /\ create'[r].todo = create[r].todo /\ create'[r].files = create[r].files
        /\ \A q \in Records : q # r => create'[q] = create[q]
    BY <1>3, TypeParts, SetCreateKeeps
  <2>2. /\ create[r].at \in create[r].files \ create[r].todo
        /\ create[r].todo \subseteq create[r].files
        /\ Held(r) = create[r].files \ (create[r].todo \cup {create[r].at})
        /\ create[r].files \in SUBSET Files
    BY <1>1, TypeParts DEF Booked, CreateType
  <2>3. \A f \in Files : fileRow'[f] = IF f = create[r].at THEN r ELSE fileRow[f]
    BY <1>3, TypeParts DEF RowType
  <2>4. Held(r)' = Held(r) \cup {create[r].at}
    BY <2>2, <2>3 DEF Held
  <2>5. Held(r)' = create[r].files \ create[r].todo
    BY <2>2, <2>4
  <2>6. Phase(r)' /\ record[r] = "open"
    BY <1>1, <2>1 DEF Phase, Working
  <2>7. Booked(r)'
    BY <1>1, <2>1, <2>2, <2>5, <2>6 DEF Booked
  <2>8. \A q \in Records, f \in Files : q # r => (fileRow'[f] = q <=> fileRow[f] = q)
    BY <1>3, <2>3, StoreAssumption
  <2> QED  BY <1>1, <2>1, <2>6, <2>7, <2>8 DEF BookStep, OthersKept, Course
<1> QED  BY <1>2, <1>3 DEF SaveFileMetadata, AfterInsert

(* COMMIT finds every file booked.                                         *)
LEMMA CommitBooked ==
  ASSUME TypeOK, Books, NEW r \in Records, CommitCreate(r)
  PROVE  BookStep(r)
<1>1. create[r].pc = "commit" /\ Phase(r) /\ Booked(r)
  BY DEF CommitCreate, Books
<1>2. record[r] = "open"
  BY <1>1 DEF Phase, Working
<1>3. CASE Rollback(r) /\ Goto(r, "done")
  BY <1>2, <1>3, RollbackBooked
<1>4. ASSUME NEW pc \in {"done", "endSession"}, SetRecord(r, "committed"), UNCHANGED fileRow,
             Goto(r, pc)
      PROVE  BookStep(r)
  <2>1. record'[r] = "committed" /\ \A q \in Records : q # r => record'[q] = record[q]
    BY <1>4, TypeParts, SetRecordFacts
  <2>2. create'[r].pc = pc /\ create'[r].files = create[r].files
        /\ \A q \in Records : q # r => create'[q] = create[q]
    BY <1>4, TypeParts, GotoKeeps
  <2>3. Held(r)' = create[r].files
    BY <1>1, <1>4 DEF Held, Booked
  <2>4. Phase(r)'
    BY <2>1, <2>2 DEF Phase, Working
  <2>5. Booked(r)'
    BY <2>1, <2>2, <2>3 DEF Booked
  <2> QED  BY <1>2, <1>4, <2>1, <2>2, <2>4, <2>5 DEF BookStep, OthersKept, Course
<1>5. (IF create[r].files = {} THEN "done" ELSE "endSession") \in {"done", "endSession"}
  OBVIOUS
<1> QED  BY <1>3, <1>4, <1>5 DEF CommitCreate

(* Every step of create_archive_record_handler.                            *)
LEMMA CreateBooked ==
  ASSUME TypeOK, Books, NEW r \in Records, CreateBegin(r) \/ CreateStep(r) \/ CreateDropped(r)
  PROVE  BookStep(r)
<1>0. Phase(r)
  BY DEF Books
<1>1. CASE CheckUploadSession(r)
  BY <1>1, MoveBooked DEF CheckUploadSession, Working
<1>2. CASE DeleteUploadSession(r) \/ SubmitCompensation(r)
  BY <1>2, MoveBooked DEF DeleteUploadSession, SubmitCompensation, Working
<1>3. CASE RollbackCreate(r)
  <2>1. record[r] = "open"
    BY <1>0, <1>3 DEF RollbackCreate, Phase, Working
  <2> QED  BY <1>3, <2>1, RollbackBooked DEF RollbackCreate
<1>4. CASE CreateDropped(r)
  <2>1. CASE record[r] = "open"
    BY <1>4, <2>1, RollbackBooked DEF CreateDropped
  <2>2. CASE record[r] # "open"
    <3>1. create[r].pc \notin Working \cup {"idle"}
      BY <1>0, <1>4, <2>2 DEF CreateDropped, Phase
    <3> QED  BY <1>4, <2>2, <3>1, MoveBooked DEF CreateDropped
  <2> QED  BY <2>1, <2>2
<1> QED  BY <1>1, <1>2, <1>3, <1>4, BeginBooked, CopyBooked, SaveBooked, CommitBooked
         DEF CreateStep

(* DELETE takes the rows with the record.                                  *)
LEMMA DeleteBooked ==
  ASSUME TypeOK, Books, NEW d \in Deleters, DeleteArchiveRecord(d)
  PROVE  UNCHANGED tables \/ \E r \in Records : BookStep(r)
<1> DEFINE r == delete[d].of
<1>0. r \in Records \cup {Nobody} /\ UNCHANGED create
  BY TypeParts DEF DeleteArchiveRecord, DeleteType
<1>1. UNCHANGED <<record, fileRow>> \/ (record[r] = "committed" /\ DropRows(r))
  BY DEF DeleteArchiveRecord
<1>2. CASE r \in Records /\ record[r] = "committed" /\ DropRows(r)
  <2>1. record'[r] = "deleted" /\ \A q \in Records : q # r => record'[q] = record[q]
    BY <1>2, TypeParts, SetRecordFacts DEF DropRows
  <2>2. /\ \A f \in Files : fileRow'[f] # r
        /\ \A q \in Records, f \in Files : q # r => (fileRow'[f] = q <=> fileRow[f] = q)
    BY <1>2, TypeParts, UnlinkOthers DEF DropRows
  <2>3. {f \in Files : fileRow'[f] = r} = {} /\ Phase(r) /\ Booked(r)
    BY <1>2, <2>2 DEF Books
  <2>4. PICK q \in Records : q = r
    BY <1>2
  <2>5. Held(q)' = {}
    BY <2>3, <2>4 DEF Held
  <2>6. Phase(q)'
    BY <1>0, <1>2, <2>1, <2>3, <2>4 DEF Phase, Working
  <2>7. create[q].pc \notin Working
    BY <1>2, <2>3, <2>4 DEF Phase, Working
  <2>8. Booked(q)'
    BY <1>0, <2>1, <2>4, <2>5, <2>7 DEF Booked, Working
  <2> QED  BY <1>0, <1>2, <2>1, <2>2, <2>4, <2>6, <2>8 DEF BookStep, OthersKept, Course
<1>3. CASE r = Nobody /\ DropRows(r)
  <2>1. record' = record
    BY <1>3, TypeParts, StoreAssumption DEF DropRows, SetRecord, RecordType
  <2>2. fileRow' = fileRow
    BY <1>3, TypeParts DEF DropRows, RowType
  <2> QED  BY <1>0, <2>1, <2>2 DEF tables
<1> QED  BY <1>0, <1>1, <1>2, <1>3 DEF tables

(* Every step leaves the tables alone or is a step for one record.         *)
LEMMA NextBooked ==
  ASSUME TypeOK, Books, [Next]_vars
  PROVE  UNCHANGED tables \/ \E r \in Records : BookStep(r)
<1>1. CASE \E r \in Records : CreateBegin(r) \/ CreateStep(r) \/ CreateDropped(r)
  BY <1>1, CreateBooked
<1>2. CASE \E d \in Deleters : DeleteArchiveRecord(d)
  BY <1>2, DeleteBooked
<1>3. CASE UNCHANGED vars
  BY <1>3 DEF vars, tables
<1>4. CASE \/ \E x \in Files \cup Users : Upload(x) \/ TempExpires(x)
           \/ SessionExpires
           \/ \E k \in Keys : LateCopy(k) \/ Age(k)
  BY <1>4 DEF Upload, TempExpires, SessionExpires, LateCopy, Age, tables
<1>5. CASE \/ \E d \in Deleters, r \in Records : DeleteBegin(d, r)
           \/ \E d \in Deleters : DeleteObjects(d) \/ DeleteSubmit(d) \/ DeleteDropped(d)
           \/ \E r \in Records : RunCommand(r)
  BY <1>5 DEF DeleteBegin, DeleteObjects, DeleteSubmit, DeleteDropped, RunCommand, tables
<1>6. CASE \E u \in Users : AvatarBegin(u) \/ AvatarStep(u) \/ AvatarDropped(u) \/ DeleteUser(u)
  BY <1>6 DEF AvatarBegin, AvatarStep, AvatarCopy, AvatarDeleteTemp, SaveUserAvatar,
              AvatarDropped, DeleteUser, tables
<1>7. CASE \E n \in Cleaners : CleanStep(n) \/ CleanerCrash(n)
  BY <1>7 DEF CleanStep, CleanupTick, ListArchive, ListAvatar, ReadArchiveKeys, ReadAvatarKeys,
              DeleteOrphans, Unlock, CleanupFails, CleanerCrash, cleanOnly, tables
<1>8. CASE PoolClosesConnection
  BY <1>8 DEF PoolClosesConnection, tables
<1> QED  BY <1>1, <1>2, <1>3, <1>4, <1>5, <1>6, <1>7, <1>8 DEF Next, DeleteStep

LEMMA InitBooked == Init => Books
<1> SUFFICES ASSUME Init, NEW r \in Records PROVE Phase(r) /\ Booked(r)
  BY DEF Books
<1>1. create[r].pc = "idle" /\ record[r] = "none" /\ Held(r) = {}
  BY StoreAssumption DEF Init, NoCreate, Held
<1> QED  BY <1>1 DEF Phase, Booked, Working

(* The books are kept throughout, slow requests included.                  *)
LEMMA AlwaysBooked == Spec => [](TypeOK /\ Books)
<1>1. TypeOK /\ Books /\ [Next]_vars => Books'
  <2> SUFFICES ASSUME TypeOK, Books, [Next]_vars PROVE Books'
    OBVIOUS
  <2>1. CASE UNCHANGED tables
    BY <2>1 DEF tables, Books, Phase, Booked, Held
  <2> QED  BY <2>1, NextBooked, OthersBooked
<1> QED  BY <1>1, InitBooked, StoreTypeCorrect, PTL DEF Spec

(* Following a map of a finite set into itself one ends in a circle: a     *)
(* least part that the map does not leave is the image of itself.          *)
HasCircle(f, W) == \E circle \in SUBSET W :
  /\ circle # {} /\ \A q \in circle : f[q] \in circle
  /\ \A p \in circle : \E q \in circle : p = f[q]

LEMMA CircleExists ==
  ASSUME NEW W, IsFiniteSet(W), W # {}, NEW f \in [W -> W]
  PROVE  HasCircle(f, W)
<1> DEFINE Closed == {S \in SUBSET W : S # {} /\ \A q \in S : f[q] \in S}
<1>1. W \in Closed /\ Closed \subseteq SUBSET W
  OBVIOUS
<1>2. IsWellFoundedOn(StrictSubsetOrdering(W), SUBSET W)
  BY FS_StrictSubsetOrderingWellFounded, FS_FiniteSubsetsOfFinite
<1> HIDE DEF Closed
<1>3. PICK C \in Closed : \A S \in Closed : <<S, C>> \notin StrictSubsetOrdering(W)
  BY <1>1, <1>2, WFMin, Zenon
<1> DEFINE image == {f[q] : q \in C}
<1>4. C \in SUBSET W /\ C # {} /\ \A q \in C : f[q] \in C
  BY <1>3 DEF Closed
<1>5. image \subseteq C /\ image # {} /\ \A q \in image : f[q] \in image
  BY <1>4
<1> HIDE DEF image
<1>6. image \in Closed
  BY <1>4, <1>5 DEF Closed
<1>7. <<image, C>> \in (SUBSET W) \X (SUBSET W)
      /\ <<image, C>>[1] = image /\ <<image, C>>[2] = C
  BY <1>4, <1>5
<1>8. image = C
  BY <1>3, <1>5, <1>6, <1>7 DEF StrictSubsetOrdering
<1> QED  BY <1>4, <1>8 DEF image, HasCircle

(***************************************************************************)
(* Create requests never block each other for good, however many insert    *)
(* the same uploads in whatever order, and whatever fails: one that has    *)
(* begun and cannot go on waits for the INSERT of another, and in every    *)
(* finite group that waits only for its own members some request can go on.*)
(* Either a waited-for request is not waiting itself, and then its         *)
(* transaction is open and has a next step; or all of them wait, there is a*)
(* circle of waits, and PostgreSQL aborts one of its members.              *)
(***************************************************************************)
THEOREM NoLastingWait == Spec => []WaitsResolve
<1>1. ASSUME TypeOK, Books, NEW r \in Records, create[r].pc \notin {"idle", "done"}
      PROVE  Waits(r) \/ CanGoOn(r)
  <2>0. create[r].pc \in CreatePcs /\ create[r].at \in Files \cup {Nobody}
        /\ create[r].files \in SUBSET Files /\ Booked(r) /\ Phase(r)
    BY <1>1, TypeParts DEF CreateType, Books
  <2>1. CASE create[r].pc = "insert"
    <3>1. create[r].at \in Files /\ create[r].at \notin Held(r)
      BY <2>0, <2>1 DEF Booked
    <3>2. fileRow[create[r].at] # r /\ fileRow[create[r].at] \in Records \cup {Nobody}
      BY <3>1, TypeParts, <1>1 DEF Held, RowType
    <3>3. ASSUME fileRow[create[r].at] # Nobody
          PROVE  record[fileRow[create[r].at]] \in {"open", "committed"}
      <4>1. PICK q \in Records : q = fileRow[create[r].at]
        BY <3>2, <3>3
      <4>2. create[r].at \in Held(q) /\ Booked(q)
        BY <1>1, <3>1, <4>1 DEF Held, Books
      <4> QED  BY <4>1, <4>2 DEF Booked
    <3> QED  BY <2>1, <3>2, <3>3 DEF Waits, CanGoOn
  <2>2. CASE create[r].pc = "copy"
    BY <2>0, <2>2 DEF CanGoOn, Booked
  <2> QED  BY <1>1, <2>0, <2>1, <2>2 DEF CanGoOn, CreatePcs
<1>2. ASSUME TypeOK, Books, NEW S \in SUBSET Records, IsFiniteSet(S), NEW r \in S, Waits(r),
             \A q \in S : Waits(q) => fileRow[create[q].at] \in S
      PROVE  \E q \in S : CanGoOn(q)
  <2> DEFINE W == {q \in S : Waits(q)}
  <2>1. CASE \A q \in W : fileRow[create[q].at] \in W
    <3> DEFINE blocker == [q \in W |-> fileRow[create[q].at]]
    <3>1. W # {} /\ W \subseteq S /\ IsFiniteSet(W)
      BY <1>2, FS_Subset
    <3>2. blocker \in [W -> W]
      BY <2>1
    <3>3. PICK circle \in SUBSET W :
            /\ circle # {} /\ \A q \in circle : blocker[q] \in circle
            /\ \A p \in circle : \E q \in circle : p = blocker[q]
      <4> HIDE DEF W, blocker
      <4>1. HasCircle(blocker, W)
        BY <3>1, <3>2, CircleExists
      <4> QED  BY <4>1 DEF HasCircle
    <3>4. circle = {fileRow[create[q].at] : q \in circle}
      BY <3>3
    <3>5. PICK q \in circle : TRUE
      BY <3>3
    <3>6. q \in S /\ Waits(q) /\ circle \in SUBSET Records /\ \A p \in circle : Waits(p)
      BY <3>5
    <3>7. Deadlocked(q)
      BY <3>3, <3>4, <3>5, <3>6 DEF Deadlocked
    <3> QED  BY <3>6, <3>7 DEF CanGoOn, Waits
  <2>2. CASE \E q \in W : fileRow[create[q].at] \notin W
    <3>1. PICK q \in W : fileRow[create[q].at] \notin W
      BY <2>2
    <3>2. PICK p \in S : p = fileRow[create[q].at]
      BY <1>2, <3>1
    <3>3. record[p] = "open" /\ ~Waits(p) /\ p \in Records /\ Phase(p)
      BY <1>2, <3>1, <3>2 DEF Waits, Books
    <3>4. create[p].pc \notin {"idle", "done"}
      BY <3>3 DEF Phase, Working
    <3> QED  BY <1>1, <1>2, <3>2, <3>3, <3>4
  <2> QED  BY <2>1, <2>2
<1>3. TypeOK /\ Books => WaitsResolve
  BY <1>1, <1>2 DEF WaitsResolve
<1> QED  BY <1>3, AlwaysBooked, PTL

-----------------------------------------------------------------------------
(***************************************************************************)
(* The store implements the abstract archive.                              *)
(***************************************************************************)
asked  == [r \in Records |-> create[r].files]
status == [r \in Records |-> ArchiveStatus(record[r])]
shown  == [r \in Records |-> IF record[r] # "committed" THEN {}
             ELSE {f \in Files : fileRow[f] = r /\ object[<<r, f>>] # "none"}]

(* The readable files of a record are all it asked for, or none.           *)
AllOrNone == shown = [r \in Records |-> IF record[r] = "committed" THEN create[r].files ELSE {}]

LEMMA LinkedAllOrNone == TypeOK /\ Linked /\ Books => AllOrNone
<1> SUFFICES ASSUME TypeOK, Linked, Books, NEW r \in Records, record[r] = "committed"
             PROVE  {f \in Files : fileRow[f] = r /\ object[<<r, f>>] # "none"} = create[r].files
  BY DEF AllOrNone, shown
<1>1. Held(r) = create[r].files
  BY DEF Books, Booked
<1>2. \A f \in Files : fileRow[f] = r => object[<<r, f>>] # "none"
  BY DEF Linked, FileLinked, Backed
<1> QED  BY <1>1, <1>2 DEF Held

LEMMA ArchiveStates ==
  /\ ArchiveStatus("none") = "absent" /\ ArchiveStatus("open") = "absent"
  /\ ArchiveStatus("committed") = "present"
  /\ ArchiveStatus("aborted") = "gone" /\ ArchiveStatus("deleted") = "gone"
BY DEF ArchiveStatus

(* Two committed records share no file, nor do a committed one and one     *)
(* about to be: a file row is held by one record.                          *)
LEMMA HeldApart ==
  ASSUME Books, Books', AllOrNone, NEW r \in Records, OthersKept(r),
         record[r] = "open", record'[r] = "committed", create'[r].files = create[r].files
  PROVE  \A q \in Records : shown[q] \cap asked[r] = {}
<1> SUFFICES ASSUME NEW q \in Records, record[q] = "committed"
             PROVE  create[q].files \cap create[r].files = {}
  BY DEF AllOrNone, asked
<1>1. q # r /\ record'[q] = "committed" /\ create'[q].files = create[q].files
  BY DEF OthersKept
<1>2. Booked(q)' /\ Booked(r)'
  BY DEF Books
<1>3. {f \in Files : fileRow'[f] = q} = create'[q].files
  BY <1>1, <1>2 DEF Booked, Held
<1>4. {f \in Files : fileRow'[f] = r} = create'[r].files
  BY <1>2 DEF Booked, Held
<1> QED  BY <1>1, <1>3, <1>4

(* BEGIN is Ask, COMMIT is Publish, ROLLBACK is Refuse and DELETE Withdraw.*)
LEMMA CourseImplemented ==
  ASSUME TypeOK, TypeOK', Books, Books', AllOrNone, AllOrNone', NEW r \in Records, BookStep(r)
  PROVE  Archive!ArchiveNext \/ UNCHANGED <<asked, status, shown>>
<1>0. /\ OthersKept(r) /\ Course(r)
      /\ \A q \in Records : q # r => record'[q] = record[q] /\ create'[q] = create[q]
  BY DEF BookStep, OthersKept
<1>1. ASSUME create'[r].files = create[r].files PROVE asked' = asked
  <2>1. \A q \in Records : create'[q].files = create[q].files
    BY <1>0, <1>1
  <2> QED  BY <2>1 DEF asked
<1>2. ASSUME record'[r] # "committed", record[r] # "committed" PROVE shown' = shown
  BY <1>0, <1>2 DEF AllOrNone
<1>3. status' = [status EXCEPT ![r] = ArchiveStatus(record'[r])]
  BY <1>0 DEF status
<1>4. status[r] = ArchiveStatus(record[r])
  BY DEF status
<1>5. CASE record[r] = "none" /\ record'[r] = "open" /\ create[r].files = {}
  <2>1. create'[r].files \in SUBSET Files
    BY TypeOK' DEF TypeOK
  <2>2. asked' = [asked EXCEPT ![r] = create'[r].files] /\ asked[r] = {}
    BY <1>0, <1>5 DEF asked
  <2>3. UNCHANGED <<status, shown>> /\ status[r] = "absent"
    BY <1>2, <1>3, <1>4, <1>5, ArchiveStates DEF status
  <2> QED  BY <2>1, <2>2, <2>3 DEF Archive!ArchiveNext, Archive!Ask, asked, status, shown
<1>6. CASE create'[r].files = create[r].files /\ record'[r] = record[r]
  <2>1. status' = status
    BY <1>0, <1>6 DEF status
  <2>2. shown' = shown
    BY <1>0, <1>6 DEF AllOrNone
  <2> QED  BY <1>1, <1>6, <2>1, <2>2
<1>7. CASE create'[r].files = create[r].files /\ record[r] = "open" /\ record'[r] = "committed"
  <2>1. shown' = [shown EXCEPT ![r] = asked[r]]
    BY <1>0, <1>7 DEF AllOrNone, asked
  <2>2. \A q \in Records : shown[q] \cap asked[r] = {}
    BY <1>0, <1>7, HeldApart
  <2>3. status[r] = "absent" /\ status' = [status EXCEPT ![r] = "present"]
    BY <1>3, <1>4, <1>7, ArchiveStates
  <2>4. asked' = asked
    BY <1>1, <1>7
  <2> QED  BY <2>1, <2>2, <2>3, <2>4 DEF Archive!ArchiveNext, Archive!Publish, asked, status, shown
<1>8. CASE create'[r].files = create[r].files /\ record[r] = "open" /\ record'[r] = "aborted"
  <2>1. UNCHANGED <<asked, shown>>
    BY <1>1, <1>2, <1>8
  <2>2. status[r] = "absent" /\ status' = [status EXCEPT ![r] = "gone"]
    BY <1>3, <1>4, <1>8, ArchiveStates
  <2> QED  BY <2>1, <2>2 DEF Archive!ArchiveNext, Archive!Refuse, asked, status, shown
<1>9. CASE create'[r].files = create[r].files /\ record[r] = "committed" /\ record'[r] = "deleted"
  <2>1. shown' = [shown EXCEPT ![r] = {}]
    BY <1>0, <1>9 DEF AllOrNone
  <2>2. status[r] = "present" /\ status' = [status EXCEPT ![r] = "gone"]
    BY <1>3, <1>4, <1>9, ArchiveStates
  <2>3. asked' = asked
    BY <1>1, <1>9
  <2> QED  BY <2>1, <2>2, <2>3 DEF Archive!ArchiveNext, Archive!Withdraw, asked, status, shown
<1> QED  BY <1>0, <1>5, <1>6, <1>7, <1>8, <1>9 DEF Course

LEMMA StepImplemented ==
  ASSUME TypeOK, TypeOK', Books, Books', AllOrNone, AllOrNone', [Next]_vars
  PROVE  [Archive!ArchiveNext]_(Archive!archiveVars)
<1>1. CASE UNCHANGED tables
  <2>1. UNCHANGED <<asked, status>>
    BY <1>1 DEF tables, asked, status
  <2>2. shown' = shown
    BY <1>1 DEF tables, AllOrNone
  <2> QED  BY <2>1, <2>2 DEF Archive!archiveVars, asked, status, shown
<1>2. CASE \E r \in Records : BookStep(r)
  <2>1. Archive!ArchiveNext \/ UNCHANGED <<asked, status, shown>>
    BY <1>2, CourseImplemented
  <2> QED  BY <2>1 DEF Archive!archiveVars, asked, status, shown
<1> QED  BY <1>1, <1>2, NextBooked

(***************************************************************************)
(* The rows of two tables, the transactions, the copies one by one, the    *)
(* compensations, late copies and cleanups implement the archive a caller  *)
(* thinks of: a record appears at one moment with every file its request   *)
(* named, readable and no other record's, or it never does; nothing but    *)
(* its deletion takes a file away, and that takes all of them.  For any    *)
(* number of requests, files, processes and faults, as long as no request  *)
(* outlives the minimum age of the cleanup.                                *)
(***************************************************************************)
THEOREM ArchiveImplemented ==
  ASSUME ~AllowSlow
  PROVE  Spec => ImplementsArchive
<1>1. Init => Archive!ArchiveInit
  <2> SUFFICES ASSUME Init PROVE Archive!ArchiveInit
    OBVIOUS
  <2>1. \A r \in Records : create[r].files = {} /\ record[r] = "none"
    BY DEF Init, NoCreate
  <2> QED  BY <2>1, ArchiveStates DEF Archive!ArchiveInit
<1>2. TypeOK /\ Linked /\ Books => AllOrNone
  BY LinkedAllOrNone
<1>3. TypeOK /\ TypeOK' /\ Books /\ Books' /\ AllOrNone /\ AllOrNone' /\ [Next]_vars
        => [Archive!ArchiveNext]_(Archive!archiveVars)
  BY StepImplemented
<1> QED  BY <1>1, <1>2, <1>3, AlwaysLinked, AlwaysBooked, PTL
         DEF Spec, ImplementsArchive, Archive!ArchiveSpec

-----------------------------------------------------------------------------
(***************************************************************************)
(* Avatars.  The cleanup can remove an avatar that sys_user refers to (the *)
(* run on AvatarNotCleaned shows how); here is the only way it can.        *)
(***************************************************************************)
(* While a cleanup has read sys_user and not yet deleted, no avatar request*)
(* stands between its copy and its UPDATE.                                 *)
CleanApart == (\E n \in Cleaners : clean[n].pc = "delete") =>
                \A u \in Users : avatar[u] \notin {"delete", "save"}

(* An avatar has its object from the copy on; what a cleanup is about to   *)
(* delete was nobody's avatar when it looked, and still is not.            *)
Pictured(u) == account[u] = "avatar" \/ avatar[u] \in {"delete", "save"} => object[u] # "none"
Marked(n, u) == u \in clean[n].orphans => clean[n].pc = "delete" /\ account[u] # "avatar"
AvatarsSafe == \A u \in Users : Pictured(u) /\ \A n \in Cleaners : Marked(n, u)

LEMMA AvatarKeyFacts == \A u \in Users : u \in Keys /\ u \notin ArchiveKeys
BY StoreAssumption DEF Keys, ArchiveKeys

LEMMA CopyKeepsAvatars ==
  ASSUME TypeOK, NEW k \in Keys, Put(k) \/ UNCHANGED object, NEW u \in Users
  PROVE  object[u] # "none" => object'[u] # "none"
<1>1. CASE Put(k)
  BY <1>1, TypeParts, PutFacts, AvatarKeyFacts
<1> QED  BY <1>1

(* Steps that touch neither accounts nor cleanups, and remove no avatar.   *)
LEMMA AvatarsAside ==
  ASSUME AvatarsSafe, UNCHANGED <<account, avatar, clean>>,
         \A u \in Users : object[u] # "none" => object'[u] # "none"
  PROVE  AvatarsSafe'
BY DEF AvatarsSafe, Pictured, Marked

(* Requests and commands about records remove keys of records only.        *)
LEMMA RemoveKeepsAvatars ==
  ASSUME TypeOK, NEW S \in SUBSET ArchiveKeys, Remove(S)
  PROVE  \A u \in Users : object[u] # "none" => object'[u] # "none"
BY TypeParts, RemoveFacts, AvatarKeyFacts

LEMMA RecordsAside ==
  ASSUME TypeOK, AvatarsSafe,
         \/ \E r \in Records : CreateBegin(r) \/ CreateStep(r) \/ CreateDropped(r) \/ RunCommand(r)
         \/ \E d \in Deleters, r \in Records : DeleteBegin(d, r)
         \/ \E d \in Deleters : DeleteStep(d) \/ DeleteDropped(d)
  PROVE  AvatarsSafe'
<1>1. ASSUME NEW r \in Records, CopyFile(r) PROVE AvatarsSafe'
  <2>1. PICK f \in create[r].todo : Put(<<r, f>>) \/ UNCHANGED object
    BY <1>1 DEF CopyFile, CopyFails
  <2>2. <<r, f>> \in Keys
    BY TypeParts, KeyFacts DEF CreateType
  <2>3. \A u \in Users : object[u] # "none" => object'[u] # "none"
    BY <2>1, <2>2, CopyKeepsAvatars
  <2> QED  BY <1>1, <2>3, AvatarsAside DEF CopyFile
<1>2. ASSUME NEW r \in Records, RunCommand(r) PROVE AvatarsSafe'
  <2>1. command[r] \in SUBSET ArchiveKeys
    BY TypeParts
  <2>2. \E S \in SUBSET command[r] : Remove(S)
    BY <1>2 DEF RunCommand
  <2> QED  BY <1>2, <2>1, <2>2, RemoveKeepsAvatars, AvatarsAside DEF RunCommand
<1>3. ASSUME NEW d \in Deleters, DeleteObjects(d) PROVE AvatarsSafe'
  <2>1. delete[d].keys \in SUBSET ArchiveKeys
    BY TypeParts DEF DeleteType
  <2>2. \E S \in SUBSET delete[d].keys : Remove(S)
    BY <1>3 DEF DeleteObjects
  <2> QED  BY <1>3, <2>1, <2>2, RemoveKeepsAvatars, AvatarsAside DEF DeleteObjects
<1>4. ASSUME NEW r \in Records,
             CreateBegin(r) \/ CreateDropped(r) \/ CheckUploadSession(r) \/ SaveFileMetadata(r)
               \/ CommitCreate(r) \/ DeleteUploadSession(r) \/ RollbackCreate(r)
               \/ SubmitCompensation(r)
      PROVE  AvatarsSafe'
  BY <1>4, AvatarsAside
  DEF CreateBegin, CreateDropped, CheckUploadSession, SaveFileMetadata, CommitCreate,
      DeleteUploadSession, RollbackCreate, SubmitCompensation
<1>5. CASE \/ \E d \in Deleters, r \in Records : DeleteBegin(d, r)
           \/ \E d \in Deleters : DeleteArchiveRecord(d) \/ DeleteSubmit(d) \/ DeleteDropped(d)
  BY <1>5, AvatarsAside DEF DeleteBegin, DeleteArchiveRecord, DeleteSubmit, DeleteDropped
<1> QED  BY <1>1, <1>2, <1>3, <1>4, <1>5 DEF CreateStep, DeleteStep

(* The avatar requests: the object is there from the copy on, and an UPDATE*)
(* finds no cleanup about to delete.                                       *)
LEMMA AvatarStepSafe ==
  ASSUME TypeOK, AvatarsSafe, CleanApart, NEW u \in Users,
         AvatarBegin(u) \/ AvatarStep(u) \/ AvatarDropped(u) \/ DeleteUser(u)
  PROVE  AvatarsSafe'
<1>0. /\ account \in [Users -> {"plain", "avatar", "gone"}] /\ object \in ObjectType
      /\ avatar \in [Users -> {"idle", "copy", "delete", "save"}] /\ u \in Keys
  BY TypeParts, AvatarKeyFacts
<1>1. UNCHANGED clean
  BY DEF AvatarBegin, AvatarStep, AvatarCopy, AvatarDeleteTemp, SaveUserAvatar, AvatarDropped,
         DeleteUser
<1>2. \A w \in Users : w # u =>
        account'[w] = account[w] /\ avatar'[w] = avatar[w] /\ object'[w] = object[w]
  <2>1. \A w \in Users : w # u => object'[w] = object[w]
    <3>1. UNCHANGED object \/ Put(u)
      BY DEF AvatarBegin, AvatarStep, AvatarCopy, CopyFails, AvatarDeleteTemp, SaveUserAvatar,
             AvatarDropped, DeleteUser
    <3> QED  BY <1>0, <3>1, PutFacts, AvatarKeyFacts
  <2>2. \A w \in Users : w # u => account'[w] = account[w] /\ avatar'[w] = avatar[w]
    BY <1>0 DEF AvatarBegin, AvatarStep, AvatarCopy, AvatarDeleteTemp, SaveUserAvatar,
                AvatarDropped, DeleteUser, SetAvatar
  <2> QED  BY <2>1, <2>2
<1>3. ASSUME NEW w \in Users, w # u PROVE (Pictured(w) /\ \A n \in Cleaners : Marked(n, w))'
  BY <1>1, <1>2, <1>3 DEF AvatarsSafe, Pictured, Marked
<1>4. Pictured(u) /\ \A n \in Cleaners : Marked(n, u)
  BY DEF AvatarsSafe
<1>5. CASE AvatarBegin(u) \/ AvatarDropped(u) \/ DeleteUser(u) \/ AvatarDeleteTemp(u)
  <2>1. /\ account'[u] = "avatar" => account[u] = "avatar"
        /\ avatar'[u] \in {"delete", "save"} => avatar[u] \in {"delete", "save"}
        /\ UNCHANGED object
    BY <1>0, <1>5 DEF AvatarBegin, AvatarDropped, DeleteUser, AvatarDeleteTemp, SetAvatar
  <2> QED  BY <1>1, <1>3, <1>4, <2>1 DEF AvatarsSafe, Pictured, Marked
<1>6. CASE AvatarCopy(u)
  <2>1. /\ UNCHANGED account
        /\ (object'[u] = "fresh" \/ (object'[u] = object[u] /\ avatar'[u] = "idle"))
    <3>1. UNCHANGED account
      BY <1>6 DEF AvatarCopy
    <3>2. Put(u) \/ (UNCHANGED object /\ SetAvatar(u, "idle"))
      BY <1>6 DEF AvatarCopy, CopyFails
    <3> QED  BY <1>0, <3>1, <3>2, PutFacts DEF SetAvatar
  <2>2. Pictured(u)' /\ \A n \in Cleaners : Marked(n, u)'
    BY <1>1, <1>4, <2>1 DEF Pictured, Marked
  <2> QED  BY <1>3, <2>2 DEF AvatarsSafe
<1>7. CASE SaveUserAvatar(u)
  <2>1. avatar[u] = "save" /\ UNCHANGED object /\ avatar'[u] = "idle"
    BY <1>0, <1>7 DEF SaveUserAvatar, SetAvatar
  <2>2. \A n \in Cleaners : u \notin clean[n].orphans
    BY <1>4, <2>1 DEF CleanApart, Marked
  <2>3. Pictured(u)' /\ \A n \in Cleaners : Marked(n, u)'
    BY <1>1, <1>4, <2>1, <2>2 DEF Pictured, Marked
  <2> QED  BY <1>3, <2>3 DEF AvatarsSafe
<1> QED  BY <1>5, <1>6, <1>7 DEF AvatarStep

(* The cleanup: what it marks is nobody's avatar, and it deletes that only.*)
LEMMA CleanSafe ==
  ASSUME TypeOK, AvatarsSafe, CleanApart, NEW n \in Cleaners, CleanStep(n) \/ CleanerCrash(n)
  PROVE  AvatarsSafe'
<1>0. /\ clean \in [Cleaners -> CleanType] /\ clean[n].listed \in SUBSET Keys
      /\ clean[n].orphans \in SUBSET Keys
  BY TypeParts DEF CleanType
<1>1. UNCHANGED <<account, avatar>>
  BY DEF CleanStep, CleanupTick, ListArchive, ListAvatar, ReadArchiveKeys,
         ReadAvatarKeys, CleanupFails, DeleteOrphans, Unlock, CleanerCrash, cleanOnly
<1>2. \A m \in Cleaners : m # n => clean'[m] = clean[m]
  <2>1. \E pc, listed, orphans : SetClean(n, pc, listed, orphans)
    BY DEF CleanStep, CleanupTick, ListArchive, ListAvatar, ReadArchiveKeys,
       ReadAvatarKeys, CleanupFails, DeleteOrphans, Unlock, CleanerCrash
  <2> QED  BY <1>0, <2>1 DEF SetClean
<1>3. ASSUME NEW u \in Users PROVE Pictured(u)'
  <2>0. Pictured(u) /\ Marked(n, u) /\ u \in Keys
    BY AvatarKeyFacts DEF AvatarsSafe
  <2>1. CASE DeleteOrphans(n)
    <3>1. PICK S \in SUBSET clean[n].orphans : Remove(S)
      BY <2>1 DEF DeleteOrphans
    <3>2. object'[u] = IF u \in S THEN "none" ELSE object[u]
      BY <2>0, <3>1, TypeParts, RemoveFacts
    <3>3. avatar[u] \notin {"delete", "save"}
      BY <2>1 DEF DeleteOrphans, CleanApart
    <3> QED  BY <1>1, <2>0, <3>1, <3>2, <3>3 DEF Pictured, Marked
  <2>2. CASE UNCHANGED object
    BY <1>1, <2>0, <2>2 DEF Pictured
  <2> QED  BY <2>1, <2>2 DEF CleanStep, CleanupTick, ListArchive, ListAvatar,
         ReadArchiveKeys, ReadAvatarKeys, CleanupFails, Unlock, CleanerCrash, cleanOnly
<1>4. ASSUME NEW u \in Users PROVE Marked(n, u)'
  <2>0. Marked(n, u) /\ u \notin ArchiveKeys
    BY AvatarKeyFacts DEF AvatarsSafe
  <2>1. CASE ReadAvatarKeys(n)
    <3>1. /\ clean'[n].pc = "delete"
          /\ clean'[n].orphans = clean[n].orphans \cup ((clean[n].listed \cap Users) \ AvatarKeys)
      BY <1>0, <2>1 DEF ReadAvatarKeys, SetClean
    <3>2. u \in (clean[n].listed \cap Users) \ AvatarKeys => account[u] # "avatar"
      BY DEF AvatarKeys
    <3> QED  BY <1>1, <2>0, <3>1, <3>2 DEF Marked
  <2>2. CASE ReadArchiveKeys(n)
    <3>1. clean'[n].orphans = (clean[n].listed \cap ArchiveKeys) \ StoredKeys
      BY <1>0, <2>2 DEF ReadArchiveKeys, SetClean
    <3> QED  BY <2>0, <3>1 DEF Marked
  <2>3. CASE \E pc, listed : SetClean(n, pc, listed, {})
    <3>1. clean'[n].orphans = {}
      BY <1>0, <2>3 DEF SetClean
    <3> QED  BY <3>1 DEF Marked
  <2> QED  BY <2>1, <2>2, <2>3 DEF CleanStep, CleanupTick, ListArchive, ListAvatar, CleanupFails,
         DeleteOrphans, Unlock, CleanerCrash
<1>5. ASSUME NEW m \in Cleaners, m # n, NEW u \in Users PROVE Marked(m, u)'
  BY <1>1, <1>2, <1>5 DEF AvatarsSafe, Marked
<1> QED  BY <1>3, <1>4, <1>5 DEF AvatarsSafe

LEMMA NextSafe == TypeOK /\ AvatarsSafe /\ CleanApart /\ [Next]_vars => AvatarsSafe'
<1> SUFFICES ASSUME TypeOK, AvatarsSafe, CleanApart, [Next]_vars PROVE AvatarsSafe'
  OBVIOUS
<1>1. CASE \/ \E r \in Records : CreateBegin(r) \/ CreateStep(r) \/ CreateDropped(r) \/ RunCommand(r)
           \/ \E d \in Deleters, r \in Records : DeleteBegin(d, r)
           \/ \E d \in Deleters : DeleteStep(d) \/ DeleteDropped(d)
  BY <1>1, RecordsAside
<1>2. CASE \E u \in Users : AvatarBegin(u) \/ AvatarStep(u) \/ AvatarDropped(u) \/ DeleteUser(u)
  BY <1>2, AvatarStepSafe
<1>3. CASE \E n \in Cleaners : CleanStep(n) \/ CleanerCrash(n)
  BY <1>3, CleanSafe
<1>4. ASSUME NEW k \in Keys, LateCopy(k) PROVE AvatarsSafe'
  BY <1>4, CopyKeepsAvatars, AvatarsAside DEF LateCopy
<1>5. ASSUME NEW k \in Keys, Age(k) PROVE AvatarsSafe'
  <2>1. \A u \in Users : object[u] # "none" => object'[u] # "none"
    BY <1>5, TypeParts, AvatarKeyFacts DEF Age, ObjectType
  <2> QED  BY <1>5, <2>1, AvatarsAside DEF Age
<1>6. CASE \/ \E x \in Files \cup Users : Upload(x) \/ TempExpires(x)
           \/ SessionExpires \/ PoolClosesConnection
  BY <1>6, AvatarsAside DEF Upload, TempExpires, SessionExpires, PoolClosesConnection
<1>7. CASE UNCHANGED vars
  BY <1>7, AvatarsAside DEF vars
<1> QED  BY <1>1, <1>2, <1>3, <1>4, <1>5, <1>6, <1>7 DEF Next

(***************************************************************************)
(* The one way to lose an avatar that sys_user refers to is the window     *)
(* between the cleanup's reading of sys_user and its deletion: as long as  *)
(* no avatar request stands between its copy and its UPDATE then, every    *)
(* avatar keeps its object, whatever late copies, slow requests, cleanups  *)
(* of other processes, deleted users and faults there are.                 *)
(***************************************************************************)
THEOREM AvatarsKept == Spec /\ []CleanApart => []AvatarNotCleaned
<1>1. Init => AvatarsSafe
  BY DEF Init, AvatarsSafe, Pictured, Marked, NoClean
<1>2. AvatarsSafe => AvatarNotCleaned
  BY DEF AvatarsSafe, Pictured, AvatarNotCleaned
<1> QED  BY <1>1, <1>2, NextSafe, StoreTypeCorrect, PTL DEF Spec

=============================================================================
