---------------------------- MODULE UploadSession ----------------------------
(***************************************************************************)
(* Upload sessions: a user opens a session for a template with file fields,*)
(* takes addresses for uploads out of the quota of each field, uploads, and*)
(* creates records that name the uploads.  The session is a key of Redis   *)
(* with an expiry of 1800 s; the quota is taken by a Lua script            *)
(* (init_upload_session_handler, presigned_upload_url_handler and          *)
(* create_archive_record_handler of src/modules/archive).                  *)
(*                                                                         *)
(* One step is one Redis command or script, or one transaction; the copies *)
(* and inserts of create_files_record, one by one in ArchiveStore, are one *)
(* step here.                                                              *)
(***************************************************************************)
EXTENDS FileFields, FiniteSets

CONSTANTS
  Users,
  Owners,     \* bound: users that open sessions
  Sessions,   \* ids that init_upload_session draws
  Presigns,   \* presign requests under way at the same time
  Records,    \* create requests; each gets a record_id of its own
  Templates,  \* schema_def of a template, with its file fields
  Datas,      \* data of create requests
  Kinds,      \* type and size of files
  TTL,        \* expiry of a session, in ticks
  Nobody      \* no user, session or record

ASSUME SessionAssumption ==
  /\ TTL \in Nat \ {0}
  /\ Owners \subseteq Users
  /\ Nobody \notin Users \cup Sessions \cup Records
  /\ Files \subseteq Nat
  /\ Templates \subseteq Schemas

VARIABLES
  template,  \* schema_def, as the context of a request has it
  session,   \* keys of Redis
  presign,   \* presign requests between the script and their answer
  url,       \* uploads that have an address, with session and field
  opened,    \* history: the file fields of a session when it was opened
  lost,      \* history: quota taken for which no address was given
  temp,      \* uploads under temp/
  create,    \* create requests
  record,    \* archive_record
  fileRow    \* sys_file

vars == <<template, session, presign, url, opened, lost, temp, create, record, fileRow>>

-----------------------------------------------------------------------------
Configs   == FileConfigs(template)
NoConfigs == [f \in {} |-> 0]
SomeConfigs == {NoConfigs} \cup {FileConfigs(t) : t \in Templates}

NoSession(state) == [state |-> state, owner |-> Nobody, configs |-> NoConfigs, ttl |-> 0]
NoPresign == [of |-> Nobody]
NoUrl     == [of |-> Nobody]
Unlinked  == Nobody
NoData    == [f \in Fields |-> Missing]
NoSchema  == [props |-> [f \in Fields |-> NoDef], required |-> {}]
NoCreate  == [pc |-> "idle", of |-> Nobody, schema |-> NoSchema, data |-> NoData,
              expected |-> {}, copied |-> {}]
Ended     == [NoCreate EXCEPT !.pc = "done"]

Live(s) == session[s].state = "live"

(* Every variable stays within its type; no quota is negative.             *)
TypeOK ==
  /\ template \in Templates
  /\ session = [s \in Sessions |-> session[s]]
  /\ \A s \in Sessions :
       session[s] \in {NoSession("none"), NoSession("gone")} \cup
         [state : {"live"}, owner : Users, configs : [DOMAIN opened[s] -> Config],
          ttl : 1 .. TTL]
  /\ presign \in [Presigns -> {NoPresign} \cup
                     [of : Sessions, field : Fields, config : Config]]
  /\ url \in [Files -> {NoUrl} \cup [of : Sessions, field : Fields]]
  /\ opened \in [Sessions -> SomeConfigs]
  /\ lost \in [Sessions -> [Fields -> Nat]]
  /\ temp \in SUBSET {x \in Files : url[x] # NoUrl}
  /\ create \in [Records ->
       [pc : {"idle", "valid", "session", "files", "commit", "rollback", "endSession", "done"},
        of : Sessions \cup {Nobody}, schema : {NoSchema} \cup Templates, data : {NoData} \cup Datas,
        expected : SUBSET Files, copied : SUBSET Files]]
  /\ record \in [Records -> {"none", "open", "committed", "aborted"}]
  /\ fileRow \in [Files -> Records \cup {Unlinked}]

Init ==
  /\ template \in Templates
  /\ session = [s \in Sessions |-> NoSession("none")]
  /\ presign = [p \in Presigns |-> NoPresign]
  /\ url = [x \in Files |-> NoUrl]
  /\ opened = [s \in Sessions |-> NoConfigs]
  /\ lost = [s \in Sessions |-> [f \in Fields |-> 0]]
  /\ temp = {}
  /\ create = [r \in Records |-> NoCreate]
  /\ record = [r \in Records |-> "none"]
  /\ fileRow = [x \in Files |-> Unlinked]

-----------------------------------------------------------------------------
(***************************************************************************)
(* Sessions                                                                *)
(***************************************************************************)
createVars == <<create, record, fileRow>>

(* The context that requests get is another one from here on: by an update,*)
(* whose check for records does not stop it for certain, or because another*)
(* process answers, with an older context in its cache (TemplateCache).    *)
UpdateTemplate ==
  /\ template' \in Templates
  /\ UNCHANGED <<session, presign, url, opened, lost, temp, createVars>>

(* init_upload_session: SETEX.                                             *)
NewSession(u) == [state |-> "live", owner |-> u, ttl |-> TTL, configs |-> Configs]

(* A template without file fields has no sessions.                         *)
InitUploadSession(s, u) ==
  /\ session[s].state = "none"
  /\ DOMAIN Configs # {}
  /\ session' = [session EXCEPT ![s] = NewSession(u)]
  /\ opened' = [opened EXCEPT ![s] = Configs]
  /\ UNCHANGED <<template, presign, url, lost, temp, createVars>>

(* Redis removes a key whose time is over.                                 *)
Tick(s) ==
  /\ Live(s)
  /\ session' = [session EXCEPT ![s] =
       IF session[s].ttl = 1 THEN NoSession("gone")
       ELSE [session[s] EXCEPT !.ttl = session[s].ttl - 1]]
  /\ UNCHANGED <<template, presign, url, opened, lost, temp, createVars>>

(* What DEDUCT_QUOTA_LUA_SCRIPT answers.  Mutant: one unit too many.        *)
AnswerOneMore(s, u, f) ==
  CASE ~Live(s)                           -> "SESSION_NOT_FOUND"
    [] session[s].owner # u               -> "FORBIDDEN_USER"
    [] f \notin DOMAIN session[s].configs -> "FIELD_NOT_FOUND"
    [] session[s].configs[f].quota < 0    -> "QUOTA_EXHAUSTED"
    [] OTHER                              -> "OK"
Answer(s, u, f) ==
  CASE ~Live(s)                           -> "SESSION_NOT_FOUND"
    [] session[s].owner # u               -> "FORBIDDEN_USER"
    [] f \notin DOMAIN session[s].configs -> "FIELD_NOT_FOUND"
    [] session[s].configs[f].quota <= 0   -> "QUOTA_EXHAUSTED"
    [] OTHER                              -> "OK"

(* ... and what it leaves in the key.  The expiry starts again with every  *)
(* unit of quota taken.  Mutants: the key is written without the new quota;*)
(* every request of the owner prolongs the session.                        *)
AfterScriptKept(s, u, f) ==
  IF Answer(s, u, f) = "OK" THEN [session[s] EXCEPT !.ttl = TTL] ELSE session[s]
AfterScriptProlonged(s, u, f) ==
  CASE Answer(s, u, f) = "OK" ->
         [session[s] EXCEPT !.configs[f].quota = session[s].configs[f].quota - 1, !.ttl = TTL]
    [] Answer(s, u, f) = "QUOTA_EXHAUSTED" -> [session[s] EXCEPT !.ttl = TTL]
    [] OTHER -> session[s]
AfterScript(s, u, f) ==
  IF Answer(s, u, f) = "OK"
    THEN [session[s] EXCEPT !.configs[f].quota = session[s].configs[f].quota - 1, !.ttl = TTL]
    ELSE session[s]

(* try_to_get_field_quota; the answer of the script may not arrive.        *)
TryToGetFieldQuota(p, s, u, f) ==
  /\ presign[p] = NoPresign
  /\ session' = [session EXCEPT ![s] = AfterScript(s, u, f)]
  /\ \/ /\ Answer(s, u, f) = "OK"
        /\ presign' = [presign EXCEPT ![p] =
             [of |-> s, field |-> f, config |-> session'[s].configs[f]]]
        /\ UNCHANGED lost
     \/ /\ Answer(s, u, f) # "OK"
        /\ UNCHANGED <<presign, lost>>
     \/ /\ Answer(s, u, f) = "OK"
        /\ lost' = [lost EXCEPT ![s][f] = @ + 1]
        /\ UNCHANGED presign
  /\ UNCHANGED <<template, url, opened, temp, createVars>>

(* check_file_validity and presigned_upload_url: a file that is refused,   *)
(* an address that cannot be made or a request that is dropped does not    *)
(* give the quota back.  A file id is a new UUID.                          *)
PresignedUploadUrl(p) ==
  LET s == presign[p].of  f == presign[p].field IN
  /\ presign[p] # NoPresign
  /\ \/ \E k \in Kinds, x \in Files :
          /\ FileValid(presign[p].config, k.type, k.size)
          /\ url[x] = NoUrl /\ \A y \in Files : y < x => url[y] # NoUrl
          /\ url' = [url EXCEPT ![x] = [of |-> s, field |-> f]]
          /\ UNCHANGED lost
     \/ lost' = [lost EXCEPT ![s][f] = @ + 1] /\ UNCHANGED url
  /\ presign' = [presign EXCEPT ![p] = NoPresign]
  /\ UNCHANGED <<template, session, opened, temp, createVars>>

(* The client uploads; an address outlives the session.                    *)
Upload(x) ==
  /\ url[x] # NoUrl /\ x \notin temp
  /\ temp' = temp \cup {x}
  /\ UNCHANGED <<template, session, presign, url, opened, lost, createVars>>

-----------------------------------------------------------------------------
(***************************************************************************)
(* create_archive_record_handler                                           *)
(***************************************************************************)
sessionVars == <<template, presign, url, opened, lost, temp>>

SetRecord(r, status) == record' = [record EXCEPT ![r] = status]
Goto(r, pc) == create' = [create EXCEPT ![r].pc = pc]

HasFiles(cfg, s) == DOMAIN cfg # {} /\ s # Nobody

(* validate_instance_by_id: the data against the schema of the moment.  A  *)
(* request that is refused leaves nothing.                                 *)
ValidateInstance(r, s, data) ==
  /\ create[r].pc = "idle"
  /\ Conforms(template, data)
  /\ create' = [create EXCEPT ![r].pc = "valid", ![r].of = s, ![r].data = data]
  /\ UNCHANGED <<sessionVars, session, record, fileRow>>

(* The context is loaded again, and may be another one: check_need_file,   *)
(* INSERT INTO archive_record and the keys of a compensation.              *)
CreateArchiveRecord(r) ==
  LET s == create[r].of  hasFiles == HasFiles(Configs, s) IN
  /\ create[r].pc = "valid"
  /\ IF s = Nobody /\ NeedFile(Configs)
       THEN create' = [create EXCEPT ![r] = Ended] /\ UNCHANGED record
       ELSE /\ SetRecord(r, "open")
            /\ create' = [create EXCEPT
                 ![r].pc = IF hasFiles THEN "session" ELSE "commit", ![r].schema = template,
                 ![r].expected = IF hasFiles THEN Collected(Configs, create[r].data) ELSE {}]
  /\ UNCHANGED <<sessionVars, session, fileRow>>

CheckUploadSession(r) ==
  /\ create[r].pc = "session"
  /\ \/ Live(create[r].of) /\ Goto(r, "files")
     \/ Goto(r, "rollback")               \* no such key, or no answer
  /\ UNCHANGED <<sessionVars, session, record, fileRow>>

(* The uploads a create can copy: those of its session.                    *)
Uploaded(s) == {x \in temp : url[x].of = s}

(* create_files_record: copy and insert every file, or stop at a value that*)
(* is no id, a missing upload, a duplicate or an error, with some copied.  *)
CreateFilesRecord(r) ==
  LET cfg == FileConfigs(create[r].schema)  data == create[r].data  ids == Stored(cfg, data) IN
  /\ create[r].pc = "files"
  /\ \/ /\ Accepted(cfg, data)
        /\ ids \subseteq Uploaded(create[r].of)
        /\ \A x \in ids : fileRow[x] = Unlinked
        /\ fileRow' = [x \in Files |-> IF x \in ids THEN r ELSE fileRow[x]]
        /\ create' = [create EXCEPT ![r].pc = "commit", ![r].copied = ids]
     \/ \E some \in SUBSET (ids \cap Uploaded(create[r].of)) :
          /\ create' = [create EXCEPT ![r].pc = "rollback", ![r].copied = some]
          /\ UNCHANGED fileRow
  /\ UNCHANGED <<sessionVars, session, record>>

Unlink(r) == fileRow' = [x \in Files |-> IF fileRow[x] = r THEN Unlinked ELSE fileRow[x]]

Abort(r) ==
  /\ SetRecord(r, "aborted")
  /\ Unlink(r)
  /\ create' = [create EXCEPT ![r] = Ended]

(* COMMIT.  An error ends the request; the outcome is either.              *)
CommitCreate(r) ==
  /\ create[r].pc = "commit"
  /\ \/ /\ SetRecord(r, "committed") /\ UNCHANGED fileRow
        /\ Goto(r, IF create[r].of = Nobody THEN "done" ELSE "endSession")
     \/ SetRecord(r, "committed") /\ UNCHANGED fileRow /\ Goto(r, "done")
     \/ Abort(r)
  /\ UNCHANGED <<sessionVars, session>>

(* DEL of the session; it may fail.                                        *)
DeleteUploadSession(r) ==
  LET s == create[r].of IN
  /\ create[r].pc = "endSession"
  /\ session' = [session EXCEPT ![s] = IF Live(s) THEN NoSession("gone") ELSE session[s]]
       \/ UNCHANGED session
  /\ Goto(r, "done")
  /\ UNCHANGED <<sessionVars, record, fileRow>>

(* ROLLBACK; the compensation with `expected` is ArchiveStore's.           *)
RollbackCreate(r) ==
  /\ create[r].pc = "rollback"
  /\ Abort(r)
  /\ UNCHANGED <<sessionVars, session>>

-----------------------------------------------------------------------------
CreateStep(r) == CreateArchiveRecord(r) \/ CheckUploadSession(r) \/ CreateFilesRecord(r)
                   \/ CommitCreate(r) \/ DeleteUploadSession(r) \/ RollbackCreate(r)

Next ==
  \/ UpdateTemplate
  \/ \E s \in Sessions, u \in Owners : InitUploadSession(s, u)
  \/ \E s \in Sessions : Tick(s)
  \/ \E p \in Presigns, s \in Sessions, u \in Users, f \in Fields :
       TryToGetFieldQuota(p, s, u, f)
  \/ \E p \in Presigns : PresignedUploadUrl(p)
  \/ \E x \in Files : Upload(x)
  \/ \E r \in Records, s \in Sessions \cup {Nobody}, data \in Datas : ValidateInstance(r, s, data)
  \/ \E r \in Records : CreateStep(r)

Spec == Init /\ [][Next]_vars

(* Time passes in Redis.  Nothing is assumed of clients and servers.       *)
FairSpec == Spec /\ \A s \in Sessions : WF_vars(Tick(s))

-----------------------------------------------------------------------------
(***************************************************************************)
(* Properties                                                              *)
(***************************************************************************)
Given(s, f) == Cardinality({x \in Files : url[x] # NoUrl /\ url[x].of = s /\ url[x].field = f})
UnderWay(s, f) == Cardinality({p \in Presigns : presign[p] # NoPresign
                                 /\ presign[p].of = s /\ presign[p].field = f})

(* No unit of quota is given twice and none vanishes, whatever requests for*)
(* the same session overlap: what is left in the key, the addresses given  *)
(* out, the requests under way and what was lost make up the quota of the  *)
(* definition, as long as the session lives; and no session ever gave out  *)
(* more addresses for a field than its quota.                              *)
QuotaConserved ==
  \A s \in Sessions, f \in Fields :
    LET taken == Given(s, f) + UnderWay(s, f) + lost[s][f] IN
    /\ f \notin DOMAIN opened[s] => taken = 0
    /\ f \in DOMAIN opened[s] => taken <= opened[s][f].quota
    /\ Live(s) /\ f \in DOMAIN opened[s] =>
         session[s].configs[f].quota + taken = opened[s][f].quota

(* The file fields of a template are the ones the administrator defined,   *)
(* whether its schema was blank, had other properties or is the schema of  *)
(* the template as it stands, sent back with new definitions.              *)
DefinitionsReadBack == template \in Schemas /\ AllReadBack

(* The compensation of a failed create names every object it has copied,   *)
(* whatever shape the data has and wherever create_files_record stopped.   *)
CompensationComplete == \A r \in Records : create[r].copied \subseteq create[r].expected

(* The files of a record in the table are complete.  Every required field  *)
(* has a file, one that its session uploaded.  Every id that a file field  *)
(* names can be shown, provided the record has a session and its data still*)
(* fit the schema they were saved under, which may be another one than they*)
(* were checked with.  Left out are hand-written arrays of one, which the  *)
(* code accepts: create_files_record stores nothing of them.               *)
RecordFilesComplete ==
  \A r \in Records : record[r] = "committed" =>
    LET c == create[r]  cfg == FileConfigs(c.schema)
        rows == {x \in Files : fileRow[x] = r} IN
    /\ \A f \in DOMAIN cfg : cfg[f].required =>
         \E x \in Parsed(c.data[f]) : x \in rows /\ url[x].of = c.of
    /\ HasFiles(cfg, c.of) /\ Conforms(c.schema, c.data) =>
         \A f \in DOMAIN cfg : \/ ArrayOfOne(c.schema.props[f])
                              \/ Parsed(c.data[f]) \cap Unresolved(cfg, c.data, rows) = {}

(* A session only winds down: a step that changes it ends it for good, or  *)
(* takes quota and never gives any, or else shortens its time.  What takes *)
(* no quota prolongs nothing, so that its life is bounded by its quota.    *)
SessionWindsDown ==
  [][\A s \in Sessions : session[s].state # "none" /\ session'[s] # session[s] =>
       LET old == session[s]  new == session'[s] IN
       /\ old.state = "live"
       /\ \/ new = NoSession("gone")
          \/ /\ new.owner = old.owner /\ DOMAIN new.configs = DOMAIN old.configs
             /\ \A f \in DOMAIN old.configs : new.configs[f].quota <= old.configs[f].quota
             /\ \/ \E f \in DOMAIN old.configs : new.configs[f].quota < old.configs[f].quota
                \/ new.ttl < old.ttl]_vars

(* Every session ends: taking quota prolongs it, but only as often as there*)
(* is quota, whatever clients keep asking for.                             *)
SessionEnds == \A s \in Sessions : Live(s) ~> ~Live(s)

=============================================================================
