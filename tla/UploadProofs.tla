---------------------------- MODULE UploadProofs ----------------------------
(***************************************************************************)
(* For all templates, data, sessions and numbers of requests: the          *)
(* compensation of a failed create knows every object it has copied, the   *)
(* quota of a session is neither given twice nor lost from sight, and a    *)
(* record in the table has all of its files.                               *)
(***************************************************************************)
EXTENDS UploadSession, FiniteSetTheorems, WellFoundedInduction, TLAPS

CreateType ==
  [pc : {"idle", "valid", "session", "files", "commit", "rollback", "endSession", "done"},
   of : Sessions \cup {Nobody}, schema : {NoSchema} \cup Templates, data : {NoData} \cup Datas,
   expected : SUBSET Files, copied : SUBSET Files]

(* Nothing is copied before create_files_record, and until then the keys of*)
(* the compensation are those of the data, under the schema that decides   *)
(* which files are copied.  CompensationComplete is not inductive without  *)
(* it: the copies are chosen in a later step than the keys.                *)
Prepared(c) ==
  /\ c.pc \in {"idle", "valid", "session", "files"} => c.copied = {}
  /\ c.pc \in {"session", "files"} => c.expected = Collected(FileConfigs(c.schema), c.data)

IInv ==
  /\ template \in Templates
  /\ create \in [Records -> CreateType]
  /\ \A r \in Records : Prepared(create[r]) /\ create[r].copied \subseteq create[r].expected

-----------------------------------------------------------------------------
(* The walk over the data that collects keys finds whatever                *)
(* create_files_record stores, whatever the shape of the data.             *)
LEMMA StoredCollected == \A cfg, data : Stored(cfg, data) \subseteq Collected(cfg, data)
<1> SUFFICES ASSUME NEW cfg, NEW data, NEW x, x \in Stored(cfg, data)
             PROVE  x \in Collected(cfg, data)
  OBVIOUS
<1>1. PICK f \in DOMAIN cfg : x \in FieldIds(cfg[f], data[f])
  BY DEF Stored
<1>2. data[f].kind \in {"string", "array"} /\ x \in Parsed(data[f])
  BY <1>1 DEF FieldIds
<1> QED  BY <1>1, <1>2 DEF Collected

LEMMA CollectedFiles == \A cfg, data : Collected(cfg, data) \subseteq Files
BY DEF Collected, Parsed

(* A step that gives one create a value that satisfies the invariant.      *)
LEMMA OneCreate ==
  ASSUME IInv, template' \in Templates, NEW r \in Records, NEW c \in CreateType,
         create' = [create EXCEPT ![r] = c], Prepared(c), c.copied \subseteq c.expected
  PROVE  IInv'
BY DEF IInv

LEMMA EndedTyped == /\ Ended \in CreateType /\ NoCreate \in CreateType
                    /\ Prepared(Ended) /\ Ended.copied \subseteq Ended.expected
                    /\ Prepared(NoCreate) /\ NoCreate.copied \subseteq NoCreate.expected
BY DEF Ended, NoCreate, CreateType, Prepared

(* Every step of a create keeps the invariant.                             *)
LEMMA CreateIInv ==
  ASSUME IInv, NEW r \in Records,
         CreateStep(r)
           \/ \E s \in Sessions \cup {Nobody}, data \in Datas : ValidateInstance(r, s, data)
  PROVE  IInv'
<1> DEFINE c == create[r]
<1>1. /\ c \in CreateType /\ create \in [Records -> CreateType] /\ template \in Templates
      /\ Prepared(c) /\ c.copied \subseteq c.expected
  BY DEF IInv
<1>2. template' \in Templates
  BY <1>1 DEF CreateStep, CreateArchiveRecord, CheckUploadSession, CreateFilesRecord,
        CommitCreate, DeleteUploadSession, RollbackCreate, ValidateInstance, sessionVars
<1>3. ASSUME NEW pc \in {"files", "commit", "rollback", "endSession", "done"}, Goto(r, pc),
             c.pc = "session" \/ pc # "files"
      PROVE  IInv'
  <2>1. [c EXCEPT !.pc = pc] \in CreateType /\ Prepared([c EXCEPT !.pc = pc])
        /\ [c EXCEPT !.pc = pc].copied \subseteq [c EXCEPT !.pc = pc].expected
    BY <1>1, <1>3 DEF CreateType, Prepared
  <2>2. create' = [create EXCEPT ![r] = [c EXCEPT !.pc = pc]]
    BY <1>1, <1>3 DEF Goto
  <2> HIDE DEF c
  <2> QED  BY <1>2, <2>1, <2>2, OneCreate
<1>4. ASSUME create' = [create EXCEPT ![r] = Ended] PROVE IInv'
  BY <1>2, <1>4, EndedTyped, OneCreate
<1>5. CASE \E s \in Sessions \cup {Nobody}, data \in Datas : ValidateInstance(r, s, data)
  <2>1. PICK s \in Sessions \cup {Nobody}, data \in Datas : ValidateInstance(r, s, data)
    BY <1>5
  <2> DEFINE d == [c EXCEPT !.pc = "valid", !.of = s, !.data = data]
  <2>2. d \in CreateType /\ Prepared(d) /\ d.copied \subseteq d.expected
    BY <1>1, <2>1 DEF CreateType, Prepared, ValidateInstance
  <2>3. create' = [create EXCEPT ![r] = d]
    BY <1>1, <2>1 DEF ValidateInstance
  <2> HIDE DEF d
  <2> QED  BY <1>2, <2>2, <2>3, OneCreate
<1>6. CASE CreateArchiveRecord(r)
  <2> DEFINE hasFiles == HasFiles(Configs, c.of)
             expected == IF hasFiles THEN Collected(Configs, c.data) ELSE {}
             pc == IF hasFiles THEN "session" ELSE "commit"
             d == [c EXCEPT !.pc = pc, !.schema = template, !.expected = expected]
  <2>1. CASE c.of = Nobody /\ NeedFile(Configs)
    BY <1>4, <1>6, <2>1 DEF CreateArchiveRecord
  <2>2. CASE ~(c.of = Nobody /\ NeedFile(Configs))
    <3>1. create' = [create EXCEPT ![r] = d]
      BY <1>1, <1>6, <2>2 DEF CreateArchiveRecord
    <3>2. /\ expected \in SUBSET Files /\ pc \in {"session", "commit"}
          /\ pc = "session" => expected = Collected(FileConfigs(template), c.data)
      BY CollectedFiles DEF Configs
    <3>3. c.copied = {}
      BY <1>1, <1>6 DEF CreateArchiveRecord, Prepared
    <3> HIDE DEF expected, pc
    <3>4. d \in CreateType /\ Prepared(d) /\ d.copied \subseteq d.expected
      BY <1>1, <3>2, <3>3 DEF CreateType, Prepared
    <3> HIDE DEF d
    <3> QED  BY <1>2, <3>1, <3>4, OneCreate
  <2> QED  BY <2>1, <2>2
<1>7. CASE CheckUploadSession(r)
  BY <1>3, <1>7 DEF CheckUploadSession
<1>8. CASE CreateFilesRecord(r)
  <2> DEFINE ids == Stored(FileConfigs(c.schema), c.data)
  <2>1. ids \subseteq c.expected
    BY <1>1, <1>8, StoredCollected DEF CreateFilesRecord, Prepared
  <2>2. PICK pc \in {"commit", "rollback"}, some \in SUBSET ids :
          create' = [create EXCEPT ![r].pc = pc, ![r].copied = some]
    BY <1>8 DEF CreateFilesRecord
  <2> DEFINE d == [c EXCEPT !.pc = pc, !.copied = some]
  <2>3. d \in CreateType /\ Prepared(d) /\ d.copied \subseteq d.expected
    <3>1. some \subseteq c.expected /\ some \in SUBSET Files
      BY <1>1, <2>1, <2>2 DEF CreateType
    <3> QED  BY <1>1, <2>2, <3>1 DEF CreateType, Prepared
  <2>4. create' = [create EXCEPT ![r] = d]
    BY <1>1, <2>2
  <2> HIDE DEF d
  <2> QED  BY <1>2, <2>3, <2>4, OneCreate
<1>9. CASE CommitCreate(r)
  <2>1. CASE Abort(r)
    BY <1>4, <2>1 DEF Abort
  <2>2. CASE Goto(r, IF c.of = Nobody THEN "done" ELSE "endSession") \/ Goto(r, "done")
    BY <1>3, <2>2
  <2> QED  BY <1>9, <2>1, <2>2 DEF CommitCreate
<1>10. CASE DeleteUploadSession(r)
  BY <1>3, <1>10 DEF DeleteUploadSession
<1>11. CASE RollbackCreate(r)
  BY <1>4, <1>11 DEF RollbackCreate, Abort
<1> QED  BY <1>5, <1>6, <1>7, <1>8, <1>9, <1>10, <1>11 DEF CreateStep

LEMMA InitIInv == Init => IInv
<1> SUFFICES ASSUME Init PROVE IInv
  OBVIOUS
<1>1. create = [r \in Records |-> NoCreate] /\ template \in Templates
  BY DEF Init
<1> QED  BY <1>1, EndedTyped DEF IInv

(* Sessions, presign requests and uploads touch no create.                 *)
LEMMA NextIInv == IInv /\ [Next]_vars => IInv'
<1> SUFFICES ASSUME IInv, [Next]_vars PROVE IInv'
  OBVIOUS
<1>1. CASE \E r \in Records : CreateStep(r) \/ \E s \in Sessions \cup {Nobody}, data \in Datas :
             ValidateInstance(r, s, data)
  BY <1>1, CreateIInv
<1>2. CASE template' \in Templates /\ UNCHANGED create
  BY <1>2 DEF IInv
<1>3. CASE UNCHANGED vars
  BY <1>2, <1>3 DEF vars, IInv
<1>4. ASSUME UpdateTemplate
               \/ (\E s \in Sessions, u \in Owners : InitUploadSession(s, u))
               \/ (\E s \in Sessions : Tick(s))
               \/ (\E p \in Presigns, s \in Sessions, u \in Users, f \in Fields :
                     TryToGetFieldQuota(p, s, u, f))
               \/ (\E p \in Presigns : PresignedUploadUrl(p))
               \/ (\E x \in Files : Upload(x))
      PROVE  template' \in Templates /\ UNCHANGED create
  BY <1>4 DEF UpdateTemplate, InitUploadSession, Tick, TryToGetFieldQuota, PresignedUploadUrl,
              Upload, createVars, IInv
<1> QED  BY <1>1, <1>2, <1>3, <1>4 DEF Next

-----------------------------------------------------------------------------
(* A create that fails after copying some files names all of them to its   *)
(* compensation: collect_archive_object_keys_from_data never falls short of*)
(* what create_files_record copies, whatever the data and however the      *)
(* template changes meanwhile.                                             *)
THEOREM CompensationKnowsAll == Spec => []CompensationComplete
<1>1. IInv => CompensationComplete
  BY DEF IInv, CompensationComplete
<1> QED  BY <1>1, InitIInv, NextIInv, PTL DEF Spec

-----------------------------------------------------------------------------
(***************************************************************************)
(* Types                                                                   *)
(***************************************************************************)
LiveSession(s) == [state : {"live"}, owner : Users, configs : [DOMAIN opened[s] -> Config],
                   ttl : 1 .. TTL]
SessionTyped ==
  /\ session = [s \in Sessions |-> session[s]]
  /\ \A s \in Sessions :
       session[s] \in {NoSession("none"), NoSession("gone")} \cup LiveSession(s)
Address == [of : Sessions, field : Fields]
Asked   == [of : Sessions, field : Fields, config : Config]

QuotaTyped ==
  /\ SessionTyped
  /\ presign \in [Presigns -> {NoPresign} \cup Asked]
  /\ url \in [Files -> {NoUrl} \cup Address]
  /\ opened \in [Sessions -> SomeConfigs]
  /\ lost \in [Sessions -> [Fields -> Nat]]
  /\ temp \in SUBSET {x \in Files : url[x] # NoUrl}
RowsTyped ==
  /\ record \in [Records -> {"none", "open", "committed", "aborted"}]
  /\ fileRow \in [Files -> Records \cup {Unlinked}]

LEMMA TypeParts == IInv /\ QuotaTyped /\ RowsTyped => TypeOK
BY DEF IInv, QuotaTyped, RowsTyped, SessionTyped, LiveSession, Address, Asked, CreateType, TypeOK

(* try_from_schema yields a configuration for each of its fields.          *)
LEMMA ConfigsTyped ==
  ASSUME NEW t \in Templates
  PROVE  /\ FileConfigs(t) \in [DOMAIN FileConfigs(t) -> Config]
         /\ DOMAIN FileConfigs(t) \subseteq Fields
<1> DEFINE D == {g \in Fields : IsFileField(t.props[g])}
<1>1. ASSUME NEW f \in D
      PROVE  [allowed_types |-> t.props[f].accept, quota |-> QuotaOf(t.props[f]),
              max_size |-> t.props[f].max_size, required |-> f \in t.required] \in Config
  <2>1. t.props[f] \in Property
    BY SessionAssumption, FieldsAssumption
  <2>2. QuotaOf(t.props[f]) \in Nat
    BY <2>1 DEF QuotaOf, IsFileField, Property
  <2> QED  BY <2>1, <2>2 DEF Config, Property
<1>2. FileConfigs(t) \in [D -> Config]
  BY <1>1 DEF FileConfigs
<1> QED  BY <1>2

LEMMA OpenedTyped ==
  ASSUME QuotaTyped, NEW s \in Sessions
  PROVE  opened[s] \in [DOMAIN opened[s] -> Config] /\ DOMAIN opened[s] \subseteq Fields
<1>1. opened[s] \in SomeConfigs
  BY DEF QuotaTyped
<1>2. CASE opened[s] = NoConfigs
  BY <1>2 DEF NoConfigs
<1>3. CASE \E t \in Templates : opened[s] = FileConfigs(t)
  BY <1>3, ConfigsTyped
<1> QED  BY <1>1, <1>2, <1>3 DEF SomeConfigs

(* A session that lives is a key with an owner, quotas and an expiry.      *)
LEMMA LiveTyped ==
  ASSUME QuotaTyped, NEW s \in Sessions
  PROVE  /\ Live(s) => session[s] \in LiveSession(s)
         /\ ~Live(s) => session[s] \in {NoSession("none"), NoSession("gone")}
BY DEF QuotaTyped, SessionTyped, LiveSession, Live, NoSession

(* What the script leaves in the key when it answers OK: one unit less for *)
(* the field, the other fields as they were.                               *)
LEMMA Deducted ==
  ASSUME QuotaTyped, NEW s \in Sessions, NEW u, NEW f \in Fields, Answer(s, u, f) = "OK"
  PROVE  /\ Live(s) /\ f \in DOMAIN opened[s] /\ session[s].configs[f].quota \in Nat \ {0}
         /\ AfterScript(s, u, f) \in LiveSession(s)
         /\ AfterScript(s, u, f).configs[f] \in Config
         /\ AfterScript(s, u, f).configs[f].quota = session[s].configs[f].quota - 1
         /\ \A g \in DOMAIN opened[s] \ {f} :
              AfterScript(s, u, f).configs[g] = session[s].configs[g]
<1> DEFINE S == session[s]
           c == S.configs[f]
           less == [c EXCEPT !.quota = c.quota - 1]
           cfg == [S.configs EXCEPT ![f] = less]
           N == [[S EXCEPT !.configs = cfg] EXCEPT !.ttl = TTL]
<1>1. Live(s) /\ f \in DOMAIN S.configs /\ ~(c.quota <= 0)
  BY DEF Answer
<1>2. S \in LiveSession(s) /\ f \in DOMAIN opened[s]
  BY <1>1, LiveTyped DEF LiveSession
<1>3. S.configs \in [DOMAIN opened[s] -> Config] /\ c \in Config
  BY <1>2 DEF LiveSession
<1>4. c.quota \in Nat \ {0}
  BY <1>1, <1>3 DEF Config
<1>5. less \in Config /\ less.quota = c.quota - 1
  BY <1>3, <1>4 DEF Config
<1>6. AfterScript(s, u, f) = N
  BY <1>2 DEF AfterScript, LiveSession
<1> HIDE DEF less, c
<1>7. /\ cfg \in [DOMAIN opened[s] -> Config] /\ cfg[f] = less
      /\ \A g \in DOMAIN opened[s] \ {f} : cfg[g] = S.configs[g]
  BY <1>2, <1>3, <1>5
<1> HIDE DEF cfg
<1>8. N \in LiveSession(s) /\ N.configs = cfg
  <2>1. TTL \in 1 .. TTL
    BY SessionAssumption
  <2>2. cfg \in [DOMAIN opened[s] -> Config]
    BY <1>7
  <2> QED  BY <1>2, <2>1, <2>2 DEF LiveSession
<1> QED  BY <1>1, <1>2, <1>4, <1>5, <1>6, <1>7, <1>8 DEF c

(* One key changes, and the file fields it was opened with do not.         *)
LEMMA OneSession ==
  ASSUME SessionTyped, UNCHANGED opened, NEW s \in Sessions,
         NEW v \in {NoSession("none"), NoSession("gone")} \cup LiveSession(s),
         session' = [session EXCEPT ![s] = v]
  PROVE  SessionTyped'
BY DEF SessionTyped, LiveSession

LEMMA QuotaInit == Init => QuotaTyped
<1> SUFFICES ASSUME Init PROVE QuotaTyped
  OBVIOUS
<1>1. SessionTyped
  BY DEF Init, SessionTyped
<1>2. lost \in [Sessions -> [Fields -> Nat]] /\ opened \in [Sessions -> SomeConfigs]
  BY DEF Init, SomeConfigs
<1> QED  BY <1>1, <1>2 DEF Init, QuotaTyped

(* Opening a session.                                                      *)
LEMMA OpenTyped ==
  ASSUME IInv, QuotaTyped, NEW s \in Sessions, NEW u \in Owners, InitUploadSession(s, u)
  PROVE  QuotaTyped'
<1>1. /\ Configs \in [DOMAIN Configs -> Config] /\ Configs \in SomeConfigs
      /\ u \in Users /\ TTL \in 1 .. TTL
  BY ConfigsTyped, SessionAssumption DEF Configs, SomeConfigs, IInv
<1>2. /\ session' = [session EXCEPT ![s] = NewSession(u)] /\ opened' = [opened EXCEPT ![s] = Configs]
      /\ UNCHANGED <<presign, url, lost, temp>>
  BY DEF InitUploadSession
<1>3. opened' \in [Sessions -> SomeConfigs] /\ opened'[s] = Configs
      /\ \A t \in Sessions \ {s} : opened'[t] = opened[t]
  BY <1>1, <1>2 DEF QuotaTyped
<1>4. NewSession(u) \in LiveSession(s)'
  BY <1>1, <1>3 DEF NewSession, LiveSession
<1>5. \A t \in Sessions \ {s} : LiveSession(t)' = LiveSession(t)
  BY <1>3 DEF LiveSession
<1>6. SessionTyped'
  BY <1>2, <1>4, <1>5 DEF QuotaTyped, SessionTyped
<1> QED  BY <1>2, <1>3, <1>6 DEF QuotaTyped

LEMMA TickTyped ==
  ASSUME QuotaTyped, NEW s \in Sessions, Tick(s)
  PROVE  QuotaTyped'
<1> DEFINE v == IF session[s].ttl = 1 THEN NoSession("gone")
                ELSE [session[s] EXCEPT !.ttl = session[s].ttl - 1]
<1>1. session[s] \in LiveSession(s)
  BY LiveTyped DEF Tick
<1>2. CASE session[s].ttl = 1
  BY <1>2, OneSession DEF Tick, QuotaTyped
<1>3. CASE session[s].ttl # 1
  <2>1. v \in LiveSession(s)
    BY <1>1, <1>3, SessionAssumption DEF LiveSession
  <2> HIDE DEF v
  <2>2. session' = [session EXCEPT ![s] = v]
    BY DEF Tick, v
  <2> QED  BY <2>1, <2>2, OneSession DEF Tick, QuotaTyped
<1> QED  BY <1>2, <1>3

LEMMA LostTyped ==
  ASSUME lost \in [Sessions -> [Fields -> Nat]], NEW s \in Sessions, NEW f \in Fields,
         lost' = [lost EXCEPT ![s][f] = @ + 1]
  PROVE  lost' \in [Sessions -> [Fields -> Nat]]
<1>1. lost[s] \in [Fields -> Nat]
  OBVIOUS
<1>2. [lost[s] EXCEPT ![f] = lost[s][f] + 1] \in [Fields -> Nat]
  BY <1>1
<1>3. lost' = [lost EXCEPT ![s] = [lost[s] EXCEPT ![f] = lost[s][f] + 1]]
  OBVIOUS
<1> QED  BY <1>2, <1>3

LEMMA QuotaStepTyped ==
  ASSUME QuotaTyped, NEW p \in Presigns, NEW s \in Sessions, NEW u \in Users, NEW f \in Fields,
         TryToGetFieldQuota(p, s, u, f)
  PROVE  QuotaTyped'
<1>1. /\ session' = [session EXCEPT ![s] = AfterScript(s, u, f)]
      /\ UNCHANGED <<url, opened, temp>>
  BY DEF TryToGetFieldQuota
<1>2. CASE Answer(s, u, f) # "OK"
  <2>1. AfterScript(s, u, f) = session[s]
    BY <1>2 DEF AfterScript
  <2>2. SessionTyped'
    BY <1>1, <2>1, OneSession DEF QuotaTyped, SessionTyped
  <2> QED  BY <1>1, <1>2, <2>2 DEF QuotaTyped, TryToGetFieldQuota
<1>3. CASE Answer(s, u, f) = "OK"
  <2> DEFINE v == AfterScript(s, u, f)
             a == [of |-> s, field |-> f, config |-> v.configs[f]]
  <2>1. v \in LiveSession(s) /\ v.configs[f] \in Config
    BY <1>3, Deducted
  <2> HIDE DEF v
  <2>2. SessionTyped'
    BY <1>1, <2>1, OneSession DEF QuotaTyped, v
  <2>3. a \in Asked
    BY <2>1 DEF Asked
  <2>4. session'[s] = v
    BY <1>1 DEF QuotaTyped, SessionTyped, v
  <2> HIDE DEF a
  <2>5. CASE presign' = [presign EXCEPT ![p] = a] /\ UNCHANGED lost
    BY <1>1, <2>2, <2>3, <2>5 DEF QuotaTyped
  <2>6. CASE lost' = [lost EXCEPT ![s][f] = @ + 1] /\ UNCHANGED presign
    <3>1. lost' \in [Sessions -> [Fields -> Nat]]
      BY <2>6, LostTyped DEF QuotaTyped
    <3> QED  BY <1>1, <2>2, <2>6, <3>1 DEF QuotaTyped
  <2>7. \/ presign' = [presign EXCEPT ![p] = a] /\ UNCHANGED lost
        \/ lost' = [lost EXCEPT ![s][f] = @ + 1] /\ UNCHANGED presign
    BY <1>3, <2>4 DEF TryToGetFieldQuota, a
  <2> QED  BY <2>5, <2>6, <2>7
<1> QED  BY <1>2, <1>3

(* A presign request ends with an address or with a unit lost.             *)
LEMMA PresignCases ==
  ASSUME QuotaTyped, NEW p \in Presigns, PresignedUploadUrl(p)
  PROVE  \E s \in Sessions, f \in Fields :
           /\ presign[p] # NoPresign /\ presign[p].of = s /\ presign[p].field = f
           /\ presign' = [presign EXCEPT ![p] = NoPresign]
           /\ UNCHANGED <<session, opened, temp, createVars>>
           /\ \/ \E x \in Files : /\ url[x] = NoUrl
                                  /\ url' = [url EXCEPT ![x] = [of |-> s, field |-> f]]
                                  /\ UNCHANGED lost
              \/ lost' = [lost EXCEPT ![s][f] = @ + 1] /\ UNCHANGED url
<1>1. presign[p] \in Asked
  BY DEF QuotaTyped, PresignedUploadUrl
<1>2. presign[p].of \in Sessions /\ presign[p].field \in Fields
  BY <1>1 DEF Asked
<1> QED  BY <1>2 DEF PresignedUploadUrl

LEMMA PresignTyped ==
  ASSUME QuotaTyped, NEW p \in Presigns, PresignedUploadUrl(p)
  PROVE  QuotaTyped'
<1>1. PICK s \in Sessions, f \in Fields :
        /\ presign' = [presign EXCEPT ![p] = NoPresign]
        /\ UNCHANGED <<session, opened, temp>>
        /\ \/ \E x \in Files : /\ url[x] = NoUrl
                               /\ url' = [url EXCEPT ![x] = [of |-> s, field |-> f]]
                               /\ UNCHANGED lost
           \/ lost' = [lost EXCEPT ![s][f] = @ + 1] /\ UNCHANGED url
  BY PresignCases
<1>2. presign' \in [Presigns -> {NoPresign} \cup Asked] /\ SessionTyped'
  BY <1>1 DEF QuotaTyped, SessionTyped, LiveSession
<1>3. CASE \E x \in Files : /\ url[x] = NoUrl
                            /\ url' = [url EXCEPT ![x] = [of |-> s, field |-> f]]
                            /\ UNCHANGED lost
  <2>1. PICK x \in Files : /\ url[x] = NoUrl
                           /\ url' = [url EXCEPT ![x] = [of |-> s, field |-> f]]
    BY <1>3
  <2>2. [of |-> s, field |-> f] \in Address
    BY DEF Address
  <2>3. url' \in [Files -> {NoUrl} \cup Address]
    BY <2>1, <2>2 DEF QuotaTyped
  <2>4. temp' \in SUBSET {y \in Files : url'[y] # NoUrl}
    BY <1>1, <2>1 DEF QuotaTyped
  <2> QED  BY <1>1, <1>2, <1>3, <2>3, <2>4 DEF QuotaTyped
<1>4. CASE lost' = [lost EXCEPT ![s][f] = @ + 1] /\ UNCHANGED url
  <2>1. lost' \in [Sessions -> [Fields -> Nat]]
    BY <1>4, LostTyped DEF QuotaTyped
  <2> QED  BY <1>1, <1>2, <1>4, <2>1 DEF QuotaTyped
<1> QED  BY <1>1, <1>3, <1>4

(* A create touches its own rows, and a session only to end it.            *)
LEMMA EndTyped ==
  ASSUME IInv, QuotaTyped, NEW r \in Records, DeleteUploadSession(r)
  PROVE  QuotaTyped' /\ (UNCHANGED session \/ \E s \in Sessions :
           Live(s) /\ session' = [session EXCEPT ![s] = NoSession("gone")])
<1>1. UNCHANGED <<presign, url, opened, lost, temp>>
  BY DEF DeleteUploadSession, sessionVars
<1>2. CASE UNCHANGED session
  BY <1>1, <1>2 DEF QuotaTyped, SessionTyped, LiveSession
<1>3. CASE ~UNCHANGED session
  <2> DEFINE s == create[r].of
  <2>1. session' = [session EXCEPT ![s] = IF Live(s) THEN NoSession("gone") ELSE session[s]]
    BY <1>3 DEF DeleteUploadSession
  <2>2. session = [t \in Sessions |-> session[t]]
    BY DEF QuotaTyped, SessionTyped
  <2>3. s \in Sessions /\ Live(s)
    BY <1>3, <2>1, <2>2
  <2> HIDE DEF s
  <2>4. session' = [session EXCEPT ![s] = NoSession("gone")]
    BY <2>1, <2>3
  <2>5. SessionTyped'
    BY <1>1, <2>3, <2>4, OneSession DEF QuotaTyped
  <2> QED  BY <1>1, <2>3, <2>4, <2>5 DEF QuotaTyped
<1> QED  BY <1>2, <1>3

quotaVars == <<session, presign, url, opened, lost, temp>>

(* The steps that leave sessions, quota and uploads alone.                 *)
LEMMA QuotaUntouched ==
  ASSUME NEW r \in Records,
         \/ \E s \in Sessions \cup {Nobody}, data \in Datas : ValidateInstance(r, s, data)
         \/ CreateStep(r) /\ ~DeleteUploadSession(r)
  PROVE  UNCHANGED quotaVars
BY DEF CreateStep, CreateArchiveRecord, CheckUploadSession, CreateFilesRecord, CommitCreate,
       RollbackCreate, ValidateInstance, sessionVars, quotaVars

LEMMA QuotaNext == IInv /\ QuotaTyped /\ [Next]_vars => QuotaTyped'
<1> SUFFICES ASSUME IInv, QuotaTyped, [Next]_vars PROVE QuotaTyped'
  OBVIOUS
<1>1. CASE UNCHANGED quotaVars
  BY <1>1 DEF quotaVars, QuotaTyped, SessionTyped, LiveSession
<1>2. CASE UpdateTemplate \/ UNCHANGED vars
  BY <1>1, <1>2 DEF UpdateTemplate, vars, quotaVars
<1>3. CASE \E s \in Sessions, u \in Owners : InitUploadSession(s, u)
  BY <1>3, OpenTyped
<1>4. CASE \E s \in Sessions : Tick(s)
  BY <1>4, TickTyped
<1>5. CASE \E p \in Presigns, s \in Sessions, u \in Users, f \in Fields :
             TryToGetFieldQuota(p, s, u, f)
  BY <1>5, QuotaStepTyped
<1>6. CASE \E p \in Presigns : PresignedUploadUrl(p)
  BY <1>6, PresignTyped
<1>7. CASE \E x \in Files : Upload(x)
  BY <1>7 DEF Upload, QuotaTyped, SessionTyped, LiveSession
<1>8. CASE \E r \in Records : CreateStep(r) \/ \E s \in Sessions \cup {Nobody}, data \in Datas :
             ValidateInstance(r, s, data)
  BY <1>1, <1>8, QuotaUntouched, EndTyped
<1> QED  BY <1>2, <1>3, <1>4, <1>5, <1>6, <1>7, <1>8 DEF Next

(* What a create does to the tables.                                       *)
LEMMA RowsNext == RowsTyped /\ [Next]_vars => RowsTyped'
<1> SUFFICES ASSUME RowsTyped, [Next]_vars PROVE RowsTyped'
  OBVIOUS
<1>0. /\ record \in [Records -> {"none", "open", "committed", "aborted"}]
      /\ fileRow \in [Files -> Records \cup {Unlinked}]
  BY DEF RowsTyped
<1>1. CASE UNCHANGED <<record, fileRow>>
  BY <1>0, <1>1 DEF RowsTyped
<1>2. ASSUME NEW r \in Records, CreateStep(r) PROVE RowsTyped'
  <2>1. CASE UNCHANGED fileRow
               /\ \E status \in {"open", "committed"} : SetRecord(r, status)
    BY <1>0, <2>1 DEF RowsTyped, SetRecord
  <2>2. CASE Abort(r)
    BY <1>0, <2>2 DEF RowsTyped, Abort, SetRecord, Unlink
  <2>3. CASE CreateFilesRecord(r)
    BY <1>0, <2>3 DEF RowsTyped, CreateFilesRecord
  <2>4. CASE CreateArchiveRecord(r)
    BY <1>1, <2>1, <2>4 DEF CreateArchiveRecord
  <2>5. CASE CommitCreate(r)
    BY <2>1, <2>2, <2>5 DEF CommitCreate
  <2>6. CASE RollbackCreate(r)
    BY <2>2, <2>6 DEF RollbackCreate
  <2>7. CASE CheckUploadSession(r) \/ DeleteUploadSession(r)
    BY <1>1, <2>7 DEF CheckUploadSession, DeleteUploadSession
  <2> QED  BY <1>2, <2>3, <2>4, <2>5, <2>6, <2>7 DEF CreateStep
<1>3. ~(\E r \in Records : CreateStep(r)) => UNCHANGED <<record, fileRow>>
  BY DEF Next, vars, createVars, UpdateTemplate, InitUploadSession, Tick, TryToGetFieldQuota,
         PresignedUploadUrl, Upload, ValidateInstance
<1> QED  BY <1>1, <1>2, <1>3

LEMMA TypedParts == Spec => [](IInv /\ QuotaTyped /\ RowsTyped)
<1>1. Init => RowsTyped
  BY DEF Init, RowsTyped
<1> QED  BY <1>1, InitIInv, NextIInv, QuotaInit, QuotaNext, RowsNext, PTL DEF Spec

(* Sessions, quotas, uploads, requests and rows stay within their types; in*)
(* particular no overlap of presign requests makes a quota negative.       *)
THEOREM SessionsTypeCorrect == Spec => []TypeOK
BY TypedParts, TypeParts, PTL

-----------------------------------------------------------------------------
(***************************************************************************)
(* Quota                                                                   *)
(***************************************************************************)
GivenTo(s, f) == {x \in Files : url[x] # NoUrl /\ url[x].of = s /\ url[x].field = f}
Asking(s, f)  == {p \in Presigns : presign[p] # NoPresign
                    /\ presign[p].of = s /\ presign[p].field = f}
Taken(s, f)   == Given(s, f) + UnderWay(s, f) + lost[s][f]

(* Nothing bounds the uploads or the requests of a session beforehand: that*)
(* each has finitely many is part of the invariant.                        *)
Counted == \A s \in Sessions, f \in Fields :
  IsFiniteSet(GivenTo(s, f)) /\ IsFiniteSet(Asking(s, f))

(* A session not yet opened has no quota; with QuotaConserved, nothing was *)
(* taken from it before it gets some.                                      *)
Unopened == \A s \in Sessions : session[s].state = "none" => opened[s] = NoConfigs

(* What a step does to one of the counts.                                  *)
Gives(x, s, f)   == url[x] = NoUrl /\ url' = [url EXCEPT ![x] = [of |-> s, field |-> f]]
Asks(p, s, f)    == presign[p] = NoPresign /\ \E c \in Config :
                      presign' = [presign EXCEPT ![p] = [of |-> s, field |-> f, config |-> c]]
Answers(p, s, f) == /\ presign[p] # NoPresign /\ presign[p].of = s /\ presign[p].field = f
                    /\ presign' = [presign EXCEPT ![p] = NoPresign]
Loses(s, f)      == lost' = [lost EXCEPT ![s][f] = @ + 1]

LEMMA CountsNat ==
  ASSUME Counted, QuotaTyped, NEW s \in Sessions, NEW f \in Fields
  PROVE  Given(s, f) \in Nat /\ UnderWay(s, f) \in Nat /\ lost[s][f] \in Nat
<1>1. Given(s, f) = Cardinality(GivenTo(s, f)) /\ UnderWay(s, f) = Cardinality(Asking(s, f))
  BY DEF Given, UnderWay, GivenTo, Asking
<1>2. lost[s][f] \in Nat
  BY DEF QuotaTyped
<1> QED  BY <1>1, <1>2, FS_CardinalityType DEF Counted

(* The counts of one session and field, before and after a step.           *)
LEMMA OneGiven ==
  ASSUME Counted, QuotaTyped, NEW s \in Sessions, NEW f \in Fields, NEW x \in Files,
         Gives(x, s, f),
         NEW t \in Sessions, NEW g \in Fields
  PROVE  /\ IsFiniteSet(GivenTo(t, g)')
         /\ Given(t, g)' = IF t = s /\ g = f THEN Given(t, g) + 1 ELSE Given(t, g)
<1> DEFINE a == [of |-> s, field |-> f]
<1>0. a # NoUrl /\ a.of = s /\ a.field = f
  BY SessionAssumption DEF NoUrl
<1> HIDE DEF a
<1>1. url[x] = NoUrl /\ url'[x] = a /\ \A y \in Files \ {x} : url'[y] = url[y]
  BY DEF QuotaTyped, Gives, a
<1>2. Given(t, g) = Cardinality(GivenTo(t, g)) /\ Given(t, g)' = Cardinality(GivenTo(t, g)')
  BY DEF Given, GivenTo
<1>3. IsFiniteSet(GivenTo(t, g)) /\ x \notin GivenTo(t, g)
  BY <1>1 DEF Counted, GivenTo
<1>4. CASE t = s /\ g = f
  <2>1. GivenTo(t, g)' = GivenTo(t, g) \cup {x}
    BY <1>0, <1>1, <1>4 DEF GivenTo
  <2> QED  BY <1>2, <1>3, <1>4, <2>1, FS_AddElement
<1>5. CASE ~(t = s /\ g = f)
  <2>1. GivenTo(t, g)' = GivenTo(t, g)
    BY <1>0, <1>1, <1>3, <1>5 DEF GivenTo
  <2> QED  BY <1>2, <1>3, <1>5, <2>1
<1> QED  BY <1>4, <1>5

LEMMA OneMoreAsking ==
  ASSUME Counted, QuotaTyped, NEW s \in Sessions, NEW f \in Fields, NEW p \in Presigns,
         Asks(p, s, f),
         NEW t \in Sessions, NEW g \in Fields
  PROVE  /\ IsFiniteSet(Asking(t, g)')
         /\ UnderWay(t, g)' = IF t = s /\ g = f THEN UnderWay(t, g) + 1 ELSE UnderWay(t, g)
<1>c. PICK c \in Config :
        presign' = [presign EXCEPT ![p] = [of |-> s, field |-> f, config |-> c]]
  BY DEF Asks
<1> DEFINE a == [of |-> s, field |-> f, config |-> c]
<1>0. a # NoPresign /\ a.of = s /\ a.field = f
  BY SessionAssumption DEF NoPresign
<1> HIDE DEF a
<1>1. presign'[p] = a /\ \A q \in Presigns \ {p} : presign'[q] = presign[q]
  BY <1>c DEF QuotaTyped, a
<1>2. /\ UnderWay(t, g) = Cardinality(Asking(t, g))
      /\ UnderWay(t, g)' = Cardinality(Asking(t, g)')
  BY DEF UnderWay, Asking
<1>3. IsFiniteSet(Asking(t, g)) /\ p \notin Asking(t, g)
  BY DEF Counted, Asking, Asks
<1>4. CASE t = s /\ g = f
  <2>1. Asking(t, g)' = Asking(t, g) \cup {p}
    BY <1>0, <1>1, <1>4 DEF Asking
  <2> QED  BY <1>2, <1>3, <1>4, <2>1, FS_AddElement
<1>5. CASE ~(t = s /\ g = f)
  <2>1. Asking(t, g)' = Asking(t, g)
    BY <1>0, <1>1, <1>3, <1>5 DEF Asking
  <2> QED  BY <1>2, <1>3, <1>5, <2>1
<1> QED  BY <1>4, <1>5

LEMMA OneLessAsking ==
  ASSUME Counted, QuotaTyped, NEW s \in Sessions, NEW f \in Fields, NEW p \in Presigns,
         Answers(p, s, f),
         NEW t \in Sessions, NEW g \in Fields
  PROVE  /\ IsFiniteSet(Asking(t, g)')
         /\ UnderWay(t, g)' = IF t = s /\ g = f THEN UnderWay(t, g) - 1 ELSE UnderWay(t, g)
<1>1. presign'[p] = NoPresign /\ \A q \in Presigns \ {p} : presign'[q] = presign[q]
  BY DEF QuotaTyped, Answers
<1>2. /\ UnderWay(t, g) = Cardinality(Asking(t, g))
      /\ UnderWay(t, g)' = Cardinality(Asking(t, g)')
  BY DEF UnderWay, Asking
<1>3. IsFiniteSet(Asking(t, g))
  BY DEF Counted
<1>4. CASE t = s /\ g = f
  <2>1. Asking(t, g)' = Asking(t, g) \ {p} /\ p \in Asking(t, g)
    BY <1>1, <1>4 DEF Asking, Answers
  <2> QED  BY <1>2, <1>3, <1>4, <2>1, FS_RemoveElement
<1>5. CASE ~(t = s /\ g = f)
  <2>1. Asking(t, g)' = Asking(t, g)
    BY <1>1, <1>5 DEF Asking, Answers
  <2> QED  BY <1>2, <1>3, <1>5, <2>1
<1> QED  BY <1>4, <1>5

LEMMA OneLost ==
  ASSUME QuotaTyped, NEW s \in Sessions, NEW f \in Fields,
         Loses(s, f), NEW t \in Sessions, NEW g \in Fields
  PROVE  lost'[t][g] = IF t = s /\ g = f THEN lost[t][g] + 1 ELSE lost[t][g]
BY DEF QuotaTyped, Loses

LEMMA CountsKept ==
  ASSUME Counted, NEW t \in Sessions, NEW g \in Fields
  PROVE  /\ UNCHANGED url => IsFiniteSet(GivenTo(t, g)') /\ Given(t, g)' = Given(t, g)
         /\ UNCHANGED presign => IsFiniteSet(Asking(t, g)') /\ UnderWay(t, g)' = UnderWay(t, g)
<1>1. IsFiniteSet(GivenTo(t, g)) /\ IsFiniteSet(Asking(t, g))
  BY DEF Counted
<1>2. UNCHANGED url => GivenTo(t, g)' = GivenTo(t, g) /\ Given(t, g)' = Given(t, g)
  BY DEF GivenTo, Given
<1>3. UNCHANGED presign => Asking(t, g)' = Asking(t, g) /\ UnderWay(t, g)' = UnderWay(t, g)
  BY DEF Asking, UnderWay
<1> QED  BY <1>1, <1>2, <1>3

-----------------------------------------------------------------------------
Balance(s, f) ==
  /\ f \notin DOMAIN opened[s] => Taken(s, f) = 0
  /\ f \in DOMAIN opened[s] => Taken(s, f) <= opened[s][f].quota
  /\ Live(s) /\ f \in DOMAIN opened[s] =>
       session[s].configs[f].quota + Taken(s, f) = opened[s][f].quota

QInv == IInv /\ QuotaTyped /\ Counted /\ Unopened /\ QuotaConserved

LEMMA BalanceAll == QuotaConserved <=> \A s \in Sessions, f \in Fields : Balance(s, f)
BY DEF QuotaConserved, Balance, Taken

LEMMA BalanceAllNext ==
  (\A s \in Sessions, f \in Fields : Balance(s, f)') => QuotaConserved'
BY DEF QuotaConserved, Balance, Taken

(* A step that takes nothing and leaves the quota of the sessions that go  *)
(* on living.                                                              *)
Lasting ==
  \A s \in Sessions : /\ session'[s].state = "none" => session[s].state = "none"
                      /\ Live(s)' => Live(s) /\ session'[s].configs = session[s].configs

LEMMA NothingTaken ==
  ASSUME QInv, UNCHANGED opened, Lasting, Counted',
         \A s \in Sessions, f \in Fields : Taken(s, f)' = Taken(s, f)
  PROVE  QuotaConserved' /\ Unopened'
<1>1. ASSUME NEW s \in Sessions, NEW f \in Fields PROVE Balance(s, f)'
  <2>1. Balance(s, f)
    BY BalanceAll DEF QInv
  <2>2. Taken(s, f)' = Taken(s, f) /\ opened'[s] = opened[s]
    OBVIOUS
  <2>3. Live(s)' => Live(s) /\ session'[s].configs = session[s].configs
    BY DEF Lasting
  <2> QED  BY <2>1, <2>2, <2>3 DEF Balance
<1>2. Unopened'
  BY DEF QInv, Unopened, Lasting
<1> QED  BY <1>1, <1>2, BalanceAllNext

LEMMA NothingCounted ==
  ASSUME QInv, UNCHANGED <<url, presign, lost, opened>>, Lasting
  PROVE  Counted' /\ QuotaConserved' /\ Unopened'
<1>1. Counted'
  BY CountsKept DEF QInv, Counted
<1>2. \A s \in Sessions, f \in Fields : Taken(s, f)' = Taken(s, f)
  BY CountsKept DEF QInv, Taken
<1> QED  BY <1>1, <1>2, NothingTaken

(* A new session starts with all of its quota: nothing was taken before.   *)
LEMMA OpenBalanced ==
  ASSUME QInv, NEW s \in Sessions, NEW u \in Owners, InitUploadSession(s, u)
  PROVE  Counted' /\ QuotaConserved' /\ Unopened'
<1>1. /\ session[s].state = "none" /\ UNCHANGED <<url, presign, lost>>
      /\ session' = [session EXCEPT ![s] = NewSession(u)]
      /\ opened' = [opened EXCEPT ![s] = Configs]
  BY DEF InitUploadSession
<1>2. Counted'
  BY <1>1, CountsKept DEF QInv, Counted
<1>3. \A t \in Sessions, f \in Fields : Taken(t, f)' = Taken(t, f)
  BY <1>1, CountsKept DEF QInv, Taken
<1>4. /\ session'[s] = NewSession(u) /\ opened'[s] = Configs
      /\ \A t \in Sessions \ {s} : session'[t] = session[t] /\ opened'[t] = opened[t]
  BY <1>1 DEF QInv, QuotaTyped, SessionTyped
<1>5. ASSUME NEW f \in Fields PROVE Balance(s, f)'
  <2>1. Taken(s, f)' = 0
    <3>1. opened[s] = NoConfigs
      BY <1>1 DEF QInv, Unopened
    <3>2. f \notin DOMAIN opened[s]
      BY <3>1 DEF NoConfigs
    <3>3. Taken(s, f) = 0
      BY <3>2, BalanceAll DEF QInv, Balance
    <3> QED  BY <1>3, <3>3
  <2>2. session'[s].configs = Configs
    BY <1>4 DEF NewSession
  <2>3. f \in DOMAIN Configs => Configs[f].quota \in Nat
    BY ConfigsTyped DEF Configs, Config, QInv, IInv
  <2> QED  BY <1>4, <2>1, <2>2, <2>3 DEF Balance
<1>6. ASSUME NEW t \in Sessions \ {s}, NEW f \in Fields PROVE Balance(t, f)'
  <2>1. Balance(t, f)
    BY BalanceAll DEF QInv
  <2> QED  BY <1>3, <1>4, <2>1 DEF Balance, Live
<1>7. Unopened'
  BY <1>4 DEF QInv, Unopened, NewSession
<1> QED  BY <1>2, <1>5, <1>6, <1>7, BalanceAllNext

(* The script takes one unit, and one presign request or a lost answer     *)
(* accounts for it.                                                        *)
LEMMA DeductBalanced ==
  ASSUME QInv, NEW p \in Presigns, NEW s \in Sessions, NEW u \in Users, NEW f \in Fields,
         TryToGetFieldQuota(p, s, u, f)
  PROVE  Counted' /\ QuotaConserved' /\ Unopened'
<1> DEFINE v == AfterScript(s, u, f)
<1>0. /\ session' = [session EXCEPT ![s] = v] /\ UNCHANGED <<url, opened>>
      /\ presign[p] = NoPresign
  BY DEF TryToGetFieldQuota
<1>1. session'[s] = v /\ \A t \in Sessions \ {s} : session'[t] = session[t]
  BY <1>0 DEF QInv, QuotaTyped, SessionTyped
<1>2. CASE Answer(s, u, f) # "OK"
  <2>1. v = session[s] /\ UNCHANGED <<presign, lost>>
    BY <1>2 DEF AfterScript, TryToGetFieldQuota
  <2>2. Lasting
    BY <1>1, <2>1 DEF Lasting, Live
  <2> QED  BY <1>0, <2>1, <2>2, NothingCounted
<1>3. CASE Answer(s, u, f) = "OK"
  <2>1. /\ Live(s) /\ f \in DOMAIN opened[s] /\ session[s].configs[f].quota \in Nat \ {0}
        /\ v \in LiveSession(s) /\ v.configs[f] \in Config
        /\ v.configs[f].quota = session[s].configs[f].quota - 1
        /\ \A g \in DOMAIN opened[s] \ {f} : v.configs[g] = session[s].configs[g]
    BY <1>3, Deducted DEF QInv
  <2> HIDE DEF v
  <2>2. \/ Asks(p, s, f) /\ UNCHANGED lost
        \/ Loses(s, f) /\ UNCHANGED presign
    <3>1. PICK c \in Config : c = session'[s].configs[f]
      BY <1>1, <2>1
    <3>2. \/ /\ presign' = [presign EXCEPT ![p] = [of |-> s, field |-> f, config |-> c]]
             /\ UNCHANGED lost
          \/ Loses(s, f) /\ UNCHANGED presign
      BY <1>3, <3>1 DEF TryToGetFieldQuota, Loses
    <3> QED  BY <1>0, <3>2 DEF Asks
  <2>3. ASSUME NEW t \in Sessions, NEW g \in Fields
        PROVE  /\ IsFiniteSet(GivenTo(t, g)') /\ IsFiniteSet(Asking(t, g)')
               /\ Taken(t, g) \in Nat
               /\ Taken(t, g)' = IF t = s /\ g = f THEN Taken(t, g) + 1 ELSE Taken(t, g)
    <3>1. Given(t, g) \in Nat /\ UnderWay(t, g) \in Nat /\ lost[t][g] \in Nat
      BY CountsNat DEF QInv
    <3>2. IsFiniteSet(GivenTo(t, g)') /\ Given(t, g)' = Given(t, g)
      BY <1>0, CountsKept DEF QInv
    <3>3. CASE Asks(p, s, f) /\ UNCHANGED lost
      <4>1. /\ IsFiniteSet(Asking(t, g)')
            /\ UnderWay(t, g)' = IF t = s /\ g = f THEN UnderWay(t, g) + 1 ELSE UnderWay(t, g)
        BY <3>3, OneMoreAsking DEF QInv
      <4> QED  BY <3>1, <3>2, <3>3, <4>1 DEF Taken
    <3>4. CASE Loses(s, f) /\ UNCHANGED presign
      <4>1. /\ IsFiniteSet(Asking(t, g)') /\ UnderWay(t, g)' = UnderWay(t, g)
            /\ lost'[t][g] = IF t = s /\ g = f THEN lost[t][g] + 1 ELSE lost[t][g]
        BY <3>4, CountsKept, OneLost DEF QInv
      <4> QED  BY <3>1, <3>2, <4>1 DEF Taken
    <3> QED  BY <2>2, <3>3, <3>4
  <2>4. Counted'
    BY <2>3 DEF Counted
  <2>5. ASSUME NEW t \in Sessions, NEW g \in Fields PROVE Balance(t, g)'
    <3>1. Balance(t, g) /\ opened'[t] = opened[t]
      BY <1>0, BalanceAll DEF QInv
    <3>2. CASE t = s /\ g = f
      <4>1. opened[s][f].quota \in Nat
        BY <2>1, OpenedTyped DEF QInv, Config
      <4>2. Taken(s, f) \in Nat /\ Taken(s, f)' = Taken(s, f) + 1
        BY <2>3, <3>2
      <4>3. session[s].configs[f].quota + Taken(s, f) = opened[s][f].quota
        BY <2>1, <3>1, <3>2 DEF Balance
      <4> QED  BY <1>1, <2>1, <3>1, <3>2, <4>1, <4>2, <4>3 DEF Balance
    <3>3. CASE t = s /\ g # f
      BY <1>1, <2>1, <2>3, <3>1, <3>3 DEF Balance
    <3>4. CASE t # s
      BY <1>1, <2>3, <3>1, <3>4 DEF Balance, Live
    <3> QED  BY <3>2, <3>3, <3>4
  <2>6. Unopened'
    <3>1. v.state = "live"
      BY <2>1 DEF LiveSession
    <3> QED  BY <1>0, <1>1, <3>1 DEF QInv, Unopened
  <2> QED  BY <2>4, <2>5, <2>6, BalanceAllNext
<1> QED  BY <1>2, <1>3

(* A presign request under way becomes an address or a unit lost.          *)
LEMMA PresignBalanced ==
  ASSUME QInv, NEW p \in Presigns, PresignedUploadUrl(p)
  PROVE  Counted' /\ QuotaConserved' /\ Unopened'
<1>1. PICK s \in Sessions, f \in Fields :
        /\ Answers(p, s, f) /\ UNCHANGED <<session, opened>>
        /\ \/ \E x \in Files : Gives(x, s, f) /\ UNCHANGED lost
           \/ Loses(s, f) /\ UNCHANGED url
  BY PresignCases DEF QInv, Answers, Gives, Loses
<1>2. ASSUME NEW t \in Sessions, NEW g \in Fields
      PROVE  /\ IsFiniteSet(GivenTo(t, g)') /\ IsFiniteSet(Asking(t, g)')
             /\ Taken(t, g)' = Taken(t, g)
  <2>1. Given(t, g) \in Nat /\ UnderWay(t, g) \in Nat /\ lost[t][g] \in Nat
    BY CountsNat DEF QInv
  <2>2. /\ IsFiniteSet(Asking(t, g)')
        /\ UnderWay(t, g)' = IF t = s /\ g = f THEN UnderWay(t, g) - 1 ELSE UnderWay(t, g)
    BY <1>1, OneLessAsking DEF QInv
  <2>3. CASE \E x \in Files : Gives(x, s, f) /\ UNCHANGED lost
    <3>1. /\ IsFiniteSet(GivenTo(t, g)')
          /\ Given(t, g)' = IF t = s /\ g = f THEN Given(t, g) + 1 ELSE Given(t, g)
      BY <2>3, OneGiven DEF QInv
    <3> QED  BY <2>1, <2>2, <2>3, <3>1 DEF Taken
  <2>4. CASE Loses(s, f) /\ UNCHANGED url
    <3>1. /\ IsFiniteSet(GivenTo(t, g)') /\ Given(t, g)' = Given(t, g)
          /\ lost'[t][g] = IF t = s /\ g = f THEN lost[t][g] + 1 ELSE lost[t][g]
      BY <2>4, CountsKept, OneLost DEF QInv
    <3> QED  BY <2>1, <2>2, <3>1 DEF Taken
  <2> QED  BY <1>1, <2>3, <2>4
<1>3. Counted'
  BY <1>2 DEF Counted
<1>4. Lasting
  BY <1>1 DEF Lasting, Live
<1> QED  BY <1>1, <1>2, <1>3, <1>4, NothingTaken

LEMMA TickLasting ==
  ASSUME QuotaTyped, NEW s \in Sessions, Tick(s)
  PROVE  Lasting
<1>1. session[s] \in LiveSession(s)
  BY LiveTyped DEF Tick
<1>2. session = [t \in Sessions |-> session[t]]
  BY DEF QuotaTyped, SessionTyped
<1>3. \/ session'[s] = NoSession("gone")
      \/ session'[s] = [session[s] EXCEPT !.ttl = session[s].ttl - 1]
  BY <1>2 DEF Tick
<1>4. \A t \in Sessions \ {s} : session'[t] = session[t]
  BY <1>2 DEF Tick
<1>5. CASE session'[s] = NoSession("gone")
  BY <1>4, <1>5 DEF Lasting, Live, NoSession
<1>6. CASE session'[s] = [session[s] EXCEPT !.ttl = session[s].ttl - 1]
  <2>1. session'[s].state = session[s].state /\ session'[s].configs = session[s].configs
    BY <1>1, <1>6 DEF LiveSession
  <2> QED  BY <1>4, <2>1 DEF Lasting, Live
<1> QED  BY <1>3, <1>5, <1>6

LEMMA QInvInit == Init => Counted /\ Unopened /\ QuotaConserved
<1> SUFFICES ASSUME Init PROVE Counted /\ Unopened /\ QuotaConserved
  OBVIOUS
<1>1. Unopened
  BY DEF Init, Unopened
<1>2. ASSUME NEW s \in Sessions, NEW f \in Fields
      PROVE  IsFiniteSet(GivenTo(s, f)) /\ IsFiniteSet(Asking(s, f)) /\ Balance(s, f)
  <2>1. GivenTo(s, f) = {} /\ Asking(s, f) = {} /\ lost[s][f] = 0
    BY DEF Init, GivenTo, Asking
  <2>2. Given(s, f) = Cardinality(GivenTo(s, f)) /\ UnderWay(s, f) = Cardinality(Asking(s, f))
    BY DEF Given, UnderWay, GivenTo, Asking
  <2>3. Taken(s, f) = 0
    BY <2>1, <2>2, FS_EmptySet DEF Taken
  <2>4. f \notin DOMAIN opened[s]
    BY DEF Init, NoConfigs
  <2> QED  BY <2>1, <2>3, <2>4, FS_EmptySet DEF Balance
<1>3. Counted
  BY <1>2 DEF Counted
<1> QED  BY <1>1, <1>2, <1>3, BalanceAll

LEMMA QInvNext == QInv /\ [Next]_vars => Counted' /\ Unopened' /\ QuotaConserved'
<1> SUFFICES ASSUME QInv, [Next]_vars PROVE Counted' /\ Unopened' /\ QuotaConserved'
  OBVIOUS
<1>1. CASE UNCHANGED <<session, presign, url, opened, lost>>
  <2>1. Lasting
    BY <1>1 DEF Lasting, Live
  <2> QED  BY <1>1, <2>1, NothingCounted
<1>2. CASE UpdateTemplate \/ UNCHANGED vars \/ \E x \in Files : Upload(x)
  BY <1>1, <1>2 DEF UpdateTemplate, vars, Upload
<1>3. CASE \E s \in Sessions, u \in Owners : InitUploadSession(s, u)
  BY <1>3, OpenBalanced
<1>4. CASE \E s \in Sessions : Tick(s)
  BY <1>4, TickLasting, NothingCounted DEF Tick, QInv
<1>5. CASE \E p \in Presigns, s \in Sessions, u \in Users, f \in Fields :
             TryToGetFieldQuota(p, s, u, f)
  BY <1>5, DeductBalanced
<1>6. CASE \E p \in Presigns : PresignedUploadUrl(p)
  BY <1>6, PresignBalanced
<1>7. ASSUME NEW r \in Records, DeleteUploadSession(r)
      PROVE  Counted' /\ Unopened' /\ QuotaConserved'
  <2>1. UNCHANGED <<presign, url, opened, lost>>
    BY <1>7 DEF DeleteUploadSession, sessionVars
  <2>2. CASE UNCHANGED session
    BY <1>1, <2>1, <2>2
  <2>3. CASE \E s \in Sessions : Live(s) /\ session' = [session EXCEPT ![s] = NoSession("gone")]
    <3>1. session = [t \in Sessions |-> session[t]]
      BY DEF QInv, QuotaTyped, SessionTyped
    <3>2. Lasting
      BY <2>3, <3>1 DEF Lasting, Live, NoSession
    <3> QED  BY <2>1, <3>2, NothingCounted
  <2> QED  BY <1>7, <2>2, <2>3, EndTyped DEF QInv
<1>8. CASE \E r \in Records : CreateStep(r) \/ \E s \in Sessions \cup {Nobody}, data \in Datas :
             ValidateInstance(r, s, data)
  BY <1>1, <1>7, <1>8, QuotaUntouched DEF quotaVars
<1> QED  BY <1>2, <1>3, <1>4, <1>5, <1>6, <1>8 DEF Next

(* The Lua script and the handlers around it neither lose count of a unit  *)
(* of quota nor give one twice, for any number of sessions and of presign  *)
(* requests that overlap: what is left in Redis, the addresses given, the  *)
(* requests under way and the units lost add up to the quota of the        *)
(* template at the time the session was opened.                            *)
THEOREM QuotaNeverDoubled == Spec => []QuotaConserved
<1>1. QInv <=> IInv /\ QuotaTyped /\ Counted /\ Unopened /\ QuotaConserved
  BY DEF QInv
<1> QED  BY <1>1, InitIInv, NextIInv, QuotaInit, QuotaNext, QInvInit, QInvNext, PTL DEF Spec

-----------------------------------------------------------------------------
(***************************************************************************)
(* The files of a record                                                   *)
(***************************************************************************)
(* Every id that the file fields store has its row and was uploaded in the *)
(* session; a record without files has no required field.                  *)
FilesStored(r) ==
  LET c == create[r]  cfg == FileConfigs(c.schema) IN
  IF HasFiles(cfg, c.of)
    THEN /\ Accepted(cfg, c.data)
         /\ \A x \in Stored(cfg, c.data) : fileRow[x] = r /\ url[x] # NoUrl /\ url[x].of = c.of
    ELSE ~NeedFile(cfg)

(* A create on its way to the commit has its files, and keeps them after.  *)
Linked(r) ==
  /\ create[r].pc \in {"session", "files"} =>
       HasFiles(FileConfigs(create[r].schema), create[r].of)
  /\ record[r] = "committed" => create[r].pc \in {"endSession", "done"}
  /\ create[r].pc = "commit" \/ record[r] = "committed" => FilesStored(r)

AllTyped == IInv /\ QuotaTyped /\ RowsTyped

LEMMA StoredFiles == \A cfg, data : Stored(cfg, data) \subseteq Files
BY StoredCollected, CollectedFiles

(* An address once given stays.                                            *)
LEMMA UrlKept ==
  ASSUME QuotaTyped, [Next]_vars, NEW x \in Files, url[x] # NoUrl
  PROVE  url'[x] = url[x]
<1>1. CASE UNCHANGED url
  BY <1>1
<1>2. CASE ~UNCHANGED url /\ \E p \in Presigns : PresignedUploadUrl(p)
  <2>1. PICK p \in Presigns : PresignedUploadUrl(p)
    BY <1>2
  <2>2. PICK s \in Sessions, f \in Fields, y \in Files : Gives(y, s, f)
    BY <1>2, <2>1, PresignCases DEF Gives
  <2> QED  BY <2>2 DEF Gives, QuotaTyped
<1>3. ~(\E p \in Presigns : PresignedUploadUrl(p)) => UNCHANGED url
  BY DEF Next, vars, sessionVars, UpdateTemplate, InitUploadSession, Tick, TryToGetFieldQuota,
         Upload, ValidateInstance, CreateStep, CreateArchiveRecord, CheckUploadSession,
         CreateFilesRecord, CommitCreate, DeleteUploadSession, RollbackCreate
<1> QED  BY <1>1, <1>2, <1>3

(* The record's own request unchanged but for its place, and no row of it  *)
(* gone: the files are still complete.                                     *)
LEMMA StoredKept ==
  ASSUME QuotaTyped, [Next]_vars, NEW r \in Records, FilesStored(r),
         create'[r].schema = create[r].schema, create'[r].data = create[r].data,
         create'[r].of = create[r].of,
         \A x \in Files : fileRow[x] = r => fileRow'[x] = r
  PROVE  FilesStored(r)'
<1> DEFINE c == create[r]
           cfg == FileConfigs(c.schema)
<1>1. FileConfigs(create'[r].schema) = cfg
  OBVIOUS
<1>2. CASE HasFiles(cfg, c.of)
  <2>1. Accepted(cfg, c.data) /\ \A x \in Stored(cfg, c.data) :
          fileRow[x] = r /\ url[x] # NoUrl /\ url[x].of = c.of
    BY <1>2 DEF FilesStored
  <2>2. \A x \in Stored(cfg, c.data) : fileRow'[x] = r /\ url'[x] # NoUrl /\ url'[x].of = c.of
    BY <2>1, StoredFiles, UrlKept
  <2> QED  BY <1>2, <2>1, <2>2 DEF FilesStored
<1>3. CASE ~HasFiles(cfg, c.of)
  BY <1>3 DEF FilesStored
<1> QED  BY <1>2, <1>3

(* No step of another request takes a row of this one.                     *)
LEMMA OthersKept ==
  ASSUME AllTyped, [Next]_vars, NEW r \in Records, NEW q \in Records, q # r, Linked(q),
         CreateStep(r)
           \/ \E s \in Sessions \cup {Nobody}, data \in Datas : ValidateInstance(r, s, data)
  PROVE  Linked(q)'
<1>0. /\ create = [t \in Records |-> create[t]] /\ record = [t \in Records |-> record[t]]
      /\ q # Unlinked
  BY SessionAssumption DEF AllTyped, IInv, RowsTyped, Unlinked
<1>1. create'[q] = create[q] /\ record'[q] = record[q]
  BY <1>0 DEF CreateStep, ValidateInstance, CreateArchiveRecord, CheckUploadSession,
        CreateFilesRecord, CommitCreate, DeleteUploadSession, RollbackCreate, Abort, Goto, SetRecord
<1>2. \A x \in Files : fileRow[x] = q => fileRow'[x] = q
  <2>1. CASE UNCHANGED fileRow
    BY <2>1
  <2>2. CASE Abort(r)
    BY <2>2 DEF Abort, Unlink
  <2>3. CASE CreateFilesRecord(r)
    BY <1>0, <2>3 DEF CreateFilesRecord
  <2> QED  BY <2>1, <2>2, <2>3 DEF CreateStep, ValidateInstance, CreateArchiveRecord,
             CheckUploadSession, CommitCreate, DeleteUploadSession, RollbackCreate
<1>3. FilesStored(q) => FilesStored(q)'
  BY <1>1, <1>2, StoredKept DEF AllTyped
<1> QED  BY <1>1, <1>3 DEF Linked

(* Nor does its own, on the way to the commit and after.                   *)
LEMMA OwnLinked ==
  ASSUME AllTyped, [Next]_vars, NEW r \in Records, Linked(r),
         CreateStep(r)
           \/ \E s \in Sessions \cup {Nobody}, data \in Datas : ValidateInstance(r, s, data)
  PROVE  Linked(r)'
<1> DEFINE c == create[r]
<1>0. /\ c \in CreateType /\ create \in [Records -> CreateType]
      /\ record \in [Records -> {"none", "open", "committed", "aborted"}]
      /\ fileRow \in [Files -> Records \cup {Unlinked}]
  BY DEF AllTyped, IInv, RowsTyped
<1>1. c.pc \notin {"endSession", "done"} => record[r] # "committed"
  BY DEF Linked
<1>2. ASSUME Abort(r) PROVE Linked(r)'
  <2>1. create'[r].pc = "done" /\ record'[r] = "aborted"
    BY <1>0, <1>2 DEF Abort, SetRecord, Ended, NoCreate
  <2> QED  BY <2>1 DEF Linked
<1>3. ASSUME NEW pc, Goto(r, pc)
      PROVE  /\ create'[r].pc = pc /\ create'[r].schema = c.schema
             /\ create'[r].data = c.data /\ create'[r].of = c.of
  BY <1>0, <1>3 DEF Goto, CreateType
<1>4. CASE \E s \in Sessions \cup {Nobody}, data \in Datas : ValidateInstance(r, s, data)
  <2>1. create'[r].pc = "valid" /\ record'[r] # "committed"
    <3>1. PICK s, data : ValidateInstance(r, s, data)
      BY <1>4
    <3>2. create'[r] = [[[c EXCEPT !.pc = "valid"] EXCEPT !.of = s] EXCEPT !.data = data]
      BY <1>0, <3>1 DEF ValidateInstance
    <3>3. record'[r] # "committed"
      BY <1>1, <3>1 DEF ValidateInstance
    <3> QED  BY <1>0, <3>2, <3>3 DEF CreateType
  <2> QED  BY <2>1 DEF Linked
<1>5. CASE CreateArchiveRecord(r)
  <2>1. CASE c.of = Nobody /\ NeedFile(Configs)
    <3>1. create'[r].pc = "done" /\ record'[r] # "committed"
      BY <1>0, <1>1, <1>5, <2>1 DEF CreateArchiveRecord, Ended, NoCreate
    <3> QED  BY <3>1 DEF Linked
  <2>2. CASE ~(c.of = Nobody /\ NeedFile(Configs))
    <3> DEFINE hasFiles == HasFiles(Configs, c.of)
    <3>1. /\ create'[r].pc = (IF hasFiles THEN "session" ELSE "commit")
          /\ create'[r].schema = template /\ create'[r].of = c.of
          /\ record'[r] = "open"
      BY <1>0, <1>5, <2>2 DEF CreateArchiveRecord, SetRecord, CreateType
    <3>2. hasFiles \/ ~NeedFile(Configs)
      BY <2>2 DEF HasFiles, NeedFile
    <3>3. FileConfigs(create'[r].schema) = Configs
      BY <3>1 DEF Configs
    <3>4. CASE hasFiles
      <4>1. create'[r].pc = "session" /\ HasFiles(FileConfigs(create'[r].schema), create'[r].of)
        BY <3>1, <3>3, <3>4
      <4> QED  BY <3>1, <4>1 DEF Linked
    <3>5. CASE ~hasFiles
      <4>1. create'[r].pc = "commit" /\ FilesStored(r)'
        BY <3>1, <3>2, <3>3, <3>5 DEF FilesStored
      <4> QED  BY <3>1, <4>1 DEF Linked
    <3> QED  BY <3>4, <3>5
  <2> QED  BY <2>1, <2>2
<1>6. CASE CheckUploadSession(r)
  <2>1. PICK pc \in {"files", "rollback"} : Goto(r, pc)
    BY <1>6 DEF CheckUploadSession
  <2>2. c.pc = "session" /\ record'[r] # "committed"
    BY <1>1, <1>6 DEF CheckUploadSession
  <2> QED  BY <1>3, <2>1, <2>2 DEF Linked
<1>7. CASE CreateFilesRecord(r)
  <2> DEFINE cfg == FileConfigs(c.schema)
             ids == Stored(cfg, c.data)
  <2>1. record'[r] # "committed" /\ HasFiles(cfg, c.of)
    BY <1>1, <1>7 DEF CreateFilesRecord, Linked
  <2>2. CASE create'[r].pc = "rollback"
    BY <2>1, <2>2 DEF Linked
  <2>3. CASE create'[r].pc # "rollback"
    <3>1. /\ Accepted(cfg, c.data) /\ ids \subseteq Uploaded(c.of)
          /\ fileRow' = [x \in Files |-> IF x \in ids THEN r ELSE fileRow[x]]
          /\ create' = [create EXCEPT ![r].pc = "commit", ![r].copied = ids]
      BY <1>0, <1>7, <2>3 DEF CreateFilesRecord, CreateType
    <3>2. /\ create'[r].pc = "commit" /\ create'[r].schema = c.schema
          /\ create'[r].data = c.data /\ create'[r].of = c.of
      BY <1>0, <3>1 DEF CreateType
    <3>3. UNCHANGED url
      BY <1>7 DEF CreateFilesRecord, sessionVars
    <3>4. \A x \in ids : url[x] # NoUrl /\ url[x].of = c.of /\ fileRow'[x] = r
      BY <3>1, StoredFiles DEF Uploaded, AllTyped, QuotaTyped
    <3>5. FilesStored(r)'
      BY <2>1, <3>1, <3>2, <3>3, <3>4 DEF FilesStored
    <3> QED  BY <2>1, <3>2, <3>5 DEF Linked
  <2> QED  BY <2>2, <2>3
<1>8. CASE CommitCreate(r) /\ ~Abort(r)
  <2>1. PICK pc \in {"done", "endSession"} : Goto(r, pc)
    BY <1>8 DEF CommitCreate
  <2>2. record'[r] = "committed" /\ UNCHANGED fileRow /\ FilesStored(r)
    BY <1>0, <1>8 DEF CommitCreate, SetRecord, Linked
  <2>3. FilesStored(r)'
    BY <1>3, <2>1, <2>2, StoredKept DEF AllTyped
  <2> QED  BY <1>3, <2>1, <2>2, <2>3 DEF Linked
<1>9. CASE DeleteUploadSession(r)
  <2>1. Goto(r, "done") /\ UNCHANGED <<record, fileRow>>
    BY <1>9 DEF DeleteUploadSession
  <2>2. FilesStored(r) => FilesStored(r)'
    BY <1>3, <2>1, StoredKept DEF AllTyped
  <2> QED  BY <1>3, <2>1, <2>2 DEF Linked
<1>10. CASE RollbackCreate(r)
  BY <1>2, <1>10 DEF RollbackCreate
<1> QED  BY <1>2, <1>4, <1>5, <1>6, <1>7, <1>8, <1>9, <1>10 DEF CreateStep

LEMMA LinkedNext ==
  AllTyped /\ (\A r \in Records : Linked(r)) /\ [Next]_vars => \A r \in Records : Linked(r)'
<1> SUFFICES ASSUME AllTyped, \A r \in Records : Linked(r), [Next]_vars, NEW q \in Records
             PROVE  Linked(q)'
  OBVIOUS
<1>1. CASE \E r \in Records : CreateStep(r) \/ \E s \in Sessions \cup {Nobody}, data \in Datas :
             ValidateInstance(r, s, data)
  BY <1>1, OthersKept, OwnLinked
<1>2. CASE UNCHANGED <<create, record, fileRow>>
  <2>1. FilesStored(q) => FilesStored(q)'
    BY <1>2, StoredKept DEF AllTyped
  <2> QED  BY <1>2, <2>1 DEF Linked
<1>3. ASSUME ~\E r \in Records : CreateStep(r) \/ \E s \in Sessions \cup {Nobody}, data \in Datas :
               ValidateInstance(r, s, data)
      PROVE  UNCHANGED <<create, record, fileRow>>
  BY <1>3 DEF Next, vars, createVars, UpdateTemplate, InitUploadSession, Tick, TryToGetFieldQuota,
       PresignedUploadUrl, Upload
<1> QED  BY <1>1, <1>2, <1>3

(* A file field whose data fit the schema is stored as a whole, unless it  *)
(* is an array of one.                                                     *)
LEMMA FittingStored ==
  ASSUME NEW schema, NEW data, Conforms(schema, data),
         NEW f \in DOMAIN FileConfigs(schema), ~ArrayOfOne(schema.props[f])
  PROVE  Parsed(data[f]) \subseteq Stored(FileConfigs(schema), data)
<1> DEFINE cfg == FileConfigs(schema)
           def == schema.props[f]
<1> SUFFICES ASSUME NEW x \in Parsed(data[f]) PROVE x \in Stored(cfg, data)
  OBVIOUS
<1>1. f \in Fields /\ IsFileField(def) /\ cfg[f].quota = QuotaOf(def)
  BY DEF FileConfigs
<1>2. data[f] # Missing
  BY DEF Missing, Value, Parsed, Range
<1>3. data[f].kind = def.type
  BY <1>1, <1>2 DEF Conforms, IsFileField, Absent
<1>4. data[f].kind = IF cfg[f].quota = 1 THEN "string" ELSE "array"
  BY <1>1, <1>3 DEF QuotaOf, IsFileField, ArrayOfOne
<1>5. x \in FieldIds(cfg[f], data[f])
  BY <1>4 DEF FieldIds
<1> QED  BY <1>5 DEF Stored

LEMMA LinkedComplete ==
  ASSUME AllTyped, \A r \in Records : Linked(r)
  PROVE  RecordFilesComplete
<1> SUFFICES ASSUME NEW r \in Records, record[r] = "committed"
             PROVE  LET c == create[r]  cfg == FileConfigs(c.schema)
                        rows == {x \in Files : fileRow[x] = r} IN
                    /\ \A f \in DOMAIN cfg : cfg[f].required =>
                         \E x \in Parsed(c.data[f]) : x \in rows /\ url[x].of = c.of
                    /\ HasFiles(cfg, c.of) /\ Conforms(c.schema, c.data) =>
                         \A f \in DOMAIN cfg :
                            \/ ArrayOfOne(c.schema.props[f])
                            \/ Parsed(c.data[f]) \cap Unresolved(cfg, c.data, rows) = {}
  BY DEF RecordFilesComplete
<1> DEFINE c == create[r]
           cfg == FileConfigs(c.schema)
           rows == {x \in Files : fileRow[x] = r}
<1>1. FilesStored(r)
  BY DEF Linked
<1>2. ASSUME NEW f \in DOMAIN cfg, cfg[f].required
      PROVE  \E x \in Parsed(c.data[f]) : x \in rows /\ url[x].of = c.of
  <2>1. HasFiles(cfg, c.of)
    BY <1>1, <1>2 DEF FilesStored, NeedFile
  <2>2. /\ Accepted(cfg, c.data)
        /\ \A x \in Stored(cfg, c.data) : fileRow[x] = r /\ url[x].of = c.of
    BY <1>1, <2>1 DEF FilesStored
  <2>3. FieldIds(cfg[f], c.data[f]) # {}
    BY <1>2, <2>2 DEF Accepted, FieldAccepted
  <2>4. PICK x : x \in FieldIds(cfg[f], c.data[f])
    BY <2>3
  <2>5. x \in Parsed(c.data[f]) /\ x \in Stored(cfg, c.data)
    BY <2>4 DEF FieldIds, Stored
  <2> QED  BY <2>2, <2>5, StoredFiles
<1>3. ASSUME HasFiles(cfg, c.of), Conforms(c.schema, c.data),
             NEW f \in DOMAIN cfg, ~ArrayOfOne(c.schema.props[f])
      PROVE  Parsed(c.data[f]) \cap Unresolved(cfg, c.data, rows) = {}
  <2>1. \A x \in Stored(cfg, c.data) : fileRow[x] = r
    BY <1>1, <1>3 DEF FilesStored
  <2>2. Parsed(c.data[f]) \subseteq Stored(cfg, c.data)
    BY <1>3, FittingStored
  <2> QED  BY <2>1, <2>2, StoredFiles DEF Unresolved
<1> QED  BY <1>2, <1>3

(* A record in the table has all of its files, however the template and the*)
(* session changed between the steps of its create: every required field   *)
(* has a row of sys_file for an upload of the session, and every id that   *)
(* data of the right shape names can be shown; nothing is assumed of the   *)
(* templates, whose schemas may be written by hand.  The ids in an array of*)
(* one are all that may lack their row.                                    *)
THEOREM CommittedFilesComplete == Spec => []RecordFilesComplete
<1> DEFINE LinkedAll == \A r \in Records : Linked(r)
<1>1. Init => LinkedAll
  BY DEF Init, Linked, NoCreate
<1>2. AllTyped /\ LinkedAll /\ [Next]_vars => LinkedAll'
  BY LinkedNext
<1>3. AllTyped /\ LinkedAll => RecordFilesComplete
  BY LinkedComplete
<1>4. AllTyped <=> IInv /\ QuotaTyped /\ RowsTyped
  BY DEF AllTyped
<1> HIDE DEF LinkedAll
<1> QED  BY <1>1, <1>2, <1>3, <1>4, TypedParts, PTL DEF Spec

-----------------------------------------------------------------------------
(***************************************************************************)
(* Definitions                                                             *)
(***************************************************************************)
(* Every set of numbers that has one has a least one.                      *)
LEMMA LeastNumber ==
  ASSUME NEW T \in SUBSET Nat, T # {}
  PROVE  \E m \in T : \A k \in T : m <= k
<1>1. PICK m \in T : \A k \in T : <<k, m>> \notin OpToRel(<, Nat)
  BY WFMin, NatLessThanWellFounded, Zenon
<1>2. \A k \in T : <<k, m>> \in Nat \X Nat /\ (k < m <=> <<k, m>>[1] < <<k, m>>[2])
  OBVIOUS
<1>3. \A k \in T : ~(k < m)
  BY <1>1, <1>2, Zenon DEF OpToRel
<1>4. \A k \in T : m <= k
  BY ONLY <1>3, T \in SUBSET Nat, m \in T
<1> QED  BY <1>4

(* What numbers hand on to their successors they all have.                 *)
LEMMA HandedOn ==
  ASSUME NEW S, 0 \in S, \A i \in Nat : i \in S => i + 1 \in S
  PROVE  Nat \subseteq S
<1> SUFFICES ASSUME Nat \ S # {} PROVE FALSE
  OBVIOUS
<1>1. PICK m \in Nat \ S : \A k \in Nat \ S : m <= k
  BY LeastNumber
<1>2. m - 1 \in Nat /\ m - 1 \in S
  BY <1>1
<1> QED  BY <1>1, <1>2

(* The schemas on the way from the first definition to the last.           *)
Chain(run, schema, defs, n) ==
  run = [i \in 0 .. n |-> IF i = 0 THEN schema ELSE IntoSchema(run[i - 1], defs[i])]

LEMMA ChainsExist ==
  ASSUME NEW schema, NEW defs
  PROVE  \A n \in Nat : \E run : Chain(run, schema, defs, n)
<1> DEFINE S == {n \in Nat : \E run : Chain(run, schema, defs, n)}
<1>1. 0 \in S
  <2> DEFINE run == [i \in 0 .. 0 |-> schema]
  <2>1. Chain(run, schema, defs, 0)
    BY DEF Chain
  <2> QED  BY <2>1
<1>2. ASSUME NEW n \in Nat, n \in S PROVE n + 1 \in S
  <2>1. PICK run : Chain(run, schema, defs, n)
    BY <1>2
  <2> DEFINE more == [i \in 0 .. n + 1 |-> IF i = n + 1 THEN IntoSchema(run[n], defs[n + 1]) ELSE run[i]]
  <2>2. ASSUME NEW i \in 0 .. n + 1
        PROVE  more[i] = IF i = 0 THEN schema ELSE IntoSchema(more[i - 1], defs[i])
    <3>1. CASE i = n + 1
      BY <3>1
    <3>2. CASE i \in 0 .. n
      BY <2>1, <3>2 DEF Chain
    <3> QED  BY <3>1, <3>2
  <2>3. Chain(more, schema, defs, n + 1)
    BY <2>2 DEF Chain
  <2> HIDE DEF more
  <2> QED  BY <2>3
<1> HIDE DEF S
<1>3. Nat \subseteq S
  BY <1>1, <1>2, HandedOn
<1> QED  BY <1>3 DEF S

LEMMA LastOfChain ==
  ASSUME NEW schema, NEW defs, Len(defs) \in Nat
  PROVE  \E run : Chain(run, schema, defs, Len(defs)) /\ WithFiles(schema, defs) = run[Len(defs)]
<1> DEFINE chosen == CHOOSE run : Chain(run, schema, defs, Len(defs))
<1>1. Chain(chosen, schema, defs, Len(defs))
  BY ChainsExist
<1>2. WithFiles(schema, defs) = chosen[Len(defs)]
  BY DEF WithFiles, Chain
<1> QED  BY <1>1, <1>2

(* The property says what the definition c of its field said.              *)
Says(def, c) ==
  /\ def.isFile /\ def.accept = c.allowed_types /\ def.max_size = c.max_size
  /\ c.quota = 1 => def.type = "string" /\ def.format
  /\ c.quota # 1 => def.type = "array" /\ def.maxItems = c.quota

(* into_schema writes what a definition says, whatever was there before.   *)
LEMMA FieldSays ==
  ASSUME NEW old, NEW c \in Config
  PROVE  Says(FieldDef(old, c), c)
<1>1. c.quota \in Nat
  BY DEF Config
<1>2. CASE c.quota = 1
  BY <1>2 DEF Says, FieldDef
<1>3. CASE c.quota # 1
  BY <1>3 DEF Says, FieldDef
<1> QED  BY <1>2, <1>3

(* After i definitions.                                                    *)
Upto(f, defs, i) == {j \in 1 .. i : defs[j].field = f}
Written(run, schema, defs, i) == \A f \in Fields :
  /\ DOMAIN run[i].props = Fields
  /\ Upto(f, defs, i) = {} => run[i].props[f] = schema.props[f]
  /\ Upto(f, defs, i) # {} =>
       \E last \in Upto(f, defs, i) : /\ \A j \in Upto(f, defs, i) : j <= last
                                      /\ Says(run[i].props[f], defs[last].config)
  /\ f \in run[i].required <=>
       f \in schema.required \/ \E j \in Upto(f, defs, i) : defs[j].config.required

LEMMA WrittenNext ==
  ASSUME NEW schema, NEW defs, NEW n \in Nat, NEW run, Chain(run, schema, defs, n),
         \A j \in 1 .. n : defs[j] \in Definition,
         NEW i \in 0 .. n - 1, Written(run, schema, defs, i)
  PROVE  Written(run, schema, defs, i + 1)
<1> DEFINE d == defs[i + 1]
<1>1. run[i + 1] = IntoSchema(run[i], d) /\ d \in Definition
  BY DEF Chain
<1>2. d.field \in Fields /\ d.config \in Config
  BY <1>1 DEF Definition
<1> SUFFICES ASSUME NEW f \in Fields
             PROVE  /\ DOMAIN run[i + 1].props = Fields
                    /\ Upto(f, defs, i + 1) = {} => run[i + 1].props[f] = schema.props[f]
                    /\ Upto(f, defs, i + 1) # {} =>
                         \E last \in Upto(f, defs, i + 1) :
                            /\ \A j \in Upto(f, defs, i + 1) : j <= last
                            /\ Says(run[i + 1].props[f], defs[last].config)
                    /\ f \in run[i + 1].required <=>
                         f \in schema.required \/ \E j \in Upto(f, defs, i + 1) : defs[j].config.required
  BY DEF Written
<1>3. Upto(f, defs, i + 1) = Upto(f, defs, i) \cup (IF d.field = f THEN {i + 1} ELSE {})
  BY DEF Upto
<1>4. /\ run[i + 1].props = [run[i].props EXCEPT ![d.field] = FieldDef(@, d.config)]
      /\ run[i + 1].required = run[i].required \cup (IF d.config.required THEN {d.field} ELSE {})
  BY <1>1 DEF IntoSchema
<1>5. DOMAIN run[i + 1].props = Fields
  BY <1>4 DEF Written
<1>6. CASE d.field = f
  <2>1. run[i + 1].props[f] = FieldDef(run[i].props[f], d.config)
    BY <1>4, <1>6 DEF Written
  <2>2. Says(run[i + 1].props[f], d.config)
    BY <1>2, <2>1, FieldSays
  <2>3. i + 1 \in Upto(f, defs, i + 1) /\ \A j \in Upto(f, defs, i + 1) : j <= i + 1
    BY <1>3, <1>6 DEF Upto
  <2>4. f \in run[i + 1].required <=> f \in run[i].required \/ d.config.required
    BY <1>4, <1>6
  <2> QED  BY <1>3, <1>5, <1>6, <2>2, <2>3, <2>4 DEF Written
<1>7. CASE d.field # f
  <2>1. run[i + 1].props[f] = run[i].props[f] /\ (f \in run[i + 1].required <=> f \in run[i].required)
    BY <1>2, <1>4, <1>7 DEF Written
  <2>2. Upto(f, defs, i + 1) = Upto(f, defs, i)
    BY <1>3, <1>7
  <2> QED  BY <1>5, <2>1, <2>2 DEF Written
<1> QED  BY <1>6, <1>7

LEMMA WrittenAll ==
  ASSUME NEW schema, NEW defs, NEW n \in Nat, NEW run, Chain(run, schema, defs, n),
         \A j \in 1 .. n : defs[j] \in Definition, DOMAIN schema.props = Fields
  PROVE  Written(run, schema, defs, n)
<1> DEFINE S == {i \in Nat : i <= n => Written(run, schema, defs, i)}
<1>1. 0 \in S
  <2>1. run[0] = schema
    BY DEF Chain
  <2>2. \A f \in Fields : Upto(f, defs, 0) = {}
    BY DEF Upto
  <2> QED  BY <2>1, <2>2 DEF Written
<1>2. ASSUME NEW i \in Nat, i \in S PROVE i + 1 \in S
  BY <1>2, WrittenNext
<1> HIDE DEF S
<1>3. Nat \subseteq S
  BY <1>1, <1>2, HandedOn
<1> QED  BY <1>3 DEF S

LEMMA ReadsBack ==
  ASSUME NEW schema, schema.props \in [Fields -> Property],
         NEW defs \in Seq(Definition)
  PROVE  ReadBack(schema, defs)
<1> DEFINE n == Len(defs)
<1>1. n \in Nat /\ DOMAIN defs = 1 .. n /\ \A j \in 1 .. n : defs[j] \in Definition
  OBVIOUS
<1>2. PICK run : Chain(run, schema, defs, n) /\ WithFiles(schema, defs) = run[n]
  BY <1>1, LastOfChain
<1> DEFINE full == run[n]
<1>3. Written(run, schema, defs, n)
  BY <1>1, <1>2, WrittenAll
<1> HIDE DEF n
<1>4. \A f \in Fields : DefinitionsOf(f, defs) = Upto(f, defs, n)
  BY <1>1 DEF DefinitionsOf, Upto
<1>5. ASSUME NEW f \in Fields, DefinitionsOf(f, defs) = {}
      PROVE  full.props[f] = schema.props[f] /\ (f \in full.required <=> f \in schema.required)
  BY <1>3, <1>4, <1>5 DEF Written
<1>6. ASSUME NEW f \in Fields, DefinitionsOf(f, defs) # {}
      PROVE  LET c == defs[Max(DefinitionsOf(f, defs))].config IN
             /\ c \in Config
             /\ Says(full.props[f], c)
             /\ f \in full.required <=> f \in schema.required
                  \/ \E i \in DefinitionsOf(f, defs) : defs[i].config.required
  <2> DEFINE D == DefinitionsOf(f, defs)
  <2>1. PICK last \in D : (\A j \in D : j <= last) /\ Says(full.props[f], defs[last].config)
    BY <1>3, <1>4, <1>6 DEF Written
  <2>2. D \subseteq 1 .. n
    BY <1>1 DEF DefinitionsOf
  <2>3. last = Max(D)
    BY <2>1, <2>2, <1>1 DEF Max
  <2>4. defs[last].config \in Config
    BY <1>1, <2>1, <2>2 DEF Definition
  <2>5. f \in full.required <=> f \in schema.required \/ \E i \in D : defs[i].config.required
    BY <1>3, <1>4 DEF Written
  <2> QED  BY <2>1, <2>3, <2>4, <2>5
<1>7. ASSUME NEW def, NEW c \in Config, Says(def, c)
      PROVE  /\ IsFileField(def) /\ def.accept = c.allowed_types
             /\ QuotaOf(def) = c.quota /\ def.max_size = c.max_size
  BY <1>7 DEF Says, IsFileField, QuotaOf, Config
<1> DEFINE old  == FileConfigs(schema)
           got  == FileConfigs(full)
           want == Meant(schema, defs)
<1>8. /\ DOMAIN old = {g \in Fields : IsFileField(schema.props[g])}
      /\ DOMAIN got = {g \in Fields : IsFileField(full.props[g])}
      /\ DOMAIN want = DOMAIN old \cup {g \in Fields : DefinitionsOf(g, defs) # {}}
  BY DEF FileConfigs, Meant
<1>9. DOMAIN got = DOMAIN want
  <2> HIDE DEF got, want, full, old
  <2>1. ASSUME NEW f \in Fields PROVE f \in DOMAIN got <=> f \in DOMAIN want
    <3>1. CASE DefinitionsOf(f, defs) = {}
      BY <1>5, <1>8, <3>1
    <3>2. CASE DefinitionsOf(f, defs) # {}
      BY <1>6, <1>7, <1>8, <3>2
    <3> QED  BY <3>1, <3>2
  <2> QED  BY <1>8, <2>1
<1>10. ASSUME NEW f \in DOMAIN got PROVE got[f] = want[f]
  <2>1. f \in Fields /\ f \in DOMAIN want
    BY <1>8, <1>9
  <2>2. got[f] = [allowed_types |-> full.props[f].accept, quota |-> QuotaOf(full.props[f]),
                  max_size |-> full.props[f].max_size, required |-> f \in full.required]
    BY <1>8 DEF FileConfigs
  <2>3. CASE DefinitionsOf(f, defs) = {}
    <3>1. want[f] = old[f] /\ f \in DOMAIN old
      BY <1>8, <2>1, <2>3 DEF Meant
    <3>2. old[f] = [allowed_types |-> schema.props[f].accept, quota |-> QuotaOf(schema.props[f]),
                  max_size |-> schema.props[f].max_size, required |-> f \in schema.required]
      BY <1>8, <3>1 DEF FileConfigs
    <3> HIDE DEF got, want, full, old
    <3> QED  BY <1>5, <2>1, <2>2, <2>3, <3>1, <3>2
  <2>4. CASE DefinitionsOf(f, defs) # {}
    <3> DEFINE c == defs[Max(DefinitionsOf(f, defs))].config
    <3>1. want[f] = [c EXCEPT !.required = f \in schema.required
                       \/ \E i \in DefinitionsOf(f, defs) : defs[i].config.required]
      BY <1>8, <2>1, <2>4 DEF Meant, Defined
    <3>2. c \in Config /\ Says(full.props[f], c)
      BY <1>6, <2>1, <2>4
    <3>3. f \in full.required <=> f \in schema.required
                  \/ \E i \in DefinitionsOf(f, defs) : defs[i].config.required
      BY <1>6, <2>1, <2>4
    <3>4. full.props[f].accept = c.allowed_types /\ QuotaOf(full.props[f]) = c.quota
            /\ full.props[f].max_size = c.max_size
      BY <1>7, <3>2
    <3> HIDE DEF got, want, full, old, c
    <3>5. want[f] = [allowed_types |-> c.allowed_types, quota |-> c.quota,
                     max_size |-> c.max_size, required |-> f \in full.required]
      BY <3>1, <3>2, <3>3 DEF Config
    <3> QED  BY <2>2, <3>4, <3>5
  <2> QED  BY <2>3, <2>4
<1>11. got = [f \in DOMAIN got |-> got[f]] /\ want = [f \in DOMAIN want |-> want[f]]
  BY DEF FileConfigs, Meant
<1>12. got = want
  <2> HIDE DEF got, want
  <2> QED  BY <1>9, <1>10, <1>11
<1> QED  BY <1>2, <1>12 DEF ReadBack

(* Whatever list of file fields an administrator sends, with whatever      *)
(* schema, try_from_schema reads back from the template what into_schema   *)
(* wrote: for lists of any length, with fields defined again, required by  *)
(* one definition only, or already there with another type or quota.       *)
THEOREM DefinitionsKept == Spec => []DefinitionsReadBack
<1>1. AllReadBack
  BY FieldsAssumption, ReadsBack DEF AllReadBack
<1>2. IInv => template \in Schemas
  BY SessionAssumption DEF IInv
<1>3. IInv => DefinitionsReadBack
  BY <1>1, <1>2 DEF DefinitionsReadBack
<1> QED  BY <1>3, TypedParts, PTL

-----------------------------------------------------------------------------
(***************************************************************************)
(* The life of a session                                                   *)
(***************************************************************************)
(* Only these steps write the key of a session, and each winds it down.    *)
WindsDown(s) ==
  session[s].state # "none" /\ session'[s] # session[s] =>
    LET old == session[s]  new == session'[s] IN
    /\ old.state = "live"
    /\ \/ new = NoSession("gone")
       \/ /\ new.owner = old.owner /\ DOMAIN new.configs = DOMAIN old.configs
          /\ \A f \in DOMAIN old.configs : new.configs[f].quota <= old.configs[f].quota
          /\ \/ \E f \in DOMAIN old.configs : new.configs[f].quota < old.configs[f].quota
             \/ new.ttl < old.ttl

LEMMA OthersUnwound ==
  ASSUME QuotaTyped, NEW s \in Sessions, NEW v, session' = [session EXCEPT ![s] = v],
         NEW t \in Sessions, t # s
  PROVE  WindsDown(t)
BY DEF WindsDown, QuotaTyped, SessionTyped

LEMMA TickWinds ==
  ASSUME QuotaTyped, NEW s \in Sessions, Tick(s)
  PROVE  WindsDown(s)
<1>1. session[s] \in LiveSession(s)
  BY LiveTyped DEF Tick
<1>2. CASE session[s].ttl = 1
  <2>1. session'[s] = NoSession("gone")
    BY <1>2 DEF Tick, QuotaTyped, SessionTyped
  <2> QED  BY <2>1 DEF WindsDown, Tick, Live
<1>3. CASE session[s].ttl # 1
  <2>1. session'[s] = [session[s] EXCEPT !.ttl = session[s].ttl - 1]
    BY <1>3 DEF Tick, QuotaTyped, SessionTyped
  <2>2. /\ session'[s].owner = session[s].owner /\ session'[s].configs = session[s].configs
        /\ session'[s].ttl < session[s].ttl
    BY <1>1, <2>1 DEF LiveSession
  <2>3. \A f \in DOMAIN session[s].configs : session[s].configs[f].quota <= session[s].configs[f].quota
    BY <1>1 DEF LiveSession, Config
  <2> QED  BY <2>2, <2>3 DEF WindsDown, Tick, Live
<1> QED  BY <1>2, <1>3

LEMMA ScriptWinds ==
  ASSUME QuotaTyped, NEW s \in Sessions, NEW u, NEW f \in Fields,
         session' = [session EXCEPT ![s] = AfterScript(s, u, f)]
  PROVE  WindsDown(s)
<1>1. session'[s] = AfterScript(s, u, f)
  BY DEF QuotaTyped, SessionTyped
<1>2. CASE Answer(s, u, f) # "OK"
  BY <1>1, <1>2 DEF WindsDown, AfterScript
<1>3. CASE Answer(s, u, f) = "OK"
  <2>1. /\ Live(s) /\ f \in DOMAIN opened[s] /\ session[s].configs[f].quota \in Nat \ {0}
        /\ session'[s] \in LiveSession(s)
        /\ session'[s].configs[f].quota = session[s].configs[f].quota - 1
        /\ \A g \in DOMAIN opened[s] \ {f} : session'[s].configs[g] = session[s].configs[g]
    BY <1>1, <1>3, Deducted
  <2>2. session[s] \in LiveSession(s)
    BY <2>1, LiveTyped
  <2>3. DOMAIN session'[s].configs = DOMAIN opened[s] /\ DOMAIN session[s].configs = DOMAIN opened[s]
    BY <2>1, <2>2 DEF LiveSession
  <2>4. session'[s].owner = session[s].owner
    BY <1>1, <1>3, <2>2 DEF AfterScript, LiveSession
  <2>5. \A g \in DOMAIN opened[s] : session[s].configs[g].quota \in Nat
    BY <2>2 DEF LiveSession, Config
  <2>6. \A g \in DOMAIN opened[s] : session'[s].configs[g].quota <= session[s].configs[g].quota
    BY <2>1, <2>5
  <2>7. session'[s].configs[f].quota < session[s].configs[f].quota
    BY <2>1
  <2> QED  BY <2>1, <2>3, <2>4, <2>6, <2>7 DEF WindsDown, Live
<1> QED  BY <1>2, <1>3

(* A session that was opened only winds down, whatever its owner and others*)
(* ask for, however many at once: it never comes back after its end, gets  *)
(* no quota back and lives longer only for a unit of quota.  With a finite *)
(* number of fields this is the well-founded order behind SessionEnds.     *)
THEOREM SessionsWindDown == Spec => SessionWindsDown
<1>1. IInv /\ QuotaTyped /\ RowsTyped /\ [Next]_vars
        => [\A s \in Sessions : WindsDown(s)]_vars
  <2> SUFFICES ASSUME QuotaTyped, [Next]_vars, NEW t \in Sessions PROVE WindsDown(t)
    OBVIOUS
  <2>1. CASE UNCHANGED session
    BY <2>1 DEF WindsDown
  <2>2. ASSUME NEW s \in Sessions, NEW u \in Owners, InitUploadSession(s, u) PROVE WindsDown(t)
    BY <2>2, OthersUnwound DEF InitUploadSession, WindsDown
  <2>3. ASSUME NEW s \in Sessions, Tick(s) PROVE WindsDown(t)
    <3>1. CASE t = s
      BY <2>3, <3>1, TickWinds
    <3>2. CASE t # s
      BY <2>3, <3>2, OthersUnwound DEF Tick
    <3> QED  BY <3>1, <3>2
  <2>4. ASSUME NEW p \in Presigns, NEW s \in Sessions, NEW u \in Users, NEW f \in Fields,
               TryToGetFieldQuota(p, s, u, f)
        PROVE  WindsDown(t)
    <3>0. session' = [session EXCEPT ![s] = AfterScript(s, u, f)]
      BY <2>4 DEF TryToGetFieldQuota
    <3>1. CASE t = s
      BY <3>0, <3>1, ScriptWinds
    <3>2. CASE t # s
      BY <3>0, <3>2, OthersUnwound
    <3> QED  BY <3>1, <3>2
  <2>5. ASSUME NEW r \in Records, DeleteUploadSession(r) PROVE WindsDown(t)
    <3>1. session'[t] = session[t] \/ (Live(t) /\ session'[t] = NoSession("gone"))
      BY <2>5 DEF DeleteUploadSession, QuotaTyped, SessionTyped
    <3> QED  BY <3>1 DEF WindsDown, Live
  <2>6. CASE \/ UpdateTemplate \/ \E p \in Presigns : PresignedUploadUrl(p)
             \/ \E x \in Files : Upload(x)
             \/ \E r \in Records, s \in Sessions \cup {Nobody}, data \in Datas :
                  ValidateInstance(r, s, data)
    BY <2>1, <2>6 DEF UpdateTemplate, PresignedUploadUrl, Upload, ValidateInstance
  <2>7. ASSUME NEW r \in Records, CreateStep(r) PROVE WindsDown(t)
    BY <2>1, <2>5, <2>7 DEF CreateStep, CreateArchiveRecord, CheckUploadSession,
       CreateFilesRecord, CommitCreate, RollbackCreate
  <2>8. CASE UNCHANGED vars
    BY <2>1, <2>8 DEF vars
  <2> QED  BY <2>2, <2>3, <2>4, <2>6, <2>7, <2>8 DEF Next
<1> QED  BY <1>1, TypedParts, PTL DEF Spec, SessionWindsDown, WindsDown

=============================================================================
