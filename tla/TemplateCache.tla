---------------------------- MODULE TemplateCache ----------------------------
(***************************************************************************)
(* One template: its row in sys_template, the records that refer to it, and*)
(* in every process the cached schema context that incoming records are    *)
(* validated with (src/modules/admin/template, get_or_load_template_context*)
(* and the checks of create_archive_record_handler in src/modules/archive, *)
(* src/utils/schema.rs).                                                   *)
(*                                                                         *)
(* A schema is abstracted to its version.  One step is one SQL statement or*)
(* one operation on the cache.                                             *)
(***************************************************************************)
EXTENDS Naturals, FiniteSets

CONSTANTS
  Nodes,       \* server processes
  Creators,    \* create requests, each with a record of its own
  Admins,      \* requests that update, delete or toggle the template
  MaxVersion   \* bound: versions of the schema

ASSUME TemplateAssumption ==
  /\ Nodes # {}
  /\ MaxVersion \in Nat \ {0}

VARIABLES
  template,  \* the row of sys_template
  schema,    \* its schema_def
  cache,     \* cached context of each process; 0 when there is none
  record,    \* the version each record was validated with
  create,    \* create requests
  admin      \* admin requests

vars == <<template, schema, cache, record, create, admin>>

-----------------------------------------------------------------------------
Versions == 1 .. MaxVersion
None     == 0

NoCreate(n) == [pc |-> "idle", node |-> n, got |-> None, seen |-> None]
NoAdmin(n)  == [pc |-> "idle", node |-> n, op |-> "update"]
NoRecord == [status |-> "none", version |-> None]
Present  == template # "deleted"

(* Every variable stays within its type, and a request that has passed     *)
(* validation was validated with a version that existed.                   *)
TypeOK ==
  /\ template \in {"enabled", "disabled", "deleted"}
  /\ schema \in Versions
  /\ cache \in [Nodes -> Versions \cup {None}]
  /\ record \in [Creators -> [status : {"none", "open", "committed", "deleted"},
                              version : Versions \cup {None}]]
  /\ create \in [Creators -> [pc : {"idle", "enabled", "lookup", "load", "cache",
                                    "insert", "commit", "done"},
                              node : Nodes,
                              got : Versions \cup {None},
                              seen : Versions \cup {None}]]
  /\ admin \in [Admins -> [pc : {"idle", "check", "apply", "clear"},
                           node : Nodes, op : {"update", "delete"}]]
  /\ \A c \in Creators :
       create[c].pc \in {"insert", "commit"} => create[c].seen \in Versions

Quiet == /\ \A c \in Creators : create[c].pc \in {"idle", "done"}
         /\ \A a \in Admins : admin[a].pc = "idle"

Init ==
  /\ template = "enabled"
  /\ schema = 1
  /\ cache = [n \in Nodes |-> None]
  /\ record = [c \in Creators |-> NoRecord]
  /\ \E n \in Nodes :
       /\ create = [c \in Creators |-> NoCreate(n)]
       /\ admin = [a \in Admins |-> NoAdmin(n)]

-----------------------------------------------------------------------------
(***************************************************************************)
(* create_archive_record_handler                                           *)
(***************************************************************************)
SetCreate(c, pc, got, seen) ==
  create' = [create EXCEPT ![c] = [pc |-> pc, node |-> create[c].node,
                                   got |-> got, seen |-> seen]]

CreateBegin(c, n) ==
  /\ create[c].pc = "idle"
  /\ create' = [create EXCEPT ![c] = [pc |-> "enabled", node |-> n,
                                      got |-> None, seen |-> None]]
  /\ UNCHANGED <<template, schema, cache, record, admin>>

CheckTemplateIsEnabled(c) ==
  /\ create[c].pc = "enabled"
  /\ SetCreate(c, IF template = "enabled" THEN "lookup" ELSE "done", None, None)
  /\ UNCHANGED <<template, schema, cache, record, admin>>

(* Mutant: the instance is not validated.                                  *)
UseContextUnvalidated(c, v) == SetCreate(c, "insert", None, create[c].seen)

(* get_or_load_template_context is called twice.  The first context, v,    *)
(* validates the instance, which may be rejected; the second only says     *)
(* which fields are files.                                                 *)
UseContext(c, v) ==
  \/ create[c].seen = None /\ SetCreate(c, "lookup", None, v)
  \/ create[c].seen = None /\ SetCreate(c, "done", None, None)
  \/ create[c].seen # None /\ SetCreate(c, "insert", None, create[c].seen)

Lookup(c) ==
  LET v == cache[create[c].node] IN
  /\ create[c].pc = "lookup"
  /\ \/ v = None /\ SetCreate(c, "load", None, create[c].seen)
     \/ v # None /\ UseContext(c, v)
  /\ UNCHANGED <<template, schema, cache, record, admin>>

FromDatabase(c) ==
  /\ create[c].pc = "load"
  /\ IF Present THEN SetCreate(c, "cache", schema, create[c].seen)
                ELSE SetCreate(c, "done", None, create[c].seen)
  /\ UNCHANGED <<template, schema, cache, record, admin>>

(* schema_cache.insert, with what was read before the await.               *)
InsertIntoCache(c) ==
  /\ create[c].pc = "cache"
  /\ cache' = [cache EXCEPT ![create[c].node] = create[c].got]
  /\ UseContext(c, create[c].got)
  /\ UNCHANGED <<template, schema, record, admin>>

(* INSERT INTO archive_record: the foreign key must be there.              *)
InsertRecord(c) ==
  /\ create[c].pc = "insert"
  /\ IF Present
       THEN /\ record' = [record EXCEPT ![c] = [status |-> "open",
                                               version |-> create[c].seen]]
            /\ SetCreate(c, "commit", None, create[c].seen)
       ELSE /\ SetCreate(c, "done", None, create[c].seen)
            /\ UNCHANGED record
  /\ UNCHANGED <<template, schema, cache, admin>>

(* The transaction ends, either way.                                       *)
EndCreate(c) ==
  /\ create[c].pc = "commit"
  /\ \/ record' = [record EXCEPT ![c] = [status |-> "committed",
                                         version |-> create[c].seen]]
     \/ record' = [record EXCEPT ![c] = NoRecord]
  /\ SetCreate(c, "done", None, None)
  /\ UNCHANGED <<template, schema, cache, admin>>

(* delete_archive_record_by_id *)
DeleteRecord(c) ==
  /\ record[c].status = "committed"
  /\ record' = [record EXCEPT ![c] = [status |-> "deleted",
                                     version |-> record[c].version]]
  /\ UNCHANGED <<template, schema, cache, create, admin>>

-----------------------------------------------------------------------------
(***************************************************************************)
(* update_template_handler, delete_template_handler and                    *)
(* modify_template_status_handler                                          *)
(***************************************************************************)
SetAdmin(a, pc) ==
  admin' = [admin EXCEPT ![a] = [pc |-> pc, node |-> admin[a].node,
                                 op |-> admin[a].op]]

AdminBegin(a, n, op) ==
  /\ admin[a].pc = "idle"
  /\ admin' = [admin EXCEPT ![a] = [pc |-> "check", node |-> n, op |-> op]]
  /\ UNCHANGED <<template, schema, cache, record, create>>

(* check_any_record_exists sees committed records.                         *)
AnyRecordExists == \E c \in Creators : record[c].status = "committed"

AdminCheck(a) ==
  /\ admin[a].pc = "check"
  /\ SetAdmin(a, IF AnyRecordExists THEN "idle" ELSE "apply")
  /\ UNCHANGED <<template, schema, cache, record, create>>

(* The UPDATE looks at the template's id only; it may leave schema_def.    *)
UpdateTemplate(a) ==
  /\ admin[a].pc = "apply"
  /\ admin[a].op = "update"
  /\ IF Present
       THEN /\ schema' \in {schema, schema + 1} \cap Versions
            /\ SetAdmin(a, "clear")
       ELSE /\ SetAdmin(a, "idle")
            /\ UNCHANGED schema
  /\ UNCHANGED <<template, cache, record, create>>

(* ON DELETE RESTRICT: a committed record makes the DELETE fail, and it    *)
(* waits for a transaction that has inserted one.  Mutant: no constraint.  *)
RestrictsNone(status) == FALSE
Restricts(status) == \E c \in Creators : record[c].status = status

DeleteTemplate(a) ==
  /\ admin[a].pc = "apply"
  /\ admin[a].op = "delete"
  /\ ~Restricts("open")
  /\ \/ /\ Present /\ ~Restricts("committed")
        /\ template' = "deleted"
        /\ SetAdmin(a, "clear")
     \/ /\ ~Present \/ Restricts("committed")
        /\ SetAdmin(a, "idle")
        /\ UNCHANGED template
  /\ UNCHANGED <<schema, cache, record, create>>

(* clear_template_cache, of this process.                                  *)
Cleared(n) == [cache EXCEPT ![n] = None]

ClearTemplateCache(a) ==
  /\ admin[a].pc = "clear"
  /\ cache' = Cleared(admin[a].node)
  /\ SetAdmin(a, "idle")
  /\ UNCHANGED <<template, schema, record, create>>

ModifyTemplateStatus ==
  /\ Present
  /\ template' \in {"enabled", "disabled"}
  /\ UNCHANGED <<schema, cache, record, create, admin>>

-----------------------------------------------------------------------------
CreateStep(c) ==
  \/ CheckTemplateIsEnabled(c) \/ Lookup(c) \/ FromDatabase(c)
  \/ InsertIntoCache(c) \/ InsertRecord(c) \/ EndCreate(c)
AdminStep(a) == AdminCheck(a) \/ UpdateTemplate(a) \/ DeleteTemplate(a)
                  \/ ClearTemplateCache(a)

Next ==
  \/ \E c \in Creators, n \in Nodes : CreateBegin(c, n)
  \/ \E c \in Creators : CreateStep(c) \/ DeleteRecord(c)
  \/ \E a \in Admins, n \in Nodes, op \in {"update", "delete"} : AdminBegin(a, n, op)
  \/ \E a \in Admins : AdminStep(a)
  \/ ModifyTemplateStatus

Spec == Init /\ [][Next]_vars

-----------------------------------------------------------------------------
(***************************************************************************)
(* Properties                                                              *)
(***************************************************************************)
(* A record always has its template, although the handler's check and its  *)
(* DELETE are two statements and creators validate with a cached context   *)
(* of a template that may be gone.                                         *)
RecordHasTemplate ==
  (\E c \in Creators : record[c].status \in {"open", "committed"}) => Present

(* A template with records is not modified: every record in the table was  *)
(* validated with the schema the template has now.                         *)
RecordsMatchSchema ==
  \A c \in Creators : record[c].status = "committed" => record[c].version = schema

(* An update invalidates the cached context: once no request is at work no *)
(* process keeps a context older than the template.                        *)
CacheCoherent ==
  Quiet /\ Present => \A n \in Nodes : cache[n] \in {None, schema}

=============================================================================
