----------------------------- MODULE FileFields -----------------------------
(***************************************************************************)
(* The file fields of a template, as pure operators: how an administrator's*)
(* definitions become part of the template's JSON schema and are read back *)
(* from it (src/domain/schema.rs), which files the data of a record names, *)
(* which of them create_files_record stores, which ones its compensation   *)
(* lists and which ones a query shows (src/modules/archive/service.rs).    *)
(*                                                                         *)
(* A JSON value is its kind and its strings; a string is a file id or Junk.*)
(***************************************************************************)
EXTENDS Integers, Sequences, SequencesExt

CONSTANTS
  Fields,   \* names of properties
  Types,    \* file name extensions
  Files,    \* file ids
  Junk,     \* a string that is no UUID
  Schemas,  \* schemas that administrators send, and those of templates
  DefLists  \* lists of file field definitions that they send with them

-----------------------------------------------------------------------------
(***************************************************************************)
(* Definitions and schemas                                                 *)
(***************************************************************************)
Absent == "absent"      \* a key that is not there
Config == [allowed_types : SUBSET Types, quota : Nat, max_size : Int,
           required : BOOLEAN]
Definition == [field : Fields, config : Config]
Property   == [type : {Absent, "string", "array"}, format : BOOLEAN,
               maxItems : Nat \cup {-1}, isFile : BOOLEAN,
               accept : SUBSET Types, max_size : Int]

ASSUME FieldsAssumption ==
  /\ Junk \notin Files
  /\ \A schema \in Schemas : schema.props \in [Fields -> Property]
  /\ \A defs \in DefLists : defs \in Seq(Definition)

(* The keys of a property that matter to files.  `accept` and `max_size`   *)
(* are those of "x-file-config".                                           *)
NoDef == [type |-> Absent, format |-> FALSE, maxItems |-> -1,
          isFile |-> FALSE, accept |-> {}, max_size |-> 0]

(* into_schema: keys the definition does not set stay as they were, and a  *)
(* field once required stays so.                                           *)
FieldDef(old, c) ==
  [type |-> IF c.quota = 1 THEN "string" ELSE "array",
   format |-> c.quota = 1 \/ old.format,          \* format = "file-id"
   maxItems |-> IF c.quota = 1 THEN old.maxItems ELSE c.quota,
   isFile |-> TRUE, accept |-> c.allowed_types, max_size |-> c.max_size]

IntoSchema(schema, d) ==
  [props |-> [schema.props EXCEPT ![d.field] = FieldDef(@, d.config)],
   required |-> schema.required \cup (IF d.config.required THEN {d.field} ELSE {})]

(* create_template and update_template: the definitions in their order.    *)
WithFiles(schema, defs) ==
  LET after[i \in 0 .. Len(defs)] ==
        IF i = 0 THEN schema ELSE IntoSchema(after[i - 1], defs[i])
  IN  after[Len(defs)]

(* try_from_field_def.  Mutant: an array is one file.                      *)
QuotaOfOne(def) == 1
QuotaOf(def) == IF def.type = "string" THEN 1 ELSE def.maxItems

(* A field whose files create_files_record looks for in a string, as its   *)
(* quota is one, though the schema wants an array.  into_schema makes none,*)
(* but a schema written by hand may have one: TemplateSchema::validate     *)
(* turns down "x-config-file", which is not the key of file fields.        *)
ArrayOfOne(def) == def.type = "array" /\ QuotaOf(def) = 1

IsFileField(def) ==
  /\ def.isFile
  /\ \/ def.type = "string" /\ def.format
     \/ def.type = "array" /\ def.maxItems >= 0

(* try_from_schema *)
FileConfigs(schema) ==
  [f \in {g \in Fields : IsFileField(schema.props[g])} |->
     [allowed_types |-> schema.props[f].accept, quota |-> QuotaOf(schema.props[f]),
      max_size |-> schema.props[f].max_size, required |-> f \in schema.required]]

-----------------------------------------------------------------------------
(***************************************************************************)
(* Data                                                                    *)
(***************************************************************************)
Value(kind, items) == [kind |-> kind, items |-> items]
Missing == Value(Absent, <<>>)

(* External: what the compiled JSON schema accepts of the file fields.     *)
Conforms(schema, data) ==
  \A f \in Fields : LET def == schema.props[f] v == data[f] IN
    /\ f \in schema.required => v # Missing
    /\ v # Missing /\ def.type # Absent => v.kind = def.type
    /\ v.kind = "array" /\ def.maxItems >= 0 => Len(v.items) <= def.maxItems

(* try_parse_file_id, of a string or of every string of an array.          *)
Parsed(v) == Range(v.items) \cap Files

(* create_files_record: the ids of a field, and whether it has no fault.   *)
(* Mutant: an empty array will do for a required field.                    *)
FieldIds(c, v) ==
  IF v.kind = (IF c.quota = 1 THEN "string" ELSE "array") THEN Parsed(v) ELSE {}
FieldAcceptedEmpty(c, v) ==
  /\ c.required => v.kind = (IF c.quota = 1 THEN "string" ELSE "array")
  /\ c.quota # 1 /\ v.kind = "array" => IsInjective(v.items) /\ Junk \notin Range(v.items)
FieldAccepted(c, v) ==
  /\ c.required => FieldIds(c, v) # {}          \* check_required, not empty
  /\ c.quota # 1 /\ v.kind = "array" => IsInjective(v.items) /\ Junk \notin Range(v.items)

(* An id named by two fields would be inserted twice.                      *)
Stored(cfg, data) == UNION {FieldIds(cfg[f], data[f]) : f \in DOMAIN cfg}
Accepted(cfg, data) ==
  /\ \A f \in DOMAIN cfg : FieldAccepted(cfg[f], data[f])
  /\ \A f, g \in DOMAIN cfg :
       f # g => FieldIds(cfg[f], data[f]) \cap FieldIds(cfg[g], data[g]) = {}

(* collect_archive_object_keys_from_data.  Mutant: strings only.           *)
CollectedStrings(cfg, data) ==
  UNION {IF data[f].kind = "string" THEN Parsed(data[f]) ELSE {} : f \in DOMAIN cfg}
Collected(cfg, data) ==
  UNION {IF data[f].kind \in {"string", "array"} THEN Parsed(data[f]) ELSE {} :
           f \in DOMAIN cfg}

(* enrich_archive_records_with_urls: the ids that no row of sys_file turns *)
(* into an address.                                                        *)
Unresolved(cfg, data, rows) == Collected(cfg, data) \ rows

(* check_need_file *)
NeedFile(cfg) == \E f \in DOMAIN cfg : cfg[f].required

(* check_file_validity: no types, all types.                               *)
FileValid(c, type, size) ==
  size <= c.max_size /\ (c.allowed_types = {} \/ type \in c.allowed_types)

-----------------------------------------------------------------------------
(***************************************************************************)
(* What the administrator meant: of several definitions of a field the last*)
(* one counts, and the field is required if any of them or the schema says *)
(* so.  Other file fields of the schema stay as they are.                  *)
(***************************************************************************)
DefinitionsOf(f, defs) == {i \in DOMAIN defs : defs[i].field = f}
Defined(f, schema, defs) ==
  [defs[Max(DefinitionsOf(f, defs))].config EXCEPT !.required =
     f \in schema.required \/ \E i \in DefinitionsOf(f, defs) : defs[i].config.required]
Meant(schema, defs) ==
  LET old == FileConfigs(schema) IN
  [f \in DOMAIN old \cup {g \in Fields : DefinitionsOf(g, defs) # {}} |->
     IF DefinitionsOf(f, defs) = {} THEN old[f] ELSE Defined(f, schema, defs)]

(* The file fields read back from a schema are the ones defined: nothing   *)
(* gets lost on the way through "x-file-config", "type", "format",         *)
(* "maxItems" and "required", not for a quota of zero or one, not when a   *)
(* field is redefined, not when the schema had the field before.           *)
ReadBack(schema, defs) == FileConfigs(WithFiles(schema, defs)) = Meant(schema, defs)
AllReadBack == \A schema \in Schemas, defs \in DefLists : ReadBack(schema, defs)

=============================================================================
