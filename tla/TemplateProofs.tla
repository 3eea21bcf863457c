--------------------------- MODULE TemplateProofs ---------------------------
(***************************************************************************)
(* Records keep their template, for every number of processes, requests and*)
(* schema versions, while clients read the records and fill the caches; and*)
(* a client that reads page after page misses and repeats none but for the *)
(* changes that come in between.  In one process caches and records also  *)
(* fit the schema of the template but for the overlaps the theorems name.  *)
(***************************************************************************)
EXTENDS RecordQuery, FiniteSetTheorems, TLAPS

(* A transaction that is about to commit has inserted its record: without  *)
(* it, RecordHasTemplate is not inductive, because a commit could make a   *)
(* record of nothing.                                                      *)
CommitsOpen == \A c \in Creators : create[c].pc = "commit" => record[c].status = "open"

IInv == TypeOK /\ RecordHasTemplate /\ CommitsOpen

-----------------------------------------------------------------------------
(* The initial state satisfies the invariant.                              *)
LEMMA InitIInv == Init => IInv
<1> SUFFICES ASSUME Init PROVE IInv
  OBVIOUS
<1> USE TemplateAssumption
<1>1. TypeOK
  BY DEF Init, TypeOK, NoCreate, NoAdmin, NoRecord, Versions, None
<1>2. RecordHasTemplate
  BY DEF Init, RecordHasTemplate, NoRecord
<1>3. CommitsOpen
  BY DEF Init, CommitsOpen, NoCreate
<1> QED  BY <1>1, <1>2, <1>3 DEF IInv

(* Steps of a create before its INSERT touch no record, no template and no *)
(* administrative request.                                                 *)
LEMMA CreateOnly ==
  ASSUME IInv, NEW c \in Creators, UNCHANGED <<template, schema, record, admin>>,
         cache' \in [Nodes -> Versions \cup {None}],
         NEW pc \in {"idle", "enabled", "lookup", "load", "cache", "insert", "done"},
         NEW n \in Nodes, NEW got \in Versions \cup {None}, NEW seen \in Versions \cup {None},
         pc = "insert" => seen \in Versions,
         create' = [create EXCEPT ![c] = [pc |-> pc, node |-> n, got |-> got, seen |-> seen]]
  PROVE  IInv'
<1>1. TypeOK'
  BY DEF IInv, TypeOK
<1>2. RecordHasTemplate'
  BY DEF IInv, RecordHasTemplate, Present
<1>3. CommitsOpen'
  BY DEF IInv, CommitsOpen, TypeOK
<1> QED  BY <1>1, <1>2, <1>3 DEF IInv

LEMMA UseContextTyped ==
  ASSUME IInv, NEW c \in Creators, NEW v \in Versions \cup {None}, UseContext(c, v),
         UNCHANGED <<template, schema, record, admin>>,
         cache' \in [Nodes -> Versions \cup {None}]
  PROVE  IInv'
<1>1. create[c] \in [pc : {"idle", "enabled", "lookup", "load", "cache", "insert", "commit", "done"},
                     node : Nodes, got : Versions \cup {None}, seen : Versions \cup {None}]
  BY DEF IInv, TypeOK
<1>2. None \notin Versions
  BY DEF None, Versions
<1>3. CASE create[c].seen = None /\ SetCreate(c, "lookup", None, v)
  BY <1>1, <1>3, CreateOnly DEF SetCreate
<1>4. CASE create[c].seen = None /\ SetCreate(c, "done", None, None)
  BY <1>1, <1>4, CreateOnly DEF SetCreate
<1>5. CASE create[c].seen # None /\ SetCreate(c, "insert", None, create[c].seen)
  BY <1>1, <1>5, CreateOnly DEF SetCreate
<1> QED  BY <1>3, <1>4, <1>5 DEF UseContext

(* Every step of a create keeps the invariant.                             *)
LEMMA CreateIInv ==
  ASSUME IInv, NEW c \in Creators,
         (\E n \in Nodes : CreateBegin(c, n)) \/ CreateStep(c) \/ DeleteRecord(c)
  PROVE  IInv'
<1>1. create[c] \in [pc : {"idle", "enabled", "lookup", "load", "cache", "insert", "commit", "done"},
                     node : Nodes, got : Versions \cup {None}, seen : Versions \cup {None}]
  BY DEF IInv, TypeOK
<1>2. cache \in [Nodes -> Versions \cup {None}] /\ schema \in Versions
  BY DEF IInv, TypeOK
<1>3. CASE \E n \in Nodes : CreateBegin(c, n)
  <2>1. PICK n \in Nodes : CreateBegin(c, n)
    BY <1>3
  <2> QED  BY <1>1, <1>2, <2>1, CreateOnly DEF CreateBegin
<1>4. CASE CheckTemplateIsEnabled(c)
  <2>1. CASE template = "enabled"
    BY <1>1, <1>2, <1>4, <2>1, CreateOnly DEF CheckTemplateIsEnabled, SetCreate
  <2>2. CASE template # "enabled"
    BY <1>1, <1>2, <1>4, <2>2, CreateOnly DEF CheckTemplateIsEnabled, SetCreate
  <2> QED  BY <2>1, <2>2
<1>5. CASE Lookup(c)
  <2>1. CASE cache[create[c].node] = None
    <3>1. SetCreate(c, "load", None, create[c].seen)
      BY <1>5, <2>1 DEF Lookup, UseContext
    <3> QED  BY <1>1, <1>2, <1>5, <3>1, CreateOnly DEF Lookup, SetCreate
  <2>2. CASE cache[create[c].node] # None
    <3>1. UseContext(c, cache[create[c].node]) /\ cache[create[c].node] \in Versions
      BY <1>1, <1>2, <1>5, <2>2 DEF Lookup
    <3> QED  BY <1>2, <1>5, <3>1, UseContextTyped DEF Lookup
  <2> QED  BY <2>1, <2>2
<1>6. CASE FromDatabase(c)
  <2>1. CASE Present
    BY <1>1, <1>2, <1>6, <2>1, CreateOnly DEF FromDatabase, SetCreate
  <2>2. CASE ~Present
    BY <1>1, <1>2, <1>6, <2>2, CreateOnly DEF FromDatabase, SetCreate
  <2> QED  BY <2>1, <2>2
<1>7. CASE InsertIntoCache(c)
  <2>1. cache' \in [Nodes -> Versions \cup {None}]
    BY <1>1, <1>2, <1>7 DEF InsertIntoCache
  <2> QED  BY <1>1, <1>7, <2>1, UseContextTyped DEF InsertIntoCache
<1>8. CASE InsertRecord(c)
  <2>1. CASE Present
    <3>1. TypeOK'
      <4>1. create[c].seen \in Versions
        BY <1>8 DEF InsertRecord, IInv, TypeOK
      <4>2. record' \in [Creators -> [status : {"none", "open", "committed", "deleted"},
                                     version : Versions \cup {None}]]
        BY <1>8, <2>1, <4>1 DEF InsertRecord, IInv, TypeOK
      <4>3. create' \in [Creators -> [pc : {"idle", "enabled", "lookup", "load", "cache",
                                           "insert", "commit", "done"},
                                     node : Nodes, got : Versions \cup {None},
                                     seen : Versions \cup {None}]]
        BY <1>1, <1>8, <2>1 DEF InsertRecord, SetCreate, IInv, TypeOK
      <4>4. \A d \in Creators :
              create'[d].pc \in {"insert", "commit"} => create'[d].seen \in Versions
        BY <1>8, <2>1, <4>1 DEF InsertRecord, SetCreate, IInv, TypeOK
      <4> QED  BY <1>8, <4>2, <4>3, <4>4 DEF InsertRecord, IInv, TypeOK
    <3>2. RecordHasTemplate'
      BY <1>8, <2>1 DEF InsertRecord, RecordHasTemplate, Present
    <3>3. CommitsOpen'
      BY <1>8, <2>1 DEF InsertRecord, SetCreate, IInv, TypeOK, CommitsOpen
    <3> QED  BY <3>1, <3>2, <3>3 DEF IInv
  <2>2. CASE ~Present
    BY <1>1, <1>2, <1>8, <2>2, CreateOnly DEF InsertRecord, SetCreate
  <2> QED  BY <2>1, <2>2
<1>9. CASE EndCreate(c)
  <2>1. TypeOK'
    BY <1>1, <1>9 DEF EndCreate, SetCreate, NoRecord, IInv, TypeOK
  <2>2. Present
    BY <1>9 DEF EndCreate, IInv, CommitsOpen, RecordHasTemplate
  <2>3. RecordHasTemplate'
    BY <1>9, <2>2 DEF EndCreate, RecordHasTemplate, Present
  <2>4. CommitsOpen'
    BY <1>9 DEF EndCreate, SetCreate, IInv, TypeOK, CommitsOpen
  <2> QED  BY <2>1, <2>3, <2>4 DEF IInv
<1>10. CASE DeleteRecord(c)
  <2>1. TypeOK'
    BY <1>10 DEF DeleteRecord, IInv, TypeOK
  <2>2. RecordHasTemplate'
    BY <1>10 DEF DeleteRecord, IInv, TypeOK, RecordHasTemplate, Present
  <2>3. CommitsOpen'
    BY <1>10 DEF DeleteRecord, IInv, TypeOK, CommitsOpen
  <2> QED  BY <2>1, <2>2, <2>3 DEF IInv
<1> QED  BY <1>3, <1>4, <1>5, <1>6, <1>7, <1>8, <1>9, <1>10 DEF CreateStep

(* Every step of an administrative request keeps the invariant.  A DELETE  *)
(* of the template takes effect only when no record, committed or not,     *)
(* refers to it.                                                           *)
LEMMA AdminIInv ==
  ASSUME IInv, NEW a \in Admins,
         (\E n \in Nodes, op \in {"update", "delete"} : AdminBegin(a, n, op)) \/ AdminStep(a)
  PROVE  IInv'
<1>1. admin[a] \in [pc : {"idle", "check", "apply", "clear"}, node : Nodes,
                    op : {"update", "delete"}]
  BY DEF IInv, TypeOK
<1>2. UNCHANGED <<record, create>>
  BY DEF AdminBegin, AdminStep, AdminCheck, UpdateTemplate, DeleteTemplate, ClearTemplateCache
<1>3. CommitsOpen'
  BY <1>2 DEF IInv, CommitsOpen
<1>4. CASE \E n \in Nodes, op \in {"update", "delete"} : AdminBegin(a, n, op)
  BY <1>3, <1>4 DEF AdminBegin, IInv, TypeOK, RecordHasTemplate, Present
<1>5. CASE AdminCheck(a)
  BY <1>1, <1>3, <1>5 DEF AdminCheck, SetAdmin, IInv, TypeOK, RecordHasTemplate, Present
<1>6. CASE UpdateTemplate(a)
  BY <1>1, <1>3, <1>6 DEF UpdateTemplate, SetAdmin, IInv, TypeOK, RecordHasTemplate, Present
<1>7. CASE DeleteTemplate(a)
  <2>1. TypeOK'
    BY <1>1, <1>7 DEF DeleteTemplate, SetAdmin, IInv, TypeOK
  <2>2. RecordHasTemplate'
    <3>1. CASE ~Restricts("open") /\ ~Restricts("committed")
      BY <1>2, <3>1 DEF Restricts, RecordHasTemplate
    <3>2. CASE ~(~Restricts("open") /\ ~Restricts("committed"))
      <4>1. Present
        BY <3>2 DEF Restricts, IInv, RecordHasTemplate
      <4>2. UNCHANGED template
        BY <1>7, <3>2, <4>1 DEF DeleteTemplate
      <4> QED  BY <4>1, <4>2 DEF RecordHasTemplate, Present
    <3> QED  BY <3>1, <3>2
  <2> QED  BY <1>3, <2>1, <2>2 DEF IInv
<1>8. CASE ClearTemplateCache(a)
  BY <1>1, <1>3, <1>8 DEF ClearTemplateCache, Cleared, SetAdmin, IInv, TypeOK, RecordHasTemplate, Present
<1> QED  BY <1>4, <1>5, <1>6, <1>7, <1>8 DEF AdminStep

(* The invariant is kept by every step of TemplateCache.                   *)
LEMMA NextIInv == IInv /\ Next => IInv'
<1> SUFFICES ASSUME IInv, Next PROVE IInv'
  OBVIOUS
<1>1. CASE ModifyTemplateStatus
  BY <1>1 DEF ModifyTemplateStatus, IInv, TypeOK, RecordHasTemplate, CommitsOpen, Present
<1>2. CASE ~ModifyTemplateStatus
  BY <1>2, CreateIInv, AdminIInv DEF Next
<1> QED  BY <1>1, <1>2

-----------------------------------------------------------------------------
(* The clients' walks                                                      *)
WalkType ==
  [pc : {"idle", "lookup", "load", "cache", "count", "select", "over"},
   node : Nodes, got : Versions \cup {None},
   size : PageSizes \cup {1}, page : Nat \ {0}, total : Nat,
   due : SUBSET Creators, read : SUBSET Creators, twice : BOOLEAN,
   grew : BOOLEAN, shrank : BOOLEAN, late : BOOLEAN]
Ranked == /\ rank \in [Creators -> Ranks]
          /\ \A c, d \in Creators : rank[c] = rank[d] => c = d

QInv == IInv /\ Ranked /\ walk \in WalkType

LEMMA RowsFinite == Cardinality(Rows) \in Nat
<1>1. IsFiniteSet(Rows)
  BY QueryAssumption, FS_Subset DEF Rows
<1> QED  BY <1>1, FS_CardinalityType

LEMMA NoWalkTyped == \A n \in Nodes : NoWalk(n) \in WalkType
BY DEF NoWalk, WalkType

(* A walk that other requests disturb keeps its type.                      *)
LEMMA WatchTyped == walk \in WalkType /\ Watch => walk' \in WalkType
<1> SUFFICES ASSUME walk \in WalkType, Watch PROVE walk' \in WalkType
  OBVIOUS
<1> DEFINE rows == {c \in Creators : record'[c].status = "committed"}
<1>1. CASE walk.pc \in {"idle", "over"}
  BY <1>1 DEF Watch
<1>2. CASE walk.pc \notin {"idle", "over"}
  <2>1. walk' = [walk EXCEPT !.due = walk.due \cap rows,
                   !.grew = walk.grew \/ rows \ Rows # {},
                   !.shrank = walk.shrank \/ Rows \ rows # {},
                   !.late = walk.late \/ rows \ Rows # {}]
    BY <1>2 DEF Watch
  <2>2. /\ (walk.due \cap rows) \in SUBSET Creators
        /\ (walk.grew \/ rows \ Rows # {}) \in BOOLEAN
        /\ (walk.shrank \/ Rows \ rows # {}) \in BOOLEAN
        /\ (walk.late \/ rows \ Rows # {}) \in BOOLEAN
    BY DEF WalkType
  <2> HIDE DEF rows
  <2> QED  BY <2>1, <2>2 DEF WalkType
<1> QED  BY <1>1, <1>2

(* The steps of a walk leave records, templates and requests alone, and    *)
(* what one puts into a cache is a version it has read.                    *)
LEMMA WalkIInv ==
  ASSUME QInv, QueryStep \/ \E n \in Nodes, size \in PageSizes : WalkBegin(n, size)
  PROVE  QInv'
<1>1. walk \in WalkType
  BY DEF QInv
<1>2. UNCHANGED tableVars
  BY DEF QueryStep, WalkBegin, QueryLookup, QueryFromDatabase, QueryInsertIntoCache,
         CountRecords, SelectPage, WalkEnd
<1>3. cache' \in [Nodes -> Versions \cup {None}]
  BY <1>1 DEF QueryStep, WalkBegin, QueryLookup, QueryFromDatabase, QueryInsertIntoCache,
         CountRecords, SelectPage, WalkEnd, QInv, IInv, TypeOK, WalkType
<1>4. IInv' /\ Ranked'
  <2>1. TypeOK'
    BY <1>2, <1>3 DEF QInv, IInv, TypeOK, tableVars
  <2>2. RecordHasTemplate' /\ CommitsOpen' /\ Ranked'
    BY <1>2 DEF QInv, IInv, RecordHasTemplate, CommitsOpen, Ranked, Present, tableVars
  <2> QED  BY <2>1, <2>2 DEF IInv
<1>5. walk' \in WalkType
  <2>1. CASE \E n \in Nodes, size \in PageSizes : WalkBegin(n, size)
    <3>1. PICK n \in Nodes, size \in PageSizes : WalkBegin(n, size)
      BY <2>1
    <3>2. Rows \subseteq Creators /\ NoWalk(n) \in WalkType
      BY NoWalkTyped DEF Rows
    <3> QED  BY <3>1, <3>2 DEF WalkBegin, WalkType
  <2>2. CASE QueryLookup
    BY <1>1, <2>2 DEF QueryLookup, WalkType
  <2>3. CASE QueryFromDatabase
    BY <1>1, <2>3, NoWalkTyped DEF QueryFromDatabase, WalkType, QInv, IInv, TypeOK
  <2>4. CASE QueryInsertIntoCache
    BY <1>1, <2>4 DEF QueryInsertIntoCache, WalkType
  <2>5. CASE CountRecords
    BY <1>1, <2>5, RowsFinite DEF CountRecords, WalkType
  <2>6. CASE SelectPage
    <3> DEFINE items == Page(walk.page, walk.size)
               last  == walk.page >= TotalPages(walk.total, walk.size)
    <3>1. walk' = [walk EXCEPT !.read = walk.read \cup items,
                     !.twice = walk.twice \/ walk.read \cap items # {},
                     !.pc = IF last THEN "over" ELSE "lookup",
                     !.page = IF last THEN walk.page ELSE walk.page + 1]
      BY <2>6 DEF SelectPage
    <3>2. /\ (walk.read \cup items) \in SUBSET Creators
          /\ (walk.twice \/ walk.read \cap items # {}) \in BOOLEAN
      BY <1>1 DEF Page, Rows, WalkType
    <3>3. /\ (IF last THEN "over" ELSE "lookup") \in {"over", "lookup"}
          /\ (IF last THEN walk.page ELSE walk.page + 1) \in Nat \ {0}
      <4> HIDE DEF last
      <4> QED  BY <1>1 DEF WalkType
    <3> HIDE DEF items, last
    <3> QED  BY <1>1, <3>1, <3>2, <3>3 DEF WalkType
  <2>7. CASE WalkEnd
    BY <1>1, <2>7, NoWalkTyped DEF WalkEnd, WalkType
  <2> QED  BY <2>1, <2>2, <2>3, <2>4, <2>5, <2>6, <2>7 DEF QueryStep
<1> QED  BY <1>4, <1>5 DEF QInv

LEMMA QueryInitQInv == QueryInit => QInv
<1> SUFFICES ASSUME QueryInit PROVE QInv
  OBVIOUS
<1>1. IInv
  BY InitIInv DEF QueryInit
<1>2. walk \in WalkType
  BY <1>1, NoWalkTyped DEF QueryInit, IInv, TypeOK
<1> QED  BY <1>1, <1>2 DEF QueryInit, QInv, Ranked

LEMMA QueryNextQInv == QInv /\ [QueryNext]_queryVars => QInv'
<1> SUFFICES ASSUME QInv, [QueryNext]_queryVars PROVE QInv'
  OBVIOUS
<1>1. CASE Next /\ Watch /\ UNCHANGED rank
  BY <1>1, NextIInv, WatchTyped DEF QInv, Ranked
<1>2. CASE QueryStep \/ \E n \in Nodes, size \in PageSizes : WalkBegin(n, size)
  BY <1>2, WalkIInv
<1>3. CASE UNCHANGED queryVars
  BY <1>3 DEF queryVars, QInv, IInv, TypeOK, RecordHasTemplate, CommitsOpen, Ranked,
              Present, WalkType
<1> QED  BY <1>1, <1>2, <1>3 DEF QueryNext

-----------------------------------------------------------------------------
(* Every variable of the template's requests and of the clients' walks     *)
(* stays within its type; a record is inserted only with a version it was  *)
(* validated with (create_archive_record_handler, query_archive_records).  *)
THEOREM TemplateTyped == QuerySpec => []QueryTypeOK
<1>1. QInv => QueryTypeOK
  BY DEF QInv, IInv, Ranked, WalkType, QueryTypeOK
<1> QED  BY <1>1, QueryInitQInv, QueryNextQInv, PTL DEF QuerySpec

(* No record is ever without its template, however many processes create,  *)
(* update, delete and query at the same time (delete_template's two        *)
(* statements, create_archive_record).                                     *)
THEOREM TemplateKept == QuerySpec => []RecordHasTemplate
<1>1. QInv => RecordHasTemplate
  BY DEF QInv, IInv
<1> QED  BY <1>1, QueryInitQInv, QueryNextQInv, PTL DEF QuerySpec

-----------------------------------------------------------------------------
(***************************************************************************)
(* What a walk over the pages reads                                        *)
(***************************************************************************)
Walking == walk.pc \in {"lookup", "load", "cache", "count", "select"}
Before  == Offset(walk.page, walk.size)      \* places on the pages read so far

(* As long as no record goes, places only grow, so that whoever is before  *)
(* the current page was read; as long as none comes, places only shrink, so*)
(* that whoever was read is before the current page.  The COUNT is right as*)
(* long as neither happens.                                                *)
NoneSkipped == ~walk.shrank => \A c \in walk.due : Place(c) <= Before => c \in walk.read
NoneAhead   == ~walk.grew => \A c \in walk.read \cap Rows : Place(c) <= Before
CountRight  == ~walk.late /\ ~walk.shrank => walk.total = Cardinality(Rows)

WalkInv ==
  /\ Walking => walk.due \subseteq Rows /\ NoneSkipped /\ NoneAhead
  /\ walk.pc = "select" => CountRight
  /\ WalkComplete

-----------------------------------------------------------------------------
LEMMA Places ==
  ASSUME NEW c \in Creators
  PROVE  /\ Place(c) \in Nat /\ Place(c) <= Cardinality(Rows)
         /\ QInv /\ c \in Rows => Place(c) >= 1
<1> DEFINE S == {d \in Rows : rank[d] <= rank[c]}
<1>1. IsFiniteSet(Rows) /\ S \subseteq Rows
  BY QueryAssumption, FS_Subset DEF Rows
<1>2. IsFiniteSet(S) /\ Cardinality(S) <= Cardinality(Rows) /\ Cardinality(S) \in Nat
  BY <1>1, FS_Subset, FS_CardinalityType
<1>3. ASSUME QInv, c \in Rows PROVE Cardinality(S) >= 1
  <2>1. rank[c] \in Nat
    <3>1. rank[c] \in Ranks
      BY <1>3 DEF QInv, Ranked
    <3> QED  BY <3>1 DEF Ranks
  <2>2. c \in S
    BY <1>3, <2>1
  <2>3. Cardinality(S) # 0
    BY <1>2, <2>2, FS_EmptySet
  <2> QED  BY <1>2, <2>3
<1> QED  BY <1>2, <1>3 DEF Place

(* Places grow with the table and shrink with it.                          *)
LEMMA PlacesMove ==
  ASSUME UNCHANGED rank, NEW c \in Creators
  PROVE  /\ Rows \subseteq Rows' => Place(c) <= Place(c)'
         /\ Rows' \subseteq Rows => Place(c)' <= Place(c)
<1> DEFINE S == {d \in Rows : rank[d] <= rank[c]}
           T == {d \in Rows' : rank[d] <= rank[c]}
<1>1. IsFiniteSet(S) /\ IsFiniteSet(T)
  <2>1. S \subseteq Creators /\ T \subseteq Creators
    BY DEF Rows
  <2> QED  BY <2>1, QueryAssumption, FS_Subset
<1>2. Place(c) = Cardinality(S) /\ Place(c)' = Cardinality(T)
  BY DEF Place
<1>3. (Rows \subseteq Rows' => S \subseteq T) /\ (Rows' \subseteq Rows => T \subseteq S)
  OBVIOUS
<1> HIDE DEF S, T
<1> QED  BY <1>1, <1>2, <1>3, FS_Subset

LEMMA PlacesNext ==
  ASSUME NEW c \in Creators
  PROVE  Place(c)' \in Nat
<1> DEFINE T == {d \in Rows' : rank'[d] <= rank'[c]}
<1>1. T \subseteq Creators
  BY DEF Rows
<1>2. Cardinality(T) \in Nat
  BY <1>1, QueryAssumption, FS_Subset, FS_CardinalityType
<1> QED  BY <1>2 DEF Place

(* The pages of TotalPages hold as many records as were counted.           *)
LEMMA LastPage ==
  ASSUME NEW total \in Nat, NEW size \in Nat \ {0}, NEW page \in Nat \ {0},
         page >= TotalPages(total, size)
  PROVE  total <= Offset(page, size) + size
<1> DEFINE n == total + (size - 1)
           k == n \div size
<1>1. n \in Nat /\ k \in Nat /\ n < (k + 1) * size
  OBVIOUS
<1>2. TotalPages(total, size) = k
  BY DEF TotalPages
<1> HIDE DEF k
<1>3. (k + 1) * size = k * size + size /\ k * size \in Nat
  BY <1>1
<1>4. k * size <= page * size
  BY <1>1, <1>2
<1>5. Offset(page, size) + size = page * size
  BY DEF Offset
<1> QED  BY <1>1, <1>3, <1>4, <1>5

LEMMA NextPage ==
  ASSUME NEW size \in Nat \ {0}, NEW page \in Nat \ {0}
  PROVE  /\ Offset(page, size) \in Nat /\ Offset(1, size) = 0
         /\ Offset(page + 1, size) = Offset(page, size) + size
BY DEF Offset

LEMMA WalkNumbers ==
  ASSUME walk \in WalkType
  PROVE  /\ walk.page \in Nat \ {0} /\ walk.size \in Nat \ {0} /\ walk.total \in Nat
         /\ Before \in Nat
<1>1. walk.page \in Nat \ {0} /\ walk.size \in PageSizes \cup {1} /\ walk.total \in Nat
  BY DEF WalkType
<1>2. walk.size \in Nat \ {0}
  <2>1. PageSizes \subseteq Nat \ {0} /\ 1 \in Nat \ {0}
    BY QueryAssumption
  <2> QED  BY <1>1, <2>1
<1> QED  BY <1>1, <1>2, NextPage DEF Before

-----------------------------------------------------------------------------
(* A step of other requests.                                               *)
LEMMA WatchWalk ==
  ASSUME QInv, WalkInv, Watch, UNCHANGED rank
  PROVE  WalkInv'
<1> DEFINE rows == {c \in Creators : record'[c].status = "committed"}
<1>0. walk \in WalkType /\ Rows' = rows
  BY DEF QInv, Rows
<1>1. CASE walk.pc \in {"idle", "over"}
  <2>1. walk' = walk
    BY <1>1 DEF Watch
  <2> QED  BY <1>1, <2>1 DEF WalkInv, Walking, WalkComplete
<1>2. CASE walk.pc \notin {"idle", "over"}
  <2>0. walk' = [walk EXCEPT !.due = walk.due \cap rows,
                   !.grew = walk.grew \/ rows \ Rows # {},
                   !.shrank = walk.shrank \/ Rows \ rows # {},
                   !.late = walk.late \/ rows \ Rows # {}]
    BY <1>2 DEF Watch
  <2>1. /\ walk'.due = walk.due \cap Rows' /\ walk'.pc = walk.pc /\ walk'.read = walk.read
        /\ walk'.page = walk.page /\ walk'.size = walk.size /\ walk'.total = walk.total
        /\ walk'.twice = walk.twice
    <3> HIDE DEF rows
    <3> QED  BY <1>0, <2>0 DEF WalkType
  <2>2. /\ ~walk'.shrank => ~walk.shrank /\ Rows \subseteq Rows'
        /\ ~walk'.grew => ~walk.grew /\ Rows' \subseteq Rows
        /\ ~walk'.late => ~walk.late /\ Rows' \subseteq Rows
    <3>1. /\ walk'.grew = (walk.grew \/ rows \ Rows # {})
          /\ walk'.shrank = (walk.shrank \/ Rows \ rows # {})
          /\ walk'.late = (walk.late \/ rows \ Rows # {})
      <4> HIDE DEF rows
      <4> QED  BY <1>0, <2>0 DEF WalkType
    <3> QED  BY <1>0, <3>1
  <2>3. Walking
    BY <1>0, <1>2 DEF Walking, WalkType
  <2>4. /\ walk.due \subseteq Rows /\ NoneSkipped /\ NoneAhead /\ Before' = Before
        /\ Rows \subseteq Creators /\ walk.read \subseteq Creators
    BY <1>0, <2>1, <2>3 DEF WalkInv, Before, Rows, WalkType
  <2>5. \A c \in Creators : Place(c) \in Nat /\ Place(c)' \in Nat
    <3>1. \A c \in Creators : Place(c) \in Nat
      BY Places
    <3>2. \A c \in Creators : Place(c)' \in Nat
      BY PlacesNext
    <3> QED  BY <3>1, <3>2
  <2>6. Before \in Nat
    BY <1>0, WalkNumbers
  <2>7. NoneSkipped'
    <3> SUFFICES ASSUME ~walk'.shrank, NEW c \in walk'.due, Place(c)' <= Before
                 PROVE  c \in walk'.read
      BY <2>4 DEF NoneSkipped
    <3>1. c \in walk.due /\ c \in Creators /\ ~walk.shrank /\ Place(c) <= Place(c)'
      BY <2>1, <2>2, <2>4, PlacesMove
    <3>2. Place(c) <= Before
      BY <2>5, <2>6, <3>1
    <3> QED  BY <2>1, <2>4, <3>1, <3>2 DEF NoneSkipped
  <2>8. NoneAhead'
    <3> SUFFICES ASSUME ~walk'.grew, NEW c \in walk'.read \cap Rows' PROVE Place(c)' <= Before
      BY <2>4 DEF NoneAhead
    <3>1. c \in walk.read \cap Rows /\ c \in Creators /\ ~walk.grew /\ Place(c)' <= Place(c)
      BY <2>1, <2>2, <2>4, PlacesMove
    <3>2. Place(c) <= Before
      BY <2>4, <3>1 DEF NoneAhead
    <3> QED  BY <2>5, <2>6, <3>1, <3>2
  <2>9. walk'.pc = "select" => CountRight'
    BY <2>1, <2>2 DEF WalkInv, CountRight
  <2>10. WalkComplete'
    BY <1>2, <2>1, <2>2 DEF WalkInv, WalkComplete
  <2> QED  BY <2>1, <2>7, <2>8, <2>9, <2>10 DEF WalkInv
<1> QED  BY <1>1, <1>2

(* A SELECT of a page reads the places that follow the ones before it.     *)
LEMMA SelectWalk ==
  ASSUME QInv, WalkInv, SelectPage
  PROVE  WalkInv'
<1> DEFINE items == Page(walk.page, walk.size)
           last  == walk.page >= TotalPages(walk.total, walk.size)
           after == Before + walk.size
<1>0. /\ walk \in WalkType /\ walk.pc = "select" /\ UNCHANGED <<record, rank>>
      /\ walk' = [walk EXCEPT !.read = walk.read \cup items,
                              !.twice = walk.twice \/ walk.read \cap items # {},
                              !.pc = IF last THEN "over" ELSE "lookup",
                              !.page = IF last THEN walk.page ELSE walk.page + 1]
  BY DEF QInv, SelectPage, tableVars
<1>1. /\ walk'.read = walk.read \cup items /\ walk'.due = walk.due
      /\ walk'.pc = (IF last THEN "over" ELSE "lookup")
      /\ walk'.page = (IF last THEN walk.page ELSE walk.page + 1) /\ walk'.size = walk.size
      /\ walk'.grew = walk.grew /\ walk'.shrank = walk.shrank /\ walk'.late = walk.late
      /\ walk'.twice = (walk.twice \/ walk.read \cap items # {})
  <2> HIDE DEF items, last
  <2> QED  BY <1>0 DEF WalkType
<1>2. walk.page \in Nat \ {0} /\ walk.size \in Nat \ {0} /\ walk.total \in Nat
  BY <1>0, WalkNumbers
<1>3. Rows' = Rows /\ Rows \subseteq Creators /\ \A c \in Creators : Place(c)' = Place(c)
  BY <1>0 DEF Rows, Place
<1>4. walk.due \subseteq Rows /\ NoneSkipped /\ NoneAhead /\ CountRight /\ WalkComplete
  BY <1>0 DEF WalkInv, Walking
<1>5. Before \in Nat /\ after \in Nat
  BY <1>0, <1>2, WalkNumbers
<1>6. \A c \in Creators : Place(c) \in Nat
  BY Places
<1>7. \A c \in Rows : c \in items <=> Before < Place(c) /\ Place(c) <= after
  BY <1>3, <1>5, <1>6 DEF Page, Before
<1>8. items \subseteq Rows
  BY DEF Page
<1> HIDE DEF items
<1>9. ~walk.shrank => \A c \in walk.due : Place(c) <= after => c \in walk'.read
  <2> SUFFICES ASSUME ~walk.shrank, NEW c \in walk.due, Place(c) <= after
               PROVE  c \in walk'.read
    OBVIOUS
  <2>1. c \in Rows /\ Place(c) \in Nat
    BY <1>3, <1>4, <1>6
  <2>2. CASE Place(c) <= Before
    BY <1>1, <1>4, <2>2 DEF NoneSkipped
  <2>3. CASE ~(Place(c) <= Before)
    BY <1>1, <1>5, <1>7, <2>1, <2>3
  <2> QED  BY <2>2, <2>3
<1>10. ~walk.grew => walk.read \cap items = {}
  <2> SUFFICES ASSUME ~walk.grew, NEW c \in walk.read \cap items PROVE FALSE
    OBVIOUS
  <2>1. c \in Rows /\ Place(c) \in Nat /\ Before < Place(c)
    BY <1>3, <1>6, <1>7, <1>8
  <2>2. Place(c) <= Before
    BY <1>4, <2>1 DEF NoneAhead
  <2> QED  BY <1>5, <2>1, <2>2
<1>11. ~walk'.grew => ~walk'.twice
  BY <1>1, <1>4, <1>10 DEF WalkComplete
<1>12. CASE last
  <2>1. walk'.pc = "over"
    BY <1>1, <1>12
  <2>2. ASSUME ~walk.shrank, ~walk.late PROVE walk.due \subseteq walk'.read
    <3>1. walk.total <= after /\ walk.total = Cardinality(Rows)
      BY <1>2, <1>4, <1>12, <2>2, LastPage DEF Before, CountRight
    <3>2. \A c \in walk.due : Place(c) <= after
      BY <1>2, <1>3, <1>4, <1>5, <1>6, <3>1, Places
    <3> QED  BY <1>9, <2>2, <3>2
  <2>3. WalkComplete'
    BY <1>1, <1>11, <2>2 DEF WalkComplete
  <2> QED  BY <2>1, <2>3 DEF WalkInv, Walking
<1>13. CASE ~last
  <2>1. walk'.pc = "lookup" /\ walk'.page = walk.page + 1
    BY <1>1, <1>13
  <2>2. Before' = after
    <3>1. Before' = Offset(walk.page + 1, walk.size)
      BY <1>1, <2>1 DEF Before
    <3> QED  BY <1>2, <3>1, NextPage DEF Before
  <2> HIDE DEF after
  <2>3. NoneSkipped'
    <3> SUFFICES ASSUME ~walk'.shrank, NEW c \in walk'.due, Place(c)' <= after
                 PROVE  c \in walk'.read
      BY <2>2 DEF NoneSkipped
    <3>1. c \in walk.due /\ Place(c) <= after /\ ~walk.shrank
      BY <1>1, <1>3, <1>4
    <3> QED  BY <1>9, <3>1
  <2>4. NoneAhead'
    <3> SUFFICES ASSUME ~walk'.grew, NEW c \in walk'.read \cap Rows' PROVE Place(c)' <= after
      BY <2>2 DEF NoneAhead
    <3>1. c \in Rows /\ c \in Creators /\ Place(c)' = Place(c) /\ ~walk.grew /\ Place(c) \in Nat
      BY <1>1, <1>3, <1>6
    <3>2. CASE c \in items
      BY <1>7, <3>1, <3>2
    <3>3. CASE c \in walk.read
      <4>1. Place(c) <= Before
        BY <1>4, <3>1, <3>3 DEF NoneAhead
      <4> QED  BY <1>2, <1>5, <3>1, <4>1 DEF after
    <3> QED  BY <1>1, <3>2, <3>3
  <2>5. WalkComplete'
    BY <1>11, <2>1 DEF WalkComplete
  <2>6. (walk.due \subseteq Rows)'
    BY <1>1, <1>3, <1>4
  <2> QED  BY <2>1, <2>3, <2>4, <2>5, <2>6 DEF WalkInv
<1> QED  BY <1>12, <1>13

(* The other steps of a query leave the table, the page and what was read  *)
(* alone.                                                                  *)
LEMMA QuietWalk ==
  ASSUME QInv, WalkInv, UNCHANGED <<record, rank>>,
         QueryLookup \/ QueryInsertIntoCache \/ CountRecords
           \/ (QueryFromDatabase /\ walk'.pc # "idle")
  PROVE  WalkInv'
<1>0. walk \in WalkType
  BY DEF QInv
<1> DEFINE Kept == /\ walk'.due = walk.due /\ walk'.read = walk.read /\ walk'.page = walk.page
                   /\ walk'.size = walk.size /\ walk'.twice = walk.twice
                   /\ walk'.grew = walk.grew /\ walk'.shrank = walk.shrank
                   /\ walk'.pc # "over" /\ Walking
                   /\ walk'.pc = "select" => walk'.total = Cardinality(Rows)
<1>1. Kept
  <2>1. CASE QueryLookup
    BY <1>0, <2>1 DEF QueryLookup, WalkType, Walking
  <2>2. CASE QueryInsertIntoCache
    BY <1>0, <2>2 DEF QueryInsertIntoCache, WalkType, Walking
  <2>3. CASE CountRecords
    <3>1. PICK n : n = Cardinality(Rows)
      OBVIOUS
    <3>2. walk' = [walk EXCEPT !.pc = "select", !.total = n, !.late = FALSE]
          /\ walk.pc = "count"
      BY <2>3, <3>1 DEF CountRecords
    <3> QED  BY <1>0, <3>1, <3>2 DEF WalkType, Walking
  <2>4. CASE QueryFromDatabase /\ walk'.pc # "idle"
    <3>1. walk' = [walk EXCEPT !.pc = "cache", !.got = schema] /\ walk.pc = "load"
      BY <2>4 DEF QueryFromDatabase, NoWalk
    <3> QED  BY <1>0, <3>1 DEF WalkType, Walking
  <2> QED  BY <2>1, <2>2, <2>3, <2>4
<1>3. Rows' = Rows /\ Cardinality(Rows)' = Cardinality(Rows)
      /\ \A c \in Creators : Place(c)' = Place(c)
  BY DEF Rows, Place
<1>4. Before' = Before /\ walk.due \subseteq Creators /\ walk.read \subseteq Creators
  BY <1>0, <1>1 DEF Before, WalkType
<1>5. walk.due \subseteq Rows /\ NoneSkipped /\ NoneAhead
  BY <1>1 DEF WalkInv
<1>6. NoneSkipped'
  BY <1>1, <1>3, <1>4, <1>5 DEF NoneSkipped
<1>7. NoneAhead'
  BY <1>1, <1>3, <1>4, <1>5 DEF NoneAhead
<1>8. WalkComplete'
  BY <1>1 DEF WalkInv, WalkComplete
<1> QED  BY <1>1, <1>3, <1>5, <1>6, <1>7, <1>8 DEF WalkInv, CountRight

LEMMA IdleWalk ==
  ASSUME NEW n, walk' = NoWalk(n)
  PROVE  WalkInv'
BY DEF NoWalk, WalkInv, Walking, WalkComplete

LEMMA BeginWalk ==
  ASSUME QInv, NEW n \in Nodes, NEW size \in PageSizes, WalkBegin(n, size)
  PROVE  WalkInv'
<1>1. walk' = [NoWalk(n) EXCEPT !.pc = "lookup", !.due = Rows, !.size = size]
      /\ UNCHANGED <<record, rank>>
  BY DEF WalkBegin, tableVars
<1>2. /\ walk'.pc = "lookup" /\ walk'.due = Rows /\ walk'.size = size /\ walk'.page = 1
      /\ walk'.read = {} /\ walk'.twice = FALSE
  BY <1>1 DEF NoWalk
<1>3. Rows' = Rows /\ Rows \subseteq Creators /\ \A c \in Creators : Place(c)' = Place(c)
  BY <1>1 DEF Rows, Place
<1>4. Before' = 0
  BY <1>2, NextPage, QueryAssumption DEF Before
<1>5. \A c \in Rows : ~(Place(c)' <= 0)
  <2>1. \A c \in Rows : Place(c) \in Nat /\ Place(c) >= 1
    BY <1>3, Places
  <2> QED  BY <1>3, <2>1
<1>6. NoneSkipped' /\ NoneAhead' /\ WalkComplete'
  BY <1>2, <1>4, <1>5 DEF NoneSkipped, NoneAhead, WalkComplete
<1> QED  BY <1>2, <1>3, <1>6 DEF WalkInv

LEMMA WalkInvNext == QInv /\ WalkInv /\ [QueryNext]_queryVars => WalkInv'
<1> SUFFICES ASSUME QInv, WalkInv, [QueryNext]_queryVars PROVE WalkInv'
  OBVIOUS
<1>1. CASE Next /\ Watch /\ UNCHANGED rank
  BY <1>1, WatchWalk
<1>2. CASE \E n \in Nodes, size \in PageSizes : WalkBegin(n, size)
  BY <1>2, BeginWalk
<1>3. CASE SelectPage
  BY <1>3, SelectWalk
<1>4. CASE QueryLookup \/ QueryInsertIntoCache \/ CountRecords
             \/ (QueryFromDatabase /\ walk'.pc # "idle")
  BY <1>4, QuietWalk DEF QueryLookup, QueryInsertIntoCache, CountRecords, QueryFromDatabase,
       tableVars
<1>5. CASE WalkEnd
  BY <1>5, IdleWalk DEF WalkEnd
<1>6. CASE QueryFromDatabase /\ walk'.pc = "idle"
  <2>1. walk' = NoWalk(walk.node)
    BY <1>6 DEF QueryFromDatabase, QInv, WalkType
  <2> QED  BY <2>1, IdleWalk
<1>7. CASE UNCHANGED queryVars
  BY <1>7 DEF queryVars, WalkInv, Walking, WalkComplete, NoneSkipped, NoneAhead, CountRight,
       Before, Place, Rows
<1> QED  BY <1>1, <1>2, <1>3, <1>4, <1>5, <1>6, <1>7 DEF QueryNext, QueryStep

(* A client that reads all pages of query_archive_records has seen every   *)
(* record that was there all along, unless one was deleted meanwhile or    *)
(* came between the last COUNT and SELECT, and sees none twice unless one  *)
(* was created: for every number of records, page size and sort order      *)
(* without ties.                                                           *)
THEOREM WalksComplete == QuerySpec => []WalkComplete
<1>1. QueryInit => WalkInv
  <2> SUFFICES ASSUME QueryInit PROVE WalkInv
    OBVIOUS
  <2>1. PICK n : walk = NoWalk(n)
    BY DEF QueryInit
  <2> QED  BY <2>1 DEF NoWalk, WalkInv, Walking, WalkComplete
<1>2. WalkInv => WalkComplete
  BY DEF WalkInv
<1> QED  BY <1>1, <1>2, WalkInvNext, QueryInitQInv, QueryNextQInv, PTL DEF QuerySpec

-----------------------------------------------------------------------------
(***************************************************************************)
(* Caches and validation.  Two runs show that a process can go on with an  *)
(* outdated context, and that a template with records can be modified; here*)
(* are the only ways to it in one process.                                 *)
(***************************************************************************)
Updating(a, pc) == admin[a].op = "update" /\ admin[a].pc = pc

(* No request is between its reading of sys_template and its insertion into*)
(* the cache while an update is about to write.                            *)
LoadApart == (\E a \in Admins : Updating(a, "apply")) =>
               walk.pc # "cache" /\ \A c \in Creators : create[c].pc # "cache"

(* A create request that has been validated and has not ended.             *)
Taken(c) == /\ create[c].pc \in {"lookup", "load", "cache", "insert", "commit"}
            /\ create[c].seen # None

(* An update and the part of a create request from its validation to its   *)
(* COMMIT do not overlap, nor do loads of the context.                     *)
UpdateApart == (\E a \in Admins : Updating(a, "apply") \/ Updating(a, "clear")) =>
  walk.pc # "cache" /\ \A c \in Creators : create[c].pc # "cache" /\ ~Taken(c)

(* What was read is what the template still has; only while an update has  *)
(* yet to clear it the cache may be behind.                                *)
LoadedNow == /\ \A c \in Creators : create[c].pc = "cache" => create[c].got = schema
             /\ walk.pc = "cache" => walk.got = schema
CacheNow == \/ \A m \in Nodes : cache[m] \in {None, schema}
            \/ \E a \in Admins : Updating(a, "clear")
Current == LoadedNow /\ CacheNow

(* Requests under way and records were validated with the schema of now,   *)
(* and whoever is about to write a schema has found no record, rightly.    *)
Matched == /\ \A c \in Creators : Taken(c) => create[c].seen = schema
           /\ RecordsMatchSchema
           /\ (\E a \in Admins : Updating(a, "apply")) => ~AnyRecordExists

CreateTypes == [pc : {"idle", "enabled", "lookup", "load", "cache", "insert", "commit", "done"},
                node : Nodes, got : Versions \cup {None}, seen : Versions \cup {None}]

(* What a step of a create request does to its state.                      *)
Moves(c) ==
  /\ UNCHANGED <<template, schema, admin>>
  /\ \A d \in Creators : d # c => create'[d] = create[d] /\ record'[d] = record[d]
  /\ create'[c].pc = "cache" => create'[c] = create[c] \/ create'[c].got = schema
  /\ \/ UNCHANGED cache
     \/ create[c].pc = "cache" /\ cache' = [cache EXCEPT ![create[c].node] = create[c].got]
  /\ Taken(c)' => \/ Taken(c) /\ create'[c].seen = create[c].seen
                  \/ create[c].pc = "lookup" /\ create'[c].seen = cache[create[c].node]
                  \/ create[c].pc = "cache" /\ create'[c].seen = create[c].got
  /\ record'[c].status = "committed" =>
       \/ record'[c] = record[c]
       \/ Taken(c) /\ record'[c].version = create[c].seen

LEMMA SetCreateFields ==
  ASSUME IInv, NEW c \in Creators, NEW pc, NEW got, NEW seen, SetCreate(c, pc, got, seen)
  PROVE  /\ create'[c].pc = pc /\ create'[c].got = got /\ create'[c].seen = seen
         /\ \A d \in Creators : d # c => create'[d] = create[d]
BY DEF SetCreate, IInv, TypeOK

LEMMA UseContextFields ==
  ASSUME IInv, NEW c \in Creators, NEW v, UseContext(c, v)
  PROVE  /\ create'[c].pc # "cache" /\ \A d \in Creators : d # c => create'[d] = create[d]
         /\ create'[c].pc # "done" =>
              \/ create[c].seen # None /\ create'[c].seen = create[c].seen
              \/ create'[c].seen = v
<1>1. CASE create[c].seen = None /\ SetCreate(c, "lookup", None, v)
  BY <1>1, SetCreateFields
<1>2. CASE create[c].seen = None /\ SetCreate(c, "done", None, None)
  BY <1>2, SetCreateFields
<1>3. CASE create[c].seen # None /\ SetCreate(c, "insert", None, create[c].seen)
  <2>1. create'[c].pc = "insert" /\ create'[c].seen = create[c].seen
        /\ \A d \in Creators : d # c => create'[d] = create[d]
    BY <1>3, SetCreateFields
  <2> QED  BY <1>3, <2>1
<1> QED  BY <1>1, <1>2, <1>3 DEF UseContext

LEMMA CreateMoves ==
  ASSUME IInv, NEW c \in Creators,
         (\E n \in Nodes : CreateBegin(c, n)) \/ CreateStep(c) \/ DeleteRecord(c)
  PROVE  Moves(c)
<1>0. create \in [Creators -> CreateTypes] /\ create[c] \in CreateTypes
  BY DEF IInv, TypeOK, CreateTypes
<1>1. CASE \E n \in Nodes : CreateBegin(c, n)
  <2>1. create'[c].pc = "enabled" /\ \A d \in Creators : d # c => create'[d] = create[d]
    BY <1>0, <1>1 DEF CreateBegin
  <2> QED  BY <1>1, <2>1 DEF CreateBegin, Moves, Taken
<1>2. CASE CheckTemplateIsEnabled(c)
  <2>1. PICK pc \in {"lookup", "done"} : SetCreate(c, pc, None, None)
    BY <1>2 DEF CheckTemplateIsEnabled
  <2>2. create'[c].pc \in {"lookup", "done"} /\ create'[c].seen = None
        /\ \A d \in Creators : d # c => create'[d] = create[d]
    BY <2>1, SetCreateFields
  <2> QED  BY <1>2, <2>2 DEF CheckTemplateIsEnabled, Moves, Taken
<1>3. CASE Lookup(c)
  <2>1. create[c].pc = "lookup" /\ UNCHANGED <<template, schema, cache, record, admin>>
    BY <1>3 DEF Lookup
  <2>2. CASE SetCreate(c, "load", None, create[c].seen)
    <3>1. create'[c].pc = "load" /\ create'[c].seen = create[c].seen
          /\ \A d \in Creators : d # c => create'[d] = create[d]
      BY <2>2, SetCreateFields
    <3> QED  BY <2>1, <3>1 DEF Moves, Taken
  <2>3. CASE UseContext(c, cache[create[c].node])
    <3>1. /\ create'[c].pc # "cache" /\ \A d \in Creators : d # c => create'[d] = create[d]
          /\ create'[c].pc # "done" =>
               \/ create[c].seen # None /\ create'[c].seen = create[c].seen
               \/ create'[c].seen = cache[create[c].node]
      BY <2>3, UseContextFields
    <3> QED  BY <2>1, <3>1 DEF Moves, Taken
  <2> QED  BY <1>3, <2>2, <2>3 DEF Lookup
<1>4. CASE FromDatabase(c)
  <2>1. create[c].pc = "load" /\ UNCHANGED <<template, schema, cache, record, admin>>
    BY <1>4 DEF FromDatabase
  <2>2. CASE SetCreate(c, "cache", schema, create[c].seen)
    <3>1. create'[c].pc = "cache" /\ create'[c].seen = create[c].seen /\ create'[c].got = schema
          /\ \A d \in Creators : d # c => create'[d] = create[d]
      BY <2>2, SetCreateFields
    <3> QED  BY <2>1, <3>1 DEF Moves, Taken
  <2>3. CASE SetCreate(c, "done", None, create[c].seen)
    <3>1. create'[c].pc = "done" /\ \A d \in Creators : d # c => create'[d] = create[d]
      BY <2>3, SetCreateFields
    <3> QED  BY <2>1, <3>1 DEF Moves, Taken
  <2> QED  BY <1>4, <2>2, <2>3 DEF FromDatabase
<1>5. CASE InsertIntoCache(c)
  <2>1. /\ create[c].pc = "cache" /\ UNCHANGED <<template, schema, record, admin>>
        /\ cache' = [cache EXCEPT ![create[c].node] = create[c].got]
        /\ UseContext(c, create[c].got)
    BY <1>5 DEF InsertIntoCache
  <2>2. /\ create'[c].pc # "cache" /\ \A d \in Creators : d # c => create'[d] = create[d]
        /\ create'[c].pc # "done" =>
             \/ create[c].seen # None /\ create'[c].seen = create[c].seen
             \/ create'[c].seen = create[c].got
    BY <2>1, UseContextFields
  <2> QED  BY <2>1, <2>2 DEF Moves, Taken
<1>6. CASE InsertRecord(c)
  <2>1. create[c].pc = "insert" /\ UNCHANGED <<template, schema, cache, admin>>
    BY <1>6 DEF InsertRecord
  <2>2. /\ \A d \in Creators : d # c => record'[d] = record[d]
        /\ record'[c] = record[c] \/ record'[c].status = "open"
    BY <1>6 DEF InsertRecord, IInv, TypeOK
  <2>3. PICK pc \in {"commit", "done"} : SetCreate(c, pc, None, create[c].seen)
    BY <1>6 DEF InsertRecord
  <2>4. create'[c].pc \in {"commit", "done"} /\ create'[c].seen = create[c].seen
        /\ \A d \in Creators : d # c => create'[d] = create[d]
    BY <2>3, SetCreateFields
  <2> QED  BY <2>1, <2>2, <2>4 DEF Moves, Taken
<1>7. CASE EndCreate(c)
  <2>1. create[c].pc = "commit" /\ UNCHANGED <<template, schema, cache, admin>>
    BY <1>7 DEF EndCreate
  <2>2. /\ \A d \in Creators : d # c => record'[d] = record[d]
        /\ record'[c].status = "committed" => record'[c].version = create[c].seen
    BY <1>7 DEF EndCreate, NoRecord, IInv, TypeOK
  <2>3. create[c].seen # None
    BY <2>1 DEF IInv, TypeOK, Versions, None
  <2>4. create'[c].pc = "done" /\ \A d \in Creators : d # c => create'[d] = create[d]
    BY <1>7, SetCreateFields DEF EndCreate
  <2> QED  BY <2>1, <2>2, <2>3, <2>4 DEF Moves, Taken
<1>8. CASE DeleteRecord(c)
  <2>1. /\ \A d \in Creators : d # c => record'[d] = record[d]
        /\ record'[c].status = "deleted"
    BY <1>8 DEF DeleteRecord, IInv, TypeOK
  <2> QED  BY <1>8, <2>1 DEF DeleteRecord, Moves, Taken
<1> QED  BY <1>1, <1>2, <1>3, <1>4, <1>5, <1>6, <1>7, <1>8 DEF CreateStep

(* A step of a query leaves the tables alone; what it caches it has read.  *)
LEMMA QueryMoves ==
  ASSUME QInv, QueryStep \/ \E n \in Nodes, size \in PageSizes : WalkBegin(n, size)
  PROVE  /\ UNCHANGED tableVars
         /\ walk'.pc = "cache" => walk'.got = schema
         /\ \/ UNCHANGED cache
            \/ walk.pc = "cache" /\ cache' = [cache EXCEPT ![walk.node] = walk.got]
<1>0. walk \in WalkType
  BY DEF QInv
<1>1. CASE QueryFromDatabase
  <2>1. CASE Present
    BY <1>0, <1>1, <2>1 DEF QueryFromDatabase, WalkType
  <2>2. CASE ~Present
    BY <1>1, <2>2 DEF QueryFromDatabase, NoWalk
  <2> QED  BY <2>1, <2>2
<1>2. CASE QueryInsertIntoCache
  BY <1>0, <1>2 DEF QueryInsertIntoCache, WalkType
<1>3. CASE SelectPage
  <2> DEFINE items == Page(walk.page, walk.size)
             last  == walk.page >= TotalPages(walk.total, walk.size)
  <2>1. walk' = [walk EXCEPT !.read = walk.read \cup items,
                   !.twice = walk.twice \/ walk.read \cap items # {},
                   !.pc = IF last THEN "over" ELSE "lookup",
                   !.page = IF last THEN walk.page ELSE walk.page + 1]
    BY <1>3 DEF SelectPage
  <2> HIDE DEF items, last
  <2>2. walk'.pc = IF last THEN "over" ELSE "lookup"
    BY <1>0, <2>1 DEF WalkType
  <2> QED  BY <1>3, <2>2 DEF SelectPage
<1>4. CASE CountRecords
  <2>1. PICK n : walk' = [walk EXCEPT !.pc = "select", !.total = n, !.late = FALSE]
    BY <1>4 DEF CountRecords
  <2>2. walk'.pc # "cache"
    BY <1>0, <2>1 DEF WalkType
  <2> QED  BY <1>4, <2>2 DEF CountRecords
<1>5. CASE QueryLookup
  BY <1>0, <1>5 DEF QueryLookup, WalkType
<1>6. CASE \E n \in Nodes, size \in PageSizes : WalkBegin(n, size)
  BY <1>6 DEF WalkBegin, NoWalk
<1>7. CASE WalkEnd
  BY <1>7 DEF WalkEnd, NoWalk
<1> QED  BY <1>1, <1>2, <1>3, <1>4, <1>5, <1>6, <1>7 DEF QueryStep

(* Other requests do not disturb where a query stands.                     *)
LEMMA WatchKeeps ==
  ASSUME QInv, Watch
  PROVE  walk'.pc = walk.pc /\ walk'.got = walk.got
<1> DEFINE rows == {c \in Creators : record'[c].status = "committed"}
<1>1. CASE walk.pc \in {"idle", "over"}
  BY <1>1 DEF Watch
<1>2. CASE walk.pc \notin {"idle", "over"}
  <2>1. walk' = [walk EXCEPT !.due = walk.due \cap rows,
                   !.grew = walk.grew \/ rows \ Rows # {},
                   !.shrank = walk.shrank \/ Rows \ rows # {},
                   !.late = walk.late \/ rows \ Rows # {}]
    BY <1>2 DEF Watch
  <2> HIDE DEF rows
  <2> QED  BY <2>1 DEF QInv, WalkType
<1> QED  BY <1>1, <1>2

(* Updating, by the fields of the admin request that moves.                *)
LEMMA SetAdminFields ==
  ASSUME IInv, NEW a \in Admins, NEW pc, SetAdmin(a, pc)
  PROVE  /\ admin'[a].pc = pc /\ admin'[a].op = admin[a].op
         /\ \A b \in Admins : b # a => admin'[b] = admin[b]
BY DEF SetAdmin, IInv, TypeOK

(* Steps that leave the schema, the admins and the queries where they are, *)
(* and write into the cache only what was read.                            *)
LEMMA KeptCurrent ==
  ASSUME IInv, Current, UNCHANGED <<schema, admin>>,
         \A c \in Creators : create'[c].pc = "cache" =>
                               create'[c] = create[c] \/ create'[c].got = schema,
         walk'.pc = "cache" => walk'.got = schema,
         UNCHANGED cache \/ \E m \in Nodes : cache' = [cache EXCEPT ![m] = schema]
  PROVE  Current'
<1>1. LoadedNow'
  BY DEF Current, LoadedNow
<1>2. CacheNow'
  BY DEF Current, CacheNow, Updating, IInv, TypeOK
<1> QED  BY <1>1, <1>2 DEF Current

LEMMA CreateCurrent ==
  ASSUME QInv, Current, NEW c \in Creators, Moves(c), Watch
  PROVE  Current'
<1>0. IInv /\ walk'.pc = walk.pc /\ walk'.got = walk.got
  BY WatchKeeps DEF QInv
<1>1. /\ UNCHANGED <<schema, admin>>
      /\ \A d \in Creators : create'[d].pc = "cache" =>
                               create'[d] = create[d] \/ create'[d].got = schema
  BY DEF Moves
<1>2. create[c].pc = "cache" => create[c].got = schema
  BY DEF Current, LoadedNow
<1>3. create[c].node \in Nodes
  BY <1>0 DEF IInv, TypeOK
<1>4. UNCHANGED cache \/ \E m \in Nodes : cache' = [cache EXCEPT ![m] = schema]
  BY <1>2, <1>3 DEF Moves
<1>5. walk'.pc = "cache" => walk'.got = schema
  BY <1>0 DEF Current, LoadedNow
<1> QED  BY <1>0, <1>1, <1>4, <1>5, KeptCurrent

LEMMA QueryCurrent ==
  ASSUME QInv, Current, QueryStep \/ \E n \in Nodes, size \in PageSizes : WalkBegin(n, size)
  PROVE  Current'
<1>1. /\ UNCHANGED tableVars /\ (walk'.pc = "cache" => walk'.got = schema)
      /\ \/ UNCHANGED cache
         \/ walk.pc = "cache" /\ cache' = [cache EXCEPT ![walk.node] = walk.got]
  BY QueryMoves
<1>2. walk.node \in Nodes /\ (walk.pc = "cache" => walk.got = schema) /\ IInv
  BY DEF QInv, WalkType, Current, LoadedNow
<1>3. UNCHANGED <<schema, admin, create>>
  BY <1>1 DEF tableVars
<1>4. UNCHANGED cache \/ \E m \in Nodes : cache' = [cache EXCEPT ![m] = schema]
  BY <1>1, <1>2
<1> QED  BY <1>1, <1>2, <1>3, <1>4, KeptCurrent

(* The schema changes while nobody holds one, and then the update has its  *)
(* cache to clear: the only one, in one process.                           *)
LEMMA AdminCurrent ==
  ASSUME NEW n, Nodes = {n}, QInv, Current, LoadApart, NEW a \in Admins, Watch,
         (\E m \in Nodes, op \in {"update", "delete"} : AdminBegin(a, m, op)) \/ AdminStep(a)
  PROVE  Current'
<1>0. /\ IInv /\ walk'.pc = walk.pc /\ walk'.got = walk.got /\ UNCHANGED create
      /\ cache \in [Nodes -> Versions \cup {None}] /\ admin[a].node = n
  BY WatchKeeps DEF QInv, IInv, TypeOK, AdminBegin, AdminStep, AdminCheck, UpdateTemplate,
     DeleteTemplate, ClearTemplateCache
<1>1. CASE UpdateTemplate(a) /\ Present
  <2>1. Updating(a, "apply") /\ admin'[a].pc = "clear" /\ admin'[a].op = "update"
    BY <1>0, <1>1, SetAdminFields DEF UpdateTemplate, Updating
  <2>2. LoadedNow'
    BY <1>0, <2>1 DEF LoadApart, LoadedNow
  <2>3. CacheNow'
    BY <2>1 DEF CacheNow, Updating
  <2> QED  BY <2>2, <2>3 DEF Current
<1>2. CASE ClearTemplateCache(a)
  <2>1. UNCHANGED schema /\ cache' = [cache EXCEPT ![n] = None]
    BY <1>0, <1>2 DEF ClearTemplateCache, Cleared
  <2>2. \A m \in Nodes : cache'[m] = None
    BY <1>0, <2>1
  <2> QED  BY <1>0, <2>1, <2>2 DEF Current, LoadedNow, CacheNow
<1>3. ASSUME UNCHANGED <<schema, cache>>,
             \A b \in Admins : Updating(b, "clear") => Updating(b, "clear")'
      PROVE  Current'
  <2>1. LoadedNow'
    BY <1>0, <1>3 DEF Current, LoadedNow
  <2>2. CacheNow'
    BY <1>3 DEF Current, CacheNow
  <2> QED  BY <2>1, <2>2 DEF Current
<1>4. CASE \E m \in Nodes, op \in {"update", "delete"} : AdminBegin(a, m, op)
  <2>1. admin[a].pc = "idle" /\ \A b \in Admins : b # a => admin'[b] = admin[b]
    BY <1>0, <1>4 DEF AdminBegin, IInv, TypeOK
  <2> QED  BY <1>3, <1>4, <2>1 DEF AdminBegin, Updating
<1>5. CASE AdminCheck(a) \/ DeleteTemplate(a) \/ (UpdateTemplate(a) /\ ~Present)
  <2>1. PICK pc : SetAdmin(a, pc)
    BY <1>5 DEF AdminCheck, DeleteTemplate, UpdateTemplate
  <2>2. \A b \in Admins : b # a => admin'[b] = admin[b]
    BY <1>0, <2>1, SetAdminFields
  <2>3. admin[a].pc # "clear" /\ UNCHANGED <<schema, cache>>
    BY <1>5 DEF AdminCheck, DeleteTemplate, UpdateTemplate
  <2> QED  BY <1>3, <2>2, <2>3 DEF Updating
<1> QED  BY <1>1, <1>2, <1>4, <1>5 DEF AdminStep

LEMMA NextCurrent ==
  ASSUME NEW n, Nodes = {n}, QInv, Current, LoadApart, [QueryNext]_queryVars
  PROVE  Current'
<1>1. CASE Next /\ Watch
  <2>1. CASE ModifyTemplateStatus
    <3>1. walk'.pc = walk.pc /\ walk'.got = walk.got
      BY <1>1, WatchKeeps
    <3> QED  BY <2>1, <3>1 DEF ModifyTemplateStatus, Current, LoadedNow, CacheNow, Updating
  <2>2. ASSUME NEW c \in Creators,
               (\E m \in Nodes : CreateBegin(c, m)) \/ CreateStep(c) \/ DeleteRecord(c)
        PROVE  Current'
    BY <1>1, <2>2, CreateMoves, CreateCurrent DEF QInv
  <2>3. ASSUME NEW a \in Admins,
               (\E m \in Nodes, op \in {"update", "delete"} : AdminBegin(a, m, op)) \/ AdminStep(a)
        PROVE  Current'
    BY <1>1, <2>3, AdminCurrent
  <2> QED  BY <1>1, <2>1, <2>2, <2>3 DEF Next
<1>2. CASE QueryStep \/ \E m \in Nodes, size \in PageSizes : WalkBegin(m, size)
  BY <1>2, QueryCurrent
<1>3. CASE UNCHANGED queryVars
  BY <1>3 DEF queryVars, Current, LoadedNow, CacheNow, Updating
<1> QED  BY <1>1, <1>2, <1>3 DEF QueryNext

LEMMA InitCurrent == QueryInit => Current /\ Matched
<1> SUFFICES ASSUME QueryInit PROVE Current /\ Matched
  OBVIOUS
<1>1. PICK n \in Nodes : /\ create = [c \in Creators |-> NoCreate(n)]
                         /\ admin = [a \in Admins |-> NoAdmin(n)]
  BY DEF QueryInit, Init
<1>2. PICK m : walk = NoWalk(m)
  BY DEF QueryInit
<1>3. /\ \A c \in Creators : create[c].pc = "idle" /\ record[c].status = "none"
      /\ \A a \in Admins : admin[a].pc = "idle"
      /\ walk.pc = "idle" /\ \A k \in Nodes : cache[k] = None
  BY <1>1, <1>2 DEF QueryInit, Init, NoCreate, NoAdmin, NoWalk, NoRecord
<1>4. Current
  BY <1>3 DEF Current, LoadedNow, CacheNow
<1>5. Matched
  BY <1>3 DEF Matched, Taken, RecordsMatchSchema, Updating
<1> QED  BY <1>4, <1>5

(***************************************************************************)
(* In one process an update leaves no outdated context behind, once it has *)
(* cleared the cache, unless it wrote between another request's reading of *)
(* sys_template and its schema_cache.insert: the await in                  *)
(* get_or_load_template_context is the only way to the stale cache that    *)
(* the run template_stale_cache shows.                                     *)
(***************************************************************************)
THEOREM CacheStaysCoherent ==
  ASSUME NEW n, Nodes = {n}
  PROVE  QuerySpec /\ []LoadApart => []CacheCoherent
<1>1. Current => CacheCoherent
  BY DEF Current, CacheNow, CacheCoherent, Quiet, Updating
<1>2. QInv /\ Current /\ LoadApart /\ [QueryNext]_queryVars => Current'
  BY NextCurrent
<1> QED  BY <1>1, <1>2, InitCurrent, QueryInitQInv, QueryNextQInv, PTL DEF QuerySpec

(* A create request is validated with a cache that nobody has yet to clear,*)
(* or with what it has just read; and it commits while nobody is about to  *)
(* write a schema.                                                         *)
LEMMA CreateMatched ==
  ASSUME IInv, Current, Matched, UpdateApart, UpdateApart', NEW c \in Creators, Moves(c)
  PROVE  Matched'
<1>0. UNCHANGED <<schema, admin>> /\ create[c].node \in Nodes
  BY DEF Moves, IInv, TypeOK
<1>1. ASSUME NEW d \in Creators, Taken(d)' PROVE create'[d].seen = schema
  <2>1. CASE d # c
    <3>1. create'[d] = create[d] /\ Taken(d)
      BY <1>1, <2>1 DEF Moves, Taken
    <3> QED  BY <3>1 DEF Matched
  <2>2. CASE d = c
    <3>1. \A a \in Admins : ~Updating(a, "clear")
      BY <1>0, <1>1 DEF UpdateApart, Updating
    <3>2. cache[create[c].node] \in {None, schema}
      BY <1>0, <3>1 DEF Current, CacheNow
    <3>3. create[c].pc = "cache" => create[c].got = schema
      BY DEF Current, LoadedNow
    <3>4. Taken(c) => create[c].seen = schema
      BY DEF Matched
    <3>5. create'[c].seen # None
      BY <1>1, <2>2 DEF Taken
    <3> QED  BY <1>1, <2>2, <3>2, <3>3, <3>4, <3>5 DEF Moves
  <2> QED  BY <2>1, <2>2
<1>2. ASSUME NEW d \in Creators, record'[d].status = "committed"
      PROVE  /\ record'[d].version = schema
             /\ record'[d] = record[d] \/ Taken(c)
  <2>1. record'[d] = record[d] \/ (d = c /\ Taken(c) /\ record'[d].version = create[c].seen)
    BY <1>2 DEF Moves
  <2>2. (record[d].status = "committed" => record[d].version = schema)
        /\ (Taken(c) => create[c].seen = schema)
    BY DEF Matched, RecordsMatchSchema
  <2> QED  BY <1>2, <2>1, <2>2
<1>3. RecordsMatchSchema'
  BY <1>0, <1>2 DEF RecordsMatchSchema
<1>4. ((\E a \in Admins : Updating(a, "apply")) => ~AnyRecordExists)'
  <2> SUFFICES ASSUME NEW a \in Admins, Updating(a, "apply")' PROVE ~AnyRecordExists'
    OBVIOUS
  <2>1. Updating(a, "apply")
    BY <1>0 DEF Updating
  <2>2. ~AnyRecordExists /\ ~Taken(c)
    BY <2>1 DEF Matched, UpdateApart
  <2> QED  BY <1>2, <2>2 DEF AnyRecordExists
<1>5. (\A d \in Creators : Taken(d) => create[d].seen = schema)'
  BY <1>0, <1>1
<1> QED  BY <1>3, <1>4, <1>5 DEF Matched

(* An update writes while no request is validated and no record is there.  *)
LEMMA AdminMatched ==
  ASSUME IInv, Matched, UpdateApart, NEW a \in Admins,
         (\E m \in Nodes, op \in {"update", "delete"} : AdminBegin(a, m, op)) \/ AdminStep(a)
  PROVE  Matched'
<1>0. UNCHANGED <<record, create>> /\ (AnyRecordExists' <=> AnyRecordExists)
      /\ \A c \in Creators : Taken(c)' <=> Taken(c)
  BY DEF AdminBegin, AdminStep, AdminCheck, UpdateTemplate, DeleteTemplate, ClearTemplateCache,
         AnyRecordExists, Taken
<1>1. CASE UpdateTemplate(a)
  <2>1. Updating(a, "apply") /\ \A b \in Admins : b # a => admin'[b] = admin[b]
    BY <1>1, SetAdminFields DEF UpdateTemplate, Updating
  <2>2. ~AnyRecordExists /\ \A c \in Creators : ~Taken(c)
    BY <2>1 DEF Matched, UpdateApart
  <2>3. RecordsMatchSchema'
    BY <1>0, <2>2 DEF RecordsMatchSchema, AnyRecordExists
  <2> QED  BY <1>0, <2>2, <2>3 DEF Matched
<1>2. ASSUME UNCHANGED schema,
             \A b \in Admins : Updating(b, "apply")' => Updating(b, "apply") \/ ~AnyRecordExists
      PROVE  Matched'
  <2>1. RecordsMatchSchema'
    BY <1>0, <1>2 DEF Matched, RecordsMatchSchema
  <2>2. ((\E b \in Admins : Updating(b, "apply")) => ~AnyRecordExists)'
    BY <1>0, <1>2 DEF Matched
  <2>3. (\A c \in Creators : Taken(c) => create[c].seen = schema)'
    BY <1>0, <1>2 DEF Matched
  <2> QED  BY <2>1, <2>2, <2>3 DEF Matched
<1>3. CASE \E m \in Nodes, op \in {"update", "delete"} : AdminBegin(a, m, op)
  <2>1. admin'[a].pc = "check" /\ \A b \in Admins : b # a => admin'[b] = admin[b]
    BY <1>3 DEF AdminBegin, IInv, TypeOK
  <2> QED  BY <1>2, <1>3, <2>1 DEF AdminBegin, Updating
<1>4. CASE AdminCheck(a)
  <2>1. PICK pc : SetAdmin(a, pc) /\ pc = IF AnyRecordExists THEN "idle" ELSE "apply"
    BY <1>4 DEF AdminCheck
  <2>2. admin'[a].pc = pc /\ \A b \in Admins : b # a => admin'[b] = admin[b]
    BY <2>1, SetAdminFields
  <2> QED  BY <1>2, <1>4, <2>1, <2>2 DEF AdminCheck, Updating
<1>5. CASE DeleteTemplate(a) \/ ClearTemplateCache(a)
  <2>1. PICK pc \in {"idle", "clear"} : SetAdmin(a, pc)
    BY <1>5 DEF DeleteTemplate, ClearTemplateCache
  <2>2. admin'[a].pc = pc /\ \A b \in Admins : b # a => admin'[b] = admin[b]
    BY <2>1, SetAdminFields
  <2> QED  BY <1>2, <1>5, <2>1, <2>2 DEF DeleteTemplate, ClearTemplateCache, Updating
<1> QED  BY <1>1, <1>3, <1>4, <1>5 DEF AdminStep

LEMMA NextMatched ==
  ASSUME QInv, Current, Matched, UpdateApart, UpdateApart', [QueryNext]_queryVars
  PROVE  Matched'
<1>0. IInv
  BY DEF QInv
<1>1. CASE UNCHANGED <<schema, record, create, admin>>
  BY <1>1 DEF Matched, Taken, RecordsMatchSchema, AnyRecordExists, Updating
<1>2. CASE Next
  <2>1. ASSUME NEW c \in Creators,
               (\E m \in Nodes : CreateBegin(c, m)) \/ CreateStep(c) \/ DeleteRecord(c)
        PROVE  Matched'
    BY <1>0, <2>1, CreateMoves, CreateMatched
  <2>2. ASSUME NEW a \in Admins,
               (\E m \in Nodes, op \in {"update", "delete"} : AdminBegin(a, m, op)) \/ AdminStep(a)
        PROVE  Matched'
    BY <1>0, <2>2, AdminMatched
  <2> QED  BY <1>1, <1>2, <2>1, <2>2 DEF Next, ModifyTemplateStatus
<1>3. CASE QueryStep \/ \E m \in Nodes, size \in PageSizes : WalkBegin(m, size)
  BY <1>1, <1>3, QueryMoves DEF tableVars
<1> QED  BY <1>1, <1>2, <1>3 DEF QueryNext, queryVars

(***************************************************************************)
(* In one process a template with records keeps the schema they were       *)
(* validated with, as the documented answer 409 of update_template promises*)
(* (a template with archive records cannot be modified), unless an update  *)
(* that has made its check and not yet cleared the cache overlaps a create *)
(* request between its validation and its COMMIT, or a load of the context:*)
(* the overlap in the run template_modified is the only way to a record    *)
(* that the schema of its template was never applied to.                   *)
(***************************************************************************)
THEOREM RecordsStayMatched ==
  ASSUME NEW n, Nodes = {n}
  PROVE  QuerySpec /\ []UpdateApart => []RecordsMatchSchema
<1>1. UpdateApart => LoadApart
  BY DEF UpdateApart, LoadApart
<1>2. QInv /\ Current /\ LoadApart /\ [QueryNext]_queryVars => Current'
  BY NextCurrent
<1>3. QInv /\ Current /\ Matched /\ UpdateApart /\ UpdateApart' /\ [QueryNext]_queryVars => Matched'
  BY NextMatched
<1>4. Matched => RecordsMatchSchema
  BY DEF Matched
<1> QED  BY <1>1, <1>2, <1>3, <1>4, InitCurrent, QueryInitQInv, QueryNextQInv, PTL DEF QuerySpec

=============================================================================
