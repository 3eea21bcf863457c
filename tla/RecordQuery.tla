----------------------------- MODULE RecordQuery -----------------------------
(***************************************************************************)
(* Reading the records of a template page by page, while the requests of   *)
(* TemplateCache create and delete them (query_archive_records_handler and *)
(* query_archive_records of src/modules/archive, src/common/pagination.rs).*)
(* A query counts the records and then selects a page, in two statements;  *)
(* a client reads page after page up to total_pages.                       *)
(*                                                                         *)
(* The data of a record never change, so a filter of the client picks the  *)
(* same records in both statements, whenever they run: the records here    *)
(* are those that satisfy it.  ASC and DESC are two values of `rank`.      *)
(***************************************************************************)
EXTENDS TemplateCache, Integers

CONSTANTS
  PageSizes   \* values of page_size

ASSUME QueryAssumption ==
  /\ PageSizes \subseteq Nat \ {0}
  /\ IsFiniteSet(Creators)

VARIABLES
  rank,   \* the records by record_id, or by created_at if no two are equal
  walk    \* a client that reads all pages, and its current query

queryVars == <<template, schema, cache, record, create, admin, rank, walk>>

-----------------------------------------------------------------------------
Ranks == 1 .. Cardinality(Creators)
Rows  == {c \in Creators : record[c].status = "committed"}

(* `due` are the records in the table all along, `read` those read, `twice`*)
(* says that one was read twice; `grew` and `shrank` whether records came  *)
(* or went since the walk began, `late` whether one came since the COUNT.  *)
NoWalk(n) == [pc |-> "idle", node |-> n, got |-> None, size |-> 1,
              page |-> 1, total |-> 0, due |-> {}, read |-> {}, twice |-> FALSE,
              grew |-> FALSE, shrank |-> FALSE, late |-> FALSE]

(* Types of the template's requests and of the walk.                       *)
QueryTypeOK ==
  /\ TypeOK
  /\ rank \in [Creators -> Ranks]
  /\ \A c, d \in Creators : rank[c] = rank[d] => c = d
  /\ walk \in [pc : {"idle", "lookup", "load", "cache", "count", "select", "over"},
               node : Nodes, got : Versions \cup {None},
               size : PageSizes \cup {1}, page : Nat \ {0}, total : Nat,
               due : SUBSET Creators, read : SUBSET Creators, twice : BOOLEAN,
               grew : BOOLEAN, shrank : BOOLEAN, late : BOOLEAN]

QueryInit ==
  /\ Init
  /\ rank \in [Creators -> Ranks]
  /\ \A c, d \in Creators : rank[c] = rank[d] => c = d
  /\ walk \in {NoWalk(create[c].node) : c \in Creators}

-----------------------------------------------------------------------------
(***************************************************************************)
(* Pages                                                                   *)
(***************************************************************************)
(* offset.  Mutant: pages counted from zero.                               *)
OffsetFromZero(page, size) == page * size
Offset(page, size) == (page - 1) * size

TotalPages(total, size) == (total + size - 1) \div size

(* ORDER BY, LIMIT and OFFSET.                                             *)
Place(c) == Cardinality({d \in Rows : rank[d] <= rank[c]})
Page(page, size) ==
  {c \in Rows : Place(c) \in Offset(page, size) + 1 .. Offset(page, size) + size}

-----------------------------------------------------------------------------
(***************************************************************************)
(* The client's queries                                                    *)
(***************************************************************************)
tableVars == <<template, schema, record, create, admin, rank>>

WalkBegin(n, size) ==
  /\ walk.pc = "idle"
  /\ walk' = [NoWalk(n) EXCEPT !.pc = "lookup", !.due = Rows, !.size = size]
  /\ UNCHANGED <<tableVars, cache>>

(* get_or_load_template_context, as in TemplateCache.                      *)
QueryLookup ==
  /\ walk.pc = "lookup"
  /\ walk' = [walk EXCEPT !.pc = IF cache[walk.node] = None THEN "load" ELSE "count"]
  /\ UNCHANGED <<tableVars, cache>>

QueryFromDatabase ==
  /\ walk.pc = "load"
  /\ walk' = IF Present THEN [walk EXCEPT !.pc = "cache", !.got = schema]
                        ELSE NoWalk(walk.node)
  /\ UNCHANGED <<tableVars, cache>>

QueryInsertIntoCache ==
  /\ walk.pc = "cache"
  /\ cache' = [cache EXCEPT ![walk.node] = walk.got]
  /\ walk' = [walk EXCEPT !.pc = "count", !.got = None]
  /\ UNCHANGED tableVars

(* SELECT COUNT *)
CountRecords ==
  /\ walk.pc = "count"
  /\ walk' = [walk EXCEPT !.pc = "select", !.total = Cardinality(Rows), !.late = FALSE]
  /\ UNCHANGED <<tableVars, cache>>

(* The page; the client goes on to the next one, if there is one.          *)
SelectPage ==
  LET items == Page(walk.page, walk.size)
      last  == walk.page >= TotalPages(walk.total, walk.size) IN
  /\ walk.pc = "select"
  /\ walk' = [walk EXCEPT !.read = walk.read \cup items,
                          !.twice = walk.twice \/ walk.read \cap items # {},
                          !.pc = IF last THEN "over" ELSE "lookup",
                          !.page = IF last THEN walk.page ELSE walk.page + 1]
  /\ UNCHANGED <<tableVars, cache>>

(* The walk is over, or a query failed.                                    *)
WalkEnd ==
  /\ walk.pc # "idle"
  /\ walk' = NoWalk(walk.node)
  /\ UNCHANGED <<tableVars, cache>>

(* What a walk under way notices of a step of other requests.              *)
Watch ==
  LET rows == {c \in Creators : record'[c].status = "committed"}
      came == rows \ Rows # {} IN
  IF walk.pc \in {"idle", "over"} THEN UNCHANGED walk
  ELSE walk' = [walk EXCEPT !.due = walk.due \cap rows, !.grew = walk.grew \/ came,
                            !.shrank = walk.shrank \/ Rows \ rows # {},
                            !.late = walk.late \/ came]

QueryStep == QueryLookup \/ QueryFromDatabase \/ QueryInsertIntoCache \/ CountRecords
               \/ SelectPage \/ WalkEnd

QueryNext ==
  \/ Next /\ Watch /\ UNCHANGED rank
  \/ \E n \in Nodes, size \in PageSizes : WalkBegin(n, size)
  \/ QueryStep

QuerySpec == QueryInit /\ [][QueryNext]_queryVars

-----------------------------------------------------------------------------
(***************************************************************************)
(* Properties                                                              *)
(***************************************************************************)
(* Pages shift under a reader, but only so far: with a sort key without    *)
(* ties a walk to the last page has read every record that was there all   *)
(* along, unless a record was deleted meanwhile or came between the COUNT  *)
(* and the SELECT of the last page; and it reads none twice unless one was *)
(* created meanwhile.                                                      *)
WalkComplete ==
  /\ walk.pc = "over" /\ ~walk.shrank /\ ~walk.late => walk.due \subseteq walk.read
  /\ ~walk.grew => ~walk.twice

=============================================================================
