------------------------------ MODULE RowRouter ------------------------------
(***************************************************************************)
(* The PartitionFilter executor node of src/partition_filter.c routing the *)
(* rows of one INSERT into the partitions of one parent, while other       *)
(* backends drop and create partitions.                                    *)
(*                                                                         *)
(* Several PartitionFilter nodes may share one EState (an INSERT in a      *)
(* WITH clause beside the main INSERT); they share the backend's           *)
(* PartRelationInfo of the parent, the EState's result relation array and  *)
(* the estate_mod_data hidden in a reset callback of es_query_cxt.         *)
(*                                                                         *)
(* Relcache messages of other backends only record delayed jobs while a    *)
(* statement runs (see PartitionCache), so the entry `prel` changes during *)
(* the statement only where this code invalidates and re-reads it.         *)
(***************************************************************************)
EXTENDS Naturals, Sequences, FiniteSets, SequencesExt

CONSTANTS
  Nodes,           \* PartitionFilter nodes of the statement
  Parts,           \* partition oids
  Vals,            \* values of the partitioning expression
  RangeOf,         \* Parts -> Vals: the value range of each partition oid
  Foreign,         \* reset callbacks others register on es_query_cxt
  Own,             \* pf_memcxt_callback
  MaxDDL,          \* DROP/CREATE transactions other backends commit
  RowsPerNode,     \* rows each node's subplan returns
  InitResultRels,  \* es_num_result_relations when the executor starts
  PartFdw          \* Parts -> the FDW of each partition: "none" (a heap
                   \* table), "gogudb_fdw" or "other_fdw"

ASSUME RangeOf \in [Parts -> Vals]
ASSUME Own \notin Foreign
ASSUME MaxDDL \in Nat /\ RowsPerNode \in Nat /\ InitResultRels \in Nat \ {0}
ASSUME PartFdw \in [Parts -> {"none", "gogudb_fdw", "other_fdw"}]

VARIABLES
  cat_live,      \* partitions that exist (pg_class / pg_inherits)
  used,          \* oids ever given to a partition
  configured,    \* the parent's PATHMAN_CONFIG row exists
  ddl_count,
  prel,          \* this backend's PartRelationInfo of the parent
  cbs,           \* es_query_cxt->reset_cbs, head first
  emd,           \* the estate_mod_data reached through Own
  num_rr,        \* estate->es_num_result_relations
  arr_size,      \* length of the estate->es_result_relations array
  pc,            \* per node: where it is
  val,           \* per node: value of the current row
  sel,           \* per node: selected_partid
  storage,       \* per node: partids of its ResultPartsStorage hash table
  walk,          \* per node: fetch_estate_mod_data's cursor (0 is NULL)
  creates,       \* per node: partitions created for the current row
  rows_done,     \* per node
  locks,         \* partitions this transaction holds RowExclusiveLock on
  filled,        \* partitions that received rows of this statement
  parent_rows    \* rows inserted into the parent table itself

catalog == <<cat_live, used, configured, ddl_count>>
estate  == <<cbs, emd, num_rr, arr_size>>
nodes   == <<pc, val, sel, storage, walk, creates, rows_done>>
vars    == <<catalog, prel, estate, nodes, locks, filled, parent_rows>>

NoEmd == [alloc |-> 0, not_modified |-> TRUE]

PrelType == [state : {"valid", "invalid", "absent"}, parts : SUBSET Parts]

TypeOK ==
  /\ cat_live \subseteq used /\ used \subseteq Parts /\ configured \in BOOLEAN
  /\ prel \in PrelType
  /\ cbs \in Seq(Foreign \cup {Own})
  /\ emd \in [alloc : Nat, not_modified : BOOLEAN]
  /\ num_rr \in Nat /\ arr_size \in Nat
  /\ pc \in [Nodes -> {"init", "ready", "select", "scan", "fetch_rte", "prepare", "fetch_rri",
                       "insert", "end", "error"}]
  /\ val \in [Nodes -> Vals] /\ sel \in [Nodes -> Parts]
  /\ storage \in [Nodes -> SUBSET Parts]
  /\ walk \in [Nodes -> 0..Len(cbs)]
  /\ creates \in [Nodes -> Nat] /\ rows_done \in [Nodes -> 0..RowsPerNode]
  /\ locks \subseteq Parts /\ filled \subseteq Parts /\ parent_rows \in Nat

-----------------------------------------------------------------------------
(* The registry, as this code sees it                                      *)

(* The entry an invalid one becomes: removed when PATHMAN_CONFIG no       *)
(* longer holds the parent (remove_pathman_relation_info), else refreshed  *)
(* from the partitions that exist now, and removed when there are none    *)
(* (FCS_NO_CHILDREN).                                                      *)
Rebuilt ==
  IF ~configured \/ cat_live = {} THEN [state |-> "absent", parts |-> {}]
  ELSE [state |-> "valid", parts |-> cat_live]

(* get_pathman_relation_info(parent): a valid entry is returned as it is. *)
Fetched == IF prel.state # "invalid" THEN prel ELSE Rebuilt

(* invalidate_pathman_relation_info(parent, NULL) then                     *)
(* get_pathman_relation_info(parent).                                      *)
Refetched == Rebuilt

(* find_partitions_for_value: the partitions of the entry whose range     *)
(* holds the value.                                                        *)
find_partitions_for_value(v) == {c \in prel.parts : RangeOf[c] = v}

(* create_partitions_for_value(parent, v): returns the partition holding  *)
(* v if one exists by now, else creates one with a fresh oid.             *)
create_partitions_for_value(n, v) ==
  LET existing == {c \in cat_live : RangeOf[c] = v} IN
    IF existing # {}
      THEN sel' = [sel EXCEPT ![n] = CHOOSE c \in existing : TRUE]
           /\ UNCHANGED <<cat_live, used>>
      ELSE \E c \in Parts \ used :
             /\ RangeOf[c] = v
             /\ sel' = [sel EXCEPT ![n] = c]
             /\ cat_live' = cat_live \cup {c}
             /\ used' = used \cup {c}

-----------------------------------------------------------------------------
(* fetch_estate_mod_data's walk of es_query_cxt->reset_cbs                *)

(* Mutant: the list is taken to have a second element when it has one.   *)
walk_next_off_by_one == IF Len(cbs) >= 1 THEN 2 ELSE 0

(* The cursor after a callback that is not Own:                           *)
(* cb = estate_mcxt->reset_cbs->next, the second element of the list.     *)
WalkNext == IF Len(cbs) >= 2 THEN 2 ELSE 0

(* Where the walk starts: cb = estate_mcxt->reset_cbs.                    *)
WalkStart == IF Len(cbs) > 0 THEN 1 ELSE 0

(* Mutant: the array grows only once it is overfull.                      *)
append_rri_grow_late(e) ==
  LET grow == e.alloc < num_rr
      alloc == IF grow THEN e.alloc * 2 + 1 ELSE e.alloc
  IN /\ arr_size' = IF grow THEN alloc ELSE arr_size
     /\ num_rr' = num_rr + 1
     /\ emd' = [alloc |-> alloc, not_modified |-> FALSE]

(* append_rri_to_estate with estate_mod_data e: the array is reallocated  *)
(* to alloc * ALLOC_EXP + 1 when it is full, then the ResultRelInfo is     *)
(* stored at es_num_result_relations.                                      *)
append_rri_to_estate(e) ==
  LET grow == e.alloc <= num_rr
      alloc == IF grow THEN e.alloc * 2 + 1 ELSE e.alloc
  IN /\ arr_size' = IF grow THEN alloc ELSE arr_size
     /\ num_rr' = num_rr + 1
     /\ emd' = [alloc |-> alloc, not_modified |-> FALSE]

(* append_rte_to_estate with estate_mod_data e: the range table is copied *)
(* on the first expansion, then extended.                                  *)
append_rte_to_estate(e) == emd' = [e EXCEPT !.not_modified = FALSE]

(* The end of the walk with estate_mod_data e, in append_rte_to_estate    *)
(* (the ResultRelInfo is then built and prepare_rri_for_insert runs) or   *)
(* in append_rri_to_estate, after which the partition joins the storage.  *)
FetchDone(n, e) ==
  \/ /\ pc[n] = "fetch_rte"
     /\ append_rte_to_estate(e)
     /\ pc' = [pc EXCEPT ![n] = "prepare"]
     /\ walk' = [walk EXCEPT ![n] = 0]
     /\ UNCHANGED <<num_rr, arr_size, storage>>
  \/ /\ pc[n] = "fetch_rri"
     /\ append_rri_to_estate(e)
     /\ storage' = [storage EXCEPT ![n] = @ \cup {sel[n]}]
     /\ pc' = [pc EXCEPT ![n] = "insert"]
     /\ walk' = [walk EXCEPT ![n] = 0]

(* A callback that is not Own: go on from the second element.             *)
FetchStep(n) ==
  /\ pc[n] \in {"fetch_rte", "fetch_rri"}
  /\ walk[n] # 0 /\ cbs[walk[n]] # Own
  /\ walk' = [walk EXCEPT ![n] = WalkNext]
  /\ UNCHANGED <<catalog, prel, estate, pc, val, sel, storage, creates, rows_done,
                 locks, filled, parent_rows>>

(* The dummy callback is found: its estate_mod_data is used.              *)
FetchFound(n) ==
  /\ walk[n] # 0 /\ cbs[walk[n]] = Own
  /\ FetchDone(n, emd)
  /\ UNCHANGED <<catalog, prel, cbs, val, sel, creates, rows_done, locks, filled,
                 parent_rows>>

(* The walk reached NULL: a new estate_mod_data remembers the current     *)
(* es_num_result_relations and its callback is pushed on the list.        *)
FetchCreate(n) ==
  /\ pc[n] \in {"fetch_rte", "fetch_rri"}
  /\ walk[n] = 0
  /\ cbs' = <<Own>> \o cbs
  /\ FetchDone(n, [alloc |-> num_rr, not_modified |-> TRUE])
  /\ UNCHANGED <<catalog, prel, val, sel, creates, rows_done, locks, filled,
                 parent_rows>>

-----------------------------------------------------------------------------
(* The executor                                                            *)

(* ExecutorStart: the nodes are initialised before any of them runs.      *)
Started == \A m \in Nodes : pc[m] # "init"

(* The executor is single-threaded: a node is pulled for its next row     *)
(* only when no other node is in the middle of one.                       *)
BetweenRows == \A m \in Nodes : pc[m] \in {"ready", "end", "error"}

(* partition_filter_begin: ExecInitNode of the subplan (whose expressions  *)
(* may register reset callbacks on es_query_cxt, e.g. domain constraint    *)
(* references), get_pathman_relation_info, init_result_parts_storage.      *)
partition_filter_begin(n) ==
  /\ pc[n] = "init"
  /\ \A m \in Nodes : pc[m] \in {"init", "ready"}
  /\ \E F \in SUBSET (Foreign \ ToSet(cbs)) : cbs' = SetToSeq(F) \o cbs
  /\ prel' = Fetched
  /\ storage' = [storage EXCEPT ![n] = {}]
  /\ pc' = [pc EXCEPT ![n] = "ready"]
  /\ UNCHANGED <<catalog, emd, num_rr, arr_size, val, sel, walk, creates, rows_done,
                 locks, filled, parent_rows>>

(* partition_filter_exec with a row: get_pathman_relation_info; with no   *)
(* entry the row goes to the parent (a WARNING); else the expression is    *)
(* evaluated and select_partition_for_insert starts.                       *)
partition_filter_exec(n) ==
  /\ pc[n] = "ready" /\ Started /\ BetweenRows
  /\ rows_done[n] < RowsPerNode
  /\ prel' = Fetched
  /\ IF Fetched.state = "absent"
       THEN /\ parent_rows' = parent_rows + 1
            /\ rows_done' = [rows_done EXCEPT ![n] = @ + 1]
            /\ UNCHANGED <<pc, val, creates>>
       ELSE /\ \E v \in Vals : val' = [val EXCEPT ![n] = v]
            /\ pc' = [pc EXCEPT ![n] = "select"]
            /\ creates' = [creates EXCEPT ![n] = 0]
            /\ UNCHANGED <<parent_rows, rows_done>>
  /\ UNCHANGED <<catalog, estate, sel, storage, walk, locks, filled>>

(* The subplan is exhausted: partition_filter_end frees the storage; the  *)
(* partitions stay locked until the end of the transaction (NoLock).      *)
partition_filter_end(n) ==
  /\ pc[n] = "ready" /\ Started
  /\ rows_done[n] = RowsPerNode
  /\ storage' = [storage EXCEPT ![n] = {}]
  /\ pc' = [pc EXCEPT ![n] = "end"]
  /\ UNCHANGED <<catalog, prel, estate, val, sel, walk, creates, rows_done, locks,
                 filled, parent_rows>>

(* An ERROR aborts the statement: every node stops, its rows are rolled   *)
(* back and the transaction's locks are released.                          *)
Abort ==
  /\ pc' = [m \in Nodes |-> "error"]
  /\ filled' = {}
  /\ locks' = {}
  /\ storage' = [m \in Nodes |-> {}]

(* pg_pathman_insert_into_fdw keeps its initial value: the registration  *)
(* of the GUC pg_pathman.insert_into_fdw is commented out.                 *)
pg_pathman_insert_into_fdw == "postgres"

(* prepare_rri_fdw_for_insert for partition c: a heap partition passes; a *)
(* foreign one is refused in mode "disabled", and in mode "postgres" when  *)
(* its FDW is not gogudb_fdw ("any_fdw" only warns).                       *)
FdwInsertAllowed(c) ==
  \/ PartFdw[c] = "none"
  \/ pg_pathman_insert_into_fdw = "any_fdw"
  \/ pg_pathman_insert_into_fdw = "postgres" /\ PartFdw[c] = "gogudb_fdw"

(* Mutant: the callback accepts every foreign partition.                   *)
prepare_rri_unchecked(n) ==
  /\ pc[n] = "prepare"
  /\ pc' = [pc EXCEPT ![n] = "fetch_rri"]
  /\ walk' = [walk EXCEPT ![n] = WalkStart]
  /\ UNCHANGED <<catalog, prel, estate, val, sel, storage, creates, rows_done, locks,
                 filled, parent_rows>>

(* scan_result_parts_storage has built the partition's ResultRelInfo and  *)
(* calls the callback: RETURNING is prepared, then the FDW checks either   *)
(* raise an ERROR or let BeginForeignModify run; append_rri_to_estate's    *)
(* walk of the callbacks then starts.                                      *)
prepare_rri_for_insert(n) ==
  /\ pc[n] = "prepare"
  /\ \/ ~FdwInsertAllowed(sel[n]) /\ Abort /\ UNCHANGED walk
     \/ /\ FdwInsertAllowed(sel[n])
        /\ pc' = [pc EXCEPT ![n] = "fetch_rri"]
        /\ walk' = [walk EXCEPT ![n] = WalkStart]
        /\ UNCHANGED <<storage, locks, filled>>
  /\ UNCHANGED <<catalog, prel, estate, val, sel, creates, rows_done, parent_rows>>

(* select_partition_for_insert, top of the loop: find_partitions_for_value *)
(* on the current entry; more than one match is an ERROR; none creates a   *)
(* partition and invalidates the parent's entry.  create_partitions_for_   *)
(* value raises "table is not partitioned" once PATHMAN_CONFIG lost the    *)
(* parent.                                                                 *)
SelectFind(n) ==
  /\ pc[n] = "select"
  /\ LET parts == find_partitions_for_value(val[n]) IN
       CASE Cardinality(parts) > 1 -> Abort /\ UNCHANGED <<catalog, prel, sel, creates>>
         [] parts = {} /\ ~configured -> Abort /\ UNCHANGED <<catalog, prel, sel, creates>>
         [] parts = {} /\ configured ->
              /\ create_partitions_for_value(n, val[n])
              /\ prel' = [state |-> "invalid", parts |-> {}]
              /\ creates' = [creates EXCEPT ![n] = @ + 1]
              /\ pc' = [pc EXCEPT ![n] = "scan"]
              /\ UNCHANGED <<configured, ddl_count, storage, locks, filled>>
         [] OTHER ->
              /\ sel' = [sel EXCEPT ![n] = CHOOSE c \in parts : TRUE]
              /\ pc' = [pc EXCEPT ![n] = "scan"]
              /\ UNCHANGED <<catalog, prel, creates, storage, locks, filled>>
  /\ UNCHANGED <<estate, val, walk, rows_done, parent_rows>>

(* scan_result_parts_storage: a partition already in the hash table is     *)
(* returned as it is.                                                      *)
ScanHit(n) ==
  /\ pc[n] = "scan"
  /\ sel[n] \in storage[n]
  /\ pc' = [pc EXCEPT ![n] = "insert"]
  /\ UNCHANGED <<catalog, prel, estate, val, sel, storage, walk, creates, rows_done,
                 locks, filled, parent_rows>>

(* Mutant: the partition is opened without LockRelationOid.               *)
scan_open_unlocked(n) ==
  /\ pc[n] = "scan"
  /\ sel[n] \notin storage[n]
  /\ sel[n] \in cat_live
  /\ walk' = [walk EXCEPT ![n] = WalkStart]
  /\ pc' = [pc EXCEPT ![n] = "fetch_rte"]
  /\ UNCHANGED <<catalog, prel, estate, val, sel, storage, creates, rows_done,
                 locks, filled, parent_rows>>

(* A new one is locked (RowExclusiveLock) and found in the syscache: its   *)
(* ResultRelInfo is built and appended to the EState.                      *)
ScanOpen(n) ==
  /\ pc[n] = "scan"
  /\ sel[n] \notin storage[n]
  /\ sel[n] \in cat_live
  /\ locks' = locks \cup {sel[n]}
  /\ walk' = [walk EXCEPT ![n] = WalkStart]
  /\ pc' = [pc EXCEPT ![n] = "fetch_rte"]
  /\ UNCHANGED <<catalog, prel, estate, val, sel, storage, creates, rows_done,
                 filled, parent_rows>>

(* Mutant: the retry reuses the entry it already has.                     *)
scan_dropped_keeps_prel(n) ==
  /\ pc[n] = "scan"
  /\ sel[n] \notin storage[n]
  /\ sel[n] \notin cat_live
  /\ pc' = [pc EXCEPT ![n] = "select"]
  /\ UNCHANGED <<catalog, prel, estate, val, sel, walk, creates, rows_done,
                 storage, locks, filled, parent_rows>>

(* It was dropped: the hash entry is removed and NULL returned; the loop   *)
(* invalidates the entry and reads it again, and an entry gone means the   *)
(* table is not partitioned any more (ERROR).                              *)
ScanDropped(n) ==
  /\ pc[n] = "scan"
  /\ sel[n] \notin storage[n]
  /\ sel[n] \notin cat_live
  /\ IF Refetched.state = "absent"
       THEN Abort /\ prel' = Refetched
       ELSE /\ prel' = Refetched
            /\ pc' = [pc EXCEPT ![n] = "select"]
            /\ UNCHANGED <<storage, locks, filled>>
  /\ UNCHANGED <<catalog, estate, val, sel, walk, creates, rows_done, parent_rows>>

(* select_partition_for_insert returned: partition_filter_exec hands the  *)
(* row to ModifyTable, which inserts it into the selected partition.      *)
InsertRow(n) ==
  /\ pc[n] = "insert"
  /\ filled' = filled \cup {sel[n]}
  /\ rows_done' = [rows_done EXCEPT ![n] = @ + 1]
  /\ pc' = [pc EXCEPT ![n] = "ready"]
  /\ UNCHANGED <<catalog, prel, estate, val, sel, storage, walk, creates, locks,
                 parent_rows>>

-----------------------------------------------------------------------------
(* Other backends: DROP TABLE of a partition waits for our locks; a       *)
(* partition may be created for a value no partition holds; the parent    *)
(* may be removed from PATHMAN_CONFIG.  None touches `prel` before the     *)
(* next statement.                                                        *)

DropPartition(c) ==
  /\ ddl_count < MaxDDL
  /\ c \in cat_live /\ c \notin locks
  /\ cat_live' = cat_live \ {c}
  /\ ddl_count' = ddl_count + 1
  /\ UNCHANGED <<used, configured, prel, estate, nodes, locks, filled, parent_rows>>

CreatePartition(c) ==
  /\ ddl_count < MaxDDL
  /\ c \notin used
  /\ \A d \in cat_live : RangeOf[d] # RangeOf[c]
  /\ cat_live' = cat_live \cup {c}
  /\ used' = used \cup {c}
  /\ ddl_count' = ddl_count + 1
  /\ UNCHANGED <<configured, prel, estate, nodes, locks, filled, parent_rows>>

(* disable_pathman_for(parent) deletes the PATHMAN_CONFIG row; it takes no *)
(* lock that conflicts with this INSERT's locks.                           *)
disable_pathman_for ==
  /\ ddl_count < MaxDDL
  /\ configured
  /\ configured' = FALSE
  /\ ddl_count' = ddl_count + 1
  /\ UNCHANGED <<cat_live, used, prel, estate, nodes, locks, filled, parent_rows>>

-----------------------------------------------------------------------------

(* The statement was planned with a valid entry of a parent that has      *)
(* partitions, at most one per value.                                     *)
Init ==
  /\ cat_live \in {S \in SUBSET Parts :
                     S # {} /\ \A c, d \in S : RangeOf[c] = RangeOf[d] => c = d}
  /\ used = cat_live
  /\ ddl_count = 0
  /\ prel = [state |-> "valid", parts |-> cat_live]
  /\ cbs = <<>> /\ emd = NoEmd
  /\ num_rr = InitResultRels /\ arr_size = InitResultRels
  /\ pc = [n \in Nodes |-> "init"]
  /\ val = [n \in Nodes |-> CHOOSE v \in Vals : TRUE]
  /\ sel = [n \in Nodes |-> CHOOSE c \in Parts : TRUE]
  /\ storage = [n \in Nodes |-> {}]
  /\ walk = [n \in Nodes |-> 0]
  /\ creates = [n \in Nodes |-> 0]
  /\ rows_done = [n \in Nodes |-> 0]
  /\ locks = {} /\ filled = {} /\ parent_rows = 0
  /\ configured = TRUE

Node(n) ==
  \/ partition_filter_begin(n) \/ partition_filter_exec(n) \/ partition_filter_end(n)
  \/ SelectFind(n) \/ ScanHit(n) \/ ScanOpen(n) \/ ScanDropped(n)
  \/ FetchStep(n) \/ FetchFound(n) \/ FetchCreate(n) \/ prepare_rri_for_insert(n)
  \/ InsertRow(n)

Environment ==
  \/ \E c \in Parts : DropPartition(c)
  \/ \E c \in Parts : CreatePartition(c)
  \/ disable_pathman_for

Next == (\E n \in Nodes : Node(n)) \/ Environment

Spec == Init /\ [][Next]_vars

(* The executor runs every node it has started until the node ends; the  *)
(* backend is single-threaded, so each node's next step is taken as long *)
(* as it stays enabled.                                                    *)
FairSpec == Spec /\ \A n \in Nodes : WF_vars(Node(n))

-----------------------------------------------------------------------------
(* Properties                                                              *)

(* Every row of the statement went into a partition that still exists:   *)
(* scan_result_parts_storage locks a partition before it checks that it  *)
(* exists, and the lock (kept to the end of the transaction) keeps other  *)
(* backends from dropping a partition rows were routed to, even when a    *)
(* later row finds it in the ResultPartsStorage hash without a check.     *)
RowsInLiveParts == filled \subseteq cat_live

ResultRelsFit == num_rr <= arr_size

(* Every PartitionFilter node ends (or the statement fails): the retry    *)
(* loop of select_partition_for_insert and the callback walk of           *)
(* fetch_estate_mod_data terminate once other backends stop their DDL.    *)
RowsComplete == \A n \in Nodes : <>(pc[n] \in {"end", "error"})

(* A row whose select loop already created a partition is never given a   *)
(* second one: the spec bounds the retry after auto-creation ("a second   *)
(* zero-match after creation is a hard error PartitionCreateFailed, not    *)
(* an infinite loop").                                                     *)
CreateOncePerRow == \A n \in Nodes : creates[n] <= 1

(* No row reaches a foreign partition whose FDW prepare_rri_fdw_for_insert *)
(* refuses: each partition a row is routed to went through the check when  *)
(* scan_result_parts_storage first opened it, rows routed to it later skip *)
(* the check, and an ERROR rolls back every row of the statement.          *)
RoutedOnlyWhereAllowed == \A c \in filled : FdwInsertAllowed(c)

=============================================================================
