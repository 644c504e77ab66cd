--------------------------- MODULE PartitionCache ---------------------------
(***************************************************************************)
(* The per-backend dispatch cache of gogudb and the delayed invalidation   *)
(* pipeline that keeps it in step with the catalog.                        *)
(*                                                                         *)
(*  - prel          : the hash table partitioned_rels of PartRelationInfo   *)
(*                    entries (src/relation_info.c), one per parent;       *)
(*  - bound_cache   : PartBoundInfo per partition (get/forget_bounds_...); *)
(*  - parent_cache  : PartParentInfo partition -> parent;                  *)
(*  - inval_parents, inval_vague, inval_whole : the delayed jobs recorded  *)
(*                    by pathman_relcache_hook (src/hooks.c) and executed  *)
(*                    by finish_delayed_invalidation at post-parse time.   *)
(*                                                                         *)
(* Other backends are the environment: they commit catalog changes (the    *)
(* PATHMAN_CONFIG rows, pg_inherits, partition CHECK constraints) and each *)
(* commit appends one transaction's relcache messages to this backend's    *)
(* shared-invalidation queue `sinval`.  The backend consumes the queue     *)
(* only at AcceptInvalidationMessages points, all the messages present at  *)
(* that point, each message running pathman_relcache_hook.                 *)
(***************************************************************************)
EXTENDS Naturals, Sequences, FiniteSets, SequencesExt

CONSTANTS
  Parents,            \* relations that may be partitioned tables
  Parts,              \* relations that may be partitions
  BoundVals,          \* abstract CHECK constraints (bounds) of a partition
  NoRel,              \* InvalidOid
  NoBound,            \* no PartBoundInfo cached
  AllRels,            \* the relid InvalidOid of a relcache reset message
  MaxDDL,             \* number of DDL transactions other backends commit
  InvalListMaxItems,  \* INVAL_LIST_MAX_ITEMS (src/relation_info.c)
  SinvalQueueMax,     \* queue length at which the backend is reset
  EnableValues,       \* values SET pg_pathman.enable may be given
  NoSet,              \* the statement is not SET pg_pathman.enable
  AcceptInCook,       \* locking inside cook_partitioning_expression
                      \* processes pending messages
  AcceptInDrain,      \* catalog locks inside finish_delayed_invalidation
                      \* process pending messages
  ConfigRel,          \* the relid of the PATHMAN_CONFIG table
  ExtensionDrop,      \* other backends may DROP EXTENSION
  PlanScans           \* statements scan the parent through
                      \* pathman_rel_pathlist_hook

ASSUME Parents \cap Parts = {}
ASSUME {NoRel, AllRels, ConfigRel} \cap (Parents \cup Parts) = {}
ASSUME MaxDDL \in Nat /\ InvalListMaxItems \in Nat /\ SinvalQueueMax \in Nat \ {0}
ASSUME EnableValues \subseteq BOOLEAN /\ NoSet \notin BOOLEAN
ASSUME {AcceptInCook, AcceptInDrain, ExtensionDrop, PlanScans} \subseteq BOOLEAN

Rels == Parents \cup Parts

VARIABLES
  cat_config,     \* parents that have a PATHMAN_CONFIG row
  cat_parent,     \* pg_inherits: partition -> parent or NoRel
  cat_bound,      \* partition -> its CHECK constraint
  cat_cooked,     \* parent -> cooked_expr column is not NULL
  cat_ext,        \* the extension, and its PATHMAN_CONFIG table, exist
  ddl_count,      \* DDL transactions committed so far
  sinval,         \* queue of committed transactions' relcache messages
  prel,           \* partitioned_rels
  bound_cache,
  parent_cache,
  inval_parents,  \* delayed_invalidation_parent_rels
  inval_vague,    \* delayed_invalidation_vague_rels
  inval_whole,    \* delayed_invalidation_whole_cache
  shutdown,       \* delayed_shutdown
  hooks_enabled,  \* pathman_hooks_enabled
  initialized,    \* IsPathmanInitialized(): load_config() has run
  enabled,        \* pg_pathman.enable, and with it the flags its assign
                  \* hook sets (pg_pathman_enable_bounds_cache among them)
  setting,        \* the value of the SET pg_pathman.enable being run
  pc,             \* where the backend is in its statement
  target,         \* the parent the current statement looks up
  kids,           \* prel_children found by refresh_pathman_relation_info
  fin_idx,        \* foreach cursor of finish_delayed_invalidation
  fin_cfg,        \* its `parents` array (read_parent_oids), once fetched
  accept_left,    \* transactions the running AcceptInvalidationMessages
                  \* still has to process
  locks,          \* relations this backend holds locks on
  plan            \* pathman_rel_pathlist_hook: the children array it read
                  \* (PrelGetChildrenArray) and those still to append

catalog == <<cat_config, cat_parent, cat_bound, cat_cooked, cat_ext, ddl_count>>
cache   == <<prel, bound_cache, parent_cache>>
jobs    == <<inval_parents, inval_vague, inval_whole, shutdown>>
backend == <<hooks_enabled, initialized, enabled, setting, pc, target, kids, fin_idx, fin_cfg, accept_left, locks, plan>>
vars    == <<catalog, sinval, cache, jobs, backend>>

(* No pathman_rel_pathlist_hook call in progress.                         *)
NoPlan == [read |-> {}, left |-> {}]

(* The `parents` array of finish_delayed_invalidation before it is read. *)
NotFetched == [fetched |-> FALSE, rels |-> {}]

(* A PartRelationInfo entry; `ranges` maps each child to its bound.        *)
Absent  == [state |-> "absent",  ranges |-> <<>>]
Invalid == [state |-> "invalid", ranges |-> <<>>]
Entry   == [state : {"absent", "invalid"}, ranges : {<<>>}]
             \cup [state : {"valid"}, ranges : UNION {[S -> BoundVals] : S \in SUBSET Parts}]

TypeOK ==
  /\ cat_config \subseteq Parents
  /\ cat_parent \in [Parts -> Parents \cup {NoRel}]
  /\ cat_bound \in [Parts -> BoundVals]
  /\ cat_cooked \in [Parents -> BOOLEAN]
  /\ cat_ext \in BOOLEAN
  /\ sinval \in Seq(Seq(Rels \cup {AllRels, ConfigRel}))
  /\ prel \in [Parents -> Entry]
  /\ bound_cache \in [Parts -> BoundVals \cup {NoBound}]
  /\ parent_cache \in [Parts -> Parents \cup {NoRel}]
  \* list_add_unique() and the INVAL_LIST_MAX_ITEMS check bound both lists
  /\ \A l \in {inval_parents, inval_vague} :
        l \in Seq(Rels \cup {ConfigRel}) /\ Len(l) <= InvalListMaxItems + 1
  /\ inval_whole \in BOOLEAN /\ shutdown \in BOOLEAN /\ initialized \in BOOLEAN
  /\ enabled \in BOOLEAN /\ setting \in EnableValues \cup {NoSet}
  /\ locks \subseteq Rels
  /\ plan \in [read : SUBSET Parts, left : SUBSET Parts]

(* IsPathmanReady(): initialized and enabled.                              *)
Ready == initialized /\ enabled

-----------------------------------------------------------------------------
(* Helpers of src/relation_info.c                                          *)

(* Children recorded in a valid entry (prel->children).                    *)
PrelChildren(q) == IF prel[q].state = "valid" THEN DOMAIN prel[q].ranges ELSE {}

(* free_prel_partitions() of the entries of Q: ForgetParent() of each      *)
(* valid one removes the pair of each of its children from parent_cache    *)
(* when the pair still names that parent.                                  *)
ForgetParents(Q) ==
  [c \in Parts |-> IF \E q \in Q : c \in PrelChildren(q) /\ parent_cache[c] = q
                     THEN NoRel ELSE parent_cache[c]]

(* invalidate_pathman_relation_info(q, NULL): HASH_ENTER, entry invalid.  *)
invalidate_pathman_relation_info(q) ==
  /\ prel' = [prel EXCEPT ![q] = Invalid]
  /\ parent_cache' = ForgetParents({q})

(* remove_pathman_relation_info(q): free and HASH_REMOVE if found.         *)
remove_pathman_relation_info(q) ==
  /\ prel' = [prel EXCEPT ![q] = Absent]
  /\ parent_cache' = ForgetParents({q})

(* try_invalidate_parent(q, parents): invalidate a configured parent,      *)
(* drop the entry of anything else.                                        *)
try_invalidate_parent(q, cfg) ==
  IF q \in cfg THEN invalidate_pathman_relation_info(q)
               ELSE remove_pathman_relation_info(q)

(* Mutant: live entries are left as they are, only dead ones removed.     *)
invalidate_cache_keeps_live(cfg) ==
  /\ prel' = [q \in Parents |-> IF q \in cfg THEN prel[q] ELSE Absent]
  /\ parent_cache' = ForgetParents(Parents \ cfg)

(* invalidate_pathman_relation_info_cache(parents): every parent of the   *)
(* list gets an invalid entry, every other entry is freed and removed.     *)
invalidate_pathman_relation_info_cache(cfg) ==
  /\ prel' = [q \in Parents |-> IF q \in cfg THEN Invalid ELSE Absent]
  /\ parent_cache' = ForgetParents(Parents)

(* forget_bounds_of_partition(rel): the bounds cache entry is removed     *)
(* when the cache is on.                                                   *)
forget_bounds_of_partition(rel) ==
  bound_cache' = IF enabled THEN [bound_cache EXCEPT ![rel] = NoBound]
                                      ELSE bound_cache

(* forget_parent_of_partition(rel, NULL): the parent_cache pair of rel is  *)
(* removed; the parent it named is what the call returns.                  *)
forget_parent_of_partition(rel) == parent_cache' = [parent_cache EXCEPT ![rel] = NoRel]

(* Mutant: the pg_inherits search finds nothing.                          *)
catalog_search_fails(rel) == NoRel

(* try_catalog_parent_search(rel, &status): the pg_inherits row of rel.    *)
try_catalog_parent_search(rel) == cat_parent[rel]

(* get_parent_of_partition(rel, &status): the parent_cache pair if there   *)
(* is one, otherwise the catalog search.                                   *)
get_parent_of_partition(rel) ==
  IF parent_cache[rel] # NoRel THEN parent_cache[rel] ELSE try_catalog_parent_search(rel)

(* cache_parent_of_partition(c, q) for each child c in kids.               *)
cache_parent_of_partition(kids_, q) ==
  [c \in Parts |-> IF c \in kids_ THEN q ELSE parent_cache[c]]

(* The bound get_bounds_of_partition() returns: the cached PartBoundInfo   *)
(* if the bounds cache is on and has one, else the one read from the       *)
(* partition's CHECK constraint (which is then cached).                    *)
BoundOf(c) ==
  IF enabled /\ bound_cache[c] # NoBound THEN bound_cache[c] ELSE cat_bound[c]

-----------------------------------------------------------------------------
(* Delayed invalidation jobs (src/relation_info.c 929-968)                 *)

delay_invalidation_whole_cache ==
  /\ inval_parents' = <<>>
  /\ inval_vague' = <<>>
  /\ inval_whole' = TRUE

(* Mutant: no INVAL_LIST_MAX_ITEMS check.                                  *)
delay_event_unbounded(toParents, rel) ==
  LET list == IF toParents THEN inval_parents ELSE inval_vague
      added == IF rel \in ToSet(list) THEN list ELSE Append(list, rel)
  IN CASE inval_whole -> UNCHANGED <<inval_parents, inval_vague, inval_whole>>
       [] toParents -> inval_parents' = added /\ UNCHANGED <<inval_vague, inval_whole>>
       [] OTHER -> inval_vague' = added /\ UNCHANGED <<inval_parents, inval_whole>>

(* delay_invalidation_event(list, rel): nothing once the whole cache is    *)
(* due; a list already longer than INVAL_LIST_MAX_ITEMS turns into a whole *)
(* cache job; otherwise list_add_unique.                                   *)
delay_invalidation_event(toParents, rel) ==
  LET list == IF toParents THEN inval_parents ELSE inval_vague
      added == IF rel \in ToSet(list) THEN list ELSE Append(list, rel)
  IN CASE inval_whole -> UNCHANGED <<inval_parents, inval_vague, inval_whole>>
       [] Len(list) > InvalListMaxItems -> delay_invalidation_whole_cache
       [] toParents -> inval_parents' = added /\ UNCHANGED <<inval_vague, inval_whole>>
       [] OTHER -> inval_vague' = added /\ UNCHANGED <<inval_parents, inval_whole>>

(* delay_pathman_shutdown(): the DROP EXTENSION job.                      *)
delay_pathman_shutdown == shutdown' = TRUE

(* Mutant: the hook leaves the bounds cache alone.                         *)
hook_keeps_bounds(rel) ==
  CASE ~hooks_enabled \/ ~Ready -> UNCHANGED <<prel, bound_cache, parent_cache, jobs>>
    [] rel = AllRels -> delay_invalidation_whole_cache
                        /\ UNCHANGED <<prel, bound_cache, parent_cache, shutdown>>
    [] OTHER ->
         /\ UNCHANGED prel
         /\ IF rel = ConfigRel THEN delay_pathman_shutdown ELSE UNCHANGED shutdown
         /\ IF rel \in Parts
              THEN /\ UNCHANGED bound_cache
                   /\ forget_parent_of_partition(rel)
                   /\ IF parent_cache[rel] # NoRel
                        THEN delay_invalidation_event(TRUE, parent_cache[rel])
                        ELSE delay_invalidation_event(FALSE, rel)
              ELSE delay_invalidation_event(FALSE, rel) /\ UNCHANGED <<bound_cache, parent_cache>>

(* Mutant: every relation is recorded as a vague one.                      *)
hook_all_vague(rel) ==
  CASE ~hooks_enabled \/ ~Ready -> UNCHANGED <<prel, bound_cache, parent_cache, jobs>>
    [] rel = AllRels -> delay_invalidation_whole_cache
                        /\ UNCHANGED <<prel, bound_cache, parent_cache, shutdown>>
    [] OTHER ->
         /\ UNCHANGED prel
         /\ IF rel = ConfigRel THEN delay_pathman_shutdown ELSE UNCHANGED shutdown
         /\ IF rel \in Parts
              THEN /\ forget_bounds_of_partition(rel)
                   /\ forget_parent_of_partition(rel)
                   /\ delay_invalidation_event(FALSE, rel)
              ELSE delay_invalidation_event(FALSE, rel) /\ UNCHANGED <<bound_cache, parent_cache>>

(* Mutant: the PATHMAN_CONFIG relid is not recognised.                     *)
hook_no_shutdown(rel) ==
  CASE ~hooks_enabled \/ ~Ready -> UNCHANGED <<prel, bound_cache, parent_cache, jobs>>
    [] rel = AllRels -> delay_invalidation_whole_cache
                        /\ UNCHANGED <<prel, bound_cache, parent_cache, shutdown>>
    [] OTHER ->
         /\ UNCHANGED prel
         /\ UNCHANGED shutdown
         /\ IF rel \in Parts
              THEN /\ forget_bounds_of_partition(rel)
                   /\ forget_parent_of_partition(rel)
                   /\ IF parent_cache[rel] # NoRel
                        THEN delay_invalidation_event(TRUE, parent_cache[rel])
                        ELSE delay_invalidation_event(FALSE, rel)
              ELSE delay_invalidation_event(FALSE, rel) /\ UNCHANGED <<bound_cache, parent_cache>>

(* Mutant: the relcache hook invalidates the partition's parent entry at   *)
(* once instead of delaying a job for it.                                  *)
hook_invalidates_now(rel) ==
  CASE ~hooks_enabled \/ ~Ready -> UNCHANGED <<prel, bound_cache, parent_cache, jobs>>
    [] rel = AllRels -> delay_invalidation_whole_cache
                        /\ UNCHANGED <<prel, bound_cache, parent_cache, shutdown>>
    [] OTHER ->
         /\ IF rel = ConfigRel THEN delay_pathman_shutdown ELSE UNCHANGED shutdown
         /\ IF rel \in Parts
              THEN /\ forget_bounds_of_partition(rel)
                   /\ forget_parent_of_partition(rel)
                   /\ IF parent_cache[rel] # NoRel
                        THEN /\ prel' = [prel EXCEPT ![parent_cache[rel]] = Invalid]
                             /\ UNCHANGED <<inval_parents, inval_vague, inval_whole>>
                        ELSE delay_invalidation_event(FALSE, rel) /\ UNCHANGED prel
              ELSE delay_invalidation_event(FALSE, rel)
                   /\ UNCHANGED <<prel, bound_cache, parent_cache>>

(* pathman_relcache_hook(relid) (src/hooks.c): ignored while the hooks are *)
(* off or pg_pathman is not ready; a reset delays a whole-cache job and    *)
(* returns; a message about PATHMAN_CONFIG delays the shutdown job; then   *)
(* the partition's bounds and parent pair are forgotten at once and the    *)
(* parent it had (or, not knowing one, the relation itself) gets a         *)
(* delayed job.                                                            *)
pathman_relcache_hook(rel) ==
  CASE ~hooks_enabled \/ ~Ready -> UNCHANGED <<prel, bound_cache, parent_cache, jobs>>
    [] rel = AllRels -> delay_invalidation_whole_cache
                        /\ UNCHANGED <<prel, bound_cache, parent_cache, shutdown>>
    [] OTHER ->
         /\ UNCHANGED prel
         /\ IF rel = ConfigRel THEN delay_pathman_shutdown ELSE UNCHANGED shutdown
         /\ IF rel \in Parts
              THEN /\ forget_bounds_of_partition(rel)
                   /\ forget_parent_of_partition(rel)
                   /\ IF parent_cache[rel] # NoRel
                        THEN delay_invalidation_event(TRUE, parent_cache[rel])
                        ELSE delay_invalidation_event(FALSE, rel)
              ELSE delay_invalidation_event(FALSE, rel) /\ UNCHANGED <<bound_cache, parent_cache>>

-----------------------------------------------------------------------------
(* Message delivery: AcceptInvalidationMessages runs the relcache hook on  *)
(* each message of the transactions that were queued when it was called.  *)

AcceptMessage ==
  /\ accept_left > 0
  /\ LET txn == Head(sinval) IN
       /\ pathman_relcache_hook(Head(txn))
       /\ IF Len(txn) = 1
            THEN sinval' = Tail(sinval) /\ accept_left' = accept_left - 1
            ELSE sinval' = [sinval EXCEPT ![1] = Tail(txn)] /\ UNCHANGED accept_left
  /\ UNCHANGED <<catalog, hooks_enabled, initialized, enabled, setting, pc, target, kids, fin_idx, fin_cfg, locks, plan>>

(* A lock acquisition: every message queued so far will be processed.     *)
AcceptAll == accept_left' = Len(sinval)

(* A lock acquisition that may or may not process the queue (see          *)
(* AcceptInCook, AcceptInDrain).                                           *)
MayAccept(flag) == accept_left' \in IF flag THEN {0, Len(sinval)} ELSE {0}

Step(from, to) == pc = from /\ accept_left = 0 /\ pc' = to

-----------------------------------------------------------------------------
(* The backend: one statement on parent p.  Parsing locks p and accepts    *)
(* messages; pathman_post_parse_analysis_hook runs                         *)
(* finish_delayed_invalidation; planning calls get_pathman_relation_info.  *)

BeginStatement(p) ==
  /\ Step("idle", "post_parse")
  /\ target' = p
  /\ locks' = {p}
  /\ AcceptAll
  /\ UNCHANGED <<catalog, sinval, cache, jobs, hooks_enabled, initialized, enabled, setting, kids, fin_idx, fin_cfg, plan>>

(* Mutant: the early exit overlooks pending vague relations.               *)
finish_begin_ignores_vague ==
  /\ pc = "post_parse" /\ accept_left = 0
  /\ CASE ~Ready -> pc' = (IF setting = NoSet THEN "done" ELSE "get") /\ UNCHANGED accept_left
       [] ~inval_whole /\ inval_parents = <<>> /\ ~shutdown ->
            pc' = "get" /\ UNCHANGED accept_left
       [] OTHER -> pc' = "fin_shutdown" /\ AcceptAll
  /\ fin_cfg' = NotFetched
  /\ UNCHANGED <<catalog, sinval, cache, jobs, hooks_enabled, initialized, enabled, setting, target, kids, fin_idx, locks, plan>>

(* pathman_post_parse_analysis_hook: finish_delayed_invalidation only when *)
(* pg_pathman is ready.  Not ready, load_config() is not called either,    *)
(* get_pathman_schema() finding no extension, and planning goes without    *)
(* the registry.  finish_delayed_invalidation: early exit when no job is   *)
(* pending, else AcceptInvalidationMessages.                               *)
FinishBegin ==
  /\ pc = "post_parse" /\ accept_left = 0
  /\ CASE ~Ready -> pc' = (IF setting = NoSet THEN "done" ELSE "get") /\ UNCHANGED accept_left
       [] ~inval_whole /\ inval_parents = <<>> /\ inval_vague = <<>> /\ ~shutdown ->
            pc' = "get" /\ UNCHANGED accept_left
       [] OTHER -> pc' = "fin_shutdown" /\ AcceptAll
  /\ fin_cfg' = NotFetched
  /\ UNCHANGED <<catalog, sinval, cache, jobs, hooks_enabled, initialized, enabled, setting, target, kids, fin_idx, locks, plan>>

(* unload_config() (src/init.c, not in the repository): the local caches   *)
(* are destroyed and initialization is needed again.                       *)
unload_config ==
  /\ initialized' = FALSE
  /\ prel' = [q \in Parents |-> Absent]
  /\ bound_cache' = [c \in Parts |-> NoBound]
  /\ parent_cache' = [c \in Parts |-> NoRel]

(* The DROP EXTENSION case: the flag is cleared; when PATHMAN_CONFIG is    *)
(* gone, the config is unloaded, every other job is discarded and the      *)
(* drain returns, the post-parse hook loading nothing.                     *)
FinishShutdown ==
  /\ Step("fin_shutdown", IF shutdown /\ ~cat_ext THEN "done" ELSE "fin_whole")
  /\ shutdown' = FALSE
  /\ IF shutdown /\ ~cat_ext
       THEN /\ unload_config
            /\ inval_whole' = FALSE
            /\ inval_parents' = <<>>
            /\ inval_vague' = <<>>
       ELSE UNCHANGED <<cache, inval_parents, inval_vague, inval_whole, initialized>>
  /\ UNCHANGED <<catalog, sinval, hooks_enabled, enabled, setting, target, kids, fin_idx, fin_cfg,
                 accept_left, locks, plan>>

(* read_parent_oids() once per call, on first use.                         *)
FinCfg == IF fin_cfg.fetched THEN fin_cfg.rels ELSE cat_config

FinishWholeCache ==
  /\ Step("fin_whole", "fin_parents")
  /\ fin_idx' = 1
  /\ IF inval_whole
       THEN /\ inval_whole' = FALSE
            /\ fin_cfg' = [fetched |-> TRUE, rels |-> FinCfg]
            /\ invalidate_pathman_relation_info_cache(FinCfg)
            /\ MayAccept(AcceptInDrain)
       ELSE UNCHANGED <<inval_whole, fin_cfg, prel, parent_cache, accept_left, plan>>
  /\ UNCHANGED <<catalog, sinval, bound_cache, inval_parents, inval_vague, shutdown,
                 hooks_enabled, initialized, enabled, setting, target, kids, locks, plan>>

(* One iteration of foreach (lc, delayed_invalidation_parent_rels).        *)
FinishParentRel ==
  /\ Step("fin_parents", "fin_parents")
  /\ fin_idx <= Len(inval_parents)
  /\ try_invalidate_parent(inval_parents[fin_idx], FinCfg)
  /\ fin_cfg' = [fetched |-> TRUE, rels |-> FinCfg]
  /\ fin_idx' = fin_idx + 1
  /\ MayAccept(AcceptInDrain)
  /\ UNCHANGED <<catalog, sinval, bound_cache, jobs, hooks_enabled, initialized, enabled, setting, target, kids, locks, plan>>

FinishParentsDone ==
  /\ Step("fin_parents", "fin_vague")
  /\ fin_idx > Len(inval_parents)
  /\ fin_idx' = 1
  /\ UNCHANGED <<catalog, sinval, cache, jobs, hooks_enabled, initialized, enabled, setting, target, kids, fin_cfg,
                 accept_left, locks, plan>>

(* One iteration of foreach (lc, delayed_invalidation_vague_rels).  A      *)
(* vague parent is invalidated or dropped by try_invalidate_parent(); for  *)
(* a partition, get_parent_of_partition() asks parent_cache, then          *)
(* pg_inherits, and the parent found is invalidated unless it is already   *)
(* in delayed_invalidation_parent_rels.                                    *)
FinishVagueRel ==
  /\ Step("fin_vague", "fin_vague")
  /\ fin_idx <= Len(inval_vague)
  /\ LET rel == inval_vague[fin_idx]
         parent == IF rel \in Parts THEN get_parent_of_partition(rel) ELSE NoRel
     IN CASE rel \in Parents -> try_invalidate_parent(rel, FinCfg)
          [] parent # NoRel /\ parent \notin ToSet(inval_parents) ->
               try_invalidate_parent(parent, FinCfg)
          [] OTHER -> UNCHANGED <<prel, parent_cache>>
  /\ fin_cfg' = [fetched |-> TRUE, rels |-> FinCfg]
  /\ fin_idx' = fin_idx + 1
  /\ MayAccept(AcceptInDrain)
  /\ UNCHANGED <<catalog, sinval, bound_cache, jobs, hooks_enabled, initialized, enabled, setting, target, kids, locks, plan>>

(* free_invalidation_lists() at the end; the whole-cache flag survives.    *)
FinishFree ==
  /\ Step("fin_vague", "get")
  /\ fin_idx > Len(inval_vague)
  /\ inval_parents' = <<>>
  /\ inval_vague' = <<>>
  /\ UNCHANGED <<catalog, sinval, cache, inval_whole, shutdown, hooks_enabled, initialized, enabled, setting, target, kids,
                 fin_idx, fin_cfg, accept_left, locks, plan>>

(* SET pg_pathman.enable = v: the transaction start accepts messages; the *)
(* post-parse hook drains the delayed jobs if pg_pathman is ready (the     *)
(* drain above, ending at "get") and returns without a lookup.             *)
BeginSet(v) ==
  /\ Step("idle", "post_parse")
  /\ setting' = v
  /\ target' = NoRel
  /\ locks' = {}
  /\ AcceptAll
  /\ UNCHANGED <<catalog, sinval, cache, jobs, hooks_enabled, initialized, enabled, kids, fin_idx, fin_cfg, plan>>

(* Executing the SET: pathman_enable_assign_hook copies the value into the *)
(* other flags, the bounds cache flag among them, and the GUC takes it.    *)
(* Nothing reloads the config or replays the messages dropped meanwhile.   *)
ExecSet ==
  /\ Step("get", "done")
  /\ setting # NoSet
  /\ enabled' = setting
  /\ UNCHANGED <<catalog, sinval, cache, jobs, hooks_enabled, initialized, setting, target, kids,
                 fin_idx, fin_cfg, accept_left, locks, plan>>

-----------------------------------------------------------------------------
(* get_pathman_relation_info(target)                                       *)

(* HASH_FIND: no entry gives NULL, a valid entry is returned as it is.     *)
GetCached ==
  /\ setting = NoSet
  /\ Step("get", "done")
  /\ prel[target].state # "invalid"
  /\ UNCHANGED <<catalog, sinval, cache, jobs, hooks_enabled, initialized, enabled, setting, target, kids,
                 fin_idx, fin_cfg, accept_left, locks, plan>>

(* An invalid entry of a parent without a PATHMAN_CONFIG row is removed.   *)
GetRemoved ==
  /\ setting = NoSet
  /\ Step("get", "done")
  /\ prel[target].state = "invalid"
  /\ target \notin cat_config
  /\ remove_pathman_relation_info(target)
  /\ UNCHANGED <<catalog, sinval, bound_cache, jobs, hooks_enabled, initialized, enabled, setting, target, kids,
                 fin_idx, fin_cfg, accept_left, locks, plan>>

(* An invalid configured entry is rebuilt, after cooking the expression   *)
(* when cooked_expr is NULL.                                               *)
GetRefresh ==
  /\ setting = NoSet
  /\ Step("get", IF cat_cooked[target] THEN "refresh" ELSE "cook")
  /\ prel[target].state = "invalid"
  /\ target \in cat_config
  /\ UNCHANGED <<catalog, sinval, cache, jobs, hooks_enabled, initialized, enabled, setting, target, kids,
                 fin_idx, fin_cfg, accept_left, locks, plan>>

(* pathman_config_refresh_parsed_expression -> cook_partitioning_expression:*)
(* hooks off around pg_analyze_and_rewrite, which locks the parent.        *)
CookBegin ==
  /\ Step("cook", "cook_end")
  /\ hooks_enabled' = FALSE
  /\ MayAccept(AcceptInCook)
  /\ UNCHANGED <<catalog, sinval, cache, jobs, initialized, enabled, setting, target, kids, fin_idx, fin_cfg, locks, plan>>

CookEnd ==
  /\ Step("cook_end", "refresh")
  /\ hooks_enabled' = TRUE
  /\ cat_cooked' = [cat_cooked EXCEPT ![target] = TRUE]
  /\ UNCHANGED <<cat_config, cat_parent, cat_ext, cat_bound, ddl_count, sinval, cache, jobs,
                 initialized, enabled, setting, target, kids, fin_idx, fin_cfg, accept_left, locks, plan>>

(* refresh_pathman_relation_info(target, values, false): the entry is     *)
(* invalidated (it already is) and LockRelationOid accepts messages.       *)
RefreshLockParent ==
  /\ Step("refresh", "find_children")
  /\ AcceptAll
  /\ UNCHANGED <<catalog, sinval, cache, jobs, hooks_enabled, initialized, enabled, setting, target, kids,
                 fin_idx, fin_cfg, locks, plan>>

(* find_inheritance_children_array() == FCS_NO_CHILDREN: entry removed.    *)
RefreshNoChildren ==
  /\ Step("find_children", "done")
  /\ \A c \in Parts : cat_parent[c] # target
  /\ remove_pathman_relation_info(target)
  /\ UNCHANGED <<catalog, sinval, bound_cache, jobs, hooks_enabled, initialized, enabled, setting, target, kids,
                 fin_idx, fin_cfg, accept_left, locks, plan>>

(* FCS_FOUND: the children are locked, which accepts messages.             *)
RefreshFoundChildren ==
  /\ Step("find_children", "fill")
  /\ LET found == {c \in Parts : cat_parent[c] = target} IN
       /\ found # {}
       /\ kids' = found
       /\ locks' = locks \cup found
  /\ AcceptAll
  /\ UNCHANGED <<catalog, sinval, cache, jobs, hooks_enabled, initialized, enabled, setting, target, fin_idx, fin_cfg, plan>>

(* fill_prel_with_partitions (bounds through get_bounds_of_partition),     *)
(* cache_parent_of_partition and unlock for each child, prel->valid.      *)
RefreshFill ==
  /\ Step("fill", "done")
  /\ prel' = [prel EXCEPT ![target] =
                [state |-> "valid", ranges |-> [c \in kids |-> BoundOf(c)]]]
  /\ bound_cache' = IF enabled
                      THEN [c \in Parts |-> IF c \in kids THEN BoundOf(c) ELSE bound_cache[c]]
                      ELSE bound_cache
  /\ parent_cache' = cache_parent_of_partition(kids, target)
  /\ locks' = locks \ kids
  /\ UNCHANGED <<catalog, sinval, jobs, hooks_enabled, initialized, enabled, setting, target, kids, fin_idx, fin_cfg,
                 accept_left, plan>>

(* pathman_rel_pathlist_hook for the statement's scan of the parent, when  *)
(* pg_pathman is ready and get_pathman_relation_info() gave an entry: the  *)
(* children array is read (PrelGetChildrenArray) and the walker selects    *)
(* some of them (walk_expr_tree over the WHERE clauses, not modelled).     *)
PathlistBegin ==
  /\ PlanScans
  /\ Step("done", "append")
  /\ setting = NoSet
  /\ Ready
  /\ prel[target].state = "valid"
  /\ \E sel \in SUBSET PrelChildren(target) :
       plan' = [read |-> PrelChildren(target), left |-> sel]
  /\ UNCHANGED <<catalog, sinval, cache, jobs, hooks_enabled, initialized, enabled, setting, target, kids,
                 fin_idx, fin_cfg, accept_left, locks>>

(* append_child_relation(..., children[i], ...) for one selected child:    *)
(* the child is locked, which accepts messages.                            *)
append_child_relation ==
  /\ Step("append", "append")
  /\ \E c \in plan.left :
       /\ locks' = locks \cup {c}
       /\ plan' = [plan EXCEPT !.left = @ \ {c}]
  /\ AcceptAll
  /\ UNCHANGED <<catalog, sinval, cache, jobs, hooks_enabled, initialized, enabled, setting, target, kids,
                 fin_idx, fin_cfg>>

(* set_append_rel_pathlist and the Runtime[Merge]Append paths: planner    *)
(* structures only.                                                        *)
PathlistEnd ==
  /\ Step("append", "planned")
  /\ plan.left = {}
  /\ UNCHANGED <<catalog, sinval, cache, jobs, hooks_enabled, initialized, enabled, setting, target, kids,
                 fin_idx, fin_cfg, accept_left, locks, plan>>

(* The statement ends, the hook having skipped the parent (rte->inh, a    *)
(* result relation, no entry) or planned it; locks go at commit.           *)
EndStatement ==
  /\ pc \in {"done", "planned"} /\ accept_left = 0
  /\ pc' = "idle"
  /\ locks' = {}
  /\ plan' = NoPlan
  /\ setting' = NoSet
  /\ UNCHANGED <<catalog, sinval, cache, jobs, hooks_enabled, initialized, enabled, target, kids,
                 fin_idx, fin_cfg, accept_left>>

-----------------------------------------------------------------------------
(* Other backends.  Each DDL commits atomically, under a lock that         *)
(* conflicts with this backend's AccessShareLock on the relation it        *)
(* changes, and queues its relcache messages for this backend.             *)

Commit(msgs) ==
  /\ ddl_count < MaxDDL
  /\ ddl_count' = ddl_count + 1
  /\ sinval' = Append(sinval, msgs)
  /\ UNCHANGED <<cache, jobs, backend>>

(* A partition's CHECK constraint is replaced (split, merge, set bounds).  *)
SetBound(c, b) ==
  /\ c \notin locks /\ b # cat_bound[c]
  /\ cat_bound' = [cat_bound EXCEPT ![c] = b]
  /\ Commit(<<c>>)
  /\ UNCHANGED <<cat_config, cat_parent, cat_ext, cat_cooked>>

(* A table becomes a child of p (create or attach a partition).  Whether   *)
(* the parent's relcache is invalidated too depends on code outside src/.  *)
Attach(c, p) ==
  /\ c \notin locks /\ cat_parent[c] = NoRel
  /\ cat_parent' = [cat_parent EXCEPT ![c] = p]
  /\ \E msgs \in {<<c>>, <<c, p>>} : Commit(msgs)
  /\ UNCHANGED <<cat_config, cat_ext, cat_bound, cat_cooked>>

(* A partition stops being a child (drop or detach).                       *)
Detach(c) ==
  /\ c \notin locks /\ cat_parent[c] # NoRel
  /\ cat_parent' = [cat_parent EXCEPT ![c] = NoRel]
  /\ \E msgs \in {<<c>>, <<c, cat_parent[c]>>} : Commit(msgs)
  /\ UNCHANGED <<cat_config, cat_ext, cat_bound, cat_cooked>>

(* A PATHMAN_CONFIG row is inserted or deleted; its trigger invalidates   *)
(* the parent's relcache.  The SQL functions that do it lock the parent in *)
(* modes that do not conflict with this backend's AccessShareLock, so the  *)
(* change may commit while a statement of this backend uses the parent.   *)
Configure(p) ==
  /\ cat_ext /\ p \notin cat_config
  /\ cat_config' = cat_config \cup {p}
  /\ Commit(<<p>>)
  /\ UNCHANGED <<cat_parent, cat_ext, cat_bound, cat_cooked>>

Unconfigure(p) ==
  /\ p \in cat_config
  /\ cat_config' = cat_config \ {p}
  /\ Commit(<<p>>)
  /\ UNCHANGED <<cat_parent, cat_ext, cat_bound, cat_cooked>>

(* ALTER TABLE p ALTER COLUMN ... TYPE: pathman_process_utility_hook sets  *)
(* cooked_expr to NULL.                                                    *)
AlterColumnType(p) ==
  /\ p \notin locks /\ p \in cat_config /\ cat_cooked[p]
  /\ cat_cooked' = [cat_cooked EXCEPT ![p] = FALSE]
  /\ Commit(<<p>>)
  /\ UNCHANGED <<cat_config, cat_parent, cat_ext, cat_bound>>

(* DROP EXTENSION: PATHMAN_CONFIG is dropped with its rows, and the       *)
(* table's relcache message is queued.                                     *)
DropExtension ==
  /\ ExtensionDrop /\ cat_ext
  /\ cat_ext' = FALSE
  /\ cat_config' = {}
  /\ Commit(<<ConfigRel>>)
  /\ UNCHANGED <<cat_parent, cat_bound, cat_cooked>>

(* The backend fell too far behind: its queue is replaced by a reset,      *)
(* delivered to the hook as relid InvalidOid.                              *)
SinvalReset ==
  /\ Len(sinval) >= SinvalQueueMax /\ accept_left = 0
  /\ sinval # <<<<AllRels>>>>
  /\ sinval' = <<<<AllRels>>>>
  /\ UNCHANGED <<catalog, cache, jobs, backend>>

-----------------------------------------------------------------------------

Init ==
  /\ cat_config \in SUBSET Parents
  /\ cat_parent \in [Parts -> Parents \cup {NoRel}]
  /\ cat_bound \in [Parts -> BoundVals]
  /\ cat_cooked = [p \in Parents |-> TRUE]
  /\ cat_ext = TRUE
  /\ ddl_count = 0
  /\ sinval = <<>>
  \* load_config(): an invalid entry for every configured parent
  /\ prel = [p \in Parents |-> IF p \in cat_config THEN Invalid ELSE Absent]
  /\ bound_cache = [c \in Parts |-> NoBound]
  /\ parent_cache = [c \in Parts |-> NoRel]
  /\ inval_parents = <<>> /\ inval_vague = <<>> /\ inval_whole = FALSE
  /\ shutdown = FALSE
  /\ hooks_enabled = TRUE /\ initialized = TRUE
  /\ enabled = TRUE /\ setting = NoSet
  /\ pc = "idle" /\ target = NoRel /\ kids = {}
  /\ fin_idx = 1 /\ fin_cfg = NotFetched
  /\ accept_left = 0 /\ locks = {}
  /\ plan = NoPlan

Backend ==
  \/ \E p \in Parents : BeginStatement(p)
  \/ \E v \in EnableValues : BeginSet(v)
  \/ FinishBegin \/ FinishShutdown \/ FinishWholeCache \/ FinishParentRel \/ FinishParentsDone
  \/ FinishVagueRel \/ FinishFree
  \/ GetCached \/ GetRemoved \/ GetRefresh \/ CookBegin \/ CookEnd
  \/ RefreshLockParent \/ RefreshNoChildren \/ RefreshFoundChildren \/ RefreshFill
  \/ PathlistBegin \/ append_child_relation \/ PathlistEnd
  \/ ExecSet \/ EndStatement
  \/ AcceptMessage

Environment ==
  \/ \E c \in Parts, b \in BoundVals : SetBound(c, b)
  \/ \E c \in Parts, p \in Parents : Attach(c, p)
  \/ \E c \in Parts : Detach(c)
  \/ \E p \in Parents : Configure(p) \/ Unconfigure(p) \/ AlterColumnType(p)
  \/ DropExtension
  \/ SinvalReset

Next == Backend \/ Environment

Spec == Init /\ [][Next]_vars

(* The backend's own steps (message delivery inside a lock acquisition,    *)
(* the drain, the lookup) are never postponed forever once enabled; and   *)
(* the session keeps issuing statements.  Other backends owe nothing.     *)
Fairness == WF_vars(Backend)

FairSpec == Spec /\ Fairness

-----------------------------------------------------------------------------
(* Properties                                                              *)

(* Relations named by a message still waiting in the queue.               *)
PendingRels == UNION {ToSet(txn) : txn \in ToSet(sinval)}

(* A cached PartBoundInfo is the partition's current constraint unless a   *)
(* message about the partition (or a reset) is still queued: the relcache  *)
(* hook must forget a partition's bounds as soon as it sees the message,   *)
(* since refresh_pathman_relation_info trusts the bounds cache.            *)
BoundCacheCoherent ==
  \A c \in Parts :
    (bound_cache[c] # NoBound /\ c \notin PendingRels /\ AllRels \notin PendingRels)
      => bound_cache[c] = cat_bound[c]

(* No message is queued or half-handled and no delayed job is left.        *)
Quiescent ==
  /\ pc = "idle" /\ sinval = <<>>
  /\ inval_parents = <<>> /\ inval_vague = <<>> /\ ~inval_whole

(* A valid entry describes the catalog: configured, the same children,     *)
(* each with its current bound.                                            *)
Coherent(q) ==
  prel[q].state = "valid" =>
    /\ q \in cat_config
    /\ DOMAIN prel[q].ranges = {c \in Parts : cat_parent[c] = q}
    /\ \A c \in DOMAIN prel[q].ranges : prel[q].ranges[c] = cat_bound[c]

(* Once every committed change has reached the relcache hook and every     *)
(* delayed job has run, no valid PartRelationInfo is stale: no             *)
(* invalidation event is lost between pathman_relcache_hook,               *)
(* delayed_invalidation_* and finish_delayed_invalidation.  It is asked   *)
(* while pg_pathman is ready: disabled, the registry is not consulted.     *)
RegistryCoherent == Quiescent /\ Ready => \A q \in Parents : Coherent(q)

(* Every change committed by another backend eventually reaches the cache: *)
(* from some point on no valid PartRelationInfo disagrees with the catalog *)
(* (the spec's "self-healing" registry; an event lost by the relcache hook *)
(* or the drain leaves a stale entry valid forever).                       *)
EventuallyCoherent == <>[](\A q \in Parents : Coherent(q))

(* The registry is consulted only while the extension exists, or while    *)
(* the DROP EXTENSION's message is still queued: the relcache hook turns   *)
(* the PATHMAN_CONFIG message into delayed_shutdown, and the next          *)
(* finish_delayed_invalidation unloads the config before                  *)
(* get_pathman_relation_info can run.                                      *)
NoLookupAfterDrop ==
  (pc = "get" /\ setting = NoSet /\ initialized) => (cat_ext \/ ConfigRel \in PendingRels)

(* A job list that finish_delayed_invalidation is walking with foreach     *)
(* (past its first cell) is never freed or cut short by a step of the      *)
(* relcache hook inside the drain: free_invalidation_lists(), called by    *)
(* delay_invalidation_whole_cache() for a reset or an overlong list,       *)
(* would leave the loop's ListCell pointing into reset memory.             *)
DrainListsIntact ==
  [][pc' = pc =>
       /\ (pc = "fin_parents" /\ fin_idx > 1) => Len(inval_parents') >= Len(inval_parents)
       /\ (pc = "fin_vague" /\ fin_idx > 1) => Len(inval_vague') >= Len(inval_vague)]_vars


-----------------------------------------------------------------------------
(* The children array pathman_rel_pathlist_hook read from the parent's    *)
(* entry is still that valid entry's array while append_child_relation     *)
(* locks the selected children and the statement goes on: the hook warns  *)
(* that "prel might become invalid" there, and only the relcache hook's    *)
(* delaying of every invalidation to the next statement's                  *)
(* finish_delayed_invalidation keeps the array from being freed under it.  *)
PlannedChildrenStable ==
  pc \in {"append", "planned"} =>
    /\ prel[target].state = "valid"
    /\ PrelChildren(target) = plan.read
    /\ plan.left \subseteq plan.read

(* Refinement of Registry.  The catalog's description of a parent, the    *)
(* backend's usable entry, and the parents with an invalidation in flight: *)
(* a queued message or a delayed job not yet run that is about the parent  *)
(* itself, about one of its partitions (in the catalog or in its entry),   *)
(* or about everything (a reset, the whole-cache job, DROP EXTENSION).    *)

CatalogView(q) ==
  IF q \in cat_config THEN [c \in {x \in Parts : cat_parent[x] = q} |-> cat_bound[c]]
                      ELSE NoRel

CachedView(q) == IF prel[q].state = "valid" THEN prel[q].ranges ELSE NoRel

RelatedTo(r, q) == r = q \/ (r \in Parts /\ (cat_parent[r] = q \/ r \in PrelChildren(q)))

(* The parts of the job lists finish_delayed_invalidation has not reached. *)
ParentsToRun ==
  CASE pc = "fin_parents" -> SubSeq(inval_parents, fin_idx, Len(inval_parents))
    [] pc = "fin_vague" -> <<>>
    [] OTHER -> inval_parents
VagueToRun ==
  IF pc = "fin_vague" THEN SubSeq(inval_vague, fin_idx, Len(inval_vague)) ELSE inval_vague

InFlight(q) ==
  \/ inval_whole \/ shutdown
  \/ \E r \in PendingRels : r \in {AllRels, ConfigRel} \/ RelatedTo(r, q)
  \/ q \in ToSet(ParentsToRun)
  \/ \E r \in ToSet(VagueToRun) : RelatedTo(r, q)

Abstract == INSTANCE Registry
              WITH Views <- UNION {[S -> BoundVals] : S \in SUBSET Parts},
                   NoView <- NoRel,
                   snap <- [q \in Parents |-> CatalogView(q)],
                   view <- [q \in Parents |-> CachedView(q)],
                   dirty <- {q \in Parents : InFlight(q)}

(* PartitionCache implements Registry: every committed change to a cached *)
(* parent is in flight until pathman_relcache_hook has turned it into a    *)
(* delayed job and finish_delayed_invalidation has run that job, which     *)
(* drops the entry; refresh_pathman_relation_info of a parent with nothing *)
(* in flight builds the catalog's description.  A lost message, a job for  *)
(* the wrong parent or a stale bound taken from the bounds cache breaks it *)
(* at the step where it happens.                                           *)
ImplementsRegistry == Abstract!Init /\ [][Abstract!Next]_(Abstract!vars)

=============================================================================
