---------------------------- MODULE UtilityHook ----------------------------
(***************************************************************************)
(* pathman_process_utility_hook (src/hooks.c): the DDL guards run before   *)
(* standard_ProcessUtility (handle_before_hook) and the propagation of DDL *)
(* to the remote tables behind the foreign-table partitions run after it   *)
(* (handle_after_hook), for the tables named in table_partition_rule.      *)
(*                                                                         *)
(*  - exists  : relations that exist locally                               *)
(*  - remote  : partitions whose table exists on their remote server       *)
(*  - shape   : a version of each local relation's column list, bumped by  *)
(*              each column-changing ALTER                                 *)
(*  - rshape  : the same for the remote table of each partition            *)
(*  - idx     : the indexes of the rule tables, <<table, index name>>      *)
(*  - ridx    : the indexes of the remote tables, <<partition, index>>:    *)
(*              the index remote_table_indexname                           *)
(*  - crashed : the statement whose NULL dereference ended the backend     *)
(*  - rows    : the rows, by key, held by each partition's remote table     *)
(*                                                                         *)
(* One action is one utility statement: the hook before, the standard      *)
(* processing, the hook after.  An ERROR anywhere rolls it back, so a      *)
(* failing path changes nothing and is only a guard.                       *)
(***************************************************************************)
EXTENDS Naturals, Sequences, FiniteSets

CONSTANTS
  Parents,     \* tables named in table_partition_rule
  Kids,        \* Kids[p]: the foreign-table partitions created for p
  Standalone,  \* foreign tables that inherit from nothing
  Plain,       \* ordinary tables outside the rule table
  Free,        \* ordinary table names no relation has at the start
  RenameTargets, \* the names ALTER TABLE ... RENAME TO gives
  MaxAlter,    \* bound on column-changing ALTERs of one relation
  AlterLists,  \* the command lists of an ALTER statement offered
  CascadeDrops,\* whether DROP SCHEMA/SERVER ... CASCADE statements are issued
  Indexes,     \* index names given in CREATE INDEX name ON ...
  IfNotExists, \* the values of CREATE TABLE's IF NOT EXISTS offered
  Keys,        \* partitioning key values of the rows inserted
  KeyPart      \* KeyPart[k]: the partition whose range holds k

Children == UNION {Kids[p] : p \in Parents}
Rels == Parents \cup Children \cup Standalone \cup Plain \cup Free

ASSUME \A p, q \in Parents : p # q => Kids[p] \cap Kids[q] = {}
ASSUME RenameTargets \subseteq Parents \cup Plain \cup Free
ASSUME AlterLists \subseteq Seq({"options", "column"}) /\ CascadeDrops \in BOOLEAN
ASSUME IfNotExists \subseteq BOOLEAN /\ KeyPart \in [Keys -> Children]

ParentOf(c) == CHOOSE p \in Parents : c \in Kids[p]

VARIABLES exists, remote, shape, rshape, idx, ridx, crashed, rows

vars == <<exists, remote, shape, rshape, idx, ridx, crashed, rows>>

TypeOK ==
  /\ exists \subseteq Rels
  /\ remote \subseteq Children
  /\ shape \in [Rels -> 0..MaxAlter]
  /\ rshape \in [Children -> 0..MaxAlter]
  /\ idx \subseteq Parents \X Indexes
  /\ ridx \subseteq Children \X Indexes
  /\ crashed \in {"none", "rename", "cluster"}
  /\ rows \subseteq Children \X Keys

-----------------------------------------------------------------------------
(* get_parent_rangevar(rv): the pg_inherits parent, NULL for none.         *)
get_parent_rangevar(r) == IF r \in Children THEN ParentOf(r) ELSE "NULL"

(* read_table_partition_rule_params(schema, name): a rule row exists.      *)
read_table_partition_rule_params(r) == r \in Parents

(* get_remote_meta_4_child_foreign_table(rv): the children that still      *)
(* exist (find_inheritance_children), each with its remote table.          *)
get_remote_meta_4_child_foreign_table(p) == Kids[p] \cap exists

(* handle_before_hook, T_AlterTableStmt on a foreign table: foreach cmd,   *)
(* an AT_GenericOptions command returns from the hook at once; any other   *)
(* command of a table whose parent is in the rule table is an ERROR.       *)
RECURSIVE AlterAllowed(_, _)
AlterAllowed(r, cmds) ==
  IF cmds = <<>> \/ Head(cmds) = "options" THEN TRUE
  ELSE /\ ~read_table_partition_rule_params(get_parent_rangevar(r))
       /\ AlterAllowed(r, Tail(cmds))

(* Whether the statement changes columns.                                  *)
ChangesColumns(cmds) == \E i \in 1..Len(cmds) : cmds[i] = "column"

(* The guard of handle_before_hook for ALTER of relation r.                *)
BeforeAlter(r, cmds) ==
  r \in Children \cup Standalone => AlterAllowed(r, cmds)

(* Mutant: handle_altertable_stmt sends nothing to the remote servers.     *)
altertable_no_remote(r) == UNCHANGED rshape

(* handle_altertable_stmt (after the standard ALTER, which recursed into   *)
(* the children): the same ALTER is sent for each child's remote table.    *)
handle_altertable_stmt(r) ==
  IF read_table_partition_rule_params(r)
    THEN rshape' = [c \in Children |->
                      IF c \in get_remote_meta_4_child_foreign_table(r)
                        THEN rshape[c] + 1 ELSE rshape[c]]
    ELSE UNCHANGED rshape

-----------------------------------------------------------------------------
(* Statements                                                              *)

(* Mutant: the remote CREATE keeps a remote table that exists already.    *)
createstmt_keeps_remote(r, ine) ==
  LET new == IF read_table_partition_rule_params(r) THEN {r} \cup Kids[r] ELSE {r}
      kids == new \ {r}
  IN /\ crashed = "none"
     /\ r \notin exists
     /\ kids \cap exists = {}
     /\ exists' = exists \cup new
     /\ remote' = remote \cup kids
     /\ shape' = [x \in Rels |-> IF x \in new THEN 0 ELSE shape[x]]
     /\ rshape' = [c \in Children |-> IF c \in kids \ remote THEN 0 ELSE rshape[c]]
     /\ UNCHANGED <<idx, ridx, crashed, rows>>

(* CREATE TABLE [IF NOT EXISTS] r: the standard create (an existing r is  *)
(* skipped, or refused, and nothing follows that changes state), then      *)
(* handle_createstmt, which returns unless r is a rule table; for one it  *)
(* runs create_remote_*_partitions (the foreign-table children) through   *)
(* SPI and, for each child, the statement's text up to "table" (or past   *)
(* "exists") followed by the remote table's name, through the connection  *)
(* pool.  Without IF NOT EXISTS a remote table left from before makes the  *)
(* remote CREATE fail and the statement roll back; with it the remote     *)
(* table is kept as it is, with its columns and its indexes.              *)
handle_createstmt(r, ine) ==
  LET new == IF read_table_partition_rule_params(r) THEN {r} \cup Kids[r] ELSE {r}
      kids == new \ {r}
      kept == IF ine THEN kids \cap remote ELSE {}
  IN /\ crashed = "none"
     /\ r \notin exists
     /\ kids \cap exists = {}
     /\ ine \/ kids \cap remote = {}
     /\ exists' = exists \cup new
     /\ remote' = remote \cup kids
     /\ shape' = [x \in Rels |-> IF x \in new THEN 0 ELSE shape[x]]
     /\ rshape' = [c \in Children |-> IF c \in kids \ kept THEN 0 ELSE rshape[c]]
     /\ UNCHANGED <<idx, ridx, crashed, rows>>

(* CREATE TABLE r AS ...: handle_before_hook refuses a rule table's name;  *)
(* otherwise the standard create makes an ordinary table.                 *)
CreateTableAs(r) ==
  /\ crashed = "none"
  /\ ~read_table_partition_rule_params(r)
  /\ r \notin exists
  /\ exists' = exists \cup {r}
  /\ shape' = [shape EXCEPT ![r] = 0]
  /\ UNCHANGED <<remote, rshape, idx, ridx, crashed, rows>>

(* Mutant: CREATE INDEX on a rule table that sends nothing remotely.      *)
create_index_local(p, i) ==
  /\ crashed = "none"
  /\ p \in exists \cap Parents
  /\ <<p, i>> \notin idx
  /\ idx' = idx \cup {<<p, i>>}
  /\ UNCHANGED <<exists, remote, shape, rshape, ridx, crashed, rows>>

(* CREATE INDEX i ON p of a rule table: the standard create indexes p      *)
(* alone (foreign tables take no index), then handle_create_index sends    *)
(* CREATE INDEX remote_table_i for each existing child's remote table; one *)
(* that exists already makes the remote CREATE fail.                       *)
handle_create_index(p, i) ==
  LET rem == get_remote_meta_4_child_foreign_table(p) \X {i} IN
  /\ crashed = "none"
  /\ p \in exists \cap Parents
  /\ <<p, i>> \notin idx
  /\ rem \cap ridx = {}
  /\ idx' = idx \cup {<<p, i>>}
  /\ ridx' = ridx \cup rem
  /\ UNCHANGED <<exists, remote, shape, rshape, crashed, rows>>

(* DROP INDEX i of table p: the index branch of handle_dropstmt opens the  *)
(* relation the statement names, which is the index i itself, and asks     *)
(* read_table_partition_rule_params about the index's own name; only when *)
(* that name is a rule table does it send DROP INDEX remote_table_i for    *)
(* each existing child.  The standard drop then removes the local index.   *)
(* (A missing index with IF EXISTS is skipped and changes nothing.)        *)
DropIndex(p, i) ==
  LET rem == get_remote_meta_4_child_foreign_table(p) \X {i} IN
  /\ crashed = "none"
  /\ <<p, i>> \in idx
  /\ idx' = idx \ {<<p, i>>}
  /\ ridx' = IF read_table_partition_rule_params(i) THEN ridx \ rem ELSE ridx
  /\ UNCHANGED <<exists, remote, shape, rshape, crashed, rows>>

(* ALTER TABLE / ALTER FOREIGN TABLE r with the command list cmds.  The    *)
(* standard ALTER changes r's columns and, for a parent, its children's.   *)
AlterTable(r, cmds) ==
  /\ crashed = "none"
  /\ r \in exists
  /\ BeforeAlter(r, cmds)
  /\ ChangesColumns(cmds)
  /\ LET hit == IF r \in Parents THEN {r} \cup (Kids[r] \cap exists) ELSE {r} IN
       /\ \A x \in hit : shape[x] < MaxAlter
       /\ shape' = [x \in Rels |-> IF x \in hit THEN shape[x] + 1 ELSE shape[x]]
  /\ handle_altertable_stmt(r)
  /\ UNCHANGED <<exists, remote, idx, ridx, crashed, rows>>

(* DROP FOREIGN TABLE c: handle_dropstmt refuses a child of a rule table.  *)
DropForeignTable(c) ==
  /\ crashed = "none"
  /\ c \in exists \cap (Children \cup Standalone)
  /\ ~read_table_partition_rule_params(get_parent_rangevar(c))
  /\ exists' = exists \ {c}
  /\ UNCHANGED <<remote, shape, rshape, idx, ridx, crashed, rows>>

(* DROP TABLE objs [CASCADE]: the rule tables among objs are the targets;  *)
(* with other tables among them CASCADE is required, otherwise it is      *)
(* forced; the remote table of each existing child of each target is       *)
(* dropped first, with its indexes and rows, then the standard drop       *)
(* removes objs, their indexes and, by cascade, their children.           *)
handle_dropstmt(objs, cascade) ==
  LET targets == {o \in objs : read_table_partition_rule_params(o)}
      gone == objs \cup UNION {Kids[o] \cap exists : o \in targets}
  IN /\ crashed = "none"
     /\ objs # {} /\ objs \subseteq exists
     /\ targets # {} /\ targets # objs => cascade
     /\ LET rgone == UNION {get_remote_meta_4_child_foreign_table(o) : o \in targets} IN
          /\ remote' = remote \ rgone
          /\ ridx' = {x \in ridx : x[1] \notin rgone}
          /\ rows' = {x \in rows : x[1] \notin rgone}
     /\ exists' = exists \ gone
     /\ idx' = {x \in idx : x[1] \notin objs}
     /\ UNCHANGED <<shape, rshape, crashed>>

(* ALTER [FOREIGN] TABLE f RENAME of a foreign table with no parent:       *)
(* handle_renamestmt takes parent_rv->schemaname of the NULL that          *)
(* get_parent_rangevar() returned.                                         *)
RenameForeign(f) ==
  /\ crashed = "none"
  /\ f \in exists \cap Standalone
  /\ get_parent_rangevar(f) = "NULL"
  /\ crashed' = "rename"
  /\ UNCHANGED <<exists, remote, shape, rshape, idx, ridx, rows>>

(* CLUSTER with no table: handle_clusterstmt reads rv->schemaname before   *)
(* its rv == NULL test (the after hook, once the standard CLUSTER ran).   *)
handle_clusterstmt ==
  /\ crashed = "none"
  /\ crashed' = "cluster"
  /\ UNCHANGED <<exists, remote, shape, rshape, idx, ridx, rows>>

(* DROP SCHEMA ... CASCADE or DROP SERVER ... CASCADE reaching foreign-    *)
(* table children: handle_dropstmt handles no such removeType.             *)
DropByCascade(cs) ==
  /\ crashed = "none" /\ CascadeDrops
  /\ cs # {} /\ cs \subseteq exists \cap Children
  /\ exists' = exists \ cs
  /\ UNCHANGED <<remote, shape, rshape, idx, ridx, crashed, rows>>

(* ALTER TABLE r RENAME TO n of a table that is not foreign: the          *)
(* OBJECT_TABLE branch of handle_renamestmt opens r, finds it not foreign  *)
(* and refuses it when r's own name is in the rule table; the new name is  *)
(* not looked at.  The standard rename keeps r's columns under n.          *)
RenameTable(r, n) ==
  /\ crashed = "none"
  /\ r \in exists \ (Children \cup Standalone)
  /\ ~read_table_partition_rule_params(r)
  /\ n \notin exists
  /\ exists' = (exists \ {r}) \cup {n}
  /\ shape' = [shape EXCEPT ![n] = shape[r]]
  /\ UNCHANGED <<remote, rshape, idx, ridx, crashed, rows>>

(* ALTER TABLE r SET SCHEMA s, the table taking the name n = s.r: the      *)
(* T_AlterObjectSchemaStmt case of handle_before_hook refuses it when r,   *)
(* or r's name in the new schema, is in the rule table.                    *)
AlterObjectSchema(r, n) ==
  /\ crashed = "none"
  /\ r \in exists \ (Children \cup Standalone)
  /\ ~read_table_partition_rule_params(r)
  /\ ~read_table_partition_rule_params(n)
  /\ n \notin exists
  /\ exists' = (exists \ {r}) \cup {n}
  /\ shape' = [shape EXCEPT ![n] = shape[r]]
  /\ UNCHANGED <<remote, rshape, idx, ridx, crashed, rows>>

(* INSERT INTO p VALUES (k): PartitionFilter routes the row to the         *)
(* partition whose range holds k (RowRouter models how), and the foreign  *)
(* insert writes it to that partition's remote table; a missing partition *)
(* or remote table is an ERROR.                                            *)
partition_filter_exec(p, k) ==
  /\ crashed = "none"
  /\ p \in exists \cap Parents
  /\ KeyPart[k] \in Kids[p] \cap exists \cap remote
  /\ rows' = rows \cup {<<KeyPart[k], k>>}
  /\ UNCHANGED <<exists, remote, shape, rshape, idx, ridx, crashed>>

(* TRUNCATE [ONLY] p of a rule table: handle_truncatestmt_before_hook      *)
(* turns inheritance off, so the standard TRUNCATE empties p alone (a      *)
(* foreign table cannot be truncated), and handle_truncatestmt sends       *)
(* TRUNCATE for the remote table of each existing child, ONLY or not.      *)
handle_truncatestmt(p) ==
  /\ crashed = "none"
  /\ p \in exists \cap Parents
  /\ rows' = {x \in rows : x[1] \notin get_remote_meta_4_child_foreign_table(p)}
  /\ UNCHANGED <<exists, remote, shape, rshape, idx, ridx, crashed>>

(* The backend is restarted after a crash.                                 *)
Restart ==
  /\ crashed # "none"
  /\ crashed' = "none"
  /\ UNCHANGED <<exists, remote, shape, rshape, idx, ridx, rows>>

Init ==
  /\ exists = Standalone \cup Plain
  /\ remote = {}
  /\ shape = [r \in Rels |-> 0]
  /\ rshape = [c \in Children |-> 0]
  /\ idx = {}
  /\ ridx = {}
  /\ crashed = "none"
  /\ rows = {}

Next ==
  \/ \E r \in Parents \cup Plain \cup Free :
       \/ \E ine \in IfNotExists : handle_createstmt(r, ine)
       \/ CreateTableAs(r)
  \/ \E p \in Parents, k \in Keys : partition_filter_exec(p, k)
  \/ \E p \in Parents : handle_truncatestmt(p)
  \/ \E p \in Parents, i \in Indexes :
       \/ handle_create_index(p, i)
       \/ DropIndex(p, i)
  \/ \E r \in Rels, cmds \in AlterLists : AlterTable(r, cmds)
  \/ \E c \in Children \cup Standalone : DropForeignTable(c)
  \/ \E objs \in SUBSET (Parents \cup Plain), cascade \in BOOLEAN :
       handle_dropstmt(objs, cascade)
  \/ \E f \in Standalone : RenameForeign(f)
  \/ \E r \in Parents \cup Plain \cup Free :
       \/ \E n \in RenameTargets : RenameTable(r, n)
       \/ \E n \in Parents \cup Plain \cup Free : AlterObjectSchema(r, n)
  \/ handle_clusterstmt
  \/ \E cs \in SUBSET Children : DropByCascade(cs)
  \/ Restart

Spec == Init /\ [][Next]_vars

-----------------------------------------------------------------------------
(* Properties                                                              *)

(* Every existing partition of an existing rule table has its remote      *)
(* table, and that table has the parent's columns: handle_createstmt       *)
(* creates them together, handle_altertable_stmt repeats each ALTER of the *)
(* parent on every remote table, and handle_dropstmt refuses to drop a     *)
(* partition alone.                                                        *)
RemoteFollowsParent ==
  \A p \in Parents \cap exists : \A c \in Kids[p] \cap exists :
    c \in remote /\ rshape[c] = shape[p]

(* A rule table exists only with the remote tables of all its partitions:  *)
(* only CREATE TABLE, whose handle_createstmt makes them, may create it    *)
(* (CREATE TABLE AS of its name is refused), and only the DROP TABLE that  *)
(* removes it drops them.                                                  *)
RuleTablesHavePartitions == \A p \in Parents \cap exists : Kids[p] \subseteq remote

(* Every index of an existing rule table is on the remote table of each    *)
(* existing partition: handle_create_index repeats each CREATE INDEX      *)
(* remotely, and a remote index goes only with its remote table, which     *)
(* handle_dropstmt drops only with the parent.                             *)
ParentIndexesOnRemote ==
  \A p \in Parents \cap exists : \A c \in Kids[p] \cap exists : \A i \in Indexes :
    <<p, i>> \in idx => <<c, i>> \in ridx

(* A rule table that CREATE TABLE has just made shows no row: the remote   *)
(* table of each partition is new, since a remote table left behind by a  *)
(* partition that DROP SERVER/SCHEMA ... CASCADE removed (handle_dropstmt  *)
(* sends no remote drop for it) makes the remote CREATE TABLE fail.        *)
FreshRuleTablesEmpty ==
  [][\A p \in Parents :
       p \notin exists /\ p \in exists' => \A c \in Kids[p] : \A k \in Keys : <<c, k>> \notin rows']_vars

(* Each existing partition's remote table has exactly the indexes of its  *)
(* rule table, as the DDL propagation of the spec promises for INDEX: the *)
(* index branch of handle_dropstmt is meant to repeat every DROP INDEX on  *)
(* the remote tables, so a name dropped locally is free remotely as well.  *)
RemoteIndexesFollowParent ==
  \A p \in Parents \cap exists : \A c \in Kids[p] \cap exists : \A i \in Indexes :
    <<p, i>> \in idx <=> <<c, i>> \in ridx

(* Every existing partition of an existing rule table has its parent's     *)
(* columns: the guard loop of handle_before_hook refuses every ALTER of a  *)
(* partition, so only the parent's ALTER, recursing, changes them.         *)
ShapeFollowsParent ==
  \A p \in Parents \cap exists : \A c \in Kids[p] \cap exists : shape[c] = shape[p]

=============================================================================
