--------------------------- MODULE HashPartitions ---------------------------
(***************************************************************************)
(* The SQL-callable C functions of src/pl_hash_funcs.c that create HASH    *)
(* partitions, and the remote server map they read.                        *)
(*                                                                         *)
(*  - server_map       : the rows of the server_map table, one record per  *)
(*                       server: [hash_range_start, hash_range_end)        *)
(*  - range_server_set : the backend's copy (rangeServerSet, init.h),      *)
(*                       loaded by reload_range_server_set(); <<>> is NULL *)
(*  - parts            : parent -> partitions_count of its HASH partitions *)
(*                       (0: get_pathman_relation_info() is NULL)          *)
(*  - used_map         : the server set each remote creation was checked   *)
(*                       against                                           *)
(*  - oob_read         : an error message read past the end of server_set *)
(*  - last_idx         : the result of the last get_hash_part_idx() call   *)
(*  - crashed          : a division by zero (SIGFPE) ended the backend     *)
(***************************************************************************)
EXTENDS Integers, Sequences, FiniteSets

CONSTANTS
  Parents,     \* relations the functions are called on
  SlotSize,    \* HASH_SLOT_SIZE (src/include/init.h)
  MaxServers,  \* rows of server_map considered
  MaxCount,    \* largest partitions_count argument considered
  HashVals,    \* hash values passed to get_hash_part_idx
  ServerMaps   \* contents the server_map table is given

ASSUME SlotSize \in Nat \ {0} /\ MaxServers \in Nat \ {0} /\ MaxCount \in Nat
ASSUME HashVals \subseteq Nat

VARIABLES server_map, range_server_set, parts, used_map, oob_read, last_idx, crashed

vars == <<server_map, range_server_set, parts, used_map, oob_read, last_idx, crashed>>

(* A RangeServer entry: its slots are hash_range_start .. end - 1.        *)
RangeServer == [start : 0..SlotSize, end : 0..SlotSize]

(* Server maps the server_map table may hold: 1..MaxServers rows, each    *)
(* a nonempty range within the slot space.                                *)
AnyServerMap ==
  UNION {[1..k -> {r \in RangeServer : r.start < r.end}] : k \in 1..MaxServers}

ASSUME ServerMaps \subseteq AnyServerMap

(* An array argument: NULL, or a text[] of the given size.                 *)
NullArray == -1

(* The sizes deconstruct_text_array() lets through: an empty array, a NULL *)
(* element or a second dimension is an ERROR before any state changes.    *)
ArraySizes == {NullArray} \cup 1..MaxCount

TypeOK ==
  /\ server_map \in ServerMaps
  /\ range_server_set \in ServerMaps \cup {<<>>}
  /\ parts \in [Parents -> 0..MaxCount]
  /\ used_map \in [Parents -> ServerMaps \cup {<<>>}]
  /\ oob_read \in BOOLEAN
  /\ last_idx \in 0..MaxCount
  /\ crashed \in BOOLEAN

-----------------------------------------------------------------------------
(* Mutant: the partition index without the reduction modulo the count.    *)
hash_to_part_index_no_mod(value, partitions) == value

(* hash_to_part_index() (src/include/pathman.h): value % partitions, in    *)
(* uint32; a zero divisor is undefined behaviour that traps on the builds  *)
(* PostgreSQL supports.                                                    *)
hash_to_part_index(value, partitions) == value % partitions

(* The argument checks both creation functions share: the partition_names  *)
(* and tablespaces arrays, when given, have partitions_count elements.     *)
ArraysFit(n, names, tspcs) ==
  /\ names = NullArray \/ names = n
  /\ tspcs = NullArray \/ tspcs = n

(* The server-map checks of create_remote_hash_partitions_internal(), in   *)
(* their order: a map is loaded, partitions_count divides evenly, each     *)
(* server's range has room for its share, and the last range ends at       *)
(* HASH_SLOT_SIZE.                                                         *)
ServerCount == Len(range_server_set)
CountPerServer(n) == n \div ServerCount
MapLoaded == ServerCount > 0
RoomFor(n) ==
  \A i \in 1..ServerCount :
    range_server_set[i].end - range_server_set[i].start >= CountPerServer(n)
LastEndsAtSlotSize == range_server_set[ServerCount].end = SlotSize

-----------------------------------------------------------------------------
(* Actions.  A call whose checks fail ends in ereport(ERROR) and changes   *)
(* nothing; only the paths that change state are actions.                  *)

(* Another session rewrites the server_map table.                          *)
WriteServerMap(m) ==
  /\ server_map' = m
  /\ UNCHANGED <<range_server_set, parts, used_map, oob_read, last_idx, crashed>>

(* reload_range_server_set(): read_range_server_set() copies the table.    *)
reload_range_server_set ==
  /\ range_server_set' = server_map
  /\ UNCHANGED <<server_map, parts, used_map, oob_read, last_idx, crashed>>

(* create_hash_partitions_internal(parent, expr, n, names, tablespaces):   *)
(* no partitions yet, arrays fit, then partitions 0 .. n-1 are created.    *)
create_hash_partitions_internal(p, n, names, tspcs) ==
  /\ parts[p] = 0
  /\ ArraysFit(n, names, tspcs)
  /\ parts' = [parts EXCEPT ![p] = n]
  /\ UNCHANGED <<server_map, range_server_set, used_map, oob_read, last_idx, crashed>>

(* create_remote_hash_partitions_internal(): the same checks, then the     *)
(* server-map checks, then partitions 0 .. n-1 on the servers.             *)
create_remote_hash_partitions_internal(p, n, names, tspcs) ==
  /\ parts[p] = 0
  /\ ArraysFit(n, names, tspcs)
  /\ MapLoaded
  /\ n % ServerCount = 0
  /\ RoomFor(n)
  /\ LastEndsAtSlotSize
  /\ parts' = [parts EXCEPT ![p] = n]
  /\ used_map' = [used_map EXCEPT ![p] = range_server_set]
  /\ UNCHANGED <<server_map, range_server_set, oob_read, last_idx, crashed>>

(* The last-range check fails: the message is formatted with               *)
(* server_set[i], i being the loop counter left at server_count (0-based), *)
(* that is entry i + 1 of the sequence.                                    *)
RemoteLastRangeError(n) ==
  /\ MapLoaded
  /\ n % ServerCount = 0
  /\ RoomFor(n)
  /\ ~LastEndsAtSlotSize
  /\ LET i == ServerCount IN oob_read' = (i + 1 \notin DOMAIN range_server_set)
  /\ UNCHANGED <<server_map, range_server_set, parts, used_map, last_idx, crashed>>

(* get_hash_part_idx(value, part_count).                                   *)
get_hash_part_idx(v, n) ==
  /\ ~crashed
  /\ IF n = 0 THEN crashed' = TRUE /\ UNCHANGED last_idx
              ELSE last_idx' = hash_to_part_index(v, n) /\ UNCHANGED crashed
  /\ UNCHANGED <<server_map, range_server_set, parts, used_map, oob_read>>

(* Partitions are dropped (drop_partitions(), outside src/).               *)
DropPartitions(p) ==
  /\ parts[p] > 0
  /\ parts' = [parts EXCEPT ![p] = 0]
  /\ used_map' = [used_map EXCEPT ![p] = <<>>]
  /\ UNCHANGED <<server_map, range_server_set, oob_read, last_idx, crashed>>

Init ==
  /\ server_map \in ServerMaps
  /\ range_server_set = <<>>
  /\ parts = [p \in Parents |-> 0]
  /\ used_map = [p \in Parents |-> <<>>]
  /\ oob_read = FALSE
  /\ last_idx = 0
  /\ crashed = FALSE

Next ==
  \/ \E m \in ServerMaps : WriteServerMap(m)
  \/ reload_range_server_set
  \/ \E p \in Parents, n \in 0..MaxCount, names, tspcs \in ArraySizes :
       \/ create_hash_partitions_internal(p, n, names, tspcs)
       \/ create_remote_hash_partitions_internal(p, n, names, tspcs)
  \/ \E n \in 0..MaxCount : RemoteLastRangeError(n)
  \/ \E v \in HashVals, n \in 0..MaxCount : get_hash_part_idx(v, n)
  \/ \E p \in Parents : DropPartitions(p)

Spec == Init /\ [][Next]_vars

-----------------------------------------------------------------------------
(* Properties: the type invariant above bounds the partition index that    *)
(* get_hash_part_idx returns by the largest partition count.               *)

=============================================================================
