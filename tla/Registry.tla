------------------------------ MODULE Registry ------------------------------
(***************************************************************************)
(* What the partition registry of a backend promises (spec.md §4.2 and     *)
(* §4.5), with no message queue, hook or delayed job in sight:             *)
(*                                                                         *)
(*  - snap  : the catalog's description of each parent: NoView when it is  *)
(*            not partitioned, else its partitions with their bounds;      *)
(*  - view  : what the backend has cached for each parent (NoView: nothing *)
(*            usable, the next lookup rebuilds it);                        *)
(*  - dirty : the parents whose change the backend has not caught up with  *)
(*            yet: an invalidation about them is still in flight.         *)
(*                                                                         *)
(* A committed change to a cached parent puts it in flight; the backend    *)
(* may drop or rebuild views at will, but a parent leaves the in-flight    *)
(* set only with its view dropped or current, and a parent with nothing in *)
(* flight is only ever rebuilt from the current catalog.  Hence a cached   *)
(* view with nothing in flight is the catalog's.                           *)
(***************************************************************************)
CONSTANTS
  Parents,   \* the relations that may be partitioned
  Views,     \* the descriptions a partitioned parent may have
  NoView     \* no description

ASSUME NoView \notin Views

VARIABLES snap, view, dirty

vars == <<snap, view, dirty>>

Described == Views \cup {NoView}

TypeOK ==
  /\ snap \in [Parents -> Described]
  /\ view \in [Parents -> Described]
  /\ dirty \subseteq Parents

Init ==
  /\ snap \in [Parents -> Described]
  /\ view = [q \in Parents |-> NoView]
  /\ dirty = {}

(* Another backend commits a change: every cached parent whose view is   *)
(* not the new description is in flight after it.                          *)
Change ==
  /\ snap' \in [Parents -> Described]
  /\ dirty' \subseteq Parents
  /\ \A q \in Parents : view[q] \notin {NoView, snap'[q]} => q \in dirty'
  /\ UNCHANGED view

(* A step of the backend: views are dropped, or rebuilt (from anything    *)
(* while the parent is in flight, from the catalog otherwise), and         *)
(* in-flight parents settle with a dropped or current view.                *)
Use ==
  /\ dirty' \subseteq dirty
  /\ \A q \in Parents :
       view'[q] \in {view[q], NoView, snap[q]} \cup (IF q \in dirty THEN Views ELSE {})
  /\ \A q \in dirty \ dirty' : view'[q] \in {NoView, snap[q]}
  /\ UNCHANGED snap

Next == Change \/ Use

Spec == Init /\ [][Next]_vars

=============================================================================
