----------------------------- MODULE CodeGraph -----------------------------
(***************************************************************************)
(* The two tables of the code property graph (src/cpg/schema.sql) under    *)
(* the statements of src/cpg/db.go, as functions from graph to graph.      *)
(* Only CALLS edges are kept: they are all the indexer writes.             *)
(*                                                                         *)
(* PRAGMA foreign_keys is a property of one connection, and Open sets it   *)
(* on one: `fk' tells whether the statement's connection has it on.        *)
(***************************************************************************)

(* A graph: node ids, and edges as pairs source, target. *)
EmptyGraph == [nodes |-> {}, edges |-> {}]

Touches(e, id) == e[1] = id \/ e[2] = id

(* Mutant: an upsert, which keeps the row and so fires no cascade. *)
UpsertNode(g, id, fk) == [g EXCEPT !.nodes = @ \union {id}]

(* INSERT OR REPLACE deletes the row there is, and ON DELETE CASCADE with   *)
(* it every edge of the node, before it inserts the new one.                *)
InsertNode(g, id, fk) ==
  [nodes |-> g.nodes \union {id},
   edges |-> IF fk /\ id \in g.nodes THEN {e \in g.edges : ~Touches(e, id)} ELSE g.edges]

(* The foreign keys of an edge: refused, with an error, unless both ends    *)
(* exist.                                                                   *)
EdgeAllowed(g, e, fk) == fk => e[1] \in g.nodes /\ e[2] \in g.nodes

InsertEdge(g, e, fk) ==
  IF EdgeAllowed(g, e, fk) THEN [g EXCEPT !.edges = @ \union {e}] ELSE g
=============================================================================
