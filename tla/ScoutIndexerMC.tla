--------------------------- MODULE ScoutIndexerMC ---------------------------
(***************************************************************************)
(* ScoutIndexer on all small workspaces: up to three declarations of two   *)
(* functions, declared more than once too, calling each other, themselves, *)
(* or something declared nowhere.                                          *)
(***************************************************************************)
EXTENDS ScoutIndexer

Decl == [id : {"f", "g"},
         calls : {<<>>, <<"f">>, <<"g">>, <<"elsewhere">>, <<"g", "f">>}]

SmallWorkspaces == UNION {[1 .. n -> Decl] : n \in 1 .. 3}

NewDatabase == {EmptyGraph}
=============================================================================
