-------------------------- MODULE AuditIndexingMC --------------------------
(***************************************************************************)
(* AuditIndexing on workspaces of a few declarations: two functions        *)
(* calling each other and something declared nowhere; a function declared  *)
(* twice, as init may be, around its caller; and no declaration at all.    *)
(***************************************************************************)
EXTENDS AuditIndexing

Decl(id, calls) == [id |-> id, calls |-> calls]

Few ==
  {<<>>,
   <<Decl("f", <<"g">>), Decl("g", <<"f", "elsewhere">>)>>,
   <<Decl("f", <<>>), Decl("g", <<"f">>), Decl("f", <<"g">>)>>}

(* The database of a first start; and that of an earlier workspace, in which  *)
(* g called a function now gone, and f, which a connection without foreign    *)
(* keys let in before f itself, and then the daemon stopped.                  *)
Databases ==
  {EmptyGraph,
   [nodes |-> {"g", "elsewhere"}, edges |-> {<<"g", "elsewhere">>, <<"g", "f">>}]}
=============================================================================
