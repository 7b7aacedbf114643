---------------------------- MODULE CallTraceMC ----------------------------
(* CallTrace on all graphs of three nodes, two of which differ in case only.*)
EXTENDS CallTrace

ThreeNodes == {"a.go::run", "a.go::main", "a.go::Run"}

Main == {"a.go::main"}

SameId == {<<n, n>> : n \in ThreeNodes}

(* LIKE as equality, which it is where ids differ in more than case, and as *)
(* SQLite has it, blind to case.                                            *)
Both == {SameId, SameId \union {<<"a.go::run", "a.go::Run">>, <<"a.go::Run", "a.go::run">>}}
=============================================================================
