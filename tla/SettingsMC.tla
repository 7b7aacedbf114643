----------------------------- MODULE SettingsMC -----------------------------
(***************************************************************************)
(* Settings on small instances.                                            *)
(***************************************************************************)
EXTENDS Settings, TLC

(* A body with a reference, one with the window left out.  The first asks   *)
(* to keep references, the second leaves that out, too.                     *)
FewBodies ==
  {[url |-> "ref", keep |-> TRUE, window |-> 3], [url |-> "ref", keep |-> FALSE, window |-> 0],
   [url |-> "", keep |-> FALSE, window |-> 3]}

(* Files with and without preserve_env_refs, with a number as a reference.  *)
FewWritten ==
  {[text |-> [url |-> "ref"], numref |-> FALSE],
   [text |-> [url |-> "ref", keep |-> TRUE], numref |-> FALSE],
   [text |-> [url |-> "ref", keep |-> TRUE, window |-> 1], numref |-> TRUE]}

(* Two profiles of each of two ids.                                         *)
FewProfiles ==
  {[id |-> "a", rest |-> "1"], [id |-> "a", rest |-> "2"],
   [id |-> "b", rest |-> "3"], [id |-> "b", rest |-> "4"]}

CallerSymmetry == Permutations(Callers)
=============================================================================
