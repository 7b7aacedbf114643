---------------------------- MODULE ProfileList ----------------------------
(***************************************************************************)
(* What AddOrUpdateProfile and DeleteProfile of src/config/config.go       *)
(* promise of the list of profiles: a known id gets its profile replaced   *)
(* where it is, an unknown one goes to the end, a deleted one leaves       *)
(* without disturbing the order of the others, and each is a single step.  *)
(***************************************************************************)
EXTENDS Naturals, Sequences, SequencesExt

CONSTANTS Profiles      \* records with an id

VARIABLE list

Init == \E p \in Profiles : list = <<p>>

AddOrUpdateProfile(p) ==
  \/ \E i \in DOMAIN list : list[i].id = p.id /\ list' = [list EXCEPT ![i] = p]
  \/ (\A i \in DOMAIN list : list[i].id # p.id) /\ list' = Append(list, p)

DeleteProfile(id) == \E i \in DOMAIN list : list[i].id = id /\ list' = RemoveAt(list, i)

Next == \E p \in Profiles : AddOrUpdateProfile(p) \/ DeleteProfile(p.id)

Spec == Init /\ [][Next]_list
=============================================================================
