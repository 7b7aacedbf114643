----------------------------- MODULE ServerSlot -----------------------------
(***************************************************************************)
(* What llm.Runner promises its callers about the llama-server record it   *)
(* keeps: one slot, filled only when it is empty and only by a process     *)
(* that never sat in it before, and emptied as a whole.  It says nothing   *)
(* about the processes themselves; LlamaRunner does.                       *)
(***************************************************************************)
EXTENDS Naturals

CONSTANTS Procs,   \* the processes that may ever be launched
          Nobody   \* the empty slot: no process

VARIABLES slot,    \* the process in the slot, or Nobody
          used     \* every process that has been in the slot

slotVars == <<slot, used>>

SlotInit == slot = Nobody /\ used = {}

Occupy(p) == /\ slot = Nobody
             /\ p \notin used
             /\ slot' = p
             /\ used' = used \union {p}

Vacate == /\ slot # Nobody
          /\ slot' = Nobody
          /\ UNCHANGED used

SlotNext == Vacate \/ \E p \in Procs : Occupy(p)

SlotSpec == SlotInit /\ [][SlotNext]_slotVars
=============================================================================
