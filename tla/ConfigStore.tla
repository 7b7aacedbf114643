---------------------------- MODULE ConfigStore ----------------------------
(***************************************************************************)
(* The daemon's configuration: LoadConfig and Save of                      *)
(* src/config/config.go, UpdateConfig of src/endpoints/handlers.go and the *)
(* load at boot of src/main.go.                                            *)
(*                                                                         *)
(* Nothing here takes a lock.  Two updates at once mix their fields in the *)
(* shared structure and their bytes in the file.  A configuration is shown *)
(* by three of its fields; one text may refer to an environment variable.  *)
(***************************************************************************)
EXTENDS Naturals

CONSTANTS Callers,   \* concurrent requests
          Bodies,    \* what requests may carry: a field they leave out is zero
          Written,   \* the files a user may write, with any of the fields
          MaxCrash   \* bound: deaths of the daemon

VARIABLES cfg,       \* the shared config.Config
          file,      \* archangel.yml
          pc,        \* where each update is
          draft,     \* what it carries: its request, then what it marshalled
          left,      \* the fields it has still to copy
          up,        \* the daemon runs
          alone,     \* the last update began alone, stayed alone and was saved
          crashes

vars == <<cfg, file, pc, draft, left, up, alone, crashes>>

Fields == {"url", "keep", "window"}

(* DefaultConfig: api_health_url, preserve_env_refs, tool_history_window.  *)
Default == [url |-> "plain", keep |-> TRUE, window |-> 3]

(* A file: its fields, whether a number is written as a reference, and     *)
(* whether the end of an older, longer text is left behind it.             *)
Empty == [text |-> <<>>, numref |-> FALSE, rest |-> FALSE]

Whole(w) == [text |-> w.text, numref |-> w.numref, rest |-> FALSE]

Expanded(text) == [f \in DOMAIN text |-> IF f = "url" /\ text[f] = "ref" THEN "value" ELSE text[f]]

(* Unmarshal lays what a text says over the defaults.                      *)
Over(text) == [f \in Fields |-> IF f \in DOMAIN text THEN text[f] ELSE Default[f]]

(* A file that reads as it stands and says so keeps its references; in any *)
(* other they are expanded.                                                *)
KeepsRefs(f) == ~f.numref /\ "keep" \in DOMAIN f.text /\ f.text.keep

(* Mutant: references are expanded whatever the file says. *)
ExpandAlways(f) == Over(Expanded(f.text))

LoadConfig(f) == Over(IF KeepsRefs(f) THEN f.text ELSE Expanded(f.text))

Init ==
  /\ file \in {Whole(w) : w \in Written} \union {Empty}
  /\ cfg = LoadConfig(file)
  /\ pc = [c \in Callers |-> "idle"]
  /\ draft = [c \in Callers |-> Default]
  /\ left = [c \in Callers |-> {}]
  /\ up = TRUE /\ alone = TRUE /\ crashes = 0

-----------------------------------------------------------------------------
(* UpdateConfig. *)

Quiet == \A c \in Callers : pc[c] = "idle"

(* A body that does not parse changes nothing. *)
Request(c) ==
  /\ up /\ pc[c] = "idle"
  /\ \E body \in Bodies : draft' = [draft EXCEPT ![c] = body]
  /\ left' = [left EXCEPT ![c] = Fields]
  /\ pc' = [pc EXCEPT ![c] = "copy"]
  /\ alone' = Quiet
  /\ UNCHANGED <<cfg, file, up, crashes>>

(* The assignment of the structure, word by word. *)
Copy(c) ==
  /\ pc[c] = "copy"
  /\ \E f \in left[c] :
       /\ cfg' = [cfg EXCEPT ![f] = draft[c][f]]
       /\ left' = [left EXCEPT ![c] = @ \ {f}]
  /\ pc' = [pc EXCEPT ![c] = IF left'[c] = {} THEN "save" ELSE "copy"]
  /\ UNCHANGED <<file, draft, up, alone, crashes>>

(* Save marshals what the shared structure holds now; copies go on in any  *)
(* order, so that a mixture it may read is there at some moment.           *)
Marshal(c) ==
  /\ pc[c] = "save"
  /\ draft' = [draft EXCEPT ![c] = cfg]
  /\ pc' = [pc EXCEPT ![c] = "open"]
  /\ UNCHANGED <<cfg, file, left, up, alone, crashes>>

(* os.WriteFile opens the file, which empties it ... *)
Open(c) ==
  /\ pc[c] = "open"
  /\ file' = Empty
  /\ pc' = [pc EXCEPT ![c] = "write"]
  /\ UNCHANGED <<cfg, draft, left, up, alone, crashes>>

(* ... and writes from its beginning, over what another writer has put     *)
(* there since; of that, the longer end stays.                             *)
Write(c) ==
  /\ pc[c] = "write"
  /\ \E rest \in IF file.text \in {<<>>, draft[c]} THEN {file.rest} ELSE BOOLEAN :
       file' = [text |-> draft[c], numref |-> FALSE, rest |-> rest]
  /\ pc' = [pc EXCEPT ![c] = "idle"]
  /\ draft' = [draft EXCEPT ![c] = Default]
  /\ UNCHANGED <<cfg, left, up, alone, crashes>>

(* Opening or writing fails: the request is refused, memory keeps the      *)
(* change.                                                                 *)
SaveFails(c) ==
  /\ pc[c] \in {"open", "write"}
  /\ pc' = [pc EXCEPT ![c] = "idle"]
  /\ draft' = [draft EXCEPT ![c] = Default]
  /\ alone' = FALSE
  /\ UNCHANGED <<cfg, file, left, up, crashes>>

-----------------------------------------------------------------------------
(* The daemon dies and boots again. *)

(* A text with a rest behind it may not parse: then main returns.          *)
Boot ==
  /\ up' \in IF file.rest THEN BOOLEAN ELSE {TRUE}
  /\ cfg' = IF up' THEN LoadConfig(file) ELSE cfg
  /\ pc' = [c \in Callers |-> "idle"]
  /\ left' = [c \in Callers |-> {}]
  /\ draft' = [c \in Callers |-> Default]
  /\ alone' = ~file.rest

Crash == crashes < MaxCrash /\ crashes' = crashes + 1 /\ Boot /\ UNCHANGED file

(* The user writes the file anew, where the daemon does not come up.       *)
Repair ==
  /\ ~up
  /\ file' \in {Whole(w) : w \in Written}
  /\ up' = TRUE
  /\ cfg' = LoadConfig(file')
  /\ alone' = TRUE
  /\ UNCHANGED <<pc, draft, left, crashes>>

UpdateConfig(c) == Copy(c) \/ Marshal(c) \/ Open(c) \/ Write(c) \/ SaveFails(c)

Next == (\E c \in Callers : Request(c) \/ UpdateConfig(c)) \/ Crash \/ Repair

Spec == Init /\ [][Next]_vars

-----------------------------------------------------------------------------
(* Property. *)

(* After an update that no other overlapped and whose save did not fail,     *)
(* archangel.yml is whole, and a boot makes of it the configuration in       *)
(* memory: nothing mixed into it by earlier updates is left, references are  *)
(* as they are, or expanded where the configuration says so                  *)
(* (config.go:229-275, handlers.go:165-181).                                 *)
FileMatchesMemory ==
  (Quiet /\ alone /\ up) => /\ ~file.rest
                            /\ LoadConfig(file) = IF cfg.keep THEN cfg ELSE Expanded(cfg)
=============================================================================
