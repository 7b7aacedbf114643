---------------------------- MODULE ProfileStore ----------------------------
(***************************************************************************)
(* The curated model profiles: config.ModelsProfilesConfig                 *)
(* (src/config/config.go), the REST handlers that change and save it       *)
(* (src/endpoints/handlers.go), and the load at boot (src/main.go).        *)
(*                                                                         *)
(* Each operation of the store is a critical section of its own, so the    *)
(* handlers interleave between their check, their change and their save.   *)
(* Save holds the lock while it truncates and writes the file.             *)
(***************************************************************************)
EXTENDS Naturals, Sequences

CONSTANTS Callers,     \* concurrent requests
          NoOne,       \* the lock is free
          Ids, Values, \* profile ids, and what else a profile says
          BootPaths,   \* the files the daemon may be started with
          MaxCrash     \* bound: deaths of the daemon

ASSUME LockAssumption == NoOne \notin Callers
ASSUME PathsAssumption == BootPaths \subseteq {"models.yml", "other"}
ASSUME BoundsAssumption == MaxCrash \in Nat

VARIABLES profiles,    \* ModelsProfilesConfig.Profiles, in order
          mu,          \* who writes the file, under ModelsProfilesConfig.mu
          saved,       \* models.yml, the file every handler saves to
          bootPath,    \* the file the daemon was started with
          atBoot,      \* what is in it, if it is another one
          data,        \* what each saving request marshalled
          pc, req,     \* where each request is, and its profile
          failed,      \* the last save that ended did so with an error
          crashes

vars == <<profiles, mu, saved, bootPath, atBoot, data, pc, req, failed, crashes>>

Profile == [id : Ids, val : Values]

IdsOf(list) == {list[i].id : i \in DOMAIN list}

(* The daemon comes up with one profile on file. *)
Init ==
  /\ bootPath \in BootPaths
  /\ \E p \in Profile :
       /\ profiles = <<p>> /\ saved = <<p>> /\ atBoot = <<p>>
       /\ mu = NoOne
       /\ data = [c \in Callers |-> <<>>]
       /\ pc = [c \in Callers |-> "idle"]
       /\ req = [c \in Callers |-> p]
       /\ failed = FALSE
       /\ crashes = 0

-----------------------------------------------------------------------------
(* CreateProfile puts at once, UpdateProfile checks first. *)

Request(c) ==
  /\ pc[c] = "idle"
  /\ \E p \in Profile, at \in {"create", "check", "delete"} :
       req' = [req EXCEPT ![c] = p] /\ pc' = [pc EXCEPT ![c] = at]
  /\ UNCHANGED <<profiles, mu, saved, bootPath, atBoot, data, failed, crashes>>

(* GetProfileByID: an unknown id ends the request, and so does a body that   *)
(* does not parse, and so a GET of one profile always.                       *)
UpdateCheck(c) ==
  /\ pc[c] = "check" /\ mu = NoOne
  /\ \E to \in {"idle"} \union (IF req[c].id \in IdsOf(profiles) THEN {"update"} ELSE {}) :
       pc' = [pc EXCEPT ![c] = to]
  /\ UNCHANGED <<profiles, mu, saved, bootPath, atBoot, data, req, failed, crashes>>

(* Mutant: the new profile always goes to the end of the list. *)
AppendOnly(list, p) == Append(list, p)

(* AddOrUpdateProfile: the first profile of that id is replaced. *)
Put(list, p) ==
  IF p.id \in IdsOf(list)
    THEN LET i == CHOOSE k \in DOMAIN list :
                    list[k].id = p.id /\ \A j \in 1 .. k - 1 : list[j].id # p.id
         IN  [list EXCEPT ![i] = p]
    ELSE Append(list, p)

AddOrUpdate(c) ==
  /\ pc[c] \in {"create", "update"} /\ mu = NoOne
  /\ profiles' = Put(profiles, req[c])
  /\ pc' = [pc EXCEPT ![c] = "save"]
  /\ UNCHANGED <<mu, saved, bootPath, atBoot, data, req, failed, crashes>>

(* DeleteProfile: the first of that id, by shifting the rest down. *)
Without(list, id) ==
  LET i == CHOOSE k \in DOMAIN list :
             list[k].id = id /\ \A j \in 1 .. k - 1 : list[j].id # id
  IN  SubSeq(list, 1, i - 1) \o SubSeq(list, i + 1, Len(list))

Delete(c) ==
  /\ pc[c] = "delete" /\ mu = NoOne
  /\ IF req[c].id \in IdsOf(profiles)
       THEN profiles' = Without(profiles, req[c].id) /\ pc' = [pc EXCEPT ![c] = "save"]
       ELSE pc' = [pc EXCEPT ![c] = "idle"] /\ UNCHANGED profiles
  /\ UNCHANGED <<mu, saved, bootPath, atBoot, data, req, failed, crashes>>

(* Mutant: Save without the lock. *)
NeverWaits == TRUE

MayLock == mu = NoOne

(* Save takes the lock, marshals, and opens the file: it is empty now. *)
SaveOpen(c) ==
  /\ pc[c] = "save" /\ MayLock
  /\ mu' = c
  /\ data' = [data EXCEPT ![c] = profiles]
  /\ saved' = <<>>
  /\ pc' = [pc EXCEPT ![c] = "write"]
  /\ UNCHANGED <<profiles, bootPath, atBoot, req, failed, crashes>>

(* The file cannot be opened: it stays as it was, memory too. *)
SaveOpenFails(c) ==
  /\ pc[c] = "save" /\ MayLock
  /\ failed' = TRUE
  /\ pc' = [pc EXCEPT ![c] = "idle"]
  /\ UNCHANGED <<profiles, mu, saved, bootPath, atBoot, data, req, crashes>>

SaveWrite(c) ==
  /\ pc[c] = "write"
  /\ saved' = data[c]
  /\ mu' = NoOne
  /\ failed' = FALSE
  /\ data' = [data EXCEPT ![c] = <<>>]
  /\ pc' = [pc EXCEPT ![c] = "idle"]
  /\ UNCHANGED <<profiles, bootPath, atBoot, req, crashes>>

(* The disk is full: the file keeps what could be written, here nothing. *)
SaveWriteFails(c) ==
  /\ pc[c] = "write"
  /\ failed' = TRUE
  /\ mu' = NoOne
  /\ data' = [data EXCEPT ![c] = <<>>]
  /\ pc' = [pc EXCEPT ![c] = "idle"]
  /\ UNCHANGED <<profiles, saved, bootPath, atBoot, req, crashes>>

-----------------------------------------------------------------------------
(* The daemon dies and boots again, from the file it was told to load. *)

Loaded == IF bootPath = "models.yml" THEN saved ELSE atBoot

Reboot ==
  /\ crashes < MaxCrash
  /\ crashes' = crashes + 1
  /\ profiles' = Loaded
  /\ mu' = NoOne
  /\ data' = [c \in Callers |-> <<>>]
  /\ pc' = [c \in Callers |-> "idle"]
  /\ failed' = FALSE
  /\ UNCHANGED <<saved, bootPath, atBoot, req>>

Save(c) == SaveOpen(c) \/ SaveOpenFails(c) \/ SaveWrite(c) \/ SaveWriteFails(c)

Next ==
  \/ \E c \in Callers : Request(c) \/ UpdateCheck(c) \/ AddOrUpdate(c) \/ Delete(c) \/ Save(c)
  \/ Reboot

Spec == Init /\ [][Next]_vars

-----------------------------------------------------------------------------
(* Properties. *)

(* An id names one profile, whatever creates, updates and deletes interleave *)
(* (config.go:331-356).                                                      *)
UniqueIds == \A i, j \in DOMAIN profiles : profiles[i].id = profiles[j].id => i = j

Settled == mu = NoOne /\ ~failed /\ \A c \in Callers : pc[c] \notin {"save", "write"}

(* When no request is still to save and the last save did not fail, a boot   *)
(* would load exactly what the daemon has in memory, if it loads the file    *)
(* the handlers save to: no save writes an older list over a newer one       *)
(* (config.go:300-315, handlers.go:202-271).                                 *)
BootWouldLoadMemory == (Settled /\ bootPath = "models.yml") => Loaded = profiles
=============================================================================
