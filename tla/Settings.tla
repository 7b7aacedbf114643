----------------------------- MODULE Settings -----------------------------
(***************************************************************************)
(* What the daemon keeps of its settings: the store of model profiles with *)
(* its file, the unlocked listing of the profiles, and the configuration   *)
(* with its file.  They share nothing but the process, so a behaviour      *)
(* follows one of them, the subject, and the others rest in one of their   *)
(* initial states.                                                         *)
(***************************************************************************)
EXTENDS ProfileStore

CONSTANTS ListProfiles, Blank,  \* of ProfileListing
          Bodies, Written       \* of ConfigStore

VARIABLES subject,
          arr, len, op, at, put, words,
          listPc, old, n, rows, part, held, stays, gap, grown,
          cfg, file, cfgPc, draft, left, up, alone, cfgCrashes

listVars == <<arr, len, op, at, put, words,
              listPc, old, n, rows, part, held, stays, gap, grown>>
cfgVars == <<cfg, file, cfgPc, draft, left, up, alone, cfgCrashes>>

Listing == INSTANCE ProfileListing WITH Profiles <- ListProfiles, pc <- listPc

ASSUME ListAssumption == \A p \in ListProfiles : p = [w \in Listing!Words |-> p[w]]

Config == INSTANCE ConfigStore WITH pc <- cfgPc, crashes <- cfgCrashes

Rests(component, state) == subject = component \/ state

SettingsInit ==
  /\ subject \in {"profiles", "listing", "config"}
  /\ Init /\ Listing!Init /\ Config!Init
  /\ Rests("profiles", bootPath = "models.yml"
                       /\ profiles[1] = CHOOSE p \in Profile : TRUE)
  /\ Rests("listing", arr[1] = CHOOSE p \in ListProfiles : TRUE)
  /\ Rests("config", file = Config!Empty)

ProfilesNext == subject = "profiles" /\ Next /\ UNCHANGED <<subject, listVars, cfgVars>>

ListingNext == subject = "listing" /\ Listing!Next /\ UNCHANGED <<subject, vars, cfgVars>>

ConfigNext == subject = "config" /\ Config!Next /\ UNCHANGED <<subject, vars, listVars>>

SettingsSpec ==
  SettingsInit /\ [][ProfilesNext \/ ListingNext \/ ConfigNext]_<<subject, vars, listVars, cfgVars>>

-----------------------------------------------------------------------------
(* Properties, as the modules state and explain them; UniqueIds and          *)
(* BootWouldLoadMemory are those of ProfileStore.                            *)

(* The slice implements a list that changes at once (config.go:330-356). *)
Implements == Listing!Implements

(* A listing shows what was there (handlers.go:188). *)
NothingInvented == Listing!NothingInvented

(* A listing shows all that stayed there (handlers.go:188). *)
NoneMissing == Listing!NoneMissing

(* A boot would load the configuration in memory (config.go:229-275). *)
FileMatchesMemory == Config!FileMatchesMemory
=============================================================================
