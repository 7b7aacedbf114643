--------------------------- MODULE ProfileListing ---------------------------
(***************************************************************************)
(* ListProfiles (src/endpoints/handlers.go) marshals                       *)
(* ModelsProfilesConfig.Profiles without the lock, while requests that     *)
(* hold it change the list (src/config/config.go).  A Go slice is a        *)
(* pointer to an array, a length and a capacity, and every word of it and  *)
(* of a ModelProfile is read and written on its own:                       *)
(*   - an update overwrites the profile in its cell, word by word;         *)
(*   - DeleteProfile shifts the rest of the array down in place, then      *)
(*     stores the length;                                                  *)
(*   - append moves a full list to a larger array, stores the pointer of   *)
(*     that, then the length, and only then the new profile;               *)
(*   - the listing reads pointer and length in either order, then the      *)
(*     profiles one after another.                                         *)
(* Changes exclude each other by the mutex, so they are steps of one       *)
(* writer.  A profile is two words, its id and the rest of it; the stores  *)
(* of a step reach the reader in the order in which they are made.         *)
(***************************************************************************)
EXTENDS Naturals, Sequences, SequencesExt

CONSTANTS Profiles, Blank   \* records of two words; the word of a cell never written

Words == {"id", "rest"}

VARIABLES arr, len,     \* the array of the slice, as long as its capacity; the length
          op, at, put,  \* the change under way, the cell it is at, the profile it stores
          words,        \* the words of that cell still to be stored
          pc,           \* where the listing is
          old,          \* the array it has the pointer of, if the list has left that
          n, rows,      \* the length it read, and what it has listed
          part,         \* the first word of the next row
          held,         \* the profiles held at some time since the listing began
          stays,        \* those in front of every update and deletion since
          gap,          \* the row whose profile was not stored when its length was read
          grown         \* the list moved to another array before the length was read

change == <<op, at, put, words>>
store == <<arr, len, change>>
listing == <<pc, old, n, rows, part>>
history == <<held, stays, gap, grown>>
vars == <<store, listing, history>>

Listing == pc # "idle"

(* The list of profiles: a change counts from its first step on. *)
profiles ==
  [i \in 1 .. CASE op = "append" -> at [] op = "delete" -> len - 1 [] OTHER -> len
     |-> CASE op \in {"append", "update"} /\ i = at -> put
           [] op = "delete" /\ i >= at -> arr[i + 1]
           [] OTHER -> arr[i]]

Abstract == INSTANCE ProfileList WITH list <- profiles

AtRest == op' = "rest" /\ at' = 0 /\ put' = <<>> /\ words' = {}

Init ==
  /\ \E p \in Profiles : arr = <<p>> /\ len = 1
  /\ op = "rest" /\ at = 0 /\ put = <<>> /\ words = {}
  /\ pc = "idle" /\ old = <<>> /\ n = 0 /\ rows = <<>> /\ part = Blank
  /\ held = {} /\ stays = <<>> /\ gap = 0 /\ grown = FALSE

-----------------------------------------------------------------------------
(* The writer. *)

Begin(kind, cell, p) == op' = kind /\ at' = cell /\ put' = p /\ words' = Words

(* What a change means to a listing under way. *)
Comes(p) == held' = IF Listing THEN held \union {p} ELSE held
ChangesAt(cell) == stays' = IF cell <= Len(stays) THEN SubSeq(stays, 1, cell - 1) ELSE stays

(* AddOrUpdateProfile of an id that is there. *)
Update(p) ==
  /\ op = "rest"
  /\ \E i \in 1 .. len : /\ arr[i].id = p.id /\ \A j \in 1 .. i - 1 : arr[j].id # p.id
                         /\ Begin("update", i, p) /\ ChangesAt(i)
  /\ Comes(p)
  /\ UNCHANGED <<arr, len, listing, gap, grown>>

(* What append makes of a full array: room for twice as many. *)
Moved(list) == [i \in 1 .. 2 * Len(list) |->
                  IF i <= Len(list) THEN list[i] ELSE [w \in Words |-> Blank]]

(* Mutant: the new profile goes where the last one is. *)
LastCell == len

NewCell == len + 1

(* AddOrUpdateProfile of a new id: append finds room in the array or moves   *)
(* the list, ...                                                             *)
AppendStart(p) ==
  /\ op = "rest" /\ \A i \in 1 .. len : arr[i].id # p.id
  /\ Begin("append", NewCell, p)
  /\ IF len < Len(arr)
       THEN UNCHANGED <<arr, old, grown>>
       ELSE /\ arr' = Moved(arr)
            /\ old' = IF pc \in {"pointer", "reading", "within"} /\ old = <<>> THEN arr ELSE old
            /\ grown' = (grown \/ pc = "pointer")
  /\ Comes(p)
  /\ UNCHANGED <<len, pc, n, rows, part, stays, gap>>

(* ... stores the length, and then the profile.                              *)
Extend ==
  /\ op = "append" /\ len < at
  /\ len' = at
  /\ UNCHANGED <<arr, change, listing, history>>

StoreWord(w) ==
  /\ op = "update" \/ (op = "append" /\ len = at)
  /\ w \in words
  /\ arr' = [arr EXCEPT ![at][w] = put[w]]
  /\ IF words = {w} THEN AtRest ELSE words' = words \ {w} /\ UNCHANGED <<op, at, put>>
  /\ UNCHANGED <<len, listing, history>>

(* DeleteProfile: the cells behind the deleted one move down, ...            *)
DeleteStart(id) ==
  /\ op = "rest"
  /\ \E i \in 1 .. len : /\ arr[i].id = id /\ \A j \in 1 .. i - 1 : arr[j].id # id
                         /\ Begin("delete", i, <<>>) /\ ChangesAt(i)
  /\ UNCHANGED <<arr, len, listing, held, gap, grown>>

(* Mutant: the deleted profile itself is the first of the rest. *)
ShiftNone(w) == UNCHANGED arr

ShiftOne(w) == arr' = [arr EXCEPT ![at][w] = arr[at + 1][w]]

ShiftWord(w) ==
  /\ op = "delete" /\ at < len
  /\ w \in words
  /\ ShiftOne(w)
  /\ IF words = {w} THEN at' = at + 1 /\ words' = Words
                    ELSE words' = words \ {w} /\ UNCHANGED at
  /\ UNCHANGED <<len, op, put, listing, history>>

(* ... and the last one stays in the array, behind the list.                 *)
DeleteEnd ==
  /\ op = "delete" /\ at = len
  /\ len' = len - 1 /\ AtRest
  /\ UNCHANGED <<arr, listing, history>>

-----------------------------------------------------------------------------
(* ListProfiles. *)

(* A listing begins with a profile still held if it is being replaced or     *)
(* deleted, and with those in front of the change certain to stay.           *)
Started ==
  /\ held' = ToSet(profiles) \union IF op \in {"update", "delete"} THEN {arr[at]} ELSE {}
  /\ stays' = SubSeq(arr, 1, IF op = "rest" THEN len ELSE at - 1)

ReadPointer ==
  /\ \/ pc = "idle" /\ pc' = "pointer" /\ Started
     \/ pc = "length" /\ pc' = "reading" /\ UNCHANGED <<held, stays>>
  /\ UNCHANGED <<store, old, n, rows, part, gap, grown>>

ReadLength ==
  /\ \/ pc = "idle" /\ pc' = "length" /\ Started
     \/ pc = "pointer" /\ pc' = "reading" /\ UNCHANGED <<held, stays>>
  /\ n' = len
  /\ gap' = IF op = "append" /\ len = at THEN len ELSE 0
  /\ UNCHANGED <<store, old, rows, part, grown>>

Array == IF old = <<>> THEN arr ELSE old

(* Mutant: all that the array has room for. *)
MoreThanLength == Len(rows) < Len(Array)

More == Len(rows) < n

ReadId ==
  /\ pc = "reading" /\ More
  /\ Len(rows) < Len(Array)
  /\ part' = Array[Len(rows) + 1].id
  /\ pc' = "within"
  /\ UNCHANGED <<store, old, n, rows, history>>

ReadRest ==
  /\ pc = "within"
  /\ rows' = Append(rows, [Array[Len(rows) + 1] EXCEPT !.id = part])
  /\ pc' = "reading" /\ part' = Blank
  /\ UNCHANGED <<store, old, n, history>>

(* What lies behind an array may be anything. *)
ReadBeyond ==
  /\ pc = "reading" /\ More
  /\ Len(rows) >= Len(Array)
  /\ pc' = "beyond"
  /\ UNCHANGED <<store, old, n, rows, part, history>>

Answer ==
  /\ pc \in {"reading", "beyond"} /\ (pc = "reading" => ~More)
  /\ pc' = "idle" /\ old' = <<>> /\ n' = 0 /\ rows' = <<>> /\ part' = Blank
  /\ held' = {} /\ stays' = <<>> /\ gap' = 0 /\ grown' = FALSE
  /\ UNCHANGED store

Write == \/ \E p \in Profiles : Update(p) \/ AppendStart(p) \/ DeleteStart(p.id)
         \/ \E w \in Words : StoreWord(w) \/ ShiftWord(w)
         \/ Extend \/ DeleteEnd

List == ReadPointer \/ ReadLength \/ ReadId \/ ReadRest \/ ReadBeyond \/ Answer

Next == Write \/ List

Spec == Init /\ [][Next]_vars

-----------------------------------------------------------------------------
(* Properties. *)

(* The cells overwritten and shifted word by word, the length stored before  *)
(* the profile and the array that grows are the single changes of a list     *)
(* that the two functions promise (config.go:330-356).                       *)
Implements == Abstract!Spec

(* Every word of an answer is one of a profile that the store held at some   *)
(* moment of the listing: what it meets behind a list that shrank, in an     *)
(* array that the list has left, or in a cell half overwritten, is old but   *)
(* was never anything else.  One row may be anything, the last, and only if  *)
(* the length was read between the two stores of an append; and the listing  *)
(* stays inside the array, unless the list moved between its reads of the    *)
(* pointer and the length (handlers.go:188, config.go:341).                  *)
NothingInvented ==
  /\ \A i \in DOMAIN rows : i # gap =>
       \A w \in Words : \E p \in held : rows[i][w] = p[w]
  /\ gap # 0 => gap = n
  /\ pc = "beyond" => grown

(* An answer begins with the list as it was when the listing began, each     *)
(* profile whole and in its place, up to the first one that an update or a   *)
(* deletion has reached; no addition takes any of that away                  *)
(* (handlers.go:186-189, config.go:337, 341, 351).                           *)
NoneMissing ==
  \A i \in DOMAIN stays :
    /\ i \in DOMAIN rows => rows[i] = stays[i]
    /\ pc = "reading" /\ ~More => i \in DOMAIN rows
=============================================================================
