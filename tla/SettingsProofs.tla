--------------------------- MODULE SettingsProofs ---------------------------
(***************************************************************************)
(* Proofs about what the daemon keeps of its settings: the store of model  *)
(* profiles, the unlocked listing of them and the configuration, for any   *)
(* number of requests and deaths of the daemon, any profiles, bodies and   *)
(* files, and arrays of any length; each for its own component and, at the *)
(* end, for the three together.                                            *)
(***************************************************************************)
EXTENDS Settings, SequenceTheorems, TLAPS

-----------------------------------------------------------------------------
(* The store of profiles. *)

Lists == {list \in Seq(Profile) : \A i, j \in DOMAIN list : list[i].id = list[j].id => i = j}

(* Every list there is, in memory, on file and on the way, names an id once. *)
ListInv ==
  /\ profiles \in Lists /\ saved \in Lists /\ atBoot \in Lists
  /\ data \in [Callers -> Lists]
  /\ req \in [Callers -> Profile]
  /\ pc \in [Callers -> {"idle", "check", "update", "create", "delete", "save", "write"}]

(* The lock is held, across steps, by the one request that writes the file,  *)
(* and what it writes is what memory holds meanwhile.                        *)
LockInv ==
  /\ mu \in Callers \union {NoOne}
  /\ \A c \in Callers : pc[c] = "write" <=> mu = c
  /\ \A c \in Callers : mu = c => data[c] = profiles

(* With nothing left to save the file holds what memory does.                *)
SavedInv ==
  (mu = NoOne /\ ~failed /\ bootPath = "models.yml" /\ \A c \in Callers : pc[c] # "save")
    => saved = profiles

IInv == ListInv /\ LockInv /\ SavedInv

(* An id that is there keeps its place.                                      *)
LEMMA PutKeepsIds ==
  ASSUME NEW list \in Lists, NEW p \in Profile
  PROVE  Put(list, p) \in Lists
<1>1. /\ list \in Seq(Profile) /\ DOMAIN list = 1 .. Len(list) /\ Len(list) \in Nat
      /\ \A i, j \in DOMAIN list : list[i].id = list[j].id => i = j
  BY DEF Lists
<1>2. CASE p.id \in IdsOf(list)
  <2> DEFINE First(k) == list[k].id = p.id /\ \A j \in 1 .. k - 1 : list[j].id # p.id
             i == CHOOSE k \in DOMAIN list : First(k)
             longer == [list EXCEPT ![i] = p]
  <2>1. PICK k \in DOMAIN list : list[k].id = p.id
    BY <1>2 DEF IdsOf
  <2>2. First(k)
    BY <2>1, <1>1
  <2>3. i \in DOMAIN list /\ list[i].id = p.id
    BY <2>1, <2>2
  <2>4. Put(list, p) = longer
    BY <1>2 DEF Put
  <2> HIDE DEF i
  <2>5. longer \in Seq(Profile) /\ DOMAIN longer = DOMAIN list
    BY <1>1, <2>3
  <2>6. \A j \in DOMAIN list : longer[j].id = list[j].id
    BY <1>1, <2>3
  <2> QED
    BY <1>1, <2>4, <2>5, <2>6 DEF Lists
<1>3. CASE p.id \notin IdsOf(list)
  <2> DEFINE longer == Append(list, p)
  <2>1. Put(list, p) = longer
    BY <1>3 DEF Put
  <2>2. /\ longer \in Seq(Profile) /\ DOMAIN longer = 1 .. Len(list) + 1
        /\ longer[Len(list) + 1] = p
        /\ \A j \in 1 .. Len(list) : longer[j] = list[j]
    BY <1>1
  <2>3. \A j \in 1 .. Len(list) : list[j].id # p.id
    BY <1>1, <1>3 DEF IdsOf
  <2> HIDE DEF longer
  <2>4. ASSUME NEW i \in DOMAIN longer, NEW j \in DOMAIN longer, longer[i].id = longer[j].id
        PROVE  i = j
    <3>1. CASE i \in 1 .. Len(list) /\ j \in 1 .. Len(list)
      BY <3>1, <2>2, <2>4, <1>1
    <3>2. CASE i = Len(list) + 1 \/ j = Len(list) + 1
      BY <3>2, <2>2, <2>3, <2>4, <1>1
    <3> QED
      BY <3>1, <3>2, <2>2, <1>1
  <2> QED
    BY <2>1, <2>2, <2>4 DEF Lists
<1> QED
  BY <1>2, <1>3

LEMMA WithoutKeepsIds ==
  ASSUME NEW list \in Lists, NEW id \in IdsOf(list)
  PROVE  Without(list, id) \in Lists
<1>1. /\ list \in Seq(Profile) /\ DOMAIN list = 1 .. Len(list) /\ Len(list) \in Nat
      /\ \A i, j \in DOMAIN list : list[i].id = list[j].id => i = j
  BY DEF Lists
<1> DEFINE First(k) == list[k].id = id /\ \A j \in 1 .. k - 1 : list[j].id # id
           i == CHOOSE k \in DOMAIN list : First(k)
           shorter == SubSeq(list, 1, i - 1) \o SubSeq(list, i + 1, Len(list))
           Old(j) == IF j < i THEN j ELSE j + 1
<1>2. PICK k \in DOMAIN list : list[k].id = id
  BY DEF IdsOf
<1>3. First(k)
  BY <1>2, <1>1
<1>4. i \in 1 .. Len(list)
  BY <1>1, <1>2, <1>3
<1>5. Without(list, id) = shorter
  BY DEF Without
<1> HIDE DEF i
<1>6. /\ shorter \in Seq(Profile) /\ Len(shorter) = Len(list) - 1
      /\ \A j \in 1 .. Len(list) - 1 : shorter[j] = list[Old(j)]
  <2> DEFINE front == SubSeq(list, 1, i - 1)
             back == SubSeq(list, i + 1, Len(list))
  <2>1. /\ front \in Seq(Profile) /\ Len(front) = i - 1
        /\ \A j \in 1 .. i - 1 : front[j] = list[j]
    BY <1>1, <1>4
  <2>2. back \in Seq(Profile) /\ Len(back) = Len(list) - i
    <3>1. i + 1 \in Int /\ Len(list) \in Int /\ \A j \in i + 1 .. Len(list) : list[j] \in Profile
      BY <1>1, <1>4
    <3>2. /\ back \in Seq(Profile)
          /\ Len(back) = IF i + 1 <= Len(list) THEN Len(list) - (i + 1) + 1 ELSE 0
      BY <3>1, SubSeqProperties
    <3>3. i \in Int /\ Len(list) \in Int /\ i <= Len(list)
      BY <1>1, <1>4
    <3> HIDE DEF back
    <3> QED
      BY <3>2, <3>3
  <2>3. \A j \in 1 .. Len(list) - i : back[j] = list[i + j]
    <3>1. i + 1 \in Int /\ Len(list) \in Int /\ \A j \in i + 1 .. Len(list) : list[j] \in Profile
      BY <1>1, <1>4
    <3>2. \A j \in 1 .. Len(list) - (i + 1) + 1 : back[j] = list[i + 1 + j - 1]
      BY <3>1, SubSeqProperties
    <3>3. /\ Len(list) - (i + 1) + 1 = Len(list) - i
          /\ \A j \in 1 .. Len(list) - i : i + 1 + j - 1 = i + j
      BY <1>1, <1>4
    <3> QED
      BY <3>2, <3>3
  <2> HIDE DEF front, back
  <2>4. /\ front \o back \in Seq(Profile)
        /\ Len(front \o back) = Len(front) + Len(back)
        /\ \A j \in 1 .. Len(front) + Len(back) :
             (front \o back)[j] = IF j <= Len(front) THEN front[j] ELSE back[j - Len(front)]
    BY <2>1, <2>2, ConcatProperties
  <2>5. shorter = front \o back
    BY DEF front, back
  <2> HIDE DEF shorter
  <2>6. Len(shorter) = Len(list) - 1
    <3>1. Len(shorter) = (i - 1) + (Len(list) - i)
      BY <2>1, <2>2, <2>4, <2>5
    <3>2. i \in Int /\ Len(list) \in Int
      BY <1>1, <1>4
    <3> HIDE DEF Old
    <3> QED
      BY <3>1, <3>2
  <2>7. ASSUME NEW j \in 1 .. Len(list) - 1 PROVE shorter[j] = list[Old(j)]
    <3>1. CASE j < i
      BY <3>1, <2>1, <2>2, <2>4, <2>5, <1>1, <1>4
    <3>2. CASE ~(j < i)
      <4>1. /\ j - (i - 1) \in 1 .. Len(list) - i /\ i + (j - (i - 1)) = j + 1
            /\ j \in 1 .. Len(front) + Len(back) /\ ~(j <= Len(front))
        BY <3>2, <2>1, <2>2, <1>1, <1>4
      <4>2. shorter[j] = back[j - (i - 1)]
        BY <4>1, <2>1, <2>4, <2>5
      <4>3. back[j - (i - 1)] = list[j + 1]
        BY <4>1, <2>3
      <4> QED
        BY <3>2, <4>2, <4>3
    <3> QED
      BY <3>1, <3>2
  <2> QED
    BY <2>4, <2>5, <2>6, <2>7
<1>7. \A j \in 1 .. Len(list) - 1 : Old(j) \in 1 .. Len(list)
  BY <1>1, <1>4
<1> HIDE DEF shorter
<1>8. ASSUME NEW a \in DOMAIN shorter, NEW b \in DOMAIN shorter, shorter[a].id = shorter[b].id
      PROVE  a = b
  <2>1. a \in 1 .. Len(list) - 1 /\ b \in 1 .. Len(list) - 1
    BY <1>6
  <2>2. Old(a) = Old(b)
    BY <2>1, <1>1, <1>6, <1>7, <1>8
  <2> QED
    BY <2>1, <2>2, <1>4, <1>1
<1> QED
  BY <1>5, <1>6, <1>8 DEF Lists

-----------------------------------------------------------------------------
(* Every step keeps the invariant. *)

LEMMA PutKeeps ==
  ASSUME IInv, NEW c \in Callers, AddOrUpdate(c)
  PROVE  IInv'
<1>1. /\ mu = NoOne /\ mu' = NoOne /\ profiles' = Put(profiles, req[c])
      /\ pc' = [pc EXCEPT ![c] = "save"]
      /\ UNCHANGED <<saved, bootPath, atBoot, data, req, failed>>
  BY DEF AddOrUpdate
<1>2. profiles' \in Lists
  BY <1>1, PutKeepsIds DEF IInv, ListInv
<1>3. ListInv'
  BY <1>1, <1>2 DEF IInv, ListInv
<1>4. LockInv'
  BY <1>1, LockAssumption DEF IInv, ListInv, LockInv
<1>5. pc'[c] = "save"
  BY <1>1 DEF IInv, ListInv
<1> QED
  BY <1>3, <1>4, <1>5 DEF IInv, SavedInv

LEMMA DeleteKeeps ==
  ASSUME IInv, NEW c \in Callers, Delete(c)
  PROVE  IInv'
<1>1. /\ mu = NoOne /\ mu' = NoOne /\ pc[c] = "delete"
      /\ UNCHANGED <<saved, bootPath, atBoot, data, req, failed>>
  BY DEF Delete
<1>2. CASE req[c].id \in IdsOf(profiles)
  <2>1. profiles' = Without(profiles, req[c].id) /\ pc' = [pc EXCEPT ![c] = "save"]
    BY <1>2 DEF Delete
  <2>2. profiles' \in Lists
    BY <1>2, <2>1, WithoutKeepsIds DEF IInv, ListInv
  <2>3. ListInv'
    BY <1>1, <2>1, <2>2 DEF IInv, ListInv
  <2>4. LockInv'
    BY <1>1, <2>1, LockAssumption DEF IInv, ListInv, LockInv
  <2>5. pc'[c] = "save"
    BY <2>1 DEF IInv, ListInv
  <2> QED
    BY <2>3, <2>4, <2>5 DEF IInv, SavedInv
<1>3. CASE req[c].id \notin IdsOf(profiles)
  <2>1. profiles' = profiles /\ pc' = [pc EXCEPT ![c] = "idle"]
    BY <1>3 DEF Delete
  <2> QED
    BY <1>1, <2>1, LockAssumption DEF IInv, ListInv, LockInv, SavedInv
<1> QED
  BY <1>2, <1>3

LEMMA SaveKeeps ==
  ASSUME IInv, NEW c \in Callers, Save(c)
  PROVE  IInv'
<1>1. CASE SaveOpen(c)
  <2>1. /\ mu = NoOne /\ mu' = c /\ saved' = <<>> /\ data' = [data EXCEPT ![c] = profiles]
        /\ pc' = [pc EXCEPT ![c] = "write"]
        /\ UNCHANGED <<profiles, bootPath, atBoot, req, failed>>
    BY <1>1 DEF SaveOpen, MayLock
  <2>2. <<>> \in Lists
    BY DEF Lists
  <2>3. ListInv'
    BY <2>1, <2>2 DEF IInv, ListInv
  <2>4. LockInv' /\ mu' # NoOne
    BY <2>1, LockAssumption DEF IInv, ListInv, LockInv
  <2> QED
    BY <2>3, <2>4 DEF IInv, SavedInv
<1>2. CASE SaveOpenFails(c)
  <2>1. /\ mu = NoOne /\ mu' = NoOne /\ failed' = TRUE /\ pc' = [pc EXCEPT ![c] = "idle"]
        /\ UNCHANGED <<profiles, saved, bootPath, atBoot, data, req>>
    BY <1>2 DEF SaveOpenFails, MayLock
  <2> QED
    BY <2>1, LockAssumption DEF IInv, ListInv, LockInv, SavedInv
<1>3. CASE SaveWrite(c)
  <2>1. /\ pc[c] = "write" /\ mu' = NoOne /\ saved' = data[c] /\ failed' = FALSE
        /\ data' = [data EXCEPT ![c] = <<>>] /\ pc' = [pc EXCEPT ![c] = "idle"]
        /\ UNCHANGED <<profiles, bootPath, atBoot, req>>
    BY <1>3 DEF SaveWrite
  <2>2. mu = c /\ saved' = profiles
    BY <2>1 DEF IInv, LockInv
  <2>3. <<>> \in Lists
    BY DEF Lists
  <2>4. ListInv'
    BY <2>1, <2>2, <2>3 DEF IInv, ListInv
  <2>5. LockInv'
    BY <2>1, <2>2, LockAssumption DEF IInv, ListInv, LockInv
  <2> QED
    BY <2>1, <2>2, <2>4, <2>5 DEF IInv, SavedInv
<1>4. CASE SaveWriteFails(c)
  <2>1. /\ pc[c] = "write" /\ mu' = NoOne /\ failed' = TRUE
        /\ data' = [data EXCEPT ![c] = <<>>] /\ pc' = [pc EXCEPT ![c] = "idle"]
        /\ UNCHANGED <<profiles, saved, bootPath, atBoot, req>>
    BY <1>4 DEF SaveWriteFails
  <2>2. mu = c
    BY <2>1 DEF IInv, LockInv
  <2>3. <<>> \in Lists
    BY DEF Lists
  <2>4. ListInv'
    BY <2>1, <2>3 DEF IInv, ListInv
  <2>5. LockInv'
    BY <2>1, <2>2, LockAssumption DEF IInv, ListInv, LockInv
  <2> QED
    BY <2>1, <2>4, <2>5 DEF IInv, SavedInv
<1> QED
  BY <1>1, <1>2, <1>3, <1>4 DEF Save

LEMMA RebootKeeps ==
  ASSUME IInv, Reboot
  PROVE  IInv'
<1>1. /\ profiles' = Loaded /\ mu' = NoOne /\ failed' = FALSE
      /\ data' = [c \in Callers |-> <<>>] /\ pc' = [c \in Callers |-> "idle"]
      /\ UNCHANGED <<saved, bootPath, atBoot, req>>
  BY DEF Reboot
<1>2. <<>> \in Lists
  BY DEF Lists
<1>3. ListInv'
  BY <1>1, <1>2 DEF IInv, ListInv, Loaded
<1>4. LockInv'
  BY <1>1, LockAssumption DEF LockInv
<1> QED
  BY <1>1, <1>3, <1>4 DEF IInv, SavedInv, Loaded

LEMMA RequestKeeps ==
  ASSUME IInv, NEW c \in Callers, Request(c) \/ UpdateCheck(c)
  PROVE  IInv'
<1>1. CASE Request(c)
  <2>1. PICK p \in Profile, place \in {"create", "check", "delete"} :
          /\ req' = [req EXCEPT ![c] = p] /\ pc' = [pc EXCEPT ![c] = place]
    BY <1>1 DEF Request
  <2>2. pc[c] = "idle" /\ UNCHANGED <<profiles, mu, saved, bootPath, atBoot, data, failed>>
    BY <1>1 DEF Request
  <2> QED
    BY <2>1, <2>2 DEF IInv, ListInv, LockInv, SavedInv
<1>2. CASE UpdateCheck(c)
  <2>1. PICK to \in {"idle", "update"} : pc' = [pc EXCEPT ![c] = to]
    BY <1>2 DEF UpdateCheck
  <2>2. pc[c] = "check" /\ UNCHANGED <<profiles, mu, saved, bootPath, atBoot, data, req, failed>>
    BY <1>2 DEF UpdateCheck
  <2> QED
    BY <2>1, <2>2 DEF IInv, ListInv, LockInv, SavedInv
<1> QED
  BY <1>1, <1>2

LEMMA InvHolds == Spec => []IInv
<1>1. ASSUME Init PROVE IInv
  <2>1. PICK p \in Profile :
          /\ profiles = <<p>> /\ saved = <<p>> /\ atBoot = <<p>>
          /\ mu = NoOne /\ data = [c \in Callers |-> <<>>] /\ pc = [c \in Callers |-> "idle"]
          /\ req = [c \in Callers |-> p]
    BY <1>1 DEF Init
  <2>2. <<p>> \in Lists /\ <<>> \in Lists
    BY DEF Lists
  <2> QED
    BY <2>1, <2>2, LockAssumption DEF IInv, ListInv, LockInv, SavedInv
<1>2. ASSUME IInv, [Next]_vars PROVE IInv'
  <2>1. CASE UNCHANGED vars
    BY <1>2, <2>1 DEF vars, IInv, ListInv, LockInv, SavedInv
  <2>2. CASE Reboot
    BY <1>2, <2>2, RebootKeeps
  <2>3. ASSUME NEW c \in Callers, Request(c) \/ UpdateCheck(c) PROVE IInv'
    BY <1>2, <2>3, RequestKeeps
  <2>4. ASSUME NEW c \in Callers, AddOrUpdate(c) PROVE IInv'
    BY <1>2, <2>4, PutKeeps
  <2>5. ASSUME NEW c \in Callers, Delete(c) PROVE IInv'
    BY <1>2, <2>5, DeleteKeeps
  <2>6. ASSUME NEW c \in Callers, Save(c) PROVE IInv'
    BY <1>2, <2>6, SaveKeeps
  <2> QED
    BY <1>2, <2>1, <2>2, <2>3, <2>4, <2>5, <2>6 DEF Next
<1> QED
  BY <1>1, <1>2, PTL DEF Spec

(* However requests interleave, fail and are cut short, an id names one      *)
(* profile (config.go:331-356).                                              *)
THEOREM IdsAreUnique == Spec => []UniqueIds
<1>1. IInv => UniqueIds
  BY DEF IInv, ListInv, Lists, UniqueIds
<1> QED
  BY <1>1, InvHolds, PTL

(* With no save under way or failed, models.yml holds what memory does       *)
(* (config.go:300-315, handlers.go:202-271).                                 *)
THEOREM SavedIsLoaded == Spec => []BootWouldLoadMemory
<1>1. IInv => BootWouldLoadMemory
  BY DEF IInv, SavedInv, BootWouldLoadMemory, Settled, Loaded
<1> QED
  BY <1>1, InvHolds, PTL

-----------------------------------------------------------------------------
(* The slice of profiles: what the writer keeps. *)

Data == {p[w] : p \in ListProfiles, w \in Listing!Words} \union {Blank}

Cells == [Listing!Words -> Data]

LEMMA ProfilesAreCells == ListProfiles \subseteq Cells
<1> SUFFICES ASSUME NEW p \in ListProfiles PROVE p \in Cells
  OBVIOUS
<1>1. p = [w \in Listing!Words |-> p[w]]
  BY ListAssumption
<1>2. \A w \in Listing!Words : p[w] \in Data
  BY DEF Data
<1> QED
  BY <1>1, <1>2 DEF Cells

(* The words of cell c that are no longer to be stored are those of d. *)
Agrees(c, d, left_) == \A w \in Listing!Words \ left_ : c[w] = d[w]

(* A length within the array, and a change at a cell that is partly stored:  *)
(* an update within the list, an append behind it or, once the length is     *)
(* stored, in its last cell, a deletion whose cells move down.               *)
UpdateInv == /\ at \in 1 .. len /\ put \in ListProfiles
             /\ Agrees(arr[at], put, words)

AppendInv == /\ at \in 1 .. Len(arr) /\ put \in ListProfiles
             /\ \/ len = at - 1 /\ words = Listing!Words
                \/ len = at /\ Agrees(arr[at], put, words)

DeleteInv == /\ at \in 1 .. len
             /\ at < len => Agrees(arr[at], arr[at + 1], words)

SliceInv ==
  /\ arr \in Seq(Cells) /\ len \in 0 .. Len(arr) /\ Len(arr) > 0
  /\ op \in {"rest", "update", "append", "delete"}
  /\ op = "update" => UpdateInv
  /\ op = "append" => AppendInv
  /\ op = "delete" => DeleteInv

(* The list, of the five variables of the writer. *)
Count(l, o, k) == CASE o = "append" -> k [] o = "delete" -> l - 1 [] OTHER -> l

Entry(a, o, k, p, i) == CASE o \in {"append", "update"} /\ i = k -> p
                          [] o = "delete" /\ i >= k -> a[i + 1]
                          [] OTHER -> a[i]

ListOf(a, l, o, k, p) == [i \in 1 .. Count(l, o, k) |-> Entry(a, o, k, p, i)]

LEMMA ListIs ==
  /\ Listing!profiles = ListOf(arr, len, op, at, put)
  /\ Listing!profiles' = ListOf(arr', len', op', at', put')
BY DEF Listing!profiles, ListOf, Count, Entry

LEMMA SameList ==
  ASSUME NEW a, NEW l, NEW o, NEW k, NEW p, NEW b, NEW m, NEW q, NEW j, NEW r,
         Count(l, o, k) = Count(m, q, j),
         \A i \in 1 .. Count(l, o, k) : Entry(a, o, k, p, i) = Entry(b, q, j, r, i)
  PROVE  ListOf(a, l, o, k, p) = ListOf(b, m, q, j, r)
BY DEF ListOf

(* At rest the list is what the slice holds. *)
LEMMA RestList ==
  ASSUME NEW a, NEW l \in Nat, NEW k, NEW p
  PROVE  ListOf(a, l, "rest", k, p) = [i \in 1 .. l |-> a[i]]
BY DEF ListOf, Count, Entry

LEMMA RemoveAtCells ==
  ASSUME NEW S, NEW list \in Seq(S), NEW k \in 1 .. Len(list)
  PROVE  Listing!Abstract!RemoveAt(list, k)
           = [i \in 1 .. Len(list) - 1 |-> IF i >= k THEN list[i + 1] ELSE list[i]]
<1> DEFINE front == SubSeq(list, 1, k - 1)
           back == SubSeq(list, k + 1, Len(list))
           short == [i \in 1 .. Len(list) - 1 |-> IF i >= k THEN list[i + 1] ELSE list[i]]
<1>1. Len(list) \in Nat /\ k \in Nat /\ 1 <= k /\ k <= Len(list) /\ \A i \in 1 .. Len(list) : list[i] \in S
  OBVIOUS
<1>2. front \in Seq(S) /\ Len(front) = k - 1 /\ \A i \in 1 .. k - 1 : front[i] = list[i]
  <2>1. 1 \in Int /\ k - 1 \in Int /\ \A i \in 1 .. k - 1 : list[i] \in S
    BY <1>1
  <2>2. /\ front \in Seq(S)
        /\ Len(front) = IF 1 <= k - 1 THEN k - 1 - 1 + 1 ELSE 0
        /\ \A i \in 1 .. k - 1 - 1 + 1 : front[i] = list[1 + i - 1]
    BY <2>1, SubSeqProperties
  <2> HIDE DEF front
  <2> QED
    BY <2>2, <1>1
<1>3. /\ back \in Seq(S) /\ Len(back) = Len(list) - k
      /\ \A i \in 1 .. Len(list) - k : back[i] = list[k + i]
  <2>1. k + 1 \in Int /\ Len(list) \in Int /\ \A i \in k + 1 .. Len(list) : list[i] \in S
    BY <1>1
  <2>2. /\ back \in Seq(S)
        /\ Len(back) = IF k + 1 <= Len(list) THEN Len(list) - (k + 1) + 1 ELSE 0
        /\ \A i \in 1 .. Len(list) - (k + 1) + 1 : back[i] = list[k + 1 + i - 1]
    BY <2>1, SubSeqProperties
  <2> HIDE DEF back
  <2>3. Len(back) = Len(list) - k
    <3>1. Len(back) = IF k + 1 <= Len(list) THEN Len(list) - (k + 1) + 1 ELSE 0
      BY <2>2
    <3> HIDE <2>2
    <3> QED
      BY <3>1, <1>1
  <2>4. ASSUME NEW i \in 1 .. Len(list) - k PROVE back[i] = list[k + i]
    <3>1. i \in 1 .. Len(list) - (k + 1) + 1 /\ k + 1 + i - 1 = k + i
      BY <1>1
    <3> QED
      BY <2>2, <3>1
  <2> QED
    BY <2>2, <2>3, <2>4
<1>4. Listing!Abstract!RemoveAt(list, k) = front \o back
  BY DEF Listing!Abstract!RemoveAt
<1> HIDE DEF front, back
<1>5. /\ front \o back \in Seq(S) /\ Len(front \o back) = Len(list) - 1
      /\ \A i \in 1 .. Len(list) - 1 :
           (front \o back)[i] = IF i <= k - 1 THEN front[i] ELSE back[i - (k - 1)]
  <2>1. /\ front \o back \in Seq(S)
        /\ Len(front \o back) = Len(front) + Len(back)
        /\ \A i \in 1 .. Len(front) + Len(back) :
             (front \o back)[i] = IF i <= Len(front) THEN front[i] ELSE back[i - Len(front)]
    BY <1>2, <1>3, ConcatProperties
  <2>2. Len(front) + Len(back) = Len(list) - 1
    BY <1>1, <1>2, <1>3
  <2> QED
    BY <2>1, <2>2, <1>2
<1>6. short \in Seq(S) /\ Len(short) = Len(list) - 1
  <2>1. Len(list) - 1 \in Nat /\ \A i \in 1 .. Len(list) - 1 : short[i] \in S
    BY <1>1
  <2> QED
    BY <2>1
<1>7. ASSUME NEW i \in 1 .. Len(list) - 1 PROVE (front \o back)[i] = short[i]
  <2>1. CASE i <= k - 1
    BY <2>1, <1>1, <1>2, <1>5
  <2>2. CASE ~(i <= k - 1)
    <3>1. i - (k - 1) \in 1 .. Len(list) - k /\ k + (i - (k - 1)) = i + 1 /\ i >= k
      BY <2>2, <1>1
    <3>2. (front \o back)[i] = back[i - (k - 1)] /\ back[i - (k - 1)] = list[k + (i - (k - 1))]
      BY <3>1, <2>2, <1>3, <1>5
    <3>3. (front \o back)[i] = list[i + 1] /\ short[i] = list[i + 1]
      BY <3>1, <3>2
    <3> QED
      BY <3>3
  <2> QED
    BY <2>1, <2>2
<1> HIDE DEF short
<1>8. front \o back = short
  BY <1>5, <1>6, <1>7, SeqEqual
<1> QED
  BY <1>4, <1>8 DEF short

-----------------------------------------------------------------------------
(* The steps of the writer. *)

SliceFacts == /\ arr \in Seq(Cells) /\ Len(arr) \in Nat /\ len \in Nat /\ len <= Len(arr)
              /\ \A i \in 1 .. len : i \in 1 .. Len(arr)
              /\ \A i \in 1 .. Len(arr) : arr[i] \in Cells

LEMMA Slices == SliceInv => SliceFacts
BY DEF SliceInv, SliceFacts

(* A word stored leaves every other word of the array alone. *)
LEMMA WordStored ==
  ASSUME NEW a \in Seq(Cells), NEW k \in 1 .. Len(a), NEW w \in Listing!Words, NEW x \in Data
  PROVE  LET b == [a EXCEPT ![k][w] = x]
         IN  /\ b \in Seq(Cells) /\ Len(b) = Len(a)
             /\ \A i \in 1 .. Len(a) : i # k => b[i] = a[i]
             /\ b[k][w] = x /\ \A v \in Listing!Words : v # w => b[k][v] = a[k][v]
<1> DEFINE c == [a[k] EXCEPT ![w] = x]
<1>1. a[k] \in Cells
  OBVIOUS
<1>2. c \in Cells /\ c[w] = x /\ \A v \in Listing!Words : v # w => c[v] = a[k][v]
  BY <1>1 DEF Cells
<1>3. [a EXCEPT ![k][w] = x] = [a EXCEPT ![k] = c]
  OBVIOUS
<1> HIDE DEF c
<1>4. /\ [a EXCEPT ![k] = c] \in Seq(Cells) /\ Len([a EXCEPT ![k] = c]) = Len(a)
      /\ \A i \in 1 .. Len(a) : [a EXCEPT ![k] = c][i] = IF i = k THEN c ELSE a[i]
  BY <1>2, ExceptSeq
<1> QED
  BY <1>2, <1>3, <1>4

LEMMA UpdateSlice ==
  ASSUME SliceInv, NEW p \in ListProfiles, Listing!Update(p)
  PROVE  /\ SliceInv' /\ Listing!Abstract!AddOrUpdateProfile(p)
         /\ op = "rest" /\ op' = "update" /\ put' = p /\ at' \in 1 .. len
<1>1. PICK k \in 1 .. len : /\ arr[k].id = p.id
                            /\ op = "rest" /\ op' = "update" /\ at' = k /\ put' = p
                            /\ words' = Listing!Words /\ arr' = arr /\ len' = len
  BY DEF Listing!Update, Listing!Begin
<1>2. SliceInv'
  BY <1>1 DEF SliceInv, UpdateInv, Agrees
<1>3. len \in Nat
  BY Slices DEF SliceFacts
<1>4. Listing!profiles = [i \in 1 .. len |-> arr[i]]
  BY <1>1, <1>3, ListIs, RestList
<1>5. Listing!profiles' = [Listing!profiles EXCEPT ![k] = p]
  <2>1. Listing!profiles' = [i \in 1 .. len |-> IF i = k THEN p ELSE arr[i]]
    BY <1>1, ListIs DEF ListOf, Count, Entry
  <2> QED
    BY <1>1, <1>4, <2>1
<1>6. k \in DOMAIN Listing!profiles /\ Listing!profiles[k].id = p.id
  BY <1>1, <1>4
<1> QED
  BY <1>1, <1>2, <1>5, <1>6 DEF Listing!Abstract!AddOrUpdateProfile

LEMMA AppendSlice ==
  ASSUME SliceInv, NEW p \in ListProfiles, Listing!AppendStart(p)
  PROVE  /\ SliceInv' /\ Listing!Abstract!AddOrUpdateProfile(p)
         /\ op = "rest" /\ op' = "append" /\ at' = len + 1 /\ put' = p
         /\ arr' \in Seq(Cells) /\ Len(arr') >= Len(arr) /\ \A i \in 1 .. Len(arr) : arr'[i] = arr[i]
         /\ arr' = arr \/ len = Len(arr)
<1>1. /\ op = "rest" /\ op' = "append" /\ at' = len + 1 /\ put' = p
      /\ words' = Listing!Words /\ len' = len
      /\ \A i \in 1 .. len : arr[i].id # p.id
      /\ IF len < Len(arr) THEN arr' = arr ELSE arr' = Listing!Moved(arr)
  BY DEF Listing!AppendStart, Listing!Begin, Listing!NewCell
<1>2. /\ arr \in Seq(Cells) /\ Len(arr) \in Nat /\ len \in Nat /\ len <= Len(arr) /\ Len(arr) > 0
      /\ \A i \in 1 .. Len(arr) : arr[i] \in Cells
  BY Slices DEF SliceInv, SliceFacts
<1>3. /\ arr' \in Seq(Cells) /\ Len(arr') > len /\ Len(arr') >= Len(arr) /\ Len(arr') \in Nat
      /\ \A i \in 1 .. Len(arr) : arr'[i] = arr[i]
  <2>1. CASE len < Len(arr)
    BY <1>1, <1>2, <2>1
  <2>2. CASE ~(len < Len(arr))
    <3>1. [w \in Listing!Words |-> Blank] \in Cells
      BY DEF Cells, Data
    <3>2. 2 * Len(arr) \in Nat /\ 2 * Len(arr) > Len(arr) /\ \A i \in 1 .. 2 * Len(arr) :
            i <= Len(arr) => i \in 1 .. Len(arr)
      BY <1>2
    <3> DEFINE cell(i) == IF i <= Len(arr) THEN arr[i] ELSE [w \in Listing!Words |-> Blank]
    <3>3. \A i \in 1 .. 2 * Len(arr) : cell(i) \in Cells
      BY <1>2, <3>1, <3>2
    <3>4. arr' = [i \in 1 .. 2 * Len(arr) |-> cell(i)]
      BY <1>1, <2>2 DEF Listing!Moved
    <3> HIDE DEF cell
    <3>5. arr' \in Seq(Cells) /\ Len(arr') = 2 * Len(arr) /\ \A i \in 1 .. 2 * Len(arr) : arr'[i] = cell(i)
      BY <3>2, <3>3, <3>4
    <3> QED
      BY <1>2, <2>2, <3>2, <3>5 DEF cell
  <2> QED
    BY <2>1, <2>2
<1>4. SliceInv'
  BY <1>1, <1>2, <1>3 DEF SliceInv, AppendInv
<1>5. Listing!profiles = [i \in 1 .. len |-> arr[i]]
  BY <1>1, <1>2, ListIs, RestList
<1>6. Listing!profiles' = [i \in 1 .. len + 1 |-> IF i = len + 1 THEN p ELSE arr'[i]]
  BY <1>1, ListIs DEF ListOf, Count, Entry
<1>7. Listing!profiles' = Append(Listing!profiles, p)
  <2>1. p \in Cells
    BY ProfilesAreCells
  <2>2. /\ Listing!profiles \in Seq(Cells) /\ Len(Listing!profiles) = len
        /\ \A i \in 1 .. len : Listing!profiles[i] = arr[i]
    BY <1>2, <1>5
  <2>3. /\ Append(Listing!profiles, p) \in Seq(Cells) /\ Len(Append(Listing!profiles, p)) = len + 1
        /\ \A i \in 1 .. len + 1 : Append(Listing!profiles, p)[i] = IF i = len + 1 THEN p ELSE arr[i]
    BY <1>2, <2>1, <2>2
  <2>4. /\ Listing!profiles' \in Seq(Cells) /\ Len(Listing!profiles') = len + 1
        /\ \A i \in 1 .. len + 1 : Listing!profiles'[i] = IF i = len + 1 THEN p ELSE arr[i]
    BY <1>2, <1>3, <1>6, <2>1
  <2> QED
    BY <2>3, <2>4, SeqEqual
<1>8. \A i \in DOMAIN Listing!profiles : Listing!profiles[i].id # p.id
  BY <1>1, <1>5
<1>9. Listing!Abstract!AddOrUpdateProfile(p)
  BY <1>7, <1>8 DEF Listing!Abstract!AddOrUpdateProfile
<1> QED
  BY <1>1, <1>2, <1>3, <1>4, <1>9

LEMMA ExtendSlice ==
  ASSUME SliceInv, Listing!Extend
  PROVE  /\ SliceInv' /\ Listing!profiles' = Listing!profiles
         /\ op = "append" /\ len = at - 1 /\ len' = at /\ at \in 1 .. Len(arr)
<1>1. /\ op = "append" /\ len < at /\ len' = at /\ arr' = arr
      /\ op' = op /\ at' = at /\ put' = put /\ words' = words
  BY DEF Listing!Extend, Listing!change
<1>2. AppendInv /\ len = at - 1 /\ words = Listing!Words /\ at \in 1 .. Len(arr)
  BY <1>1, Slices DEF SliceInv, AppendInv, SliceFacts
<1>3. SliceInv'
  BY <1>1, <1>2, Slices DEF SliceInv, AppendInv, Agrees, SliceFacts
<1>4. Listing!profiles' = Listing!profiles
  BY <1>1, ListIs DEF ListOf, Count, Entry
<1> QED
  BY <1>1, <1>2, <1>3, <1>4

(* What a step of the writer does to its cell. *)
Stored(w) ==
  /\ at \in 1 .. len /\ len' = len
  /\ arr' \in Seq(Cells) /\ Len(arr') = Len(arr)
  /\ \A i \in 1 .. Len(arr) : i # at => arr'[i] = arr[i]
  /\ \A v \in Listing!Words : v # w => arr'[at][v] = arr[at][v]

LEMMA StoreSlice ==
  ASSUME SliceInv, NEW w \in Listing!Words, Listing!StoreWord(w)
  PROVE  /\ SliceInv' /\ Listing!profiles' = Listing!profiles
         /\ Stored(w) /\ op \in {"update", "append"} /\ put \in ListProfiles /\ arr'[at][w] = put[w]
         /\ \/ op' = op /\ at' = at /\ put' = put
            \/ op' = "rest" /\ arr'[at] = put
<1>1. /\ op = "update" \/ (op = "append" /\ len = at)
      /\ w \in words /\ len' = len
      /\ arr' = [arr EXCEPT ![at][w] = put[w]]
      /\ IF words = {w} THEN op' = "rest"
         ELSE op' = op /\ at' = at /\ put' = put /\ words' = words \ {w}
  BY DEF Listing!StoreWord, Listing!AtRest
<1>2. at \in 1 .. len /\ put \in ListProfiles /\ Agrees(arr[at], put, words)
  BY <1>1, Slices DEF SliceInv, UpdateInv, AppendInv, SliceFacts
<1>3. arr \in Seq(Cells) /\ at \in 1 .. Len(arr) /\ Len(arr) \in Nat /\ len \in Nat /\ len <= Len(arr)
  BY <1>2, Slices DEF SliceFacts
<1>4. put \in Cells /\ put[w] \in Data
  BY <1>2, ProfilesAreCells DEF Cells
<1>5. /\ arr' \in Seq(Cells) /\ Len(arr') = Len(arr)
      /\ \A i \in 1 .. Len(arr) : i # at => arr'[i] = arr[i]
      /\ arr'[at][w] = put[w] /\ \A v \in Listing!Words : v # w => arr'[at][v] = arr[at][v]
  BY <1>1, <1>3, <1>4, WordStored
<1>6. Agrees(arr'[at], put, words \ {w})
  BY <1>2, <1>5 DEF Agrees
<1>7. Stored(w)
  BY <1>1, <1>2, <1>5 DEF Stored
<1>8. CASE words = {w}
  <2>1. arr'[at] = put
    <3>1. arr'[at] \in Cells /\ \A v \in Listing!Words : arr'[at][v] = put[v]
      BY <1>3, <1>5, <1>6, <1>8 DEF Agrees
    <3> QED
      BY <1>4, <3>1 DEF Cells
  <2>2. SliceInv'
    BY <1>1, <1>3, <1>5, <1>8 DEF SliceInv
  <2>3. Listing!profiles' = Listing!profiles
    <3>1. Listing!profiles' = [i \in 1 .. len |-> arr'[i]]
      <4>1. Listing!profiles' = ListOf(arr', len, "rest", at', put')
        BY <1>1, <1>8, ListIs
      <4> QED
        BY <1>3, <4>1 DEF ListOf, Count, Entry
    <3>2. Listing!profiles = [i \in 1 .. len |-> IF i = at THEN put ELSE arr[i]]
      BY <1>1, ListIs DEF ListOf, Count, Entry
    <3>3. \A i \in 1 .. len : arr'[i] = IF i = at THEN put ELSE arr[i]
      BY <1>3, <1>5, <2>1
    <3> QED
      BY <3>1, <3>2, <3>3
  <2> QED
    BY <1>1, <1>2, <1>5, <1>7, <1>8, <2>1, <2>2, <2>3
<1>9. CASE words # {w}
  <2>1. SliceInv'
    BY <1>1, <1>2, <1>3, <1>5, <1>6, <1>9 DEF SliceInv, UpdateInv, AppendInv
  <2>2. Listing!profiles' = Listing!profiles
    <3>1. \A i \in 1 .. len : Entry(arr', op, at, put, i) = Entry(arr, op, at, put, i)
      BY <1>1, <1>3, <1>5 DEF Entry
    <3>2. Count(len, op, at) = len
      BY <1>1 DEF Count
    <3>3. ListOf(arr', len, op, at, put) = ListOf(arr, len, op, at, put)
      BY <3>1, <3>2, SameList
    <3> QED
      BY <1>1, <1>9, <3>3, ListIs
  <2> QED
    BY <1>1, <1>2, <1>5, <1>7, <1>9, <2>1, <2>2
<1> QED
  BY <1>8, <1>9

LEMMA DeleteSlice ==
  ASSUME SliceInv, NEW id, Listing!DeleteStart(id)
  PROVE  /\ SliceInv' /\ Listing!Abstract!DeleteProfile(id)
         /\ op = "rest" /\ op' = "delete" /\ at' \in 1 .. len
<1>1. PICK k \in 1 .. len : /\ arr[k].id = id
                            /\ op = "rest" /\ op' = "delete" /\ at' = k
                            /\ words' = Listing!Words /\ arr' = arr /\ len' = len
  BY DEF Listing!DeleteStart, Listing!Begin
<1>2. SliceInv'
  BY <1>1 DEF SliceInv, DeleteInv, Agrees
<1>3. len \in Nat /\ \A i \in 1 .. len : arr[i] \in Cells
  BY Slices DEF SliceFacts
<1>4. Listing!profiles = [i \in 1 .. len |-> arr[i]]
  BY <1>1, <1>3, ListIs, RestList
<1>5. /\ Listing!profiles \in Seq(Cells) /\ Len(Listing!profiles) = len
      /\ \A i \in 1 .. len : Listing!profiles[i] = arr[i]
  BY <1>3, <1>4
<1>6. Listing!profiles' = Listing!Abstract!RemoveAt(Listing!profiles, k)
  <2>1. Listing!profiles' = [i \in 1 .. len - 1 |-> IF i >= k THEN arr[i + 1] ELSE arr[i]]
    BY <1>1, ListIs DEF ListOf, Count, Entry
  <2>2. Listing!Abstract!RemoveAt(Listing!profiles, k)
          = [i \in 1 .. len - 1 |-> IF i >= k THEN Listing!profiles[i + 1] ELSE Listing!profiles[i]]
    BY <1>1, <1>5, RemoveAtCells
  <2>3. \A i \in 1 .. len - 1 : i \in 1 .. len /\ i + 1 \in 1 .. len
    BY <1>3
  <2> QED
    BY <1>5, <2>1, <2>2, <2>3
<1>7. k \in DOMAIN Listing!profiles /\ Listing!profiles[k].id = id
  BY <1>1, <1>4
<1> QED
  BY <1>1, <1>2, <1>6, <1>7 DEF Listing!Abstract!DeleteProfile

LEMMA ShiftSlice ==
  ASSUME SliceInv, NEW w \in Listing!Words, Listing!ShiftWord(w)
  PROVE  /\ SliceInv' /\ Listing!profiles' = Listing!profiles
         /\ Stored(w) /\ op = "delete" /\ at + 1 \in 1 .. len /\ arr'[at][w] = arr[at + 1][w]
         /\ op' = "delete" /\ at' \in {at, at + 1}
<1>1. /\ op = "delete" /\ at < len /\ w \in words
      /\ arr' = [arr EXCEPT ![at][w] = arr[at + 1][w]]
      /\ len' = len /\ op' = op /\ put' = put
      /\ IF words = {w} THEN at' = at + 1 /\ words' = Listing!Words
                        ELSE words' = words \ {w} /\ at' = at
  BY DEF Listing!ShiftWord, Listing!ShiftOne
<1>2. at \in 1 .. len /\ Agrees(arr[at], arr[at + 1], words)
  BY <1>1 DEF SliceInv, DeleteInv
<1>3. /\ arr \in Seq(Cells) /\ at \in 1 .. Len(arr) /\ at + 1 \in 1 .. len /\ at + 1 \in 1 .. Len(arr)
      /\ at \in Nat /\ Len(arr) \in Nat /\ len \in Nat /\ len <= Len(arr)
  BY <1>1, <1>2, Slices DEF SliceFacts
<1>4. arr[at + 1] \in Cells /\ arr[at + 1][w] \in Data
  BY <1>3 DEF Cells
<1>5. /\ arr' \in Seq(Cells) /\ Len(arr') = Len(arr)
      /\ \A i \in 1 .. Len(arr) : i # at => arr'[i] = arr[i]
      /\ arr'[at][w] = arr[at + 1][w]
      /\ \A v \in Listing!Words : v # w => arr'[at][v] = arr[at][v]
  BY <1>1, <1>3, <1>4, WordStored
<1>6. Agrees(arr'[at], arr'[at + 1], words \ {w})
  BY <1>2, <1>3, <1>5 DEF Agrees
<1>7. Stored(w)
  BY <1>1, <1>2, <1>5 DEF Stored
<1>8. CASE words = {w}
  <2>1. arr'[at] = arr'[at + 1]
    <3>1. /\ arr'[at] \in Cells /\ arr'[at + 1] \in Cells
          /\ \A v \in Listing!Words : arr'[at][v] = arr'[at + 1][v]
      BY <1>3, <1>5, <1>6, <1>8 DEF Agrees
    <3> QED
      BY <3>1 DEF Cells
  <2>2. SliceInv'
    BY <1>1, <1>3, <1>5, <1>8 DEF SliceInv, DeleteInv, Agrees
  <2>3. Listing!profiles' = Listing!profiles
    <3>1. Listing!profiles' = [i \in 1 .. len - 1 |-> IF i >= at + 1 THEN arr'[i + 1] ELSE arr'[i]]
      BY <1>1, <1>8, ListIs DEF ListOf, Count, Entry
    <3>2. Listing!profiles = [i \in 1 .. len - 1 |-> IF i >= at THEN arr[i + 1] ELSE arr[i]]
      BY <1>1, ListIs DEF ListOf, Count, Entry
    <3>3. ASSUME NEW i \in 1 .. len - 1
          PROVE  (IF i >= at + 1 THEN arr'[i + 1] ELSE arr'[i]) = IF i >= at THEN arr[i + 1] ELSE arr[i]
      <4>1. i \in 1 .. Len(arr) /\ i + 1 \in 1 .. Len(arr)
        BY <1>3
      <4>2. CASE i = at
        BY <1>3, <1>5, <2>1, <4>1, <4>2
      <4>3. CASE i # at
        BY <1>3, <1>5, <4>1, <4>3
      <4> QED
        BY <4>2, <4>3
    <3> QED
      BY <3>1, <3>2, <3>3
  <2> QED
    BY <1>1, <1>3, <1>5, <1>7, <1>8, <2>2, <2>3
<1>9. CASE words # {w}
  <2>1. SliceInv'
    BY <1>1, <1>2, <1>3, <1>5, <1>6, <1>9 DEF SliceInv, DeleteInv
  <2>2. Listing!profiles' = Listing!profiles
    <3>1. ASSUME NEW i \in 1 .. len - 1 PROVE Entry(arr', op, at, put, i) = Entry(arr, op, at, put, i)
      <4>1. i \in 1 .. Len(arr) /\ i + 1 \in 1 .. Len(arr) /\ (i >= at => i + 1 # at)
        BY <1>3
      <4> QED
        BY <1>1, <1>3, <1>5, <4>1 DEF Entry
    <3>2. Count(len, op, at) = len - 1
      BY <1>1 DEF Count
    <3>3. ListOf(arr', len, op, at, put) = ListOf(arr, len, op, at, put)
      BY <3>1, <3>2, SameList
    <3> QED
      BY <1>1, <1>9, <3>3, ListIs
  <2> QED
    BY <1>1, <1>3, <1>5, <1>7, <1>9, <2>1, <2>2
<1> QED
  BY <1>8, <1>9

LEMMA EndSlice ==
  ASSUME SliceInv, Listing!DeleteEnd
  PROVE  /\ SliceInv' /\ Listing!profiles' = Listing!profiles
         /\ op = "delete" /\ op' = "rest" /\ at = len /\ len \in 1 .. Len(arr) /\ len' = len - 1
<1>1. op = "delete" /\ op' = "rest" /\ at = len /\ len' = len - 1 /\ arr' = arr
  BY DEF Listing!DeleteEnd, Listing!AtRest
<1>2. len \in Nat /\ len - 1 \in Nat /\ len \in 1 .. Len(arr) /\ Len(arr) \in Nat
  BY <1>1, Slices DEF SliceInv, DeleteInv, SliceFacts
<1>3. SliceInv'
  BY <1>1, <1>2 DEF SliceInv
<1>4. Listing!profiles' = Listing!profiles
  <2>1. Listing!profiles' = [i \in 1 .. len - 1 |-> arr[i]]
    BY <1>1, <1>2, ListIs, RestList
  <2>2. Listing!profiles = [i \in 1 .. len - 1 |-> IF i >= len THEN arr[i + 1] ELSE arr[i]]
    BY <1>1, ListIs DEF ListOf, Count, Entry
  <2>3. \A i \in 1 .. len - 1 : ~(i >= len)
    BY <1>2
  <2> QED
    BY <2>1, <2>2, <2>3
<1> QED
  BY <1>1, <1>2, <1>3, <1>4

LEMMA ReadersWriteNothing ==
  ASSUME Listing!List
  PROVE  arr' = arr /\ len' = len /\ op' = op /\ at' = at /\ put' = put /\ words' = words
BY DEF Listing!List, Listing!ReadPointer, Listing!ReadLength, Listing!ReadId, Listing!ReadRest,
       Listing!ReadBeyond, Listing!Answer, Listing!store, Listing!change

LEMMA StepOfSlice ==
  ASSUME SliceInv, [Listing!Next]_(Listing!vars)
  PROVE  SliceInv' /\ [Listing!Abstract!Next]_(Listing!profiles)
<1>1. CASE Listing!Write
  <2>1. ASSUME NEW p \in ListProfiles, Listing!Update(p) PROVE SliceInv' /\ Listing!Abstract!Next
    BY <2>1, UpdateSlice DEF Listing!Abstract!Next
  <2>2. ASSUME NEW p \in ListProfiles, Listing!AppendStart(p) PROVE SliceInv' /\ Listing!Abstract!Next
    BY <2>2, AppendSlice DEF Listing!Abstract!Next
  <2>3. ASSUME NEW p \in ListProfiles, Listing!DeleteStart(p.id) PROVE SliceInv' /\ Listing!Abstract!Next
    BY <2>3, DeleteSlice DEF Listing!Abstract!Next
  <2>4. ASSUME NEW w \in Listing!Words, Listing!StoreWord(w) \/ Listing!ShiftWord(w)
        PROVE  SliceInv' /\ Listing!profiles' = Listing!profiles
    BY <2>4, StoreSlice, ShiftSlice
  <2>5. CASE Listing!Extend \/ Listing!DeleteEnd
    BY <2>5, ExtendSlice, EndSlice
  <2> QED
    BY <1>1, <2>1, <2>2, <2>3, <2>4, <2>5 DEF Listing!Write
<1>2. CASE Listing!List \/ UNCHANGED Listing!vars
  <2>1. arr' = arr /\ len' = len /\ op' = op /\ at' = at /\ put' = put /\ words' = words
    BY <1>2, ReadersWriteNothing DEF Listing!vars, Listing!store, Listing!change
  <2>2. SliceInv'
    BY <2>1 DEF SliceInv, UpdateInv, AppendInv, DeleteInv, Agrees
  <2>3. Listing!profiles' = Listing!profiles
    BY <2>1, ListIs
  <2> QED
    BY <2>2, <2>3
<1> QED
  BY <1>1, <1>2 DEF Listing!Next

LEMMA StartOfSlice ==
  ASSUME Listing!Init
  PROVE  SliceInv /\ Listing!Abstract!Init
<1>1. PICK p \in ListProfiles : arr = <<p>> /\ len = 1 /\ op = "rest"
  BY DEF Listing!Init
<1>2. p \in Cells
  BY ProfilesAreCells
<1>3. arr \in Seq(Cells) /\ Len(arr) = 1 /\ arr[1] = p
  BY <1>1, <1>2
<1>4. Listing!profiles = <<p>>
  <2>1. Listing!profiles = [i \in 1 .. 1 |-> arr[i]]
    BY <1>1, ListIs, RestList
  <2>2. Listing!profiles \in Seq(Cells) /\ Len(Listing!profiles) = 1 /\ Listing!profiles[1] = p
    BY <1>2, <1>3, <2>1
  <2> QED
    BY <1>1, <1>3, <2>2, SeqEqual
<1> QED
  BY <1>1, <1>3, <1>4 DEF SliceInv, Listing!Abstract!Init

(* The cells overwritten and shifted word by word, the length stored before  *)
(* the profile and the array that grows are single changes of a list         *)
(* (config.go:330-356).                                                      *)
THEOREM SliceImplementsList == Listing!Spec => Implements
BY StartOfSlice, StepOfSlice, PTL DEF Implements, Listing!Implements, Listing!Spec, Listing!Abstract!Spec
-----------------------------------------------------------------------------
(* What the listing can meet. *)

(* Each word of cell c is one of a profile in S. *)
IsHeld(c, S) == \A w \in Listing!Words : \E p \in S : c[w] = p[w]

LEMMA HeldGrows ==
  ASSUME NEW c, NEW S, NEW T, S \subseteq T, IsHeld(c, S)
  PROVE  IsHeld(c, T)
BY DEF IsHeld

LEMMA MemberIsHeld ==
  ASSUME NEW S, NEW c \in S
  PROVE  IsHeld(c, S)
BY DEF IsHeld

(* The cell whose profile has yet to be stored, behind the stored length. *)
GapNow == IF op = "append" /\ len = at THEN at ELSE 0

(* What the slice shows was held since the listing began, the profile that   *)
(* is on its way into it included.                                           *)
HoldsInv ==
  Listing!Listing =>
    /\ \A i \in 1 .. len : i # GapNow => IsHeld(arr[i], held)
    /\ op \in {"update", "append"} => put \in held

(* So was what is below the length that was read, behind a list that shrank  *)
(* too, and all of an array that the list has left.                          *)
ArrayInv ==
  Listing!Listing =>
    /\ old = <<>> /\ listPc # "pointer" =>
         n <= Len(arr) /\ \A i \in 1 .. n : i # gap => IsHeld(arr[i], held)
    /\ old # <<>> =>
         /\ old \in Seq(Cells)
         /\ \A i \in 1 .. Len(old) : i # gap => IsHeld(old[i], held)
         /\ listPc = "pointer" \/ n > Len(old) => grown

RowsInv ==
  /\ listPc \in {"idle", "pointer", "length", "reading", "within", "beyond"}
  /\ n \in Nat /\ rows \in Seq(Cells) /\ gap \in {0, n}
  /\ listPc \in {"idle", "pointer", "length"} => rows = <<>>
  /\ listPc \in {"idle", "pointer"} => gap = 0
  /\ listPc \in {"idle", "length"} => old = <<>>
  /\ \A i \in 1 .. Len(rows) : i # gap => IsHeld(rows[i], held)
  /\ listPc = "within" =>
       /\ Len(rows) < n /\ Len(rows) < Len(Listing!Array) /\ part \in Data
       /\ Len(rows) + 1 # gap => \E p \in held : part = p["id"]
  /\ listPc = "beyond" => grown

ListingInv == HoldsInv /\ ArrayInv /\ RowsInv

(* What a change leaves of all that.                                         *)
LeavesOld ==
  \/ old' = old
  \/ /\ old = <<>> /\ old' = arr /\ op = "rest" /\ len = Len(arr)
     /\ listPc \in {"pointer", "reading", "within"}
     /\ listPc = "pointer" => grown'

Keeps ==
  /\ n' = n /\ rows' = rows /\ part' = part /\ listPc' = listPc /\ gap' = gap
  /\ held \subseteq held' /\ (grown => grown')
  /\ arr' \in Seq(Cells) /\ Len(arr') >= Len(arr)
  /\ \A i \in 1 .. Len(arr) : IsHeld(arr[i], held) => IsHeld(arr'[i], held')
  /\ LeavesOld

LEMMA AdditionHolds ==
  ASSUME SliceInv, HoldsInv, Listing!Listing, NEW p \in ListProfiles,
         Listing!Update(p) \/ Listing!AppendStart(p)
  PROVE  Keeps /\ HoldsInv'
<1>1. SliceFacts
  BY Slices
<1>2. /\ n' = n /\ rows' = rows /\ part' = part /\ listPc' = listPc /\ gap' = gap
      /\ held' = held \union {p} /\ len' = len
  BY DEF Listing!Update, Listing!AppendStart, Listing!Comes, Listing!listing
<1>3. /\ op = "rest" /\ put' = p /\ GapNow = 0 /\ GapNow' = 0
      /\ arr' \in Seq(Cells) /\ Len(arr') >= Len(arr)
      /\ \A i \in 1 .. Len(arr) : arr'[i] = arr[i]
  <2>1. CASE Listing!Update(p)
    <3>1. arr' = arr
      BY <2>1 DEF Listing!Update
    <3> QED
      BY <1>1, <2>1, <3>1, UpdateSlice DEF GapNow, SliceFacts
  <2>2. CASE Listing!AppendStart(p)
    BY <1>1, <1>2, <2>2, AppendSlice DEF GapNow, SliceFacts
  <2> QED
    BY <2>1, <2>2
<1>4. LeavesOld /\ (grown => grown')
  <2>1. CASE Listing!Update(p)
    BY <2>1 DEF Listing!Update, Listing!listing, LeavesOld
  <2>2. CASE Listing!AppendStart(p)
    <3>1. len < Len(arr) => old' = old /\ grown' = grown
      BY <2>2 DEF Listing!AppendStart
    <3>2. ~(len < Len(arr)) =>
            /\ old' = IF listPc \in {"pointer", "reading", "within"} /\ old = <<>> THEN arr ELSE old
            /\ grown' = (grown \/ listPc = "pointer")
      BY <2>2 DEF Listing!AppendStart
    <3>3. ~(len < Len(arr)) => len = Len(arr)
      BY <1>1 DEF SliceFacts
    <3>4. ASSUME grown PROVE grown'
      <4>1. CASE len < Len(arr)
        BY <3>1, <3>4, <4>1
      <4>2. CASE ~(len < Len(arr))
        BY <3>2, <3>4, <4>2
      <4> QED
        BY <4>1, <4>2
    <3>5. ASSUME ~(len < Len(arr)), listPc = "pointer" PROVE grown'
      BY <3>2, <3>5
    <3> QED
      BY <1>3, <3>1, <3>2, <3>3, <3>4, <3>5 DEF LeavesOld
  <2> QED
    BY <2>1, <2>2
<1>5. \A i \in 1 .. Len(arr) : IsHeld(arr[i], held) => IsHeld(arr'[i], held')
  BY <1>2, <1>3, HeldGrows
<1>6. \A i \in 1 .. len : IsHeld(arr[i], held)
  BY <1>1, <1>3 DEF HoldsInv, SliceFacts
<1>7. HoldsInv'
  BY <1>1, <1>2, <1>3, <1>5, <1>6 DEF HoldsInv, SliceFacts
<1> QED
  BY <1>2, <1>3, <1>4, <1>5, <1>7 DEF Keeps

LEMMA OtherWritesHold ==
  ASSUME SliceInv, HoldsInv, Listing!Listing,
         \/ Listing!Extend \/ Listing!DeleteEnd
         \/ \E id \in {p.id : p \in ListProfiles} : Listing!DeleteStart(id)
  PROVE  Keeps /\ HoldsInv'
<1>1. SliceFacts
  BY Slices
<1>2. /\ n' = n /\ rows' = rows /\ part' = part /\ listPc' = listPc /\ gap' = gap
      /\ held' = held /\ arr' = arr /\ old' = old /\ grown' = grown
  BY DEF Listing!Extend, Listing!DeleteStart, Listing!DeleteEnd, Listing!listing, Listing!history
<1>3. Keeps
  BY <1>1, <1>2 DEF Keeps, LeavesOld, SliceFacts
<1>4. HoldsInv'
  <2>1. CASE Listing!Extend
    <3>1. /\ op = "append" /\ len = at - 1 /\ len' = at /\ at \in 1 .. Len(arr)
          /\ op' = op /\ at' = at /\ put' = put
      BY <2>1, ExtendSlice DEF Listing!Extend, Listing!change
    <3>2. GapNow' = at /\ GapNow = 0 /\ \A i \in 1 .. at : i # at => i \in 1 .. len /\ i # 0
      BY <1>1, <3>1 DEF GapNow, SliceFacts
    <3> QED
      BY <1>2, <3>1, <3>2 DEF HoldsInv, Listing!Listing
  <2>2. CASE Listing!DeleteEnd
    <3>1. op = "delete" /\ op' = "rest" /\ len' = len - 1 /\ GapNow = 0
      BY <2>2, EndSlice DEF GapNow
    <3>2. \A i \in 1 .. len - 1 : i \in 1 .. len /\ i # 0
      BY <1>1 DEF SliceFacts
    <3> QED
      BY <1>2, <3>1, <3>2 DEF HoldsInv, Listing!Listing
  <2>3. CASE \E id \in {p.id : p \in ListProfiles} : Listing!DeleteStart(id)
    <3>1. op = "rest" /\ op' = "delete" /\ len' = len /\ GapNow = 0
      BY <2>3, DeleteSlice DEF Listing!DeleteStart, GapNow
    <3>2. \A i \in 1 .. len : i # 0
      OBVIOUS
    <3> QED
      BY <1>2, <3>1, <3>2 DEF HoldsInv, Listing!Listing
  <2> QED
    BY <2>1, <2>2, <2>3
<1> QED
  BY <1>3, <1>4

LEMMA WordsHold ==
  ASSUME SliceInv, HoldsInv, Listing!Listing, NEW w \in Listing!Words,
         Listing!StoreWord(w) \/ Listing!ShiftWord(w)
  PROVE  Keeps /\ HoldsInv'
<1>1. SliceFacts
  BY Slices
<1>2. /\ n' = n /\ rows' = rows /\ part' = part /\ listPc' = listPc /\ gap' = gap
      /\ held' = held /\ old' = old /\ grown' = grown
  BY DEF Listing!StoreWord, Listing!ShiftWord, Listing!listing, Listing!history
<1>3. /\ at \in 1 .. len /\ at \in 1 .. Len(arr) /\ len' = len
      /\ arr' \in Seq(Cells) /\ Len(arr') = Len(arr)
      /\ \A i \in 1 .. Len(arr) : i # at => arr'[i] = arr[i]
      /\ \A v \in Listing!Words : v # w => arr'[at][v] = arr[at][v]
  <2>1. Stored(w)
    BY StoreSlice, ShiftSlice
  <2> QED
    BY <1>1, <2>1 DEF Stored, SliceFacts
<1>4. \E p \in held : arr'[at][w] = p[w]
  <2>1. CASE Listing!StoreWord(w)
    BY <2>1, StoreSlice DEF HoldsInv
  <2>2. CASE Listing!ShiftWord(w)
    <3>1. op = "delete" /\ at + 1 \in 1 .. len /\ arr'[at][w] = arr[at + 1][w]
      BY <2>2, ShiftSlice
    <3>2. IsHeld(arr[at + 1], held)
      BY <3>1 DEF HoldsInv, GapNow
    <3> QED
      BY <3>1, <3>2 DEF IsHeld
  <2> QED
    BY <2>1, <2>2
<1>5. \A i \in 1 .. Len(arr) : IsHeld(arr[i], held) => IsHeld(arr'[i], held')
  <2> SUFFICES ASSUME NEW i \in 1 .. Len(arr), IsHeld(arr[i], held) PROVE IsHeld(arr'[i], held)
    BY <1>2
  <2>1. CASE i = at
    BY <1>3, <1>4, <2>1 DEF IsHeld
  <2>2. CASE i # at
    BY <1>3, <2>2
  <2> QED
    BY <2>1, <2>2
<1>6. Keeps
  BY <1>1, <1>2, <1>3, <1>5 DEF Keeps, LeavesOld, SliceFacts
<1>7. HoldsInv'
  <2>1. CASE Listing!StoreWord(w)
    <3>1. /\ op \in {"update", "append"} /\ put \in held
          /\ \/ op' = op /\ at' = at /\ put' = put
             \/ op' = "rest" /\ arr'[at] = put
      BY <2>1, StoreSlice DEF HoldsInv
    <3>2. CASE op' = op /\ at' = at /\ put' = put
      <4>1. GapNow' = GapNow
        BY <1>3, <3>2 DEF GapNow
      <4> QED
        BY <1>1, <1>2, <1>3, <1>5, <3>1, <3>2, <4>1 DEF HoldsInv, Listing!Listing, SliceFacts
    <3>3. CASE op' = "rest" /\ arr'[at] = put
      <4>1. IsHeld(arr'[at], held')
        BY <1>2, <3>1, <3>3, MemberIsHeld
      <4>2. ASSUME NEW i \in 1 .. len, i # at PROVE IsHeld(arr'[i], held')
        <5>1. i # GapNow /\ i \in 1 .. Len(arr)
          BY <1>1, <4>2 DEF GapNow, SliceFacts
        <5> QED
          BY <1>5, <5>1 DEF HoldsInv
      <4> QED
        BY <1>3, <3>3, <4>1, <4>2 DEF HoldsInv
    <3> QED
      BY <3>1, <3>2, <3>3
  <2>2. CASE Listing!ShiftWord(w)
    <3>1. op = "delete" /\ op' = "delete"
      BY <2>2, ShiftSlice
    <3>2. GapNow = 0 /\ \A i \in 1 .. len : i # 0 /\ i \in 1 .. Len(arr)
      BY <1>1, <3>1 DEF GapNow, SliceFacts
    <3> QED
      BY <1>3, <1>5, <3>1, <3>2 DEF HoldsInv
  <2> QED
    BY <2>1, <2>2
<1> QED
  BY <1>6, <1>7

LEMMA WritesHold ==
  ASSUME SliceInv, HoldsInv, Listing!Listing, Listing!Write
  PROVE  Keeps /\ HoldsInv'
<1>1. ASSUME NEW p \in ListProfiles, Listing!Update(p) \/ Listing!AppendStart(p)
      PROVE  Keeps /\ HoldsInv'
  BY <1>1, AdditionHolds
<1>2. ASSUME NEW p \in ListProfiles, Listing!DeleteStart(p.id)
      PROVE  Keeps /\ HoldsInv'
  BY <1>2, OtherWritesHold
<1>3. ASSUME NEW w \in Listing!Words, Listing!StoreWord(w) \/ Listing!ShiftWord(w)
      PROVE  Keeps /\ HoldsInv'
  BY <1>3, WordsHold
<1>4. ASSUME Listing!Extend \/ Listing!DeleteEnd
      PROVE  Keeps /\ HoldsInv'
  BY <1>4, OtherWritesHold
<1> QED
  BY <1>1, <1>2, <1>3, <1>4 DEF Listing!Write

(* Without a listing there is nothing to keep but that there is none. *)
LEMMA WritesAlone ==
  ASSUME Listing!Write, listPc = "idle", old = <<>>
  PROVE  /\ n' = n /\ rows' = rows /\ listPc' = "idle" /\ gap' = gap /\ old' = <<>>
         /\ held' = held
BY DEF Listing!Write, Listing!Update, Listing!AppendStart, Listing!Extend, Listing!StoreWord,
       Listing!DeleteStart, Listing!ShiftWord, Listing!DeleteEnd, Listing!Comes, Listing!Listing,
       Listing!listing, Listing!history

LEMMA WritesListing ==
  ASSUME SliceInv, ListingInv, Listing!Write
  PROVE  ListingInv'
<1>1. CASE listPc = "idle"
  <2>1. /\ n' = n /\ rows' = rows /\ listPc' = "idle" /\ gap' = gap /\ old' = <<>>
        /\ held' = held
    BY <1>1, WritesAlone DEF ListingInv, RowsInv
  <2> QED
    BY <1>1, <2>1 DEF ListingInv, HoldsInv, ArrayInv, RowsInv, Listing!Listing
<1>2. CASE listPc # "idle"
  <2>1. Keeps /\ HoldsInv' /\ Listing!Listing
    BY <1>2, WritesHold DEF ListingInv, Listing!Listing
  <2>2. /\ n' = n /\ rows' = rows /\ part' = part /\ listPc' = listPc /\ gap' = gap
        /\ held \subseteq held' /\ (grown => grown')
        /\ arr' \in Seq(Cells) /\ Len(arr') >= Len(arr) /\ Len(arr') \in Nat
        /\ \A i \in 1 .. Len(arr) : IsHeld(arr[i], held) => IsHeld(arr'[i], held')
    BY <2>1 DEF Keeps
  <2>3. SliceFacts /\ n \in Nat
    BY Slices DEF ListingInv, RowsInv
  <2>4. ArrayInv'
    <3>1. CASE old' = old
      <4>1. old = <<>> /\ listPc # "pointer" =>
              n <= Len(arr') /\ \A i \in 1 .. n : i # gap => IsHeld(arr'[i], held')
        <5>1. old = <<>> /\ listPc # "pointer" =>
                n <= Len(arr) /\ \A i \in 1 .. n : i # gap => IsHeld(arr[i], held)
          BY <2>1 DEF ListingInv, ArrayInv
        <5>2. n <= Len(arr) => n <= Len(arr') /\ \A i \in 1 .. n : i \in 1 .. Len(arr)
          BY <2>2, <2>3 DEF SliceFacts
        <5> QED
          BY <2>2, <5>1, <5>2
      <4>2. old # <<>> =>
              /\ old \in Seq(Cells)
              /\ \A i \in 1 .. Len(old) : i # gap => IsHeld(old[i], held')
              /\ listPc = "pointer" \/ n > Len(old) => grown'
        <5>1. old # <<>> =>
                /\ old \in Seq(Cells)
                /\ \A i \in 1 .. Len(old) : i # gap => IsHeld(old[i], held)
                /\ listPc = "pointer" \/ n > Len(old) => grown
          BY <2>1 DEF ListingInv, ArrayInv
        <5> QED
          BY <2>2, <5>1, HeldGrows
      <4> QED
        BY <2>2, <3>1, <4>1, <4>2 DEF ArrayInv
    <3>2. CASE old' # old
      <4>1. /\ old = <<>> /\ old' = arr /\ op = "rest" /\ len = Len(arr)
            /\ listPc \in {"pointer", "reading", "within"} /\ (listPc = "pointer" => grown')
        BY <2>1, <3>2 DEF Keeps, LeavesOld
      <4>2. \A i \in 1 .. Len(arr) : IsHeld(arr[i], held')
        <5>1. \A i \in 1 .. len : i # GapNow
          BY <4>1 DEF GapNow
        <5> QED
          BY <2>1, <2>2, <4>1, <5>1, HeldGrows DEF HoldsInv, ListingInv
      <4>3. listPc # "pointer" => ~(n > Len(arr))
        BY <2>1, <2>3, <4>1 DEF ListingInv, ArrayInv, SliceFacts
      <4> QED
        BY <2>2, <2>3, <3>2, <4>1, <4>2, <4>3 DEF ArrayInv, SliceFacts
    <3> QED
      BY <3>1, <3>2
  <2>5. RowsInv'
    <3>1. Len(Listing!Array') >= Len(Listing!Array) \/ Listing!Array' = Listing!Array
      <4>1. CASE old' = old /\ old = <<>>
        BY <2>2, <4>1 DEF Listing!Array
      <4>2. CASE old' = old /\ old # <<>>
        BY <4>2 DEF Listing!Array
      <4>3. CASE old' # old
        <5>1. old = <<>> /\ old' = arr /\ Len(arr) # 0
          BY <2>1, <4>3 DEF Keeps, LeavesOld, SliceInv
        <5>2. old' # <<>>
          BY <5>1
        <5> QED
          BY <5>1, <5>2 DEF Listing!Array
      <4> QED
        BY <4>1, <4>2, <4>3
    <3>2. Len(Listing!Array) \in Nat /\ Len(Listing!Array') \in Nat /\ Len(rows) \in Nat
      <4>1. Listing!Array \in Seq(Cells)
        BY <2>1, <2>3 DEF Listing!Array, SliceFacts, ListingInv, ArrayInv
      <4>2. Listing!Array' \in Seq(Cells)
        BY <2>1, <2>2, <2>3, <2>4 DEF Listing!Array, SliceFacts, ArrayInv, Listing!Listing
      <4> QED
        BY <4>1, <4>2 DEF ListingInv, RowsInv
    <3>3. listPc \in {"idle", "length"} => old' = <<>>
      BY <2>1 DEF ListingInv, RowsInv, Keeps, LeavesOld
    <3>4. \A i \in 1 .. Len(rows) : i # gap => IsHeld(rows[i], held')
      BY <2>2, HeldGrows DEF ListingInv, RowsInv
    <3>5. listPc = "within" =>
            /\ Len(rows) < n /\ Len(rows) < Len(Listing!Array') /\ part \in Data
            /\ Len(rows) + 1 # gap => \E p \in held' : part = p["id"]
      BY <2>2, <3>1, <3>2 DEF ListingInv, RowsInv
    <3>6. /\ listPc \in {"idle", "pointer", "length", "reading", "within", "beyond"}
          /\ n \in Nat /\ rows \in Seq(Cells) /\ gap \in {0, n}
          /\ listPc \in {"idle", "pointer", "length"} => rows = <<>>
          /\ listPc \in {"idle", "pointer"} => gap = 0
          /\ listPc = "beyond" => grown
      BY DEF ListingInv, RowsInv
    <3> QED
      BY <2>2, <3>3, <3>4, <3>5, <3>6 DEF RowsInv
  <2> QED
    BY <2>1, <2>4, <2>5 DEF ListingInv
<1> QED
  BY <1>1, <1>2

(* A listing that begins holds what the slice shows. *)
LEMMA StartHolds ==
  ASSUME SliceInv, Listing!Started
  PROVE  /\ \A i \in 1 .. len : i # GapNow => IsHeld(arr[i], held')
         /\ op \in {"update", "append"} => put \in held'
<1>1. held' = Listing!ToSet(Listing!profiles) \union IF op \in {"update", "delete"} THEN {arr[at]} ELSE {}
  BY DEF Listing!Started
<1>2. SliceFacts
  BY Slices
<1>3. ASSUME NEW i \in 1 .. Count(len, op, at) PROVE Entry(arr, op, at, put, i) \in held'
  <2>1. i \in DOMAIN Listing!profiles /\ Listing!profiles[i] = Entry(arr, op, at, put, i)
    BY ListIs DEF ListOf
  <2> QED
    BY <1>1, <2>1 DEF Listing!ToSet
<1>4. /\ op \in {"rest", "update", "append", "delete"}
      /\ op = "update" => at \in 1 .. len
      /\ op = "append" => at \in 1 .. Len(arr) /\ len \in {at - 1, at}
      /\ op = "delete" => at \in 1 .. len
  BY DEF SliceInv, UpdateInv, AppendInv, DeleteInv
<1>5. op \in {"update", "append"} => put \in held'
  <2>1. op \in {"update", "append"} => at \in 1 .. Count(len, op, at) /\ Entry(arr, op, at, put, at) = put
    BY <1>2, <1>4 DEF Count, Entry, SliceFacts
  <2> QED
    BY <1>3, <2>1
<1>6. ASSUME NEW i \in 1 .. len, i # GapNow PROVE arr[i] \in held'
  <2>1. CASE op = "rest"
    <3>1. i \in 1 .. Count(len, op, at) /\ Entry(arr, op, at, put, i) = arr[i]
      BY <2>1 DEF Count, Entry
    <3> QED
      BY <1>3, <3>1
  <2>2. CASE op \in {"update", "append"} /\ i # at
    <3>1. i \in 1 .. Count(len, op, at) /\ Entry(arr, op, at, put, i) = arr[i]
      BY <1>2, <1>4, <2>2 DEF Count, Entry, SliceFacts
    <3> QED
      BY <1>3, <3>1
  <2>3. CASE op = "append" /\ i = at
    BY <1>2, <1>4, <1>6, <2>3 DEF GapNow, SliceFacts
  <2>4. CASE op \in {"update", "delete"} /\ i = at
    BY <1>1, <2>4
  <2>5. CASE op = "delete" /\ i < at
    <3>1. i \in 1 .. Count(len, op, at) /\ Entry(arr, op, at, put, i) = arr[i]
      BY <1>2, <1>4, <2>5 DEF Count, Entry, SliceFacts
    <3> QED
      BY <1>3, <3>1
  <2>6. CASE op = "delete" /\ i > at
    <3>1. i - 1 \in 1 .. Count(len, op, at) /\ i - 1 >= at /\ i - 1 + 1 = i
      BY <1>2, <1>4, <2>6 DEF Count, SliceFacts
    <3>2. Entry(arr, op, at, put, i - 1) = arr[i]
      BY <2>6, <3>1 DEF Entry
    <3> QED
      BY <1>3, <3>1, <3>2
  <2>7. at \in Int \/ op = "rest"
    BY <1>4
  <2>8. op = "rest" \/ i < at \/ i = at \/ i > at
    BY <2>7
  <2> QED
    BY <1>4, <2>1, <2>2, <2>3, <2>4, <2>5, <2>6, <2>8
<1> QED
  BY <1>5, <1>6, MemberIsHeld

(* A row is read from a cell that was held. *)
LEMMA CellRead ==
  ASSUME SliceInv, ListingInv, listPc \in {"reading", "within"},
         Len(rows) < n, Len(rows) < Len(Listing!Array), NEW k, k = Len(rows) + 1
  PROVE  /\ Listing!Array[k] \in Cells /\ (k # gap => IsHeld(Listing!Array[k], held))
         /\ Len(rows) \in Nat /\ n \in Nat
<1>1. SliceFacts /\ Listing!Listing
  BY Slices DEF Listing!Listing
<1>2. Len(rows) \in Nat /\ n \in Nat /\ rows \in Seq(Cells)
  BY DEF ListingInv, RowsInv
<1>3. CASE old = <<>>
  <2>1. Listing!Array = arr /\ k \in 1 .. n /\ k \in 1 .. Len(arr)
    BY <1>1, <1>2, <1>3 DEF Listing!Array, SliceFacts
  <2> QED
    BY <1>1, <1>2, <1>3, <2>1 DEF ListingInv, ArrayInv, SliceFacts
<1>4. CASE old # <<>>
  <2>1. Listing!Array = old /\ old \in Seq(Cells)
    BY <1>1, <1>4 DEF Listing!Array, ListingInv, ArrayInv
  <2>2. k \in 1 .. Len(old)
    BY <1>2, <2>1
  <2> QED
    BY <1>1, <1>2, <1>4, <2>1, <2>2 DEF ListingInv, ArrayInv
<1> QED
  BY <1>3, <1>4

LEMMA ReadsListing ==
  ASSUME SliceInv, ListingInv, Listing!List
  PROVE  ListingInv'
<1>1. /\ SliceFacts /\ n \in Nat /\ rows \in Seq(Cells) /\ Len(rows) \in Nat
      /\ arr' = arr /\ len' = len /\ op' = op /\ at' = at /\ put' = put
  BY Slices, ReadersWriteNothing DEF ListingInv, RowsInv
<1>2. GapNow' = GapNow
  BY <1>1 DEF GapNow
<1>3. CASE Listing!ReadPointer
  <2>1. old' = old /\ n' = n /\ rows' = rows /\ part' = part /\ gap' = gap /\ grown' = grown
    BY <1>3 DEF Listing!ReadPointer
  <2>2. CASE listPc = "idle" /\ listPc' = "pointer" /\ Listing!Started
    <3>1. HoldsInv'
      BY <1>1, <1>2, <2>2, StartHolds DEF HoldsInv
    <3>2. ArrayInv'
      BY <1>1, <2>1, <2>2 DEF ArrayInv, ListingInv, RowsInv
    <3>3. RowsInv'
      BY <1>1, <2>1, <2>2 DEF RowsInv, ListingInv
    <3> QED
      BY <3>1, <3>2, <3>3 DEF ListingInv
  <2>3. CASE listPc = "length" /\ listPc' = "reading" /\ UNCHANGED <<held, stays>>
    <3>1. HoldsInv'
      BY <1>1, <1>2, <2>1, <2>3 DEF HoldsInv, ListingInv, Listing!Listing
    <3>2. ArrayInv'
      BY <1>1, <2>1, <2>3 DEF ArrayInv, ListingInv, RowsInv, Listing!Listing
    <3>3. RowsInv'
      BY <1>1, <2>1, <2>3 DEF RowsInv, ListingInv
    <3> QED
      BY <3>1, <3>2, <3>3 DEF ListingInv
  <2> QED
    BY <1>3, <2>2, <2>3 DEF Listing!ReadPointer
<1>4. CASE Listing!ReadLength
  <2>1. /\ old' = old /\ rows' = rows /\ part' = part /\ grown' = grown
        /\ n' = len /\ gap' = GapNow
    BY <1>4 DEF Listing!ReadLength, GapNow
  <2>2. len \in Nat /\ gap' \in {0, len} /\ len <= Len(arr)
    BY <1>1, <2>1 DEF GapNow, SliceFacts
  <2>3. CASE listPc = "idle" /\ listPc' = "length" /\ Listing!Started
    <3>1. HoldsInv'
      BY <1>1, <1>2, <2>3, StartHolds DEF HoldsInv
    <3>2. ArrayInv'
      BY <1>1, <2>1, <2>2, <2>3, StartHolds DEF ArrayInv, ListingInv, RowsInv
    <3>3. RowsInv'
      BY <1>1, <2>1, <2>2, <2>3 DEF RowsInv, ListingInv
    <3> QED
      BY <3>1, <3>2, <3>3 DEF ListingInv
  <2>4. CASE listPc = "pointer" /\ listPc' = "reading" /\ UNCHANGED <<held, stays>>
    <3>1. HoldsInv'
      BY <1>1, <1>2, <2>1, <2>4 DEF HoldsInv, ListingInv, Listing!Listing
    <3>2. ArrayInv'
      <4>1. \A i \in 1 .. len : i # gap' => IsHeld(arr[i], held)
        BY <2>1, <2>4 DEF HoldsInv, ListingInv, Listing!Listing
      <4>2. old # <<>> => /\ old \in Seq(Cells) /\ grown
                          /\ \A i \in 1 .. Len(old) : IsHeld(old[i], held)
        BY <2>4 DEF ArrayInv, RowsInv, ListingInv, Listing!Listing
      <4> QED
        BY <1>1, <2>1, <2>2, <2>4, <4>1, <4>2 DEF ArrayInv
    <3>3. RowsInv'
      BY <1>1, <2>1, <2>2, <2>4 DEF RowsInv, ListingInv
    <3> QED
      BY <3>1, <3>2, <3>3 DEF ListingInv
  <2> QED
    BY <1>4, <2>3, <2>4 DEF Listing!ReadLength
<1>5. CASE Listing!ReadId
  <2>1. /\ listPc = "reading" /\ Len(rows) < n /\ Len(rows) < Len(Listing!Array)
        /\ part' = Listing!Array[Len(rows) + 1]["id"] /\ listPc' = "within"
        /\ old' = old /\ n' = n /\ rows' = rows /\ held' = held /\ gap' = gap /\ grown' = grown
    BY <1>5 DEF Listing!ReadId, Listing!More, Listing!history
  <2>2. /\ Listing!Array[Len(rows) + 1] \in Cells
        /\ Len(rows) + 1 # gap => IsHeld(Listing!Array[Len(rows) + 1], held)
    BY <2>1, CellRead
  <2>3. part' \in Data /\ (Len(rows) + 1 # gap => \E p \in held : part' = p["id"])
    BY <2>1, <2>2 DEF Cells, IsHeld, Listing!Words
  <2>4. Listing!Array' = Listing!Array
    BY <1>1, <2>1 DEF Listing!Array
  <2>5. HoldsInv' /\ ArrayInv'
    BY <1>1, <1>2, <2>1 DEF HoldsInv, ArrayInv, ListingInv, Listing!Listing
  <2>6. RowsInv'
    BY <1>1, <2>1, <2>3, <2>4 DEF RowsInv, ListingInv
  <2> QED
    BY <2>5, <2>6 DEF ListingInv
<1>6. CASE Listing!ReadRest
  <2> DEFINE k == Len(rows) + 1
             row == [Listing!Array[k] EXCEPT !["id"] = part]
  <2>1. /\ listPc = "within" /\ rows' = Append(rows, row) /\ listPc' = "reading"
        /\ old' = old /\ n' = n /\ held' = held /\ gap' = gap /\ grown' = grown
    BY <1>6 DEF Listing!ReadRest, Listing!history
  <2>2. /\ Len(rows) < n /\ Len(rows) < Len(Listing!Array) /\ part \in Data
        /\ k # gap => \E p \in held : part = p["id"]
    BY <2>1 DEF ListingInv, RowsInv
  <2>3. Listing!Array[k] \in Cells /\ (k # gap => IsHeld(Listing!Array[k], held))
    BY <2>1, <2>2, CellRead
  <2>4. row \in Cells /\ row["id"] = part /\ row["rest"] = Listing!Array[k]["rest"]
    BY <2>2, <2>3 DEF Cells, Listing!Words
  <2>5. k # gap => IsHeld(row, held)
    BY <2>2, <2>3, <2>4 DEF IsHeld, Listing!Words
  <2> HIDE DEF row
  <2>6. /\ rows' \in Seq(Cells) /\ Len(rows') = k
        /\ \A i \in 1 .. k : rows'[i] = IF i = k THEN row ELSE rows[i]
    BY <1>1, <2>1, <2>4
  <2>7. \A i \in 1 .. k : i # gap => IsHeld(rows'[i], held)
    <3>1. \A i \in 1 .. k : i = k \/ i \in 1 .. Len(rows)
      BY <1>1
    <3> QED
      BY <2>5, <2>6, <3>1 DEF RowsInv, ListingInv
  <2>8. HoldsInv' /\ ArrayInv'
    BY <1>1, <1>2, <2>1 DEF HoldsInv, ArrayInv, ListingInv, Listing!Listing
  <2> HIDE DEF k
  <2>9. RowsInv'
    BY <1>1, <2>1, <2>6, <2>7 DEF RowsInv, ListingInv
  <2> QED
    BY <2>8, <2>9 DEF ListingInv
<1>7. CASE Listing!ReadBeyond
  <2>1. /\ listPc = "reading" /\ Len(rows) < n /\ Len(rows) >= Len(Listing!Array) /\ listPc' = "beyond"
        /\ old' = old /\ n' = n /\ rows' = rows /\ held' = held /\ gap' = gap /\ grown' = grown
    BY <1>7 DEF Listing!ReadBeyond, Listing!More, Listing!history
  <2>2. grown
    <3>1. CASE old = <<>>
      BY <1>1, <2>1, <3>1 DEF ListingInv, ArrayInv, Listing!Array, Listing!Listing, SliceFacts
    <3>2. CASE old # <<>>
      <4>1. old \in Seq(Cells) /\ (n > Len(old) => grown) /\ Listing!Array = old
        BY <2>1, <3>2 DEF ListingInv, ArrayInv, Listing!Array, Listing!Listing
      <4> QED
        BY <1>1, <2>1, <4>1
    <3> QED
      BY <3>1, <3>2
  <2>3. HoldsInv' /\ ArrayInv'
    BY <1>1, <1>2, <2>1 DEF HoldsInv, ArrayInv, ListingInv, Listing!Listing
  <2>4. RowsInv'
    BY <1>1, <2>1, <2>2 DEF RowsInv, ListingInv
  <2> QED
    BY <2>3, <2>4 DEF ListingInv
<1>8. CASE Listing!Answer
  <2>1. /\ listPc' = "idle" /\ old' = <<>> /\ n' = 0 /\ rows' = <<>> /\ gap' = 0
    BY <1>8 DEF Listing!Answer
  <2>2. rows' \in Seq(Cells) /\ Len(rows') = 0
    BY <2>1
  <2> QED
    BY <2>1, <2>2 DEF ListingInv, HoldsInv, ArrayInv, RowsInv, Listing!Listing
<1> QED
  BY <1>3, <1>4, <1>5, <1>6, <1>7, <1>8 DEF Listing!List

LEMMA ListingHolds == Listing!Spec => [](SliceInv /\ ListingInv)
<1>1. ASSUME Listing!Init PROVE SliceInv /\ ListingInv
  <2>1. listPc = "idle" /\ old = <<>> /\ n = 0 /\ rows = <<>> /\ gap = 0
    BY <1>1 DEF Listing!Init
  <2>2. rows \in Seq(Cells) /\ Len(rows) = 0
    BY <2>1
  <2> QED
    BY <1>1, <2>1, <2>2, StartOfSlice DEF ListingInv, HoldsInv, ArrayInv, RowsInv, Listing!Listing
<1>2. ASSUME SliceInv, ListingInv, [Listing!Next]_(Listing!vars) PROVE SliceInv' /\ ListingInv'
  <2>1. CASE Listing!Next
    BY <1>2, <2>1, StepOfSlice, WritesListing, ReadsListing DEF Listing!Next
  <2>2. CASE UNCHANGED Listing!vars
    <3>1. ListingInv'
      BY <1>2, <2>2 DEF Listing!vars, Listing!store, Listing!change, Listing!listing, Listing!history,
                        ListingInv, HoldsInv, ArrayInv, RowsInv, GapNow, Listing!Listing, Listing!Array
    <3> QED
      BY <1>2, <3>1, StepOfSlice
  <2> QED
    BY <1>2, <2>1, <2>2
<1> QED
  BY <1>1, <1>2, PTL DEF Listing!Spec

(* Every word of an answer is of a profile held meanwhile, but in the row    *)
(* that an append had made and not filled, and the listing leaves the array  *)
(* only where the list moved between the two reads (handlers.go:188).        *)
THEOREM NothingIsInvented == Listing!Spec => []NothingInvented
<1>1. ListingInv => NothingInvented
  <2> SUFFICES ASSUME ListingInv PROVE NothingInvented
    OBVIOUS
  <2>1. DOMAIN rows = 1 .. Len(rows)
    BY DEF ListingInv, RowsInv
  <2> QED
    BY <2>1 DEF ListingInv, RowsInv, IsHeld, NothingInvented, Listing!NothingInvented
<1> QED
  BY <1>1, ListingHolds, PTL

-----------------------------------------------------------------------------
(* What the listing does not miss. *)

(* No change reaches the first cells of the slice. *)
Front == IF op = "rest" THEN len ELSE at - 1

StaysInv ==
  /\ stays \in Seq(Cells)
  /\ listPc = "idle" => stays = <<>>
  /\ listPc # "idle" =>
       /\ Len(stays) <= Front /\ \A i \in 1 .. Len(stays) : arr[i] = stays[i]
       /\ old # <<>> => Len(stays) <= Len(old) /\ \A i \in 1 .. Len(stays) : old[i] = stays[i]
       /\ listPc # "pointer" => Len(stays) <= n
       /\ \A i \in 1 .. Len(stays) : i <= Len(rows) => rows[i] = stays[i]
       /\ listPc = "within" /\ Len(rows) + 1 <= Len(stays) => part = stays[Len(rows) + 1]["id"]

LEMMA FrontIs ==
  ASSUME SliceInv
  PROVE  Front \in Nat /\ Front <= len /\ len \in Nat /\ len <= Len(arr) /\ Len(arr) \in Nat
BY Slices DEF Front, SliceInv, UpdateInv, AppendInv, DeleteInv, SliceFacts

(* What a change leaves of the cells that stay. *)
LEMMA ChangeStays ==
  ASSUME SliceInv, stays \in Seq(Cells), NEW k \in Nat, k > 0, Listing!ChangesAt(k)
  PROVE  /\ stays' \in Seq(Cells) /\ Len(stays') <= Len(stays) /\ Len(stays') <= k - 1
         /\ \A i \in 1 .. Len(stays') : stays'[i] = stays[i]
<1>1. Len(stays) \in Nat /\ \A i \in 1 .. Len(stays) : stays[i] \in Cells
  OBVIOUS
<1>2. CASE k <= Len(stays)
  <2>1. stays' = SubSeq(stays, 1, k - 1)
    BY <1>2 DEF Listing!ChangesAt
  <2>2. 1 \in Int /\ k - 1 \in Int /\ \A i \in 1 .. k - 1 : stays[i] \in Cells
    BY <1>1, <1>2
  <2>3. /\ stays' \in Seq(Cells)
        /\ Len(stays') = IF 1 <= k - 1 THEN k - 1 - 1 + 1 ELSE 0
        /\ \A i \in 1 .. k - 1 - 1 + 1 : stays'[i] = stays[1 + i - 1]
    BY <2>1, <2>2, SubSeqProperties
  <2>4. Len(stays') = k - 1
    BY <2>3
  <2>5. ASSUME NEW i \in 1 .. k - 1 PROVE stays'[i] = stays[i]
    <3>1. i \in 1 .. k - 1 - 1 + 1 /\ 1 + i - 1 = i
      OBVIOUS
    <3> QED
      BY <2>3, <3>1
  <2> QED
    BY <1>1, <1>2, <2>3, <2>4, <2>5
<1>3. CASE ~(k <= Len(stays))
  <2>1. stays' = stays
    BY <1>3 DEF Listing!ChangesAt
  <2> QED
    BY <1>1, <1>3, <2>1
<1> QED
  BY <1>2, <1>3

(* Whatever is written, the cells that stay are in front of it. *)
LEMMA WriteStays ==
  ASSUME SliceInv, StaysInv, Listing!Listing, Listing!Write
  PROVE  /\ stays' \in Seq(Cells) /\ Len(stays') <= Len(stays) /\ Len(stays') <= Front'
         /\ \A i \in 1 .. Len(stays') : stays'[i] = stays[i] /\ arr'[i] = arr[i]
<1>1. /\ Front \in Nat /\ Front <= len /\ len \in Nat /\ len <= Len(arr) /\ Len(arr) \in Nat
      /\ stays \in Seq(Cells) /\ Len(stays) \in Nat /\ Len(stays) <= Front
  BY FrontIs DEF StaysInv, Listing!Listing
<1>2. ASSUME NEW p \in ListProfiles, Listing!Update(p)
      PROVE  /\ stays' \in Seq(Cells) /\ Len(stays') <= Len(stays) /\ Len(stays') <= Front'
             /\ \A i \in 1 .. Len(stays') : stays'[i] = stays[i] /\ arr'[i] = arr[i]
  <2>1. PICK k \in 1 .. len : op' = "update" /\ at' = k /\ arr' = arr /\ Listing!ChangesAt(k)
    BY <1>2 DEF Listing!Update, Listing!Begin
  <2>2. Front' = k - 1
    BY <2>1 DEF Front
  <2> QED
    BY <1>1, <2>1, <2>2, ChangeStays
<1>3. ASSUME NEW id, Listing!DeleteStart(id)
      PROVE  /\ stays' \in Seq(Cells) /\ Len(stays') <= Len(stays) /\ Len(stays') <= Front'
             /\ \A i \in 1 .. Len(stays') : stays'[i] = stays[i] /\ arr'[i] = arr[i]
  <2>1. PICK k \in 1 .. len : op' = "delete" /\ at' = k /\ arr' = arr /\ Listing!ChangesAt(k)
    BY <1>3 DEF Listing!DeleteStart, Listing!Begin
  <2>2. Front' = k - 1
    BY <2>1 DEF Front
  <2> QED
    BY <1>1, <2>1, <2>2, ChangeStays
<1>4. ASSUME NEW p \in ListProfiles, Listing!AppendStart(p)
      PROVE  /\ stays' = stays /\ Len(stays) <= Front'
             /\ \A i \in 1 .. Len(stays) : arr'[i] = arr[i]
  <2>1. stays' = stays /\ op = "rest" /\ op' = "append" /\ at' = len + 1
        /\ \A i \in 1 .. Len(arr) : arr'[i] = arr[i]
    BY <1>4, AppendSlice DEF Listing!AppendStart
  <2>2. Front' = len
    BY <1>1, <2>1 DEF Front
  <2> QED
    BY <1>1, <2>1, <2>2
<1>5. ASSUME NEW w \in Listing!Words, Listing!StoreWord(w) \/ Listing!ShiftWord(w)
      PROVE  /\ stays' = stays /\ Len(stays) <= Front'
             /\ \A i \in 1 .. Len(stays) : arr'[i] = arr[i]
  <2>1. /\ stays' = stays /\ at \in 1 .. len /\ op # "rest" /\ len' = len
        /\ \A i \in 1 .. Len(arr) : i # at => arr'[i] = arr[i]
        /\ op' = "rest" \/ at' \in {at, at + 1}
    BY <1>5, StoreSlice, ShiftSlice DEF Stored, Listing!StoreWord, Listing!ShiftWord, Listing!history
  <2>2. Front = at - 1 /\ Front <= Front'
    BY <1>1, <2>1 DEF Front
  <2>3. Len(stays) <= Front'
    BY <1>1, <2>1, <2>2 DEF Front
  <2> QED
    BY <1>1, <2>1, <2>2, <2>3
<1>6. CASE Listing!Extend \/ Listing!DeleteEnd
  <2>1. stays' = stays /\ arr' = arr
    BY <1>6 DEF Listing!Extend, Listing!DeleteEnd, Listing!history
  <2>2. Front' = Front
    <3>1. CASE Listing!Extend
      BY <3>1 DEF Listing!Extend, Listing!change, Front
    <3>2. CASE Listing!DeleteEnd
      BY <3>2, EndSlice DEF Front
    <3> QED
      BY <1>6, <3>1, <3>2
  <2> QED
    BY <1>1, <2>1, <2>2
<1> QED
  BY <1>1, <1>2, <1>3, <1>4, <1>5, <1>6 DEF Listing!Write

LEMMA WritesStay ==
  ASSUME SliceInv, ListingInv, StaysInv, Listing!Write
  PROVE  StaysInv'
<1>1. CASE listPc = "idle"
  <2>1. listPc' = "idle"
    BY <1>1, WritesAlone DEF ListingInv, RowsInv
  <2>2. stays' = <<>>
    <3>1. stays = <<>> /\ Len(stays) = 0
      BY <1>1 DEF StaysInv
    <3>2. stays' = stays \/ \E k \in 1 .. len : Listing!ChangesAt(k)
      BY DEF Listing!Write, Listing!Update, Listing!AppendStart, Listing!Extend, Listing!StoreWord,
             Listing!DeleteStart, Listing!ShiftWord, Listing!DeleteEnd, Listing!history
    <3> QED
      BY <3>1, <3>2 DEF Listing!ChangesAt
  <2> QED
    BY <2>1, <2>2 DEF StaysInv
<1>2. CASE listPc # "idle"
  <2>1. /\ stays' \in Seq(Cells) /\ Len(stays') <= Len(stays) /\ Len(stays') <= Front'
        /\ \A i \in 1 .. Len(stays') : stays'[i] = stays[i] /\ arr'[i] = arr[i]
        /\ Len(stays') \in Nat
    BY <1>2, WriteStays DEF Listing!Listing
  <2>2. Keeps
    BY <1>2, WritesHold DEF ListingInv, Listing!Listing
  <2>3. /\ n' = n /\ rows' = rows /\ part' = part /\ listPc' = listPc
        /\ old' = old \/ (old = <<>> /\ old' = arr /\ len = Len(arr))
    BY <2>2 DEF Keeps, LeavesOld
  <2>4. /\ n \in Nat /\ Len(rows) \in Nat /\ stays \in Seq(Cells) /\ Len(stays) \in Nat
        /\ Front <= len /\ Front \in Nat /\ len \in Nat /\ Len(arr) \in Nat
    BY FrontIs DEF ListingInv, RowsInv, StaysInv
  <2>5. \A i \in 1 .. Len(stays') : i \in 1 .. Len(stays)
    BY <2>1, <2>4
  <2>6. \A i \in 1 .. Len(stays') : arr'[i] = stays'[i]
    BY <1>2, <2>1, <2>5 DEF StaysInv
  <2>7. old' # <<>> => Len(stays') <= Len(old') /\ \A i \in 1 .. Len(stays') : old'[i] = stays'[i]
    <3>1. CASE old' = old
      <4>1. old # <<>> => /\ old \in Seq(Cells) /\ Len(old) \in Nat /\ Len(stays) <= Len(old)
                          /\ \A i \in 1 .. Len(stays) : old[i] = stays[i]
        BY <1>2 DEF StaysInv, ListingInv, ArrayInv, Listing!Listing
      <4> QED
        BY <2>1, <2>4, <2>5, <3>1, <4>1
    <3>2. CASE old = <<>> /\ old' = arr /\ len = Len(arr)
      BY <1>2, <2>1, <2>4, <2>5, <3>2 DEF StaysInv
    <3> QED
      BY <2>3, <3>1, <3>2
  <2>8. listPc # "pointer" => Len(stays') <= n
    BY <1>2, <2>1, <2>4 DEF StaysInv
  <2>9. \A i \in 1 .. Len(stays') : i <= Len(rows) => rows[i] = stays'[i]
    BY <1>2, <2>1, <2>5 DEF StaysInv
  <2>10. listPc = "within" /\ Len(rows) + 1 <= Len(stays') => part = stays'[Len(rows) + 1]["id"]
    <3>1. Len(rows) + 1 <= Len(stays') =>
            Len(rows) + 1 <= Len(stays) /\ stays'[Len(rows) + 1] = stays[Len(rows) + 1]
      BY <2>1, <2>4
    <3> QED
      BY <1>2, <3>1 DEF StaysInv
  <2> QED
    BY <1>2, <2>1, <2>3, <2>6, <2>7, <2>8, <2>9, <2>10 DEF StaysInv
<1> QED
  BY <1>1, <1>2

(* Of the cells that stay a row is what they hold. *)
LEMMA StayingRead ==
  ASSUME SliceInv, ListingInv, StaysInv, listPc \in {"reading", "within"},
         NEW k, k = Len(rows) + 1, k <= Len(stays)
  PROVE  Listing!Array[k] = stays[k] /\ k <= Len(Listing!Array) /\ k \in 1 .. Len(stays)
<1>1. /\ Len(rows) \in Nat /\ Len(stays) \in Nat /\ stays \in Seq(Cells)
      /\ Front \in Nat /\ Front <= len /\ len \in Nat /\ len <= Len(arr) /\ Len(arr) \in Nat
  BY FrontIs DEF ListingInv, RowsInv, StaysInv
<1>2. k \in 1 .. Len(stays)
  BY <1>1
<1>3. CASE old = <<>>
  BY <1>1, <1>2, <1>3 DEF StaysInv, Listing!Array
<1>4. CASE old # <<>>
  <2>1. old \in Seq(Cells) /\ Len(old) \in Nat
    BY <1>4 DEF ListingInv, ArrayInv, Listing!Listing
  <2> QED
    BY <1>1, <1>2, <1>4, <2>1 DEF StaysInv, Listing!Array
<1> QED
  BY <1>3, <1>4

LEMMA ReadsStay ==
  ASSUME SliceInv, ListingInv, StaysInv, Listing!List
  PROVE  StaysInv'
<1>1. /\ n \in Nat /\ rows \in Seq(Cells) /\ Len(rows) \in Nat
      /\ stays \in Seq(Cells) /\ Len(stays) \in Nat
      /\ Front \in Nat /\ Front <= len /\ len \in Nat /\ len <= Len(arr) /\ Len(arr) \in Nat
      /\ \A i \in 1 .. Len(arr) : arr[i] \in Cells
      /\ arr' = arr /\ len' = len /\ op' = op /\ at' = at
  BY FrontIs, Slices, ReadersWriteNothing DEF ListingInv, RowsInv, StaysInv, SliceFacts
<1>2. Front' = Front
  BY <1>1 DEF Front
<1>3. ASSUME Listing!Started
      PROVE  /\ stays' \in Seq(Cells) /\ Len(stays') = Front
             /\ \A i \in 1 .. Front : stays'[i] = arr[i]
  <2>1. stays' = SubSeq(arr, 1, Front)
    BY <1>3 DEF Listing!Started, Front
  <2>2. 1 \in Int /\ Front \in Int /\ \A i \in 1 .. Front : arr[i] \in Cells
    BY <1>1
  <2>3. /\ stays' \in Seq(Cells)
        /\ Len(stays') = IF 1 <= Front THEN Front - 1 + 1 ELSE 0
        /\ \A i \in 1 .. Front - 1 + 1 : stays'[i] = arr[1 + i - 1]
    BY <2>1, <2>2, SubSeqProperties
  <2>4. Len(stays') = Front
    BY <1>1, <2>3
  <2>5. ASSUME NEW i \in 1 .. Front PROVE stays'[i] = arr[i]
    <3>1. i \in 1 .. Front - 1 + 1 /\ 1 + i - 1 = i
      BY <1>1
    <3> QED
      BY <2>3, <3>1
  <2> QED
    BY <2>3, <2>4, <2>5
<1>4. CASE Listing!ReadPointer
  <2>1. old' = old /\ n' = n /\ rows' = rows /\ part' = part
    BY <1>4 DEF Listing!ReadPointer
  <2>2. CASE listPc = "idle" /\ listPc' = "pointer" /\ Listing!Started
    <3>1. old = <<>> /\ rows = <<>> /\ Len(rows) = 0
      BY <2>2 DEF ListingInv, RowsInv
    <3> QED
      BY <1>1, <1>2, <1>3, <2>1, <2>2, <3>1 DEF StaysInv
  <2>3. CASE listPc = "length" /\ listPc' = "reading" /\ UNCHANGED <<held, stays>>
    BY <1>1, <1>2, <2>1, <2>3 DEF StaysInv
  <2> QED
    BY <1>4, <2>2, <2>3 DEF Listing!ReadPointer
<1>5. CASE Listing!ReadLength
  <2>1. old' = old /\ n' = len /\ rows' = rows /\ part' = part
    BY <1>5 DEF Listing!ReadLength
  <2>2. CASE listPc = "idle" /\ listPc' = "length" /\ Listing!Started
    <3>1. old = <<>> /\ rows = <<>> /\ Len(rows) = 0
      BY <2>2 DEF ListingInv, RowsInv
    <3> QED
      BY <1>1, <1>2, <1>3, <2>1, <2>2, <3>1 DEF StaysInv
  <2>3. CASE listPc = "pointer" /\ listPc' = "reading" /\ UNCHANGED <<held, stays>>
    BY <1>1, <1>2, <2>1, <2>3 DEF StaysInv
  <2> QED
    BY <1>5, <2>2, <2>3 DEF Listing!ReadLength
<1>6. CASE Listing!ReadId
  <2>1. /\ listPc = "reading" /\ listPc' = "within" /\ part' = Listing!Array[Len(rows) + 1]["id"]
        /\ old' = old /\ n' = n /\ rows' = rows /\ stays' = stays
    BY <1>6 DEF Listing!ReadId, Listing!history
  <2>2. Len(rows) + 1 <= Len(stays) => part' = stays[Len(rows) + 1]["id"]
    BY <2>1, StayingRead
  <2> QED
    BY <1>1, <1>2, <2>1, <2>2 DEF StaysInv
<1>7. CASE Listing!ReadRest
  <2> DEFINE k == Len(rows) + 1
             row == [Listing!Array[k] EXCEPT !["id"] = part]
  <2>1. /\ listPc = "within" /\ listPc' = "reading" /\ rows' = Append(rows, row)
        /\ old' = old /\ n' = n /\ stays' = stays
    BY <1>7 DEF Listing!ReadRest, Listing!history
  <2>2. row \in Cells
    <3>1. Listing!Array[k] \in Cells /\ part \in Data
      BY <2>1, CellRead DEF ListingInv, RowsInv
    <3> QED
      BY <3>1 DEF Cells
  <2>3. k <= Len(stays) => row = stays[k]
    <3>1. k <= Len(stays) => Listing!Array[k] = stays[k] /\ k \in 1 .. Len(stays) /\ part = stays[k]["id"]
      BY <2>1, StayingRead DEF StaysInv
    <3>2. k \in 1 .. Len(stays) => stays[k] \in Cells
      BY <1>1
    <3> QED
      BY <3>1, <3>2 DEF Cells
  <2> HIDE DEF row
  <2>4. Len(rows') = k /\ \A i \in 1 .. k : rows'[i] = IF i = k THEN row ELSE rows[i]
    BY <1>1, <2>1, <2>2
  <2>5. \A i \in 1 .. Len(stays) : i <= k => rows'[i] = stays[i]
    <3> SUFFICES ASSUME NEW i \in 1 .. Len(stays), i <= k PROVE rows'[i] = stays[i]
      OBVIOUS
    <3>1. CASE i = k
      BY <1>1, <2>3, <2>4, <3>1
    <3>2. CASE i # k
      <4>1. i \in 1 .. k /\ i <= Len(rows)
        BY <1>1, <3>2
      <4> QED
        BY <2>1, <2>4, <3>2, <4>1 DEF StaysInv
    <3> QED
      BY <3>1, <3>2
  <2> HIDE DEF k
  <2> QED
    BY <1>1, <1>2, <2>1, <2>4, <2>5 DEF StaysInv
<1>8. CASE Listing!ReadBeyond
  <2>1. /\ listPc = "reading" /\ listPc' = "beyond"
        /\ old' = old /\ n' = n /\ rows' = rows /\ stays' = stays
    BY <1>8 DEF Listing!ReadBeyond, Listing!history
  <2> QED
    BY <1>1, <1>2, <2>1 DEF StaysInv
<1>9. CASE Listing!Answer
  BY <1>9 DEF Listing!Answer, StaysInv
<1> QED
  BY <1>4, <1>5, <1>6, <1>7, <1>8, <1>9 DEF Listing!List

(* An answer begins with what was listed when it began, whole and in place,  *)
(* up to the first profile that an update or a deletion has reached          *)
(* (handlers.go:186-189).                                                    *)
THEOREM NothingIsMissing == Listing!Spec => []NoneMissing
<1>1. ASSUME Listing!Init PROVE StaysInv
  <2>1. listPc = "idle" /\ stays = <<>>
    BY <1>1 DEF Listing!Init
  <2> QED
    BY <2>1 DEF StaysInv
<1>2. ASSUME SliceInv, ListingInv, StaysInv, [Listing!Next]_(Listing!vars) PROVE StaysInv'
  <2>1. CASE Listing!Next
    BY <1>2, <2>1, WritesStay, ReadsStay DEF Listing!Next
  <2>2. CASE UNCHANGED Listing!vars
    BY <1>2, <2>2 DEF Listing!vars, Listing!store, Listing!change, Listing!listing, Listing!history,
                      StaysInv, Front
  <2> QED
    BY <1>2, <2>1, <2>2
<1>3. ListingInv /\ StaysInv => NoneMissing
  <2> SUFFICES ASSUME ListingInv, StaysInv, NEW i \in DOMAIN stays
               PROVE  /\ i \in DOMAIN rows => rows[i] = stays[i]
                      /\ listPc = "reading" /\ ~Listing!More => i \in DOMAIN rows
    BY DEF NoneMissing, Listing!NoneMissing
  <2>1. /\ i \in 1 .. Len(stays) /\ Len(stays) \in Nat /\ listPc # "idle"
        /\ DOMAIN rows = 1 .. Len(rows) /\ Len(rows) \in Nat /\ n \in Nat
    BY DEF ListingInv, RowsInv, StaysInv
  <2> QED
    BY <2>1 DEF StaysInv, Listing!More
<1> QED
  BY <1>1, <1>2, <1>3, ListingHolds, PTL DEF Listing!Spec

-----------------------------------------------------------------------------
(* The configuration. *)

IsConfig(c) == c = [f \in Config!Fields |-> c[f]]

Matches == ~file.rest /\ Config!LoadConfig(file) = IF cfg.keep THEN cfg ELSE Config!Expanded(cfg)

TypeInv ==
  /\ IsConfig(cfg)
  /\ cfgPc \in [Callers -> {"idle", "copy", "save", "open", "write"}]
  /\ draft = [c \in Callers |-> draft[c]]

(* An update that is alone has the file to itself, and writes what memory    *)
(* holds.                                                                    *)
AloneInv ==
  alone =>
    /\ up
    /\ Config!Quiet => Matches
    /\ \A c, d \in Callers : cfgPc[c] # "idle" /\ cfgPc[d] # "idle" => c = d
    /\ \A c \in Callers : /\ cfgPc[c] \in {"open", "write"} => draft[c] = cfg
                          /\ cfgPc[c] = "write" => file = Config!Empty

DownInv == ~up => Config!Quiet

ConfigInv == TypeInv /\ AloneInv /\ DownInv

(* What a boot makes of a file is a configuration, and a boot that expands   *)
(* its references leaves none to expand.                                     *)
LEMMA LoadIsConfig ==
  ASSUME NEW f
  PROVE  /\ IsConfig(Config!LoadConfig(f))
         /\ ~Config!LoadConfig(f).keep => Config!Expanded(Config!LoadConfig(f)) = Config!LoadConfig(f)
<1>1. Config!Default["url"] = "plain"
  BY DEF Config!Default
<1>2. IsConfig(Config!LoadConfig(f))
  BY DEF Config!LoadConfig, Config!Over, IsConfig
<1>3. CASE Config!KeepsRefs(f)
  <2>1. Config!LoadConfig(f) = Config!Over(f.text)
    BY <1>3 DEF Config!LoadConfig
  <2>2. Config!LoadConfig(f).keep
    BY <1>3, <2>1 DEF Config!KeepsRefs, Config!Over, Config!Fields
  <2> QED
    BY <1>2, <2>2
<1>4. CASE ~Config!KeepsRefs(f)
  <2>1. Config!LoadConfig(f) = Config!Over(Config!Expanded(f.text))
    BY <1>4 DEF Config!LoadConfig
  <2>2. Config!LoadConfig(f)["url"] # "ref"
    BY <1>1, <2>1 DEF Config!Expanded, Config!Over, Config!Fields
  <2>3. Config!Expanded(Config!LoadConfig(f)) = [x \in Config!Fields |-> Config!LoadConfig(f)[x]]
    <3>1. DOMAIN Config!LoadConfig(f) = Config!Fields
      BY <2>1 DEF Config!Over
    <3> HIDE DEF Config!LoadConfig
    <3> QED
      BY <2>2, <3>1 DEF Config!Expanded
  <2> QED
    BY <1>2, <2>3 DEF IsConfig
<1> QED
  BY <1>3, <1>4

(* What Save writes is loaded as it is, with its references or without.      *)
LEMMA LoadedIsSaved ==
  ASSUME NEW c, IsConfig(c), NEW f, f.text = c, f.numref = FALSE
  PROVE  Config!LoadConfig(f) = IF c.keep THEN c ELSE Config!Expanded(c)
<1>1. DOMAIN c = Config!Fields
  BY DEF IsConfig
<1>2. Config!KeepsRefs(f) <=> c.keep
  BY <1>1 DEF Config!KeepsRefs, Config!Fields
<1>3. CASE c.keep
  BY <1>1, <1>2, <1>3 DEF Config!LoadConfig, Config!Over, IsConfig
<1>4. CASE ~c.keep
  <2>1. DOMAIN Config!Expanded(c) = Config!Fields /\ Config!Expanded(c) = [x \in Config!Fields |-> Config!Expanded(c)[x]]
    BY <1>1 DEF Config!Expanded
  <2> QED
    BY <1>2, <1>4, <2>1 DEF Config!LoadConfig, Config!Over
<1> QED
  BY <1>3, <1>4

LEMMA UpdateKeeps ==
  ASSUME ConfigInv, NEW c \in Callers, Config!UpdateConfig(c)
  PROVE  ConfigInv'
<1>1. CASE Config!Copy(c)
  <2>1. PICK f \in left[c] : cfg' = [cfg EXCEPT ![f] = draft[c][f]]
    BY <1>1 DEF Config!Copy
  <2>2. /\ cfgPc[c] = "copy" /\ cfgPc'[c] \in {"save", "copy"}
        /\ \A d \in Callers \ {c} : cfgPc'[d] = cfgPc[d]
        /\ cfgPc' \in [Callers -> {"idle", "copy", "save", "open", "write"}]
        /\ UNCHANGED <<file, draft, up, alone>>
    BY <1>1 DEF Config!Copy, ConfigInv, TypeInv
  <2>3. TypeInv'
    BY <2>1, <2>2 DEF ConfigInv, TypeInv, IsConfig
  <2>4. ~Config!Quiet /\ ~Config!Quiet'
    BY <2>2 DEF Config!Quiet
  <2>5. AloneInv'
    <3> SUFFICES ASSUME alone PROVE AloneInv'
      BY <2>2 DEF AloneInv
    <3>1. \A d \in Callers \ {c} : cfgPc[d] = "idle"
      BY <2>2 DEF ConfigInv, AloneInv
    <3> QED
      BY <2>2, <2>4, <3>1 DEF ConfigInv, AloneInv
  <2> QED
    BY <2>2, <2>3, <2>4, <2>5 DEF ConfigInv, DownInv
<1>2. CASE Config!Marshal(c)
  <2>1. /\ cfgPc[c] = "save" /\ draft' = [draft EXCEPT ![c] = cfg]
        /\ cfgPc' = [cfgPc EXCEPT ![c] = "open"]
        /\ UNCHANGED <<cfg, file, up, alone>>
    BY <1>2 DEF Config!Marshal
  <2>2. TypeInv' /\ draft'[c] = cfg /\ cfgPc'[c] = "open" /\ \A d \in Callers \ {c} : cfgPc'[d] = cfgPc[d]
    BY <2>1 DEF ConfigInv, TypeInv
  <2>3. ~Config!Quiet /\ ~Config!Quiet'
    BY <2>1, <2>2 DEF Config!Quiet
  <2>4. AloneInv'
    <3> SUFFICES ASSUME alone PROVE AloneInv'
      BY <2>1 DEF AloneInv
    <3>1. \A d \in Callers \ {c} : cfgPc[d] = "idle"
      BY <2>1 DEF ConfigInv, AloneInv
    <3> QED
      BY <2>1, <2>2, <2>3, <3>1 DEF ConfigInv, AloneInv
  <2> QED
    BY <2>1, <2>2, <2>3, <2>4 DEF ConfigInv, DownInv
<1>3. CASE Config!Open(c)
  <2>1. /\ cfgPc[c] = "open" /\ file' = Config!Empty
        /\ cfgPc' = [cfgPc EXCEPT ![c] = "write"]
        /\ UNCHANGED <<cfg, draft, up, alone>>
    BY <1>3 DEF Config!Open
  <2>2. TypeInv' /\ cfgPc'[c] = "write" /\ \A d \in Callers \ {c} : cfgPc'[d] = cfgPc[d]
    BY <2>1 DEF ConfigInv, TypeInv
  <2>3. ~Config!Quiet /\ ~Config!Quiet'
    BY <2>1, <2>2 DEF Config!Quiet
  <2>4. AloneInv'
    <3> SUFFICES ASSUME alone PROVE AloneInv'
      BY <2>1 DEF AloneInv
    <3>1. \A d \in Callers \ {c} : cfgPc[d] = "idle"
      BY <2>1 DEF ConfigInv, AloneInv
    <3> QED
      BY <2>1, <2>2, <2>3, <3>1 DEF ConfigInv, AloneInv
  <2> QED
    BY <2>1, <2>2, <2>3, <2>4 DEF ConfigInv, DownInv
<1>4. CASE Config!Write(c)
  <2>1. PICK rest \in IF file.text \in {<<>>, draft[c]} THEN {file.rest} ELSE BOOLEAN :
          file' = [text |-> draft[c], numref |-> FALSE, rest |-> rest]
    BY <1>4 DEF Config!Write
  <2>2. /\ cfgPc[c] = "write" /\ cfgPc' = [cfgPc EXCEPT ![c] = "idle"]
        /\ draft' = [draft EXCEPT ![c] = Config!Default]
        /\ UNCHANGED <<cfg, up, alone>>
    BY <1>4 DEF Config!Write
  <2>3. ~Config!Quiet /\ up
    BY <2>2 DEF Config!Quiet, ConfigInv, DownInv
  <2>4. /\ cfgPc' \in [Callers -> {"idle", "copy", "save", "open", "write"}]
        /\ draft' = [d \in Callers |-> draft'[d]]
    BY <2>2 DEF ConfigInv, TypeInv
  <2>5. AloneInv'
    <3> SUFFICES ASSUME alone PROVE AloneInv'
      BY <2>2 DEF AloneInv
    <3>1. \A d \in Callers \ {c} : cfgPc[d] = "idle"
      BY <2>2 DEF ConfigInv, AloneInv
    <3>2. draft[c] = cfg /\ file = Config!Empty
      BY <2>2 DEF ConfigInv, AloneInv
    <3>3. \A d \in Callers : cfgPc'[d] = "idle"
      BY <2>2, <3>1 DEF ConfigInv, TypeInv
    <3>4. file' = [text |-> cfg, numref |-> FALSE, rest |-> FALSE]
      BY <2>1, <3>2 DEF Config!Empty
    <3>5. Config!LoadConfig(file') = IF cfg.keep THEN cfg ELSE Config!Expanded(cfg)
      BY <3>4, LoadedIsSaved DEF ConfigInv, TypeInv
    <3>6. Matches'
      BY <2>2, <3>4, <3>5 DEF Matches
    <3> QED
      BY <2>2, <2>3, <3>3, <3>6 DEF AloneInv
  <2> QED
    BY <2>2, <2>3, <2>4, <2>5 DEF ConfigInv, TypeInv, DownInv
<1>5. CASE Config!SaveFails(c)
  <2>1. /\ cfgPc[c] # "idle" /\ cfgPc' = [cfgPc EXCEPT ![c] = "idle"]
        /\ draft' = [draft EXCEPT ![c] = Config!Default] /\ alone' = FALSE
        /\ UNCHANGED <<cfg, file, up>>
    BY <1>5 DEF Config!SaveFails
  <2>2. TypeInv'
    BY <2>1 DEF ConfigInv, TypeInv
  <2>3. up
    BY <2>1 DEF ConfigInv, DownInv, Config!Quiet
  <2> QED
    BY <2>1, <2>2, <2>3 DEF ConfigInv, AloneInv, DownInv
<1> QED
  BY <1>1, <1>2, <1>3, <1>4, <1>5 DEF Config!UpdateConfig

LEMMA ConfigRequestKeeps ==
  ASSUME ConfigInv, NEW c \in Callers, Config!Request(c)
  PROVE  ConfigInv'
<1>1. PICK body \in Bodies : draft' = [draft EXCEPT ![c] = body]
  BY DEF Config!Request
<1>2. /\ up /\ cfgPc[c] = "idle" /\ cfgPc' = [cfgPc EXCEPT ![c] = "copy"] /\ alone' = Config!Quiet
      /\ UNCHANGED <<cfg, file, up>>
  BY DEF Config!Request
<1>3. TypeInv' /\ cfgPc'[c] = "copy" /\ \A d \in Callers \ {c} : cfgPc'[d] = cfgPc[d]
  BY <1>1, <1>2 DEF ConfigInv, TypeInv
<1>4. ~Config!Quiet'
  BY <1>3 DEF Config!Quiet
<1>5. AloneInv'
  <2> SUFFICES ASSUME Config!Quiet PROVE AloneInv'
    BY <1>2 DEF AloneInv
  <2> QED
    BY <1>2, <1>3, <1>4 DEF AloneInv, Config!Quiet
<1> QED
  BY <1>2, <1>3, <1>5 DEF ConfigInv, DownInv

LEMMA BootKeeps ==
  ASSUME ConfigInv, Config!Crash \/ Config!Repair
  PROVE  ConfigInv'
<1>1. CASE Config!Crash
  <2>1. /\ up' \in IF file.rest THEN BOOLEAN ELSE {TRUE}
        /\ cfg' = IF up' THEN Config!LoadConfig(file) ELSE cfg
        /\ cfgPc' = [c \in Callers |-> "idle"] /\ draft' = [c \in Callers |-> Config!Default]
        /\ alone' = ~file.rest /\ file' = file
    BY <1>1 DEF Config!Crash, Config!Boot
  <2>2. TypeInv' /\ Config!Quiet'
    BY <2>1, LoadIsConfig DEF ConfigInv, TypeInv, Config!Quiet
  <2>3. AloneInv'
    <3> SUFFICES ASSUME ~file.rest PROVE AloneInv'
      BY <2>1 DEF AloneInv
    <3>1. up' /\ cfg' = Config!LoadConfig(file)
      BY <2>1
    <3>2. Matches'
      BY <2>1, <3>1, LoadIsConfig DEF Matches
    <3> QED
      BY <2>1, <3>1, <3>2 DEF AloneInv
  <2> QED
    BY <2>2, <2>3 DEF ConfigInv, DownInv
<1>2. CASE Config!Repair
  <2>1. /\ ~up /\ file' \in {Config!Whole(w) : w \in Written} /\ up' = TRUE /\ cfg' = Config!LoadConfig(file')
        /\ UNCHANGED <<cfgPc, draft>>
    BY <1>2 DEF Config!Repair
  <2>2. TypeInv' /\ \A c \in Callers : cfgPc'[c] = "idle"
    BY <2>1, LoadIsConfig DEF ConfigInv, TypeInv, DownInv, Config!Quiet
  <2>3. Matches'
    BY <2>1, LoadIsConfig DEF Matches, Config!Whole
  <2> QED
    BY <2>1, <2>2, <2>3 DEF ConfigInv, AloneInv, DownInv
<1> QED
  BY <1>1, <1>2

LEMMA ConfigInvHolds == Config!Spec => []ConfigInv
<1>1. ASSUME Config!Init PROVE ConfigInv
  <2>1. ~file.rest
    BY <1>1 DEF Config!Init, Config!Empty, Config!Whole
  <2>2. /\ cfg = Config!LoadConfig(file) /\ cfgPc = [c \in Callers |-> "idle"]
        /\ draft = [c \in Callers |-> Config!Default] /\ up = TRUE
    BY <1>1 DEF Config!Init
  <2>3. Matches
    BY <2>1, <2>2, LoadIsConfig DEF Matches
  <2> QED
    BY <2>2, <2>3, LoadIsConfig DEF ConfigInv, TypeInv, AloneInv, DownInv
<1>2. ASSUME ConfigInv, [Config!Next]_(Config!vars) PROVE ConfigInv'
  <2>1. CASE UNCHANGED Config!vars
    BY <1>2, <2>1 DEF Config!vars, ConfigInv, TypeInv, AloneInv, DownInv, Config!Quiet, Matches
  <2>2. CASE Config!Crash \/ Config!Repair
    BY <1>2, <2>2, BootKeeps
  <2>3. ASSUME NEW c \in Callers, Config!Request(c) PROVE ConfigInv'
    BY <1>2, <2>3, ConfigRequestKeeps
  <2>4. ASSUME NEW c \in Callers, Config!UpdateConfig(c) PROVE ConfigInv'
    BY <1>2, <2>4, UpdateKeeps
  <2> QED
    BY <1>2, <2>1, <2>2, <2>3, <2>4 DEF Config!Next
<1> QED
  BY <1>1, <1>2, PTL DEF Config!Spec

(* Whatever the requests carry, overlapping or not, a lone update leaves a   *)
(* whole file that a boot turns into what memory holds                       *)
(* (config.go:229-275, handlers.go:165-181).                                 *)
THEOREM UpdateLasts == Config!Spec => []FileMatchesMemory
<1>1. ConfigInv => FileMatchesMemory
  BY DEF ConfigInv, AloneInv, Matches, FileMatchesMemory, Config!FileMatchesMemory
<1> QED
  BY <1>1, ConfigInvHolds, PTL
-----------------------------------------------------------------------------
(* The three together. *)

(* A behaviour of the composition is one of each component. *)
LEMMA Components == SettingsSpec => Spec /\ Listing!Spec /\ Config!Spec
<1>1. SettingsInit => Init /\ Listing!Init /\ Config!Init
  BY DEF SettingsInit
<1>2. [ProfilesNext \/ ListingNext \/ ConfigNext]_<<subject, vars, listVars, cfgVars>>
        => [Next]_vars /\ [Listing!Next]_(Listing!vars) /\ [Config!Next]_(Config!vars)
  <2> SUFFICES ASSUME [ProfilesNext \/ ListingNext \/ ConfigNext]_<<subject, vars, listVars, cfgVars>>
               PROVE  [Next]_vars /\ [Listing!Next]_(Listing!vars) /\ [Config!Next]_(Config!vars)
    OBVIOUS
  <2>1. (UNCHANGED listVars) => UNCHANGED Listing!vars
    BY DEF listVars, Listing!vars, Listing!store, Listing!change, Listing!listing, Listing!history
  <2>2. (UNCHANGED cfgVars) => UNCHANGED Config!vars
    BY DEF cfgVars, Config!vars
  <2> QED
    BY <2>1, <2>2 DEF ProfilesNext, ListingNext, ConfigNext
<1> QED
  BY <1>1, <1>2, PTL DEF SettingsSpec, Spec, Listing!Spec, Config!Spec

(* Whichever of its settings the daemon is at, every property of each holds. *)
THEOREM SettingsCorrect ==
  SettingsSpec => /\ Implements
                  /\ [](/\ UniqueIds /\ BootWouldLoadMemory
                        /\ NothingInvented /\ NoneMissing
                        /\ FileMatchesMemory)
<1> QED
  BY Components, IdsAreUnique, SavedIsLoaded, SliceImplementsList, NothingIsInvented,
     NothingIsMissing, UpdateLasts, PTL
=============================================================================
