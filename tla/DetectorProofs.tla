--------------------------- MODULE DetectorProofs ---------------------------
(***************************************************************************)
(* Proofs about the two detectors of repeated calls, for any windows and   *)
(* limits and any number of steps and answers.  The properties speak of    *)
(* all calls, the code only of what it remembers: the invariants say that  *)
(* this is the last calls, and that the count is that of a streak.         *)
(***************************************************************************)
EXTENDS Agent, FiniteSets, SequenceTheorems, FiniteSetTheorems, TLAPS

-----------------------------------------------------------------------------
(* The daemon's own loop. *)

CallNames == {"config.go", "go.mod"}

TypeInv ==
  /\ window \in Int /\ step \in Nat \ {0} /\ settled \in Nat
  /\ shrunk \in BOOLEAN
  /\ history \in Seq(CallNames)
  /\ pc \in {"record", "judge", "paused", "over"}

(* The steps whose calls are recorded. *)
Recorded == IF pc = "record" THEN step - 1 ELSE step

(* What is remembered are the last calls. *)
SuffixInv ==
  /\ Len(history) <= Recorded
  /\ \A i \in 1 .. Len(history) : history[i] = Call(Recorded - Len(history) + i)

PausedInv == pc = "paused" => Alike(history)

(* Unless the window was set too low, the history fits into it, and is full  *)
(* or has grown with every step since.                                       *)
LengthInv ==
  (~shrunk /\ window >= 0) => /\ Len(history) <= window
                              /\ Len(history) = window \/ Len(history) >= settled

(* What was judged and not paused for is no repetition. *)
JudgedInv ==
  (pc = "record" /\ settled > 0) => ~(Len(history) = window /\ Alike(history))

IInv == TypeInv /\ SuffixInv /\ PausedInv /\ LengthInv /\ JudgedInv

(* What recording a call makes of the history: it is one longer, or all of   *)
(* it has moved by one place.                                                *)
LEMMA TrimLast ==
  ASSUME TypeInv, NEW c \in CallNames, NEW h, h = Trim(Append(history, c))
  PROVE  /\ h \in Seq(CallNames) /\ Len(h) \in Nat
         /\ IF Len(history) + 1 > window
              THEN /\ Len(h) = Len(history)
                   /\ \A i \in 1 .. Len(h) : h[i] = Append(history, c)[i + 1]
              ELSE h = Append(history, c)
<1> DEFINE longer == Append(history, c)
<1>1. longer \in Seq(CallNames) /\ Len(longer) = Len(history) + 1 /\ Len(history) \in Nat
  BY DEF TypeInv
<1>2. CASE Len(longer) > window
  <2>1. longer # <<>>
    BY <1>1, EmptySeq
  <2>2. /\ Tail(longer) \in Seq(CallNames) /\ Len(Tail(longer)) = Len(longer) - 1
        /\ \A i \in 1 .. Len(Tail(longer)) : Tail(longer)[i] = longer[i + 1]
    BY <1>1, <2>1, HeadTailProperties
  <2>3. h = Tail(longer)
    BY <1>2 DEF Trim
  <2> HIDE DEF longer
  <2>4. Len(history) + 1 > window
    BY <1>1, <1>2
  <2>5. Len(h) = Len(history) /\ Len(h) \in Nat
    BY <1>1, <2>2, <2>3
  <2> QED
    BY <2>2, <2>3, <2>4, <2>5 DEF longer
<1>3. CASE ~(Len(longer) > window)
  BY <1>1, <1>3 DEF Trim, TypeInv
<1> QED
  BY <1>2, <1>3

LEMMA RecordKeeps == ASSUME IInv, Record PROVE IInv'
<1> DEFINE c == Call(step)
           longer == Append(history, c)
<1>1. /\ pc = "record" /\ pc' = "judge" /\ settled' = settled + 1
      /\ history' = Trim(longer)
      /\ window' = window /\ step' = step /\ shrunk' = shrunk
  BY DEF Record
<1>2. c \in CallNames
  BY DEF Call, CallNames
<1>3. TypeInv
  BY DEF IInv
<1> HIDE DEF c
<1>4. /\ history' \in Seq(CallNames) /\ Len(history') \in Nat
      /\ IF Len(history) + 1 > window
           THEN /\ Len(history') = Len(history)
                /\ \A i \in 1 .. Len(history') : history'[i] = longer[i + 1]
           ELSE history' = longer
  BY <1>1, <1>2, <1>3, TrimLast
<1>5. /\ Len(history) \in Nat /\ Len(longer) = Len(history) + 1
      /\ longer[Len(history) + 1] = c
      /\ \A i \in 1 .. Len(history) : longer[i] = history[i]
  BY <1>2, <1>3 DEF TypeInv
<1>6. TypeInv'
  BY <1>1, <1>3, <1>4 DEF TypeInv
<1>7. SuffixInv'
  <2>1. Recorded = step - 1 /\ Recorded' = step
    BY <1>1 DEF Recorded
  <2>2. /\ Len(history) <= step - 1
        /\ \A i \in 1 .. Len(history) : longer[i] = Call(step - 1 - Len(history) + i)
    BY <1>5, <2>1 DEF IInv, SuffixInv
  <2>3. \A i \in 1 .. Len(history) + 1 : longer[i] = Call(step - 1 - Len(history) + i)
    <3> SUFFICES ASSUME NEW i \in 1 .. Len(history) + 1
                 PROVE  longer[i] = Call(step - 1 - Len(history) + i)
      OBVIOUS
    <3>1. CASE i = Len(history) + 1
      <4>1. step - 1 - Len(history) + i = step
        BY <3>1, <1>3, <1>5 DEF TypeInv
      <4> QED
        BY <3>1, <4>1, <1>5 DEF c
    <3>2. CASE i \in 1 .. Len(history)
      BY <3>2, <2>2
    <3> QED
      BY <3>1, <3>2, <1>5
  <2> HIDE DEF longer
  <2>4. CASE Len(history) + 1 > window
    <3>1. /\ Len(history') = Len(history)
          /\ \A i \in 1 .. Len(history') : history'[i] = longer[i + 1]
      BY <2>4, <1>4
    <3>2. ASSUME NEW i \in 1 .. Len(history') PROVE history'[i] = Call(step - Len(history') + i)
      <4>1. i + 1 \in 1 .. Len(history) + 1
        BY <3>1, <1>5
      <4>2. longer[i + 1] = Call(step - 1 - Len(history) + (i + 1))
        BY <4>1, <2>3
      <4>3. step - 1 - Len(history) + (i + 1) = step - Len(history') + i
        BY <3>1, <1>3, <1>5 DEF TypeInv
      <4> QED
        BY <3>1, <4>2, <4>3
    <3> QED
      BY <2>1, <2>2, <3>1, <3>2, <1>3, <1>5 DEF SuffixInv, TypeInv
  <2>5. CASE ~(Len(history) + 1 > window)
    <3>1. history' = longer /\ Len(history') = Len(history) + 1
      BY <2>5, <1>4, <1>5
    <3>2. ASSUME NEW i \in 1 .. Len(history') PROVE history'[i] = Call(step - Len(history') + i)
      <4>1. step - 1 - Len(history) + i = step - Len(history') + i
        BY <3>1, <1>3, <1>5 DEF TypeInv
      <4> QED
        BY <3>1, <4>1, <2>3
    <3> QED
      BY <2>1, <2>2, <3>1, <3>2, <1>3, <1>5 DEF SuffixInv, TypeInv
  <2> QED
    BY <2>4, <2>5
<1>8. PausedInv' /\ JudgedInv'
  BY <1>1 DEF PausedInv, JudgedInv
<1>9. LengthInv'
  <2>1. Len(history') = IF Len(history) + 1 > window THEN Len(history) ELSE Len(history) + 1
    BY <1>4, <1>5
  <2> QED
    BY <2>1, <1>1, <1>3, <1>5 DEF IInv, LengthInv, TypeInv
<1> QED
  BY <1>6, <1>7, <1>8, <1>9 DEF IInv

LEMMA JudgeKeeps == ASSUME IInv, Judge PROVE IInv'
<1>1. /\ pc = "judge" /\ window' = window /\ history' = history
      /\ settled' = settled /\ shrunk' = shrunk
  BY DEF Judge
<1>2. \/ pc' = "paused" /\ step' = step /\ Alike(history)
      \/ pc' = "over" /\ step' = step
      \/ /\ pc' = "record" /\ step' = step + 1
         /\ ~(Len(history) = window /\ Alike(history))
  BY DEF Judge
<1>3. TypeInv'
  BY <1>1, <1>2 DEF IInv, TypeInv
<1>4. Recorded' = Recorded
  BY <1>1, <1>2 DEF Recorded, IInv, TypeInv
<1> QED
  BY <1>1, <1>2, <1>3, <1>4
     DEF IInv, SuffixInv, PausedInv, LengthInv, JudgedInv, Alike

LEMMA UpdateConfigKeeps == ASSUME IInv, UpdateConfig PROVE IInv'
<1>1. /\ window' \in Int /\ shrunk' = (window' < Len(history)) /\ settled' = 0
      /\ step' = step /\ history' = history /\ pc' = pc
      /\ pc \in {"record", "judge"}
  BY LoopAssumption DEF UpdateConfig, Running
<1>2. Len(history) \in Nat
  BY DEF IInv, TypeInv
<1>3. shrunk' \in BOOLEAN
  BY <1>1
<1>4. TypeInv'
  BY <1>1, <1>3 DEF IInv, TypeInv
<1>5. SuffixInv' /\ PausedInv' /\ JudgedInv'
  BY <1>1 DEF IInv, SuffixInv, PausedInv, JudgedInv, Recorded
<1>6. LengthInv'
  <2>1. ~shrunk' => ~(window' < Len(history))
    BY <1>1, Zenon
  <2>2. ~shrunk' => window' >= Len(history)
    BY <2>1, <1>1, <1>2
  <2> QED
    BY <2>2, <1>1, <1>2 DEF LengthInv
<1> QED
  BY <1>4, <1>5, <1>6 DEF IInv

LEMMA InvHolds == Spec => []IInv
<1>1. Init => IInv
  <2> SUFFICES ASSUME Init PROVE IInv
    OBVIOUS
  <2>1. /\ window \in Int /\ step = 1 /\ settled = 0
        /\ history = <<>> /\ pc = "record"
    BY LoopAssumption DEF Init
  <2>2. shrunk = FALSE
    BY DEF Init
  <2>3. history \in Seq(CallNames) /\ Len(history) = 0
    BY <2>1
  <2>4. shrunk \in BOOLEAN
    BY <2>2
  <2> QED
    BY <2>1, <2>3, <2>4 DEF IInv, TypeInv, SuffixInv, PausedInv, LengthInv, JudgedInv, Recorded
<1>2. IInv /\ [Next]_vars => IInv'
  <2> SUFFICES ASSUME IInv, [Next]_vars PROVE IInv'
    OBVIOUS
  <2>1. CASE Record
    BY <2>1, RecordKeeps
  <2>2. CASE Judge
    BY <2>2, JudgeKeeps
  <2>3. CASE UpdateConfig
    BY <2>3, UpdateConfigKeeps
  <2>4. CASE UNCHANGED vars
    BY <2>4 DEF vars, IInv, TypeInv, SuffixInv, PausedInv, LengthInv, JudgedInv, Recorded, Alike
  <2> QED
    BY <2>1, <2>2, <2>3, <2>4 DEF Next
<1> QED
  BY <1>1, <1>2, PTL DEF Spec

(* Whatever the windows and however often they change, the loop is paused    *)
(* only after as many equal calls (main.go:165-188).                         *)
THEOREM PauseEarned == Spec => []PauseIsEarned
<1>1. ASSUME IInv, pc = "paused" PROVE PauseIsEarned
  <2>1. Recorded = step /\ Alike(history)
    BY <1>1 DEF IInv, Recorded, PausedInv
  <2>2. /\ Len(history) <= step /\ Len(history) \in Nat /\ step \in Nat
        /\ \A i \in 1 .. Len(history) : history[i] = Call(step - Len(history) + i)
    BY <1>1, <2>1 DEF IInv, SuffixInv, TypeInv
  <2>3. \A i \in 1 .. Len(history) : history[i] = history[1]
    BY <2>1, <2>2 DEF Alike
  <2>4. ASSUME NEW s \in step - Len(history) + 1 .. step PROVE Call(s) = Call(step)
    <3>1. /\ s - step + Len(history) \in 1 .. Len(history)
          /\ step - Len(history) + (s - step + Len(history)) = s
          /\ Len(history) \in 1 .. Len(history)
          /\ step - Len(history) + Len(history) = step
      BY <2>2
    <3>2. Call(s) = history[s - step + Len(history)] /\ Call(step) = history[Len(history)]
      BY <2>2, <3>1
    <3> QED
      BY <2>3, <3>1, <3>2
  <2> QED
    BY <2>2, <2>4 DEF PauseIsEarned
<1>2. IInv => PauseIsEarned
  BY <1>1 DEF PauseIsEarned
<1> QED
  BY <1>2, InvHolds, PTL

(* Whatever the windows, a repetition as long as the window is noticed once  *)
(* the window is left alone, unless it was set below the calls remembered    *)
(* (main.go:169-190).                                                        *)
THEOREM Noticed == Spec => []NoticedInTime
<1>1. IInv => NoticedInTime
  <2> SUFFICES ASSUME IInv, pc = "record", ~shrunk, window \in 1 .. settled,
                      \A s \in step - window .. step - 1 : Call(s) = Call(step - 1)
               PROVE  FALSE
    BY DEF NoticedInTime
  <2>1. Len(history) = window /\ Len(history) \in Nat /\ step \in Nat /\ window \in Nat
    BY DEF IInv, LengthInv, TypeInv
  <2>2. \A i \in 1 .. window : history[i] = Call(step - 1 - window + i)
    BY <2>1 DEF IInv, SuffixInv, Recorded
  <2>3. ASSUME NEW i \in 1 .. window PROVE history[i] = Call(step - 1)
    <3>1. step - 1 - window + i \in step - window .. step - 1
      BY <2>1
    <3> QED
      BY <2>2, <3>1
  <2>4. Alike(history)
    BY <2>1, <2>3 DEF Alike
  <2> QED
    BY <2>1, <2>4 DEF IInv, JudgedInv, TypeInv
<1> QED
  BY <1>1, InvHolds, PTL

-----------------------------------------------------------------------------
(* The detector of the client. *)

(* h is the end of the conversation c, as much of it as w takes. *)
Remembers(h, c, w) ==
  /\ Len(h) = IF Len(c) <= w THEN Len(c) ELSE w
  /\ \A i \in 1 .. Len(h) : h[i] = c[Len(c) - Len(h) + i]

(* What EndsInLoop says of a conversation. *)
Loops(c, w) == Len(c) >= w /\ \A i \in Len(c) - w + 1 .. Len(c) : c[i] = Client!Last(c)

Answer == [talk : Seq(Sigs), checked : BOOLEAN, limit : Int,
           said : {"nothing", "warning", "hard stop", "panic"}]

ClientType ==
  /\ clientWindow \in Int /\ limit \in Int /\ warnings \in Nat
  /\ calls \in Seq(Sigs) /\ batches \in Seq(Answer)

HistoryInv == clientWindow >= 0 => Remembers(calls, Client!Talk, clientWindow)

CountInv == clientWindow >= 0 => warnings = Cardinality(Client!Streak(Len(batches)))

ClientInv ==
  /\ ClientType /\ HistoryInv /\ CountInv
  /\ Client!WarnsOnRepetition /\ Client!HardStopIsEarned

(* Trimming what was remembered and a batch is remembering the longer talk. *)
LEMMA TrimRemembers ==
  ASSUME NEW h \in Seq(Sigs), NEW c \in Seq(Sigs), NEW d \in Seq(Sigs),
         NEW w \in Nat, w = clientWindow, Remembers(h, c, w)
  PROVE  Client!Trim(h \o d) \in Seq(Sigs) /\ Remembers(Client!Trim(h \o d), c \o d, w)
<1> DEFINE hd == h \o d
           cd == c \o d
<1>1. /\ Len(h) \in Nat /\ Len(c) \in Nat /\ Len(d) \in Nat
      /\ Len(h) = IF Len(c) <= w THEN Len(c) ELSE w
      /\ \A i \in 1 .. Len(h) : h[i] = c[Len(c) - Len(h) + i]
  BY LenProperties DEF Remembers
<1>2. /\ hd \in Seq(Sigs) /\ Len(hd) = Len(h) + Len(d)
      /\ \A i \in 1 .. Len(hd) : hd[i] = IF i <= Len(h) THEN h[i] ELSE d[i - Len(h)]
  BY ConcatProperties
<1>3. /\ cd \in Seq(Sigs) /\ Len(cd) = Len(c) + Len(d)
      /\ \A i \in 1 .. Len(cd) : cd[i] = IF i <= Len(c) THEN c[i] ELSE d[i - Len(c)]
  BY ConcatProperties
<1> HIDE DEF hd, cd
<1>4. \A i \in 1 .. Len(hd) : hd[i] = cd[Len(cd) - Len(hd) + i]
  <2> SUFFICES ASSUME NEW i \in 1 .. Len(hd) PROVE hd[i] = cd[Len(cd) - Len(hd) + i]
    OBVIOUS
  <2>1. Len(cd) - Len(hd) = Len(c) - Len(h) /\ Len(c) - Len(h) \in Nat
    BY <1>1, <1>2, <1>3
  <2>2. Len(c) - Len(h) + i \in 1 .. Len(cd)
    <3>1. Len(h) \in Nat /\ Len(c) \in Nat /\ Len(hd) \in Nat /\ Len(cd) \in Nat
      BY <1>1, <1>2, <1>3
    <3> QED
      BY <2>1, <3>1
  <2>3. CASE i <= Len(h)
    <3>1. hd[i] = h[i] /\ h[i] = c[Len(c) - Len(h) + i]
      <4>1. i \in 1 .. Len(h)
        BY <1>1, <1>2, <2>3
      <4> QED
        BY <1>1, <1>2, <2>3, <4>1
    <3>0. Len(c) - Len(h) + i <= Len(c)
      BY <1>1, <2>1, <2>3
    <3> QED
      BY <1>3, <2>1, <2>2, <3>0, <3>1
  <2>4. CASE i > Len(h)
    <3>1. hd[i] = d[i - Len(h)] /\ ~(Len(c) - Len(h) + i <= Len(c))
      BY <1>1, <1>2, <2>4
    <3>2. (Len(c) - Len(h) + i) - Len(c) = i - Len(h)
      BY <1>1
    <3> QED
      BY <1>3, <2>1, <2>2, <3>1, <3>2
  <2> QED
    BY <1>1, <2>3, <2>4
<1>5. CASE Len(hd) <= w
  <2>1. Client!Trim(hd) = hd
    BY <1>5 DEF Client!Trim
  <2>2. Len(hd) = Len(cd) \/ Len(hd) = w
    BY <1>1, <1>2, <1>3, <1>5
  <2>3. Len(hd) = IF Len(cd) <= w THEN Len(cd) ELSE w
    BY <1>1, <1>2, <1>3, <1>5, <2>2
  <2> QED
    BY <1>2, <1>4, <2>1, <2>3 DEF Remembers, hd, cd
<1>6. CASE Len(hd) > w
  <2> DEFINE t == SubSeq(hd, Len(hd) - w + 1, Len(hd))
  <2>1. Client!Trim(hd) = t
    <3>1. ~(Len(hd) <= clientWindow) /\ clientWindow >= 0
      BY <1>1, <1>2, <1>6
    <3> QED
      BY <3>1 DEF Client!Trim
  <2>2. /\ t \in Seq(Sigs) /\ Len(t) = w
        /\ \A i \in 1 .. w : t[i] = hd[Len(hd) - w + i]
    <3>1. \A i \in Len(hd) - w + 1 .. Len(hd) : hd[i] \in Sigs
      BY <1>1, <1>2, <1>6
    <3>2. Len(hd) - w + 1 \in Int /\ Len(hd) \in Int
      BY <1>1, <1>2
    <3>3. /\ t \in Seq(Sigs)
          /\ Len(t) = IF Len(hd) - w + 1 <= Len(hd) THEN Len(hd) - (Len(hd) - w + 1) + 1 ELSE 0
          /\ \A i \in 1 .. Len(hd) - (Len(hd) - w + 1) + 1 : t[i] = hd[Len(hd) - w + 1 + i - 1]
      BY <3>1, <3>2, SubSeqProperties
    <3> HIDE DEF t
    <3> QED
      BY <1>1, <1>2, <3>3
  <2> HIDE DEF t
  <2>3. \A i \in 1 .. w : t[i] = cd[Len(cd) - w + i]
    <3> SUFFICES ASSUME NEW i \in 1 .. w PROVE t[i] = cd[Len(cd) - w + i]
      OBVIOUS
    <3>0. Len(hd) \in Nat /\ Len(cd) \in Nat
      BY <1>1, <1>2, <1>3
    <3>1. /\ Len(hd) - w + i \in 1 .. Len(hd)
          /\ Len(cd) - Len(hd) + (Len(hd) - w + i) = Len(cd) - w + i
      BY <1>6, <3>0
    <3> QED
      BY <1>4, <2>2, <3>1
  <2>4. Len(cd) > w
    BY <1>1, <1>2, <1>3, <1>6
  <2> QED
    BY <1>1, <1>3, <2>1, <2>2, <2>3, <2>4 DEF Remembers, hd, cd
<1> QED
  BY <1>1, <1>2, <1>5, <1>6

(* A full window of equal calls is a talk that ends in so many equal ones. *)
LEMMA IdenticalIsLoop ==
  ASSUME NEW h \in Seq(Sigs), NEW c \in Seq(Sigs),
         NEW w \in Nat, w = clientWindow, Remembers(h, c, w)
  PROVE  Client!AllIdentical(h) <=> Loops(c, w)
<1>1. /\ Len(h) \in Nat /\ Len(c) \in Nat /\ DOMAIN h = 1 .. Len(h)
      /\ Len(h) = IF Len(c) <= w THEN Len(c) ELSE w
      /\ \A i \in 1 .. Len(h) : h[i] = c[Len(c) - Len(h) + i]
  BY LenProperties DEF Remembers
<1>2. Len(h) = w <=> Len(c) >= w
  BY <1>1
<1>3. ASSUME Len(h) = w, w > 0
      PROVE  (\A i \in 1 .. w : h[i] = h[1])
               <=> (\A i \in Len(c) - w + 1 .. Len(c) : c[i] = c[Len(c)])
  <2>1. Len(c) >= w /\ h[w] = c[Len(c)] /\ h[1] = c[Len(c) - w + 1]
    <3>1. w \in 1 .. w /\ 1 \in 1 .. w /\ Len(c) >= w /\ Len(c) - w + w = Len(c)
      BY <1>1, <1>2, <1>3
    <3> QED
      BY <1>1, <1>3, <3>1
  <2>2. ASSUME \A i \in 1 .. w : h[i] = h[1], NEW i \in Len(c) - w + 1 .. Len(c)
        PROVE  c[i] = c[Len(c)]
    <3>1. i - (Len(c) - w) \in 1 .. w /\ Len(c) - w + (i - (Len(c) - w)) = i
      BY <1>1, <2>1
    <3>2. h[i - (Len(c) - w)] = c[i]
      BY <1>1, <1>3, <3>1
    <3>3. w \in 1 .. w
      BY <1>1, <1>3
    <3> QED
      BY <2>1, <2>2, <3>1, <3>2, <3>3
  <2>3. ASSUME \A i \in Len(c) - w + 1 .. Len(c) : c[i] = c[Len(c)], NEW i \in 1 .. w
        PROVE  h[i] = h[1]
    <3>1. /\ Len(c) - w + i \in Len(c) - w + 1 .. Len(c)
          /\ Len(c) - w + 1 \in Len(c) - w + 1 .. Len(c)
      BY <1>1, <1>3, <2>1
    <3> QED
      BY <1>1, <1>3, <2>1, <2>3, <3>1
  <2> QED
    BY <2>2, <2>3
<1>4. CASE Len(h) # w
  BY <1>2, <1>4 DEF Client!AllIdentical, Loops
<1>5. CASE Len(h) = w /\ w = 0
  BY <1>1, <1>2, <1>5 DEF Client!AllIdentical, Loops
<1>6. CASE Len(h) = w /\ w > 0
  <2>1. Client!Last(c) = c[Len(c)]
    BY DEF Client!Last
  <2>2. Client!AllIdentical(h) <=> \A i \in 1 .. w : h[i] = h[1]
    BY <1>1, <1>6 DEF Client!AllIdentical
  <2>3. Loops(c, w) <=> \A i \in Len(c) - w + 1 .. Len(c) : c[i] = c[Len(c)]
    BY <1>2, <1>6, <2>1 DEF Loops
  <2> QED
    BY <1>3, <1>6, <2>2, <2>3
<1> QED
  BY <1>1, <1>4, <1>5, <1>6

LEMMA TalkType == ClientType => Client!Talk \in Seq(Sigs)
<1> SUFFICES ASSUME ClientType PROVE Client!Talk \in Seq(Sigs)
  OBVIOUS
<1>1. CASE batches = <<>>
  BY <1>1 DEF Client!Talk
<1>2. CASE batches # <<>>
  <2>1. Client!Last(batches) = batches[Len(batches)] /\ batches[Len(batches)] \in Answer
    BY <1>2 DEF ClientType, Client!Last
  <2> QED
    BY <1>2, <2>1 DEF Client!Talk, Answer
<1> QED
  BY <1>1, <1>2

LEMMA LoopsIsEndsInLoop ==
  ASSUME NEW k PROVE Client!EndsInLoop(k) <=> Loops(batches[k].talk, clientWindow)
BY DEF Client!EndsInLoop, Loops

(* FiniteSets comes with DoomLoop a second time. *)
LEMMA SameCardinality == ASSUME NEW S PROVE Client!Cardinality(S) = Cardinality(S)
BY DEF Client!Cardinality, Cardinality

LEMMA StreakIsFinite ==
  ASSUME NEW k \in Nat PROVE IsFiniteSet(Client!Streak(k)) /\ Client!Streak(k) \subseteq 1 .. k
<1>1. IsFiniteSet(1 .. k)
  BY FS_Interval
<1>2. Client!Streak(k) \subseteq 1 .. k
  BY DEF Client!Streak
<1> QED
  BY <1>1, <1>2, FS_Subset

(* What a batch does to the conversation and to what is remembered of it. *)
LEMMA CompleteTalks ==
  ASSUME ClientInv, NEW d \in Seq(Sigs), Client!Complete(d)
  PROVE  /\ ClientType' /\ HistoryInv'
         /\ Len(batches') = Len(batches) + 1
         /\ \A k \in 1 .. Len(batches) : batches'[k] = batches[k]
         /\ batches'[Len(batches) + 1] = [talk |-> Client!Talk', checked |-> d # <<>>,
                                          said |-> said', limit |-> limit]
<1> DEFINE k1 == Len(batches) + 1
           new == [talk |-> Client!Talk \o d, checked |-> d # <<>>, said |-> said', limit |-> limit]
<1>1. /\ ClientType /\ Client!Talk \in Seq(Sigs) /\ Client!Talk \o d \in Seq(Sigs)
      /\ batches \in Seq(Answer)
  BY TalkType DEF ClientInv, ClientType
<1>2. /\ batches' = Append(batches, new) /\ clientWindow' = clientWindow /\ limit' = limit
  BY DEF Client!Complete
<1>3. /\ said' \in {"nothing", "warning", "hard stop", "panic"} /\ warnings' \in Nat
  <2>1. warnings \in Nat /\ \A x : Client!NextCount(x) \in Nat
    BY <1>1 DEF ClientType, Client!NextCount
  <2>2. \A x, n : Client!Said(x, n) \in {"nothing", "warning", "hard stop", "panic"}
    BY DEF Client!Said, Client!Verdict
  <2>3. said' = "nothing" \/ said' = Client!Said(calls', warnings')
    BY DEF Client!Complete
  <2>4. warnings' = warnings \/ warnings' = Client!NextCount(calls')
    BY DEF Client!Complete
  <2> QED
    BY <2>1, <2>2, <2>3, <2>4
<1>4. new \in Answer
  BY <1>1, <1>3 DEF Answer, ClientType
<1> HIDE DEF new
<1>5. /\ batches' \in Seq(Answer) /\ Len(batches') = Len(batches) + 1
      /\ batches'[k1] = new /\ \A k \in 1 .. Len(batches) : batches'[k] = batches[k]
  BY <1>1, <1>2, <1>4, AppendProperties
<1>6. Client!Talk' = Client!Talk \o d
  <2>1. batches' # <<>> /\ Client!Last(batches') = new
    BY <1>1, <1>5 DEF Client!Last
  <2>2. new.talk = Client!Talk \o d
    BY DEF new
  <2> QED
    BY <2>1, <2>2 DEF Client!Talk, Client!Last
<1>7. calls' \in Seq(Sigs)
  <2>1. CASE d = <<>>
    BY <2>1, <1>1 DEF Client!Complete, ClientType
  <2>2. CASE d # <<>> /\ clientWindow >= 0
    <3>1. calls' = Client!Trim(calls \o d) /\ Remembers(calls, Client!Talk, clientWindow)
      BY <2>2 DEF Client!Complete, ClientInv, HistoryInv
    <3>2. clientWindow \in Nat
      BY <1>1, <2>2 DEF ClientType
    <3> QED
      BY <1>1, <3>1, <3>2, TrimRemembers DEF ClientType
  <2>3. CASE d # <<>> /\ ~(clientWindow >= 0)
    <3>1. calls' = Client!Trim(calls \o d) /\ Len(calls \o d) \in Nat
      BY <1>1, <2>3 DEF Client!Complete, ClientType
    <3>2. ~(Len(calls \o d) <= clientWindow)
      BY <1>1, <2>3, <3>1 DEF ClientType
    <3> QED
      BY <2>3, <3>1, <3>2 DEF Client!Trim
  <2> QED
    BY <2>1, <2>2, <2>3
<1>8. ASSUME clientWindow >= 0 PROVE Remembers(calls', Client!Talk', clientWindow)
  <2>1. Remembers(calls, Client!Talk, clientWindow)
    BY <1>8 DEF ClientInv, HistoryInv
  <2>2. CASE d = <<>>
    <3>1. Client!Talk \o d = Client!Talk
      BY <1>1, <2>2
    <3>2. calls' = calls
      BY <2>2 DEF Client!Complete
    <3> QED
      BY <1>6, <2>1, <3>1, <3>2
  <2>3. CASE d # <<>>
    <3>1. calls' = Client!Trim(calls \o d)
      BY <2>3 DEF Client!Complete
    <3>2. clientWindow \in Nat
      BY <1>1, <1>8 DEF ClientType
    <3> QED
      BY <1>1, <1>6, <2>1, <3>1, <3>2, TrimRemembers DEF ClientType
  <2> QED
    BY <2>2, <2>3
<1>9. ClientType' /\ HistoryInv'
  BY <1>1, <1>2, <1>3, <1>5, <1>7, <1>8 DEF ClientType, HistoryInv
<1> QED
  BY <1>5, <1>6, <1>9 DEF new

LEMMA CompleteKeeps == ASSUME ClientInv, NEW d \in Seq(Sigs), Client!Complete(d) PROVE ClientInv'
<1>0. PICK k0 \in Nat : k0 = Len(batches)
  BY LenProperties DEF ClientInv, ClientType
<1> DEFINE k1 == k0 + 1
<1>1. /\ ClientType' /\ HistoryInv' /\ Len(batches') = k1
      /\ \A k \in 1 .. k0 : batches'[k] = batches[k]
      /\ batches'[k1] = [talk |-> Client!Talk', checked |-> d # <<>>, said |-> said', limit |-> limit]
  BY <1>0, CompleteTalks
<1>2. /\ k0 = Len(batches) /\ k1 \in Nat /\ clientWindow' = clientWindow /\ clientWindow \in Int /\ limit \in Int
      /\ warnings \in Nat /\ batches \in Seq(Answer) /\ batches' \in Seq(Answer)
      /\ DOMAIN batches = 1 .. k0 /\ DOMAIN batches' = 1 .. k1
      /\ Client!Talk' \in Seq(Sigs) /\ calls' \in Seq(Sigs)
  <2>1. (ClientType => Client!Talk \in Seq(Sigs))'
    BY TalkType, PTL
  <2> QED
    BY <1>0, <1>1, <2>1 DEF ClientInv, ClientType, Client!Complete
<1>3. /\ batches'[k1].talk = Client!Talk' /\ batches'[k1].said = said'
      /\ batches'[k1].checked = (d # <<>>) /\ batches'[k1].limit = limit
  BY <1>1
<1>4. \A k \in 1 .. k0 : /\ Client!EndsInLoop(k)' <=> Client!EndsInLoop(k)
                         /\ Client!Checked(k)' <=> Client!Checked(k)
  BY <1>1, <1>2 DEF Client!EndsInLoop, Client!Checked
<1>5. Client!Checked(k1)' <=> d # <<>>
  BY <1>3 DEF Client!Checked
<1>6. Client!EndsInLoop(k1)' <=> Loops(Client!Talk', clientWindow)
  BY <1>2, <1>3 DEF Client!EndsInLoop, Loops
<1>7. \A k \in 1 .. k0 : Client!Streak(k)' = Client!Streak(k)
  <2> SUFFICES ASSUME NEW k \in 1 .. k0, NEW j \in 1 .. k
               PROVE  (/\ Client!Checked(j)
                       /\ \A i \in j .. k : Client!Checked(i) => Client!EndsInLoop(i))'
                      <=> (/\ Client!Checked(j)
                           /\ \A i \in j .. k : Client!Checked(i) => Client!EndsInLoop(i))
    BY DEF Client!Streak
  <2>1. j \in 1 .. k0 /\ \A i \in j .. k : i \in 1 .. k0
    BY <1>2
  <2> QED
    BY <1>4, <2>1
<1>8. ASSUME clientWindow >= 0, d # <<>>
      PROVE  Client!AllIdentical(calls') <=> Client!EndsInLoop(k1)'
  <2>1. Remembers(calls', Client!Talk', clientWindow)
    BY <1>1, <1>2, <1>8 DEF HistoryInv
  <2> QED
    BY <1>2, <1>6, <1>8, <2>1, IdenticalIsLoop
<1>9. ASSUME clientWindow >= 0
      PROVE  warnings' = Cardinality(Client!Streak(k1)')
  <2>1. warnings = Cardinality(Client!Streak(k0)) /\ IsFiniteSet(Client!Streak(k0))
    BY <1>2, <1>9, StreakIsFinite DEF ClientInv, CountInv
  <2>2. \A j \in 1 .. k0 : j \in Client!Streak(k1)' <=>
          j \in Client!Streak(k0) /\ (Client!Checked(k1)' => Client!EndsInLoop(k1)')
    <3> SUFFICES ASSUME NEW j \in 1 .. k0
                 PROVE  j \in Client!Streak(k1)' <=>
                        j \in Client!Streak(k0) /\ (Client!Checked(k1)' => Client!EndsInLoop(k1)')
      OBVIOUS
    <3>1. /\ \A i : i \in j .. k1 <=> i \in j .. k0 \/ i = k1
          /\ \A i \in j .. k0 : i \in 1 .. k0
      OBVIOUS
    <3> QED
      BY <1>2, <1>4, <3>1 DEF Client!Streak
  <2>3. k1 \in Client!Streak(k1)' <=> Client!Checked(k1)' /\ Client!EndsInLoop(k1)'
    <3>1. k1 .. k1 = {k1} /\ k1 \in 1 .. k1
      BY <1>2
    <3> QED
      BY <3>1 DEF Client!Streak
  <2>4. Client!Streak(k1)' \subseteq (1 .. k0) \union {k1} /\ Client!Streak(k0) \subseteq 1 .. k0
    BY <1>2 DEF Client!Streak
  <2>5. CASE d = <<>>
    <3>1. Client!Streak(k1)' = Client!Streak(k0)
      BY <1>5, <2>2, <2>3, <2>4, <2>5
    <3> QED
      BY <2>1, <2>5, <3>1 DEF Client!Complete
  <2>6. CASE d # <<>> /\ Client!EndsInLoop(k1)'
    <3>1. Client!Streak(k1)' = Client!Streak(k0) \union {k1} /\ k1 \notin Client!Streak(k0)
      BY <1>2, <1>5, <2>2, <2>3, <2>4, <2>6
    <3>2. warnings' = warnings + 1
      BY <1>2, <1>8, <1>9, <2>6 DEF Client!Complete, Client!NextCount
    <3> QED
      BY <2>1, <3>1, <3>2, FS_AddElement
  <2>7. CASE d # <<>> /\ ~Client!EndsInLoop(k1)'
    <3>1. Client!Streak(k1)' = {}
      BY <1>5, <2>2, <2>3, <2>4, <2>7
    <3>2. warnings' = 0
      BY <1>2, <1>8, <1>9, <2>7 DEF Client!Complete, Client!NextCount
    <3> QED
      BY <3>1, <3>2, FS_EmptySet
  <2> QED
    BY <2>5, <2>6, <2>7
<1>10. /\ said' = "panic" => clientWindow <= 0
       /\ d = <<>> => said' = "nothing"
       /\ clientWindow < 0 => said' # "hard stop"
       /\ (d # <<>> /\ clientWindow >= 0) =>
            /\ said' # "nothing" <=> Client!EndsInLoop(k1)'
            /\ said' = "hard stop" <=> (Client!EndsInLoop(k1)' /\ limit <= warnings')
  <2>1. CASE d = <<>>
    BY <2>1 DEF Client!Complete
  <2>2. CASE d # <<>> /\ clientWindow < 0
    BY <1>2, <2>2 DEF Client!Complete, Client!Said
  <2>3. CASE d # <<>> /\ clientWindow >= 0 /\ ~Client!AllIdentical(calls')
    <3>1. said' = "nothing"
      BY <1>2, <2>3 DEF Client!Complete, Client!Said
    <3> QED
      BY <1>8, <2>3, <3>1
  <2>4. CASE d # <<>> /\ clientWindow >= 0 /\ Client!AllIdentical(calls')
    <3>1. said' = Client!Verdict(calls', warnings')
      BY <1>2, <2>4 DEF Client!Complete, Client!Said
    <3>2. warnings' \in Nat
      BY <1>1 DEF ClientType
    <3>3. calls' = <<>> => clientWindow = 0
      BY <2>4, <1>2 DEF Client!AllIdentical
    <3>4. /\ said' = "panic" => clientWindow = 0
          /\ said' # "nothing"
          /\ said' = "hard stop" <=> limit <= warnings'
      BY <1>2, <3>1, <3>2, <3>3 DEF Client!Verdict
    <3>5. Client!EndsInLoop(k1)'
      BY <1>8, <2>4
    <3>6. said' = "panic" => clientWindow <= 0
      BY <3>4
    <3>7. ~(clientWindow < 0)
      BY <1>2, <2>4
    <3> QED
      BY <2>4, <3>4, <3>5, <3>6, <3>7
  <2>5. clientWindow >= 0 \/ clientWindow < 0
    BY <1>2
  <2> QED
    BY <2>1, <2>2, <2>3, <2>4, <2>5
<1>11. Client!WarnsOnRepetition'
  <2> SUFFICES ASSUME NEW k \in 1 .. k1
               PROVE  (/\ batches[k].said = "panic" => clientWindow <= 0
                       /\ Client!Checked(k) /\ clientWindow >= 0
                            => (batches[k].said # "nothing" <=> Client!EndsInLoop(k)))'
    BY <1>2 DEF Client!WarnsOnRepetition
  <2>1. CASE k \in 1 .. k0
    BY <1>1, <1>2, <1>4, <2>1 DEF ClientInv, Client!WarnsOnRepetition
  <2>2. CASE k = k1
    BY <1>2, <1>3, <1>5, <1>10, <2>2
  <2> QED
    BY <1>2, <2>1, <2>2
<1>12. Client!HardStopIsEarned'
  <2> SUFFICES ASSUME NEW k \in 1 .. k1
               PROVE  (batches[k].said = "hard stop" <=>
                         /\ clientWindow >= 0 /\ Client!Checked(k) /\ Client!EndsInLoop(k)
                         /\ batches[k].limit <= Cardinality(Client!Streak(k)))'
    BY <1>2, SameCardinality DEF Client!HardStopIsEarned
  <2>1. CASE k \in 1 .. k0
    <3>1. batches'[k] = batches[k] /\ Client!Streak(k)' = Client!Streak(k)
      BY <1>1, <1>7, <2>1
    <3>2. batches[k].said = "hard stop" <=>
            /\ clientWindow >= 0 /\ Client!Checked(k) /\ Client!EndsInLoop(k)
            /\ batches[k].limit <= Cardinality(Client!Streak(k))
      BY <1>2, <2>1, SameCardinality DEF ClientInv, Client!HardStopIsEarned
    <3> QED
      BY <1>2, <1>4, <2>1, <3>1, <3>2
  <2>2. CASE k = k1
    <3>1. CASE d # <<>> /\ clientWindow >= 0
      <4>1. /\ said' = "hard stop" <=> (Client!EndsInLoop(k1)' /\ limit <= warnings')
            /\ warnings' = Cardinality(Client!Streak(k1)')
        BY <1>9, <1>10, <3>1
      <4> QED
        BY <1>2, <1>3, <1>5, <2>2, <3>1, <4>1
    <3>2. CASE d = <<>>
      BY <1>2, <1>3, <1>5, <1>10, <2>2, <3>2
    <3>3. CASE ~(clientWindow >= 0)
      <4>1. said' # "hard stop"
        <5>1. clientWindow < 0
          BY <1>2, <3>3
        <5> QED
          BY <1>10, <5>1
      <4> QED
        BY <1>2, <1>3, <2>2, <3>3, <4>1
    <3> QED
      BY <3>1, <3>2, <3>3
  <2>3. k \in 1 .. k0 \/ k = k1
    BY <1>2
  <2> QED
    BY <2>1, <2>2, <2>3
<1>13. CountInv'
  BY <1>1, <1>2, <1>9 DEF CountInv
<1> QED
  BY <1>1, <1>11, <1>12, <1>13 DEF ClientInv

LEMMA ClientInvHolds == Client!Spec => []ClientInv
<1>1. ASSUME Client!Init PROVE ClientInv
  <2>1. /\ clientWindow \in Int /\ limit \in Int /\ calls = <<>> /\ warnings = 0 /\ batches = <<>>
    BY <1>1, ClientAssumption DEF Client!Init
  <2>2. Client!Streak(0) = {} /\ Client!Talk = <<>>
    BY <2>1 DEF Client!Streak, Client!Talk
  <2>3. ClientType /\ HistoryInv
    BY <2>1, <2>2 DEF ClientType, HistoryInv, Remembers
  <2>4. CountInv
    BY <2>1, <2>2, FS_EmptySet DEF CountInv
  <2> QED
    BY <2>1, <2>3, <2>4 DEF ClientInv, Client!WarnsOnRepetition, Client!HardStopIsEarned
<1>2. ASSUME ClientInv, [Client!Next]_(Client!vars) PROVE ClientInv'
  <2>1. CASE Client!ResetDoomLoop
    <3>1. /\ clientWindow' \in Int /\ limit' \in Int
          /\ calls' = <<>> /\ warnings' = 0 /\ batches' = <<>>
      BY <1>2, <2>1 DEF Client!ResetDoomLoop, ClientInv, ClientType
    <3>2. Client!Streak(0)' = {} /\ Client!Talk' = <<>>
      BY <3>1 DEF Client!Streak, Client!Talk
    <3>3. ClientType' /\ HistoryInv'
      BY <3>1, <3>2 DEF ClientType, HistoryInv, Remembers
    <3>4. CountInv'
      BY <3>1, <3>2, FS_EmptySet DEF CountInv
    <3> QED
      BY <3>1, <3>3, <3>4 DEF ClientInv, Client!WarnsOnRepetition, Client!HardStopIsEarned
  <2>2. CASE Client!UpdateConfig \/ UNCHANGED Client!vars
    <3>1. /\ UNCHANGED <<clientWindow, calls, warnings, batches>> /\ limit' \in Int
      BY <1>2, <2>2, ClientAssumption
      DEF Client!UpdateConfig, Client!vars, ClientInv, ClientType
    <3>2. /\ Client!Talk' = Client!Talk
          /\ \A k : Client!Checked(k)' = Client!Checked(k)
          /\ \A k : Client!EndsInLoop(k)' = Client!EndsInLoop(k)
      BY <3>1 DEF Client!Talk, Client!Checked, Client!EndsInLoop
    <3>3. \A k : Client!Streak(k)' = Client!Streak(k)
      BY <3>2 DEF Client!Streak
    <3>4. ClientType' /\ HistoryInv' /\ CountInv'
      BY <1>2, <3>1, <3>2, <3>3 DEF ClientInv, ClientType, HistoryInv, CountInv
    <3>5. Client!WarnsOnRepetition' /\ Client!HardStopIsEarned'
      BY <1>2, <3>1, <3>2, <3>3, SameCardinality DEF ClientInv, Client!WarnsOnRepetition,
         Client!HardStopIsEarned
    <3> QED
      BY <3>4, <3>5 DEF ClientInv
  <2>3. ASSUME NEW d \in Client!Batches, Client!Complete(d) PROVE ClientInv'
    <3>1. PICK m \in 0 .. MaxBatch : d \in [1 .. m -> Sigs]
      BY DEF Client!Batches
    <3>2. d \in Seq(Sigs)
      BY <3>1
    <3> QED
      BY <1>2, <2>3, <3>2, CompleteKeeps
  <2> QED
    BY <1>2, <2>1, <2>2, <2>3 DEF Client!Next
<1> QED
  BY <1>1, <1>2, PTL DEF Client!Spec

(* Whatever the answers and their batches, the window and the limit, the     *)
(* client warns of repetitions and of nothing else (client.go:229-268).      *)
THEOREM RepetitionWarned == Client!Spec => []WarnsOnRepetition
<1>1. ClientInv => WarnsOnRepetition
  BY DEF ClientInv, WarnsOnRepetition
<1> QED
  BY <1>1, ClientInvHolds, PTL

(* The client's hard stop comes with the warning that the limit asks for and *)
(* with no other (client.go:259-272).                                        *)
THEOREM HardStopEarned == Client!Spec => []HardStopIsEarned
<1>1. ClientInv => HardStopIsEarned
  BY DEF ClientInv, HardStopIsEarned
<1> QED
  BY <1>1, ClientInvHolds, PTL

-----------------------------------------------------------------------------
(* Whichever of the two a behaviour follows, the properties of both hold. *)
THEOREM DetectorsCorrect ==
  DetectorSpec => [](WarnsOnRepetition /\ HardStopIsEarned /\ PauseIsEarned /\ NoticedInTime)
<1>1. DetectorInit => Init /\ Client!Init
  BY DEF DetectorInit
<1>2. [ClientNext \/ LoopNext]_<<detector, clientVars, vars>>
        => [Next]_vars /\ [Client!Next]_(Client!vars)
  <2>1. (UNCHANGED clientVars) => UNCHANGED Client!vars
    BY DEF clientVars, Client!vars
  <2> QED
    BY <2>1 DEF ClientNext, LoopNext
<1> QED
  BY <1>1, <1>2, RepetitionWarned, HardStopEarned, PauseEarned, Noticed, PTL
  DEF DetectorSpec, Spec, Client!Spec

(* A behaviour of the agent's parts is one of the detectors and one of the   *)
(* controller, each as specified alone.                                      *)
THEOREM AgentRunsBoth == AgentSpec => DetectorSpec /\ Controller!Spec
<1>1. AgentInit => DetectorInit /\ Controller!Init
  BY DEF AgentInit
<1>2. [AgentNext]_agentVars => [ClientNext \/ LoopNext]_<<detector, clientVars, vars>>
                                /\ [Controller!Next]_(Controller!vars)
  <2> SUFFICES ASSUME [AgentNext]_agentVars
               PROVE  [ClientNext \/ LoopNext]_<<detector, clientVars, vars>>
                      /\ [Controller!Next]_(Controller!vars)
    OBVIOUS
  <2>1. ASSUME NEW e \in Calls, BeginCall(e) PROVE Controller!Next /\ UNCHANGED detectorVars
    BY <2>1 DEF BeginCall, DetectorsRest, Controller!Next
  <2>2. ASSUME NEW e \in Calls, GoOn(e) PROVE Controller!Next /\ UNCHANGED detectorVars
    BY <2>2 DEF GoOn, DetectorsRest, Controller!Next
  <2>3. CASE DetectorMoves
    BY <2>3 DEF DetectorMoves, controllerVars, Controller!vars
  <2>4. CASE UNCHANGED agentVars
    <3>1. UNCHANGED detectorVars /\ UNCHANGED controllerVars
      BY <2>4 DEF agentVars
    <3>2. UNCHANGED Controller!vars
      BY <3>1 DEF controllerVars, Controller!vars
    <3> QED
      BY <3>1, <3>2 DEF detectorVars
  <2> QED
    BY <2>1, <2>2, <2>3, <2>4 DEF AgentNext, detectorVars
<1> QED
  BY <1>1, <1>2, PTL DEF AgentSpec, DetectorSpec, Controller!Spec
=============================================================================
