------------------------ MODULE AdaptControllerProofs ------------------------
(***************************************************************************)
(* Proofs about the ADaPT controller, for any number of calls of Execute,  *)
(* any limits and plans: what the statuses of a tree of tasks say at every *)
(* moment of the recursion.  The invariant of a call is a property of its  *)
(* sequence of tasks: a path of running tasks, left of it what let the     *)
(* composition go on, and right of it what is still pending.               *)
(***************************************************************************)
EXTENDS Agent, FiniteSets, SequenceTheorems, FiniteSetTheorems, WellFoundedInduction, TLAPS

Statuses == {"pending", "running", "success", "failed"}

Task == [id : Nat \X Nat, parent : Nat, depth : Nat, status : Statuses, op : {"AND", "OR"}]

(* The invariant of one call is about its tasks T, in the order of creation. *)

Kids(T, i) == {j \in 1 .. Len(T) : T[j].parent = i}

On(T, i) == T[i].status = "running"

Shape(T) ==
  \A i \in 1 .. Len(T) :
    /\ T[i].parent < i
    /\ T[i].parent = 0 => i = 1 /\ T[i].depth = 0
    /\ T[i].parent # 0 => T[i].depth = T[T[i].parent].depth + 1
    /\ T[i].status = "pending" => Kids(T, i) = {}

(* The outcome of a sub-task after which the next one is tried. *)
Continues(op) == IF op = "AND" THEN "success" ELSE "failed"

(* It is a's turn among the sub-tasks of i. *)
Turn(T, i, a) ==
  /\ a \in Kids(T, i)
  /\ \A j \in Kids(T, i) : /\ j < a => T[j].status = Continues(T[i].op)
                           /\ j > a => T[j].status = "pending"

(* The running tasks are a path from the root down to d, or none if d is 0. *)
Chain(T, d) ==
  /\ d # 0 => d \in 1 .. Len(T) /\ On(T, d)
  /\ \A i \in 1 .. Len(T) : On(T, i) =>
       /\ d # 0 /\ T[i].depth <= T[d].depth
       /\ T[i].parent # 0 => On(T, T[i].parent)
       /\ \A j \in 1 .. Len(T) : On(T, j) /\ T[i].depth = T[j].depth => i = j

(* Above d it is the turn of the sub-task on the path. *)
Inner(T, d) ==
  \A i \in 1 .. Len(T) : On(T, i) /\ i # d => \E a \in Kids(T, i) : On(T, a) /\ Turn(T, i, a)

(* The sub-task that settled a decomposed task was the last one to run. *)
SettledBy(T, i, a) ==
  /\ Turn(T, i, a) /\ T[a].status = T[i].status
  /\ T[a].status # Continues(T[i].op) \/ \A j \in Kids(T, i) : j <= a

Settled(T) ==
  \A i \in 1 .. Len(T) :
    T[i].status \in Controller!Ended /\ Kids(T, i) # {} => \E a \in Kids(T, i) : SettledBy(T, i, a)

Stack(T, d) == Chain(T, d) /\ Inner(T, d) /\ Settled(T)

(* What a call at p, with its task c and l sub-tasks to create, has done. *)
CallInv(T, p, c, l) ==
  /\ Shape(T)
  /\ p \in {"idle", "root"} => T = <<>>
  /\ p = "publish" => Len(T) = 1 /\ T[1].status = "pending"
  /\ p \in {"attempt", "plan", "spawn"} => c \in 1 .. Len(T) /\ Stack(T, c)
  /\ p \in {"attempt", "plan"} => Kids(T, c) = {}
  /\ p = "spawn" => /\ l > 0 \/ Kids(T, c) # {}
                    /\ \A j \in Kids(T, c) : T[j].status = "pending"
  /\ p = "return" => /\ c \in 1 .. Len(T) /\ T[c].status \in Controller!Ended
                     /\ Stack(T, T[c].parent)
                     /\ T[c].parent # 0 => Turn(T, T[c].parent, c)
  /\ p = "done" => Stack(T, 0)

TypeInv ==
  /\ counter \in Nat
  /\ tasks \in [Calls -> Seq(Task)] /\ cur \in [Calls -> Nat] /\ left \in [Calls -> Nat]
  /\ where \in [Calls -> {"idle", "root", "publish", "attempt", "plan", "spawn", "return", "done"}]

AdaptInv == TypeInv /\ \A e \in Calls : CallInv(tasks[e], where[e], cur[e], left[e])

-----------------------------------------------------------------------------
(* Sequences of tasks. *)

LEMMA HasLeast == ASSUME NEW S, S \subseteq Nat, S # {} PROVE \E x \in S : \A y \in S : x <= y
<1> DEFINE R == OpToRel(<, Nat)
<1>1. IsWellFoundedOn(R, Nat)
  BY NatLessThanWellFounded
<1>2. \A x, y \in Nat : <<x, y>> \in R <=> x < y
  BY DEF OpToRel
<1> HIDE DEF R
<1>3. PICK x \in S : \A y \in S : <<y, x>> \notin R
  BY <1>1, WFMin
<1>4. ASSUME NEW y \in S PROVE x <= y
  <2>1. x \in Nat /\ y \in Nat /\ <<y, x>> \notin R
    BY <1>3
  <2>2. ~(y < x)
    BY <1>2, <2>1
  <2> QED
    BY <2>1, <2>2
<1> QED
  BY <1>3, <1>4

LEMMA MinIsLeast ==
  ASSUME NEW S, S \subseteq Nat, S # {}
  PROVE  Controller!Min(S) \in S /\ \A y \in S : Controller!Min(S) <= y
<1>1. \E x \in S : \A y \in S : x <= y
  BY HasLeast
<1> QED
  BY <1>1 DEF Controller!Min

LEMMA TaskFields ==
  ASSUME NEW T \in Seq(Task)
  PROVE  /\ Len(T) \in Nat /\ DOMAIN T = 1 .. Len(T)
         /\ \A i \in 1 .. Len(T) :
              /\ T[i] \in Task /\ T[i].parent \in Nat /\ T[i].depth \in Nat
              /\ T[i].status \in Statuses /\ T[i].op \in {"AND", "OR"}
<1>1. Len(T) \in Nat /\ DOMAIN T = 1 .. Len(T) /\ \A i \in 1 .. Len(T) : T[i] \in Task
  OBVIOUS
<1> QED
  BY <1>1 DEF Task

(* U is T with another status of task i. *)
Marked(T, i, s, U) ==
  /\ U \in Seq(Task) /\ Len(U) = Len(T)
  /\ \A j \in 1 .. Len(T) : /\ U[j].parent = T[j].parent /\ U[j].depth = T[j].depth
                            /\ U[j].op = T[j].op
                            /\ U[j].status = IF j = i THEN s ELSE T[j].status
  /\ \A j : Kids(U, j) = Kids(T, j)

LEMMA Marking ==
  ASSUME NEW T \in Seq(Task), NEW i \in 1 .. Len(T), NEW s \in Statuses
  PROVE  Marked(T, i, s, [T EXCEPT ![i].status = s])
<1> DEFINE new == [T[i] EXCEPT !.status = s]
           U   == [T EXCEPT ![i] = new]
<1>1. /\ new \in Task /\ new.parent = T[i].parent /\ new.depth = T[i].depth
      /\ new.op = T[i].op /\ new.status = s
  <2>1. T[i] \in Task
    BY TaskFields
  <2> QED
    BY <2>1 DEF Task
<1>2. [T EXCEPT ![i].status = s] = U
  OBVIOUS
<1> HIDE DEF new
<1>3. /\ U \in Seq(Task) /\ Len(U) = Len(T)
      /\ \A j \in 1 .. Len(T) : U[j] = IF j = i THEN new ELSE T[j]
  BY <1>1, ExceptSeq
<1> HIDE DEF U
<1>4. \A j \in 1 .. Len(T) : /\ U[j].parent = T[j].parent /\ U[j].depth = T[j].depth
                             /\ U[j].op = T[j].op
                             /\ U[j].status = IF j = i THEN s ELSE T[j].status
  BY <1>1, <1>3
<1>5. \A j : Kids(U, j) = Kids(T, j)
  BY <1>3, <1>4 DEF Kids
<1> QED
  BY <1>2, <1>3, <1>4, <1>5 DEF Marked

LEMMA KidFacts ==
  ASSUME NEW T \in Seq(Task), Shape(T), NEW i, NEW a \in Kids(T, i), i # 0
  PROVE  a \in 1 .. Len(T) /\ a \in Nat /\ i \in Nat /\ i < a /\ i \in 1 .. Len(T)
         /\ T[a].parent = i /\ T[a].depth = T[i].depth + 1
<1>1. a \in 1 .. Len(T) /\ T[a].parent = i /\ Len(T) \in Nat
  BY TaskFields DEF Kids
<1>2. i \in Nat /\ i < a /\ T[a].depth = T[i].depth + 1
  BY <1>1, TaskFields DEF Shape
<1> QED
  BY <1>1, <1>2

(* Marking a task that is not in pending nor becomes so keeps the shape. *)
LEMMA ShapeKept ==
  ASSUME NEW T \in Seq(Task), NEW i \in 1 .. Len(T), NEW s \in Statuses \ {"pending"}, NEW U,
         Marked(T, i, s, U), Shape(T)
  PROVE  Shape(U)
<1> SUFFICES ASSUME NEW j \in 1 .. Len(T)
             PROVE  /\ U[j].parent < j
                    /\ U[j].parent = 0 => j = 1 /\ U[j].depth = 0
                    /\ U[j].parent # 0 => U[j].depth = U[U[j].parent].depth + 1
                    /\ U[j].status = "pending" => Kids(U, j) = {}
  BY DEF Shape, Marked
<1>1. T[j].parent # 0 => T[j].parent \in 1 .. Len(T)
  BY TaskFields DEF Shape
<1> QED
  BY <1>1 DEF Shape, Marked

(* A turn is not disturbed by a task that is not a sub-task of i, nor by the *)
(* one whose turn it is.                                                     *)
LEMMA TurnKept ==
  ASSUME NEW T \in Seq(Task), NEW x \in 1 .. Len(T), NEW s, NEW U, Marked(T, x, s, U),
         Shape(T), NEW i \in 1 .. Len(T), NEW a, Turn(T, i, a), x = a \/ x \notin Kids(T, i)
  PROVE  Turn(U, i, a)
<1> SUFFICES ASSUME NEW j \in Kids(T, i)
             PROVE  /\ j < a => U[j].status = Continues(U[i].op)
                    /\ j > a => U[j].status = "pending"
  BY DEF Turn, Marked
<1>1. j \in 1 .. Len(T) /\ j \in Nat /\ a \in Nat
  BY TaskFields DEF Kids, Turn
<1>2. CASE j = a
  BY <1>1, <1>2
<1>3. CASE j # a
  <2>1. j # x
    BY <1>3
  <2> QED
    BY <1>1, <2>1 DEF Turn, Marked
<1> QED
  BY <1>2, <1>3

(* Settled tasks stay so when a task is marked whose parent is not settled. *)
LEMMA SettledKept ==
  ASSUME NEW T \in Seq(Task), NEW x \in 1 .. Len(T), NEW s, NEW U, Marked(T, x, s, U),
         Shape(T), Settled(T), NEW i \in 1 .. Len(T), i # x,
         T[i].status \in Controller!Ended, Kids(T, i) # {},
         x \notin Kids(T, i)
  PROVE  \E a \in Kids(U, i) : SettledBy(U, i, a)
<1>1. PICK a \in Kids(T, i) : SettledBy(T, i, a)
  BY DEF Settled
<1>2. a \in 1 .. Len(T) /\ a # x
  BY <1>1, TaskFields DEF Kids
<1>3. Turn(U, i, a)
  BY <1>1, TurnKept DEF SettledBy
<1> QED
  BY <1>1, <1>2, <1>3 DEF SettledBy, Marked

(* executeTask begins task i, a pending one whose turn it is. *)
LEMMA BeginsTask ==
  ASSUME NEW T \in Seq(Task), NEW i \in 1 .. Len(T), NEW U, Marked(T, i, "running", U),
         Shape(T), Stack(T, T[i].parent), T[i].status = "pending",
         T[i].parent # 0 => Turn(T, T[i].parent, i)
  PROVE  Shape(U) /\ Stack(U, i) /\ Kids(U, i) = {}
<1> DEFINE d == T[i].parent
<1>1. /\ Chain(T, d) /\ Inner(T, d) /\ Settled(T) /\ Len(T) \in Nat /\ Len(U) = Len(T)
      /\ d \in Nat /\ d < i /\ ~On(T, i) /\ Kids(T, i) = {}
  <2>1. Len(T) \in Nat /\ T[i].parent \in Nat
    BY TaskFields
  <2>2. d < i /\ Kids(T, i) = {}
    BY DEF Shape
  <2> QED
    BY <2>1, <2>2 DEF Stack, On, Marked
<1>2. Shape(U)
  BY ShapeKept DEF Statuses
<1>3. \A j \in 1 .. Len(T) : On(U, j) <=> On(T, j) \/ j = i
  BY DEF On, Marked
<1>4. \A j \in 1 .. Len(T) : On(T, j) => T[j].depth < T[i].depth
  <2> SUFFICES ASSUME NEW j \in 1 .. Len(T), On(T, j) PROVE T[j].depth < T[i].depth
    OBVIOUS
  <2>1. d # 0 /\ T[j].depth <= T[d].depth /\ d \in 1 .. Len(T)
    BY <1>1 DEF Chain
  <2>2. T[i].depth = T[d].depth + 1
    BY <2>1 DEF Shape
  <2> QED
    BY <2>1, <2>2, TaskFields
<1>5. Chain(U, i)
  <2> SUFFICES ASSUME NEW j \in 1 .. Len(T), On(U, j)
               PROVE  /\ U[j].depth <= U[i].depth
                      /\ U[j].parent # 0 => On(U, U[j].parent)
                      /\ \A k \in 1 .. Len(T) : On(U, k) /\ U[j].depth = U[k].depth => j = k
    BY <1>1, <1>3 DEF Chain
  <2>1. U[j].depth <= U[i].depth
    BY <1>3, <1>4, TaskFields DEF Marked
  <2>2. ASSUME U[j].parent # 0 PROVE On(U, U[j].parent)
    <3>1. T[j].parent # 0 /\ U[j].parent = T[j].parent
      BY <2>2 DEF Marked
    <3>2. T[j].parent \in 1 .. Len(T)
      BY <3>1, TaskFields DEF Shape
    <3>3. On(T, T[j].parent)
      BY <1>1, <1>3, <3>1 DEF Chain
    <3> QED
      BY <1>3, <3>1, <3>2, <3>3
  <2>3. ASSUME NEW k \in 1 .. Len(T), On(U, k), U[j].depth = U[k].depth PROVE j = k
    <3>1. T[j].depth = T[k].depth /\ T[j].depth \in Nat /\ T[i].depth \in Nat
      BY <2>3, TaskFields DEF Marked
    <3>2. CASE On(T, j) /\ On(T, k)
      BY <1>1, <3>1, <3>2 DEF Chain
    <3>3. CASE j = i \/ k = i
      BY <1>3, <1>4, <2>3, <3>1, <3>3
    <3> QED
      BY <1>3, <2>3, <3>2, <3>3
  <2> QED
    BY <2>1, <2>2, <2>3
<1>6. Inner(U, i)
  <2> SUFFICES ASSUME NEW k \in 1 .. Len(T), On(U, k), k # i
               PROVE  \E a \in Kids(U, k) : On(U, a) /\ Turn(U, k, a)
    BY <1>1 DEF Inner
  <2>1. On(T, k)
    BY <1>3
  <2>2. CASE k = d
    <3>1. d # 0 /\ Turn(T, d, i)
      BY <1>1, <2>1, <2>2 DEF Chain
    <3>2. Turn(U, d, i)
      BY <1>1, <2>2, <3>1, TurnKept
    <3>3. i \in Kids(U, d)
      BY <3>2 DEF Turn
    <3> QED
      BY <1>1, <1>3, <2>2, <3>2, <3>3
  <2>3. CASE k # d
    <3>1. PICK a \in Kids(T, k) : On(T, a) /\ Turn(T, k, a)
      BY <1>1, <2>1, <2>3 DEF Inner
    <3>2. a \in 1 .. Len(T) /\ i \notin Kids(T, k)
      BY <2>3 DEF Kids
    <3>3. Turn(U, k, a)
      BY <3>1, <3>2, TurnKept
    <3> QED
      BY <1>3, <3>1, <3>2, <3>3 DEF Marked
  <2> QED
    BY <2>2, <2>3
<1>7. Settled(U)
  <2> SUFFICES ASSUME NEW k \in 1 .. Len(T), U[k].status \in Controller!Ended, Kids(U, k) # {}
               PROVE  \E a \in Kids(U, k) : SettledBy(U, k, a)
    BY <1>1 DEF Settled
  <2>1. k # i /\ T[k].status \in Controller!Ended /\ Kids(T, k) # {}
    BY DEF Controller!Ended, Marked
  <2>2. i \notin Kids(T, k)
    <3>1. ASSUME k = d PROVE FALSE
      <4>1. On(T, d)
        BY <1>1, <3>1, TaskFields DEF Chain
      <4> QED
        BY <2>1, <3>1, <4>1 DEF On, Controller!Ended
    <3> QED
      BY <3>1 DEF Kids
  <2> QED
    BY <1>1, <2>1, <2>2, SettledKept
<1>8. Kids(U, i) = {}
  BY <1>1 DEF Marked
<1> QED
  BY <1>2, <1>5, <1>6, <1>7, <1>8 DEF Stack

(* executeTask returns from task i, the last of the path. *)
LEMMA EndsTask ==
  ASSUME NEW T \in Seq(Task), NEW i \in 1 .. Len(T), NEW s \in Controller!Ended, NEW U,
         Marked(T, i, s, U),
         Shape(T), Stack(T, i),
         Kids(T, i) = {} \/ \E a \in Kids(T, i) :
           /\ Turn(T, i, a) /\ T[a].status = s
           /\ s # Continues(T[i].op) \/ \A j \in Kids(T, i) : j <= a
  PROVE  /\ Shape(U) /\ U[i].status \in Controller!Ended /\ U[i].parent = T[i].parent
         /\ Stack(U, T[i].parent)
         /\ T[i].parent # 0 => Turn(U, T[i].parent, i)
<1> DEFINE d == T[i].parent
<1>1. /\ Chain(T, i) /\ Inner(T, i) /\ Settled(T) /\ Len(T) \in Nat /\ Len(U) = Len(T)
      /\ d \in Nat /\ d < i /\ On(T, i) /\ i # 0 /\ i \in Nat
      /\ d # 0 => d \in 1 .. Len(T) /\ T[i].depth = T[d].depth + 1
  <2>1. Len(T) \in Nat /\ d \in Nat /\ i \in Nat /\ i # 0 /\ i <= Len(T)
    BY TaskFields
  <2>2. d < i /\ (d # 0 => T[i].depth = T[d].depth + 1)
    BY DEF Shape
  <2>3. d # 0 => d \in 1 .. Len(T)
    BY <2>1, <2>2
  <2>4. Chain(T, i) /\ Inner(T, i) /\ Settled(T) /\ On(T, i)
    BY <2>1 DEF Stack, Chain
  <2> QED
    BY <2>1, <2>2, <2>3, <2>4 DEF Marked
<1>2. Shape(U)
  BY ShapeKept DEF Statuses, Controller!Ended
<1>3. /\ \A j \in 1 .. Len(T) : On(U, j) <=> On(T, j) /\ j # i
      /\ U[i].status \in Controller!Ended /\ U[i].parent = d
  BY DEF On, Marked, Controller!Ended
<1>4. \A j \in 1 .. Len(T) : On(U, j) => T[j].depth < T[i].depth
  <2> SUFFICES ASSUME NEW j \in 1 .. Len(T), On(U, j) PROVE T[j].depth < T[i].depth
    OBVIOUS
  <2>1. T[j].depth <= T[i].depth /\ T[j].depth # T[i].depth
    BY <1>1, <1>3 DEF Chain
  <2> QED
    BY <2>1, TaskFields
<1>5. ASSUME d # 0 PROVE On(T, d) /\ On(U, d) /\ Turn(T, d, i) /\ Turn(U, d, i)
  <2>1. On(T, d)
    BY <1>1, <1>5 DEF Chain
  <2>2. PICK a \in Kids(T, d) : On(T, a) /\ Turn(T, d, a)
    BY <1>1, <1>5, <2>1 DEF Inner
  <2>3. a \in 1 .. Len(T) /\ T[a].depth = T[i].depth
    BY <1>1, <1>5, <2>2, KidFacts
  <2>4. a = i
    BY <1>1, <2>2, <2>3 DEF Chain
  <2>5. Turn(U, d, i)
    BY <1>1, <1>5, <2>2, <2>4, TurnKept
  <2> QED
    BY <1>1, <1>3, <1>5, <2>1, <2>2, <2>4, <2>5
<1>6. Chain(U, d)
  <2>1. ASSUME NEW j \in 1 .. Len(T), On(U, j)
        PROVE  /\ d # 0 /\ U[j].depth <= U[d].depth
               /\ U[j].parent # 0 => On(U, U[j].parent)
               /\ \A k \in 1 .. Len(T) : On(U, k) /\ U[j].depth = U[k].depth => j = k
    <3>0. On(T, j) /\ T[j].depth < T[i].depth /\ T[j].depth \in Nat /\ T[i].depth \in Nat
      BY <1>3, <1>4, <2>1, TaskFields
    <3>1. d # 0
      <4>1. d = 0 => T[i].depth = 0
        BY DEF Shape
      <4> QED
        BY <3>0, <4>1
    <3>2. U[j].depth <= U[d].depth
      <4>1. U[j].depth = T[j].depth /\ U[d].depth = T[d].depth /\ T[d].depth \in Nat
        BY <1>1, <3>1, TaskFields DEF Marked
      <4> QED
        BY <1>1, <3>0, <3>1, <4>1
    <3>3. ASSUME U[j].parent # 0 PROVE On(U, U[j].parent)
      <4>1. U[j].parent = T[j].parent /\ T[j].parent # 0
        BY <3>3 DEF Marked
      <4>2. /\ T[j].parent \in 1 .. Len(T) /\ On(T, T[j].parent)
            /\ T[j].depth = T[T[j].parent].depth + 1
        BY <1>1, <3>0, <4>1, TaskFields DEF Chain, Shape
      <4>3. T[j].parent # i
        BY <3>0, <4>2
      <4> QED
        BY <1>3, <4>1, <4>2, <4>3
    <3>4. ASSUME NEW k \in 1 .. Len(T), On(U, k), U[j].depth = U[k].depth PROVE j = k
      BY <1>1, <1>3, <3>0, <3>4 DEF Chain, Marked
    <3> QED
      BY <3>1, <3>2, <3>3, <3>4
  <2> QED
    BY <1>1, <1>5, <2>1 DEF Chain
<1>7. Inner(U, d)
  <2> SUFFICES ASSUME NEW k \in 1 .. Len(T), On(U, k), k # d
               PROVE  \E a \in Kids(U, k) : On(U, a) /\ Turn(U, k, a)
    BY <1>1 DEF Inner
  <2>1. On(T, k) /\ k # i
    BY <1>3
  <2>2. PICK a \in Kids(T, k) : On(T, a) /\ Turn(T, k, a)
    BY <1>1, <2>1 DEF Inner
  <2>3. a \in 1 .. Len(T) /\ a # i /\ i \notin Kids(T, k)
    BY <2>2 DEF Kids
  <2>4. Turn(U, k, a)
    BY <2>2, <2>3, TurnKept
  <2> QED
    BY <1>3, <2>2, <2>3, <2>4 DEF Marked
<1>8. Settled(U)
  <2> SUFFICES ASSUME NEW k \in 1 .. Len(T), U[k].status \in Controller!Ended, Kids(U, k) # {}
               PROVE  \E a \in Kids(U, k) : SettledBy(U, k, a)
    BY <1>1 DEF Settled
  <2>1. i \notin Kids(T, i)
    BY <1>1 DEF Kids
  <2>2. CASE k = i
    <3>1. Kids(T, i) # {}
      BY <2>2 DEF Marked
    <3>2. PICK a \in Kids(T, i) :
            /\ Turn(T, i, a) /\ T[a].status = s
            /\ s # Continues(T[i].op) \/ \A j \in Kids(T, i) : j <= a
      BY <3>1
    <3>3. Turn(U, i, a) /\ a \in 1 .. Len(T) /\ a # i
      BY <2>1, <3>2, TurnKept DEF Kids
    <3>4. /\ U[a].status = s /\ U[i].status = s /\ U[i].op = T[i].op
          /\ Kids(U, i) = Kids(T, i)
      BY <3>2, <3>3 DEF Marked
    <3> QED
      BY <2>2, <3>2, <3>3, <3>4 DEF SettledBy
  <2>3. CASE k # i
    <3>1. T[k].status \in Controller!Ended /\ Kids(T, k) # {}
      BY <2>3 DEF Marked
    <3>2. i \notin Kids(T, k)
      <4>1. ASSUME k = d PROVE FALSE
        <5>1. On(T, d)
          BY <1>1, <1>5, <4>1
        <5> QED
          BY <3>1, <4>1, <5>1 DEF On, Controller!Ended
      <4> QED
        BY <4>1 DEF Kids
    <3> QED
      BY <1>1, <2>3, <3>1, <3>2, SettledKept
  <2> QED
    BY <2>2, <2>3
<1> QED
  BY <1>2, <1>3, <1>5, <1>6, <1>7, <1>8 DEF Stack

(* createTask appends a pending sub-task of c. *)
LEMMA Appends ==
  ASSUME NEW T \in Seq(Task), NEW c \in 1 .. Len(T), NEW new \in Task, NEW U, U = Append(T, new),
         new.parent = c, new.depth = T[c].depth + 1, new.status = "pending",
         Shape(T), Stack(T, c), \A j \in Kids(T, c) : T[j].status = "pending"
  PROVE  /\ U \in Seq(Task) /\ c \in 1 .. Len(U) /\ Shape(U) /\ Stack(U, c)
         /\ Kids(U, c) # {} /\ \A j \in Kids(U, c) : U[j].status = "pending"
<1> DEFINE n == Len(T) + 1
<1>1. /\ U \in Seq(Task) /\ Len(T) \in Nat /\ Len(U) = n /\ U[n] = new
      /\ \A j \in 1 .. Len(T) : U[j] = T[j]
  BY TaskFields
<1>2. /\ \A j : j \in 1 .. n <=> j \in 1 .. Len(T) \/ j = n
      /\ n \notin 1 .. Len(T) /\ c # n /\ n \in Nat /\ c \in Nat /\ c < n
      /\ c \in 1 .. n
  BY <1>1
<1> HIDE DEF n
<1>3. /\ Kids(U, c) = Kids(T, c) \union {n}
      /\ \A i : i # c => Kids(U, i) = Kids(T, i)
  BY <1>1, <1>2 DEF Kids
<1>4. Kids(T, n) = {} /\ \A i : Kids(T, i) \subseteq 1 .. Len(T)
  <2>1. \A j \in 1 .. Len(T) : T[j].parent < j /\ T[j].parent \in Nat
    BY TaskFields DEF Shape
  <2>2. \A j \in 1 .. Len(T) : T[j].parent # n
    BY <1>1, <1>2, <2>1 DEF n
  <2> QED
    BY <2>2 DEF Kids
<1>5. Chain(T, c) /\ Inner(T, c) /\ Settled(T) /\ On(T, c) /\ c # 0
  BY <1>2 DEF Stack, Chain
<1>6. Shape(U)
  <2> SUFFICES ASSUME NEW j \in 1 .. n
               PROVE  /\ U[j].parent < j
                      /\ U[j].parent = 0 => j = 1 /\ U[j].depth = 0
                      /\ U[j].parent # 0 => U[j].depth = U[U[j].parent].depth + 1
                      /\ U[j].status = "pending" => Kids(U, j) = {}
    BY <1>1 DEF Shape
  <2>1. CASE j = n
    <3>1. U[j] = new /\ U[c] = T[c]
      BY <1>1, <2>1
    <3> QED
      BY <1>2, <1>3, <1>4, <1>5, <2>1, <3>1
  <2>2. CASE j \in 1 .. Len(T)
    <3>1. T[j].parent # 0 => T[j].parent \in 1 .. Len(T)
      <4>1. T[j].parent < j /\ T[j].parent \in Nat /\ j <= Len(T) /\ j \in Nat
        BY <1>1, <2>2, TaskFields DEF Shape
      <4> QED
        BY <1>1, <4>1
    <3>2. T[j].status = "pending" => j # c
      BY <1>5 DEF On
    <3> QED
      BY <1>1, <1>3, <2>2, <3>1, <3>2 DEF Shape
  <2> QED
    BY <1>2, <2>1, <2>2
<1>7. \A j \in 1 .. n : On(U, j) => j \in 1 .. Len(T) /\ On(T, j)
  BY <1>1, <1>2 DEF On
<1>8. Chain(U, c)
  <2> SUFFICES ASSUME NEW i \in 1 .. n, On(U, i)
               PROVE  /\ U[i].depth <= U[c].depth
                      /\ U[i].parent # 0 => On(U, U[i].parent)
                      /\ \A j \in 1 .. n : On(U, j) /\ U[i].depth = U[j].depth => i = j
    BY <1>1, <1>2, <1>5 DEF Chain, On
  <2>1. i \in 1 .. Len(T) /\ On(T, i) /\ U[i] = T[i]
    BY <1>1, <1>7
  <2>2. U[i].parent # 0 => On(U, U[i].parent)
    <3>1. T[i].parent # 0 => T[i].parent \in 1 .. Len(T) /\ On(T, T[i].parent)
      BY <1>5, <2>1, TaskFields DEF Chain, Shape
    <3> QED
      BY <1>1, <2>1, <3>1 DEF On
  <2>3. U[i].depth <= U[c].depth
    BY <1>1, <1>5, <2>1 DEF Chain
  <2>4. \A j \in 1 .. n : On(U, j) /\ U[i].depth = U[j].depth => i = j
    BY <1>1, <1>5, <1>7, <2>1 DEF Chain
  <2> QED
    BY <2>2, <2>3, <2>4
<1>9. ASSUME NEW i \in 1 .. Len(T), NEW a, Turn(T, i, a), i # c PROVE Turn(U, i, a)
  <2>1. Kids(U, i) = Kids(T, i) /\ U[i] = T[i] /\ \A j \in Kids(T, i) : U[j] = T[j]
    BY <1>1, <1>3, <1>4, <1>9
  <2> QED
    BY <1>9, <2>1 DEF Turn
<1>10. Inner(U, c)
  <2> SUFFICES ASSUME NEW k \in 1 .. n, On(U, k), k # c
               PROVE  \E a \in Kids(U, k) : On(U, a) /\ Turn(U, k, a)
    BY <1>1 DEF Inner
  <2>1. k \in 1 .. Len(T) /\ On(T, k)
    BY <1>7
  <2>2. PICK a \in Kids(T, k) : On(T, a) /\ Turn(T, k, a)
    BY <1>5, <2>1 DEF Inner
  <2>3. U[a] = T[a] /\ Turn(U, k, a) /\ a \in Kids(U, k)
    BY <1>1, <1>3, <1>4, <1>9, <2>1, <2>2
  <2> QED
    BY <2>2, <2>3 DEF On
<1>11. Settled(U)
  <2> SUFFICES ASSUME NEW k \in 1 .. n, U[k].status \in Controller!Ended, Kids(U, k) # {}
               PROVE  \E a \in Kids(U, k) : SettledBy(U, k, a)
    BY <1>1 DEF Settled
  <2>1. k # n /\ k # c /\ k \in 1 .. Len(T) /\ U[k] = T[k]
    BY <1>1, <1>2, <1>5 DEF On, Controller!Ended
  <2>2. PICK a \in Kids(T, k) : SettledBy(T, k, a)
    BY <1>3, <1>5, <2>1 DEF Settled
  <2>3. U[a] = T[a] /\ Turn(U, k, a) /\ Kids(U, k) = Kids(T, k)
    BY <1>1, <1>3, <1>4, <1>9, <2>1, <2>2 DEF SettledBy
  <2> QED
    BY <2>1, <2>2, <2>3 DEF SettledBy
<1>12. \A j \in Kids(U, c) : U[j].status = "pending"
  BY <1>1, <1>3, <1>4
<1> QED
  BY <1>1, <1>2, <1>3, <1>6, <1>8, <1>10, <1>11, <1>12 DEF Stack

(* The first pending sub-task is the next one, at the beginning ...          *)
LEMMA FirstTurn ==
  ASSUME NEW T \in Seq(Task), NEW c, Kids(T, c) # {}, \A j \in Kids(T, c) : T[j].status = "pending",
         NEW i, i = Controller!Min({j \in Kids(T, c) : T[j].status = "pending"})
  PROVE  i \in 1 .. Len(T) /\ T[i].status = "pending" /\ T[i].parent = c /\ Turn(T, c, i)
<1>1. {j \in Kids(T, c) : T[j].status = "pending"} = Kids(T, c) /\ Kids(T, c) \subseteq Nat
  BY TaskFields DEF Kids
<1>2. i \in Kids(T, c) /\ i \in Nat /\ \A j \in Kids(T, c) : i <= j /\ j \in Nat
  BY <1>1, MinIsLeast
<1>3. \A j \in Kids(T, c) : ~(j < i)
  BY <1>2
<1> QED
  BY <1>2, <1>3 DEF Turn, Kids

(* ... and after a sub-task that let the composition go on.                  *)
LEMMA NextTurn ==
  ASSUME NEW T \in Seq(Task), NEW p, NEW c, Turn(T, p, c), T[c].status = Continues(T[p].op),
         NEW i, i = Controller!Min({j \in Kids(T, p) : T[j].status = "pending"}),
         {j \in Kids(T, p) : T[j].status = "pending"} # {}
  PROVE  i \in 1 .. Len(T) /\ T[i].status = "pending" /\ T[i].parent = p /\ Turn(T, p, i)
<1> DEFINE W == {j \in Kids(T, p) : T[j].status = "pending"}
<1>0. \A j \in Kids(T, p) : j \in Nat
  BY TaskFields DEF Kids
<1>1. i \in W /\ \A j \in W : i <= j
  BY <1>0, MinIsLeast
<1>2. /\ c \in Kids(T, p) /\ i \in Kids(T, p) /\ T[i].status = "pending" /\ c \in Nat /\ i \in Nat
      /\ Continues(T[p].op) # "pending"
  BY <1>0, <1>1 DEF Turn, Continues
<1>3. c < i
  <2>1. ~(i < c) /\ i # c
    BY <1>2 DEF Turn
  <2> QED
    BY <1>2, <2>1
<1>4. ASSUME NEW j \in Kids(T, p)
      PROVE  /\ j < i => T[j].status = Continues(T[p].op)
             /\ j > i => T[j].status = "pending"
  <2>0. j \in Nat
    BY <1>0
  <2>1. ASSUME j < i PROVE T[j].status = Continues(T[p].op)
    <3>1. T[j].status # "pending"
      BY <1>1, <1>2, <2>0, <2>1
    <3>2. ~(j > c)
      BY <3>1 DEF Turn
    <3>3. CASE j = c
      BY <3>3
    <3>4. CASE j < c
      BY <3>4 DEF Turn
    <3> QED
      BY <1>2, <2>0, <3>2, <3>3, <3>4
  <2>2. ASSUME j > i PROVE T[j].status = "pending"
    <3>1. j > c
      BY <1>2, <1>3, <2>0, <2>2
    <3> QED
      BY <3>1 DEF Turn
  <2> QED
    BY <2>1, <2>2
<1> QED
  BY <1>2, <1>4 DEF Turn, Kids

-----------------------------------------------------------------------------
(* The steps. *)

LEMMA KidsAreChildren ==
  ASSUME TypeInv, NEW e \in Calls, NEW i
  PROVE  /\ Controller!ChildrenOf(e, i) = Kids(tasks[e], i)
         /\ Controller!Waiting(e, i) = {j \in Kids(tasks[e], i) : tasks[e][j].status = "pending"}
         /\ tasks[e] \in Seq(Task)
<1>1. tasks[e] \in Seq(Task)
  BY DEF TypeInv
<1>2. DOMAIN tasks[e] = 1 .. Len(tasks[e])
  BY <1>1, TaskFields
<1> QED
  BY <1>1, <1>2 DEF Controller!ChildrenOf, Controller!Waiting, Kids

(* A step of call e changes what belongs to e. *)
Only(e) ==
  \A f \in Calls \ {e} : /\ tasks'[f] = tasks[f] /\ where'[f] = where[f]
                         /\ cur'[f] = cur[f] /\ left'[f] = left[f]

LEMMA OthersKeep ==
  ASSUME AdaptInv, NEW e \in Calls, Only(e), TypeInv',
         CallInv(tasks'[e], where'[e], cur'[e], left'[e])
  PROVE  AdaptInv'
BY DEF AdaptInv, Only

LEMMA StartStep ==
  ASSUME AdaptInv, NEW e \in Calls, NEW i \in 1 .. Len(tasks[e]), Controller!StartTask(e, i),
         UNCHANGED left, counter' \in Nat,
         Stack(tasks[e], tasks[e][i].parent), tasks[e][i].status = "pending",
         tasks[e][i].parent # 0 => Turn(tasks[e], tasks[e][i].parent, i)
  PROVE  AdaptInv'
<1> DEFINE T == tasks[e]
           U == [T EXCEPT ![i].status = "running"]
<1>1. TypeInv /\ T \in Seq(Task) /\ Shape(T) /\ i \in Nat
  BY DEF AdaptInv, TypeInv, CallInv
<1>2. Marked(T, i, "running", U)
  BY <1>1, Marking DEF Statuses
<1>3. tasks' = [tasks EXCEPT ![e] = U] /\ cur' = [cur EXCEPT ![e] = i]
      /\ where' = [where EXCEPT ![e] = "attempt"]
  BY DEF Controller!StartTask, Controller!Goto
<1>4. Shape(U) /\ Stack(U, i) /\ Kids(U, i) = {} /\ Len(U) = Len(T) /\ U \in Seq(Task)
  <2>1. Len(U) = Len(T) /\ U \in Seq(Task)
    BY <1>2 DEF Marked
  <2> HIDE DEF U
  <2> QED
    BY <1>1, <1>2, <2>1, BeginsTask
<1> HIDE DEF U
<1>5. /\ tasks'[e] = U /\ cur'[e] = i /\ where'[e] = "attempt" /\ Only(e)
      /\ TypeInv'
  BY <1>1, <1>3, <1>4 DEF TypeInv, Only
<1>6. CallInv(U, "attempt", i, left'[e])
  BY <1>4 DEF CallInv
<1> QED
  BY <1>5, <1>6, OthersKeep

LEMMA EndStep ==
  ASSUME AdaptInv, NEW e \in Calls, NEW i \in 1 .. Len(tasks[e]), NEW s \in Controller!Ended,
         Controller!EndTask(e, i, s),
         UNCHANGED <<counter, left>>, Stack(tasks[e], i),
         \/ Kids(tasks[e], i) = {}
         \/ \E a \in Kids(tasks[e], i) :
              /\ Turn(tasks[e], i, a) /\ tasks[e][a].status = s
              /\ \/ s # Continues(tasks[e][i].op)
                 \/ \A j \in Kids(tasks[e], i) : j <= a
  PROVE  AdaptInv'
<1> DEFINE T == tasks[e]
           U == [T EXCEPT ![i].status = s]
<1>1. TypeInv /\ T \in Seq(Task) /\ Shape(T) /\ i \in Nat
  BY DEF AdaptInv, TypeInv, CallInv
<1>2. Marked(T, i, s, U)
  BY <1>1, Marking DEF Statuses, Controller!Ended
<1>3. tasks' = [tasks EXCEPT ![e] = U] /\ cur' = [cur EXCEPT ![e] = i]
      /\ where' = [where EXCEPT ![e] = "return"]
  BY DEF Controller!EndTask, Controller!Goto
<1>4. /\ Shape(U) /\ U[i].status \in Controller!Ended /\ Len(U) = Len(T) /\ U \in Seq(Task)
      /\ Stack(U, U[i].parent) /\ (U[i].parent # 0 => Turn(U, U[i].parent, i))
  <2>1. Len(U) = Len(T) /\ U \in Seq(Task)
    BY <1>2 DEF Marked
  <2> HIDE DEF U
  <2>2. /\ Shape(U) /\ U[i].status \in Controller!Ended /\ U[i].parent = T[i].parent
        /\ Stack(U, T[i].parent) /\ (T[i].parent # 0 => Turn(U, T[i].parent, i))
    BY <1>1, <1>2, EndsTask
  <2> QED
    BY <2>1, <2>2
<1> HIDE DEF U
<1>5. /\ tasks'[e] = U /\ cur'[e] = i /\ where'[e] = "return" /\ Only(e)
      /\ TypeInv'
  BY <1>1, <1>3, <1>4 DEF TypeInv, Only
<1>6. CallInv(U, "return", i, left'[e])
  BY <1>4 DEF CallInv
<1> QED
  BY <1>5, <1>6, OthersKeep

LEMMA StepKeeps ==
  ASSUME AdaptInv, NEW e \in Calls, Controller!Execute(e) \/ Controller!Step(e) PROVE AdaptInv'
<1> DEFINE T == tasks[e]
           c == cur[e]
<1>0. TypeInv /\ T \in Seq(Task) /\ Shape(T) /\ CallInv(T, where[e], c, left[e])
  BY DEF AdaptInv, TypeInv, CallInv
<1>1. CASE Controller!Execute(e)
  <2>1. /\ counter' = 0 /\ where' = [where EXCEPT ![e] = "root"] /\ where[e] = "idle"
        /\ UNCHANGED <<tasks, cur, left>>
    BY <1>1 DEF Controller!Execute, Controller!Goto
  <2>2. TypeInv' /\ Only(e) /\ where'[e] = "root"
    BY <1>0, <2>1 DEF TypeInv, Only
  <2>3. CallInv(T, "root", c, left[e])
    BY <1>0, <2>1 DEF CallInv
  <2> QED
    BY <2>1, <2>2, <2>3, OthersKeep
<1>2. CASE Controller!NewRoot(e)
  <2>1. PICK op \in {"AND", "OR"} : Controller!NewTask(e, 0, 0, op)
    BY <1>2 DEF Controller!NewRoot
  <2> DEFINE new == [id |-> <<counter + 1, 0>>, parent |-> 0, depth |-> 0,
                     status |-> "pending", op |-> op]
             U   == Append(T, new)
  <2>2. /\ tasks' = [tasks EXCEPT ![e] = U] /\ where' = [where EXCEPT ![e] = "publish"]
        /\ where[e] = "root"
        /\ counter' = counter + 1 /\ UNCHANGED <<cur, left>>
    BY <1>2, <2>1 DEF Controller!NewRoot, Controller!NewTask, Controller!Goto
  <2>3. /\ new \in Task /\ new.parent = 0 /\ new.depth = 0 /\ new.status = "pending"
    BY <1>0 DEF Task, Statuses, TypeInv
  <2> HIDE DEF new
  <2>4. T = <<>>
    BY <1>0, <2>2 DEF CallInv
  <2>5. U \in Seq(Task) /\ Len(U) = 1 /\ U[1] = new
    BY <2>3, <2>4
  <2> HIDE DEF U
  <2>6. Shape(U)
    <3>1. \A i \in 1 .. Len(U) : i = 1
      BY <2>5
    <3>2. Kids(U, 1) = {}
      BY <2>3, <2>5, <3>1 DEF Kids
    <3> QED
      BY <2>3, <2>5, <3>1, <3>2 DEF Shape
  <2>7. CallInv(U, "publish", c, left[e])
    BY <2>3, <2>5, <2>6 DEF CallInv
  <2>8. /\ TypeInv' /\ Only(e) /\ tasks'[e] = U /\ where'[e] = "publish"
        /\ cur'[e] = c /\ left'[e] = left[e]
    BY <1>0, <2>2, <2>5 DEF TypeInv, Only
  <2> QED
    BY <2>7, <2>8, OthersKeep
<1>3. CASE Controller!Publish(e)
  <2>1. where[e] = "publish" /\ Controller!StartTask(e, 1) /\ UNCHANGED <<counter, left>>
    BY <1>3 DEF Controller!Publish
  <2>2. Len(T) = 1 /\ T[1].status = "pending" /\ 1 \in 1 .. Len(T) /\ T[1].parent \in Nat
    BY <1>0, <2>1, TaskFields DEF CallInv
  <2>3. T[1].parent = 0
    BY <1>0, <2>2 DEF Shape
  <2>4. \A i \in 1 .. Len(T) : T[i].status = "pending"
    BY <2>2
  <2>5. Stack(T, 0)
    BY <2>4 DEF Stack, Chain, Inner, Settled, On, Controller!Ended
  <2>6. counter' \in Nat
    BY <1>0, <2>1 DEF TypeInv
  <2> QED
    BY <2>1, <2>2, <2>3, <2>5, <2>6, StartStep
<1>4. CASE Controller!ExecutorSucceeds(e) \/ Controller!NoPlan(e)
           \/ (Controller!ExecutorFails(e) /\ Controller!Exhausted(Controller!Current(e)))
  <2>1. /\ \E s \in Controller!Ended : Controller!EndTask(e, c, s)
        /\ where[e] \in {"attempt", "plan"} /\ UNCHANGED <<counter, left>>
    BY <1>4
    DEF Controller!ExecutorSucceeds, Controller!NoPlan, Controller!ExecutorFails, Controller!Ended
  <2>2. c \in 1 .. Len(T) /\ Stack(T, c) /\ Kids(T, c) = {}
    BY <1>0, <2>1 DEF CallInv
  <2> QED
    BY <2>1, <2>2, EndStep
<1>5. CASE Controller!ExecutorFails(e) /\ ~Controller!Exhausted(Controller!Current(e))
  <2>1. where[e] = "attempt" /\ where' = [where EXCEPT ![e] = "plan"]
        /\ UNCHANGED <<counter, tasks, cur, left>>
    BY <1>5 DEF Controller!ExecutorFails, Controller!Goto
  <2>2. TypeInv' /\ Only(e) /\ where'[e] = "plan"
    BY <1>0, <2>1 DEF TypeInv, Only
  <2>3. CallInv(T, "plan", c, left[e])
    BY <1>0, <2>1 DEF CallInv
  <2> QED
    BY <2>1, <2>2, <2>3, OthersKeep
<1>6. CASE Controller!Plan(e)
  <2>1. PICK n \in 1 .. MaxPlan : left' = [left EXCEPT ![e] = n]
    BY <1>6 DEF Controller!Plan
  <2>2. where[e] = "plan" /\ where' = [where EXCEPT ![e] = "spawn"] /\ UNCHANGED <<counter, tasks, cur>>
    BY <1>6 DEF Controller!Plan, Controller!Goto
  <2>3. TypeInv' /\ Only(e) /\ where'[e] = "spawn" /\ left'[e] = n /\ n > 0
    BY <1>0, <2>1, <2>2 DEF TypeInv, Only
  <2>4. CallInv(T, "spawn", c, n)
    BY <1>0, <2>2, <2>3 DEF CallInv
  <2> QED
    BY <2>2, <2>3, <2>4, OthersKeep
<1>7. CASE Controller!SpawnChild(e)
  <2> DEFINE new == [id |-> <<counter + 1, T[c].depth + 1>>, parent |-> c, depth |-> T[c].depth + 1,
                     status |-> "pending", op |-> "AND"]
             U   == Append(T, new)
  <2>1. /\ tasks' = [tasks EXCEPT ![e] = U] /\ where[e] = "spawn" /\ UNCHANGED <<where, cur>>
        /\ counter' = counter + 1 /\ left' = [left EXCEPT ![e] = @ - 1] /\ left[e] > 0
    BY <1>7 DEF Controller!SpawnChild, Controller!NewTask, Controller!Current
  <2>2. /\ c \in 1 .. Len(T) /\ Stack(T, c) /\ \A j \in Kids(T, c) : T[j].status = "pending"
    BY <1>0, <2>1 DEF CallInv
  <2>3. /\ new \in Task /\ new.parent = c /\ new.depth = T[c].depth + 1 /\ new.status = "pending"
    <3>1. c \in Nat /\ T[c].depth + 1 \in Nat /\ counter + 1 \in Nat
      BY <1>0, <2>2, TaskFields DEF TypeInv
    <3> HIDE DEF T, c
    <3> QED
      BY <3>1 DEF Task, Statuses
  <2> HIDE DEF new
  <2>4. /\ U \in Seq(Task) /\ c \in 1 .. Len(U) /\ Shape(U) /\ Stack(U, c)
        /\ Kids(U, c) # {} /\ \A j \in Kids(U, c) : U[j].status = "pending"
    BY <1>0, <2>2, <2>3, Appends
  <2> HIDE DEF U
  <2>5. CallInv(U, "spawn", c, left[e] - 1)
    BY <2>4 DEF CallInv
  <2>6. left[e] - 1 \in Nat
    BY <1>0, <2>1 DEF TypeInv
  <2>7. /\ TypeInv' /\ Only(e) /\ tasks'[e] = U /\ where'[e] = "spawn" /\ cur'[e] = c
        /\ left'[e] = left[e] - 1
    BY <1>0, <2>1, <2>4, <2>6 DEF TypeInv, Only
  <2> QED
    BY <2>5, <2>7, OthersKeep
<1>8. CASE Controller!FirstChild(e)
  <2> DEFINE i == Controller!Min(Controller!Waiting(e, c))
  <2>1. where[e] = "spawn" /\ left[e] = 0 /\ Controller!StartTask(e, i) /\ UNCHANGED <<counter, left>>
    BY <1>8 DEF Controller!FirstChild
  <2>2. /\ Stack(T, c) /\ Kids(T, c) # {} /\ \A j \in Kids(T, c) : T[j].status = "pending"
    BY <1>0, <2>1 DEF CallInv
  <2>3. i = Controller!Min({j \in Kids(T, c) : T[j].status = "pending"})
    BY <1>0, KidsAreChildren
  <2> HIDE DEF i
  <2>4. i \in 1 .. Len(T) /\ T[i].status = "pending" /\ T[i].parent = c /\ Turn(T, c, i)
    BY <1>0, <2>2, <2>3, FirstTurn
  <2>5. counter' \in Nat
    BY <1>0, <2>1 DEF TypeInv
  <2> QED
    BY <2>1, <2>2, <2>4, <2>5, StartStep
<1>9. CASE Controller!ChildReturns(e)
  <2> DEFINE p == T[c].parent
             s == T[c].status
             i == Controller!Min(Controller!Waiting(e, p))
  <2>1. where[e] = "return" /\ p # 0 /\ UNCHANGED <<counter, left>>
    BY <1>9 DEF Controller!ChildReturns, Controller!Current
  <2>2. /\ c \in 1 .. Len(T) /\ s \in Controller!Ended /\ Stack(T, p) /\ Turn(T, p, c)
    BY <1>0, <2>1 DEF CallInv
  <2>3. c \in Kids(T, p) /\ p \in 1 .. Len(T) /\ \A j \in Kids(T, p) : j \in Nat
    BY <1>0, <2>1, <2>2, TaskFields, KidFacts DEF Turn, Kids
  <2>4. Controller!Decides(T[p].op, s) <=> s # Continues(T[p].op)
    BY <1>0, <2>2, <2>3, TaskFields DEF Controller!Decides, Continues, Controller!Ended
  <2>5. CASE Controller!Decides(T[p].op, s) \/ Controller!Waiting(e, p) = {}
    <3>1. Controller!EndTask(e, p, s)
      BY <1>9, <2>5 DEF Controller!ChildReturns, Controller!Current
    <3>2. s # Continues(T[p].op) \/ \A j \in Kids(T, p) : j <= c
      <4>1. CASE Controller!Waiting(e, p) = {}
        <5>1. \A j \in Kids(T, p) : T[j].status # "pending"
          BY <1>0, <4>1, KidsAreChildren
        <5>2. \A j \in Kids(T, p) : ~(j > c)
          BY <2>2, <5>1 DEF Turn
        <5> QED
          BY <2>3, <5>2
      <4> QED
        BY <2>4, <2>5, <4>1
    <3> QED
      BY <2>1, <2>2, <2>3, <3>1, <3>2, EndStep
  <2>6. CASE ~(Controller!Decides(T[p].op, s) \/ Controller!Waiting(e, p) = {})
    <3>1. Controller!StartTask(e, i)
      BY <1>9, <2>6 DEF Controller!ChildReturns, Controller!Current
    <3>2. /\ i = Controller!Min({j \in Kids(T, p) : T[j].status = "pending"})
          /\ {j \in Kids(T, p) : T[j].status = "pending"} # {}
      BY <1>0, <2>6, KidsAreChildren
    <3> HIDE DEF i
    <3>3. i \in 1 .. Len(T) /\ T[i].status = "pending" /\ T[i].parent = p /\ Turn(T, p, i)
      BY <1>0, <2>2, <2>4, <2>6, <3>2, NextTurn
    <3>4. counter' \in Nat
      BY <1>0, <2>1 DEF TypeInv
    <3> QED
      BY <2>1, <2>2, <3>1, <3>3, <3>4, StartStep
  <2> QED
    BY <2>5, <2>6
<1>10. CASE Controller!RootReturns(e)
  <2>1. /\ where[e] = "return" /\ T[c].parent = 0 /\ where' = [where EXCEPT ![e] = "done"]
        /\ UNCHANGED <<counter, tasks, cur, left>>
    BY <1>10 DEF Controller!RootReturns, Controller!Goto, Controller!Current
  <2>2. TypeInv' /\ Only(e) /\ where'[e] = "done"
    BY <1>0, <2>1 DEF TypeInv, Only
  <2>3. CallInv(T, "done", c, left[e])
    BY <1>0, <2>1 DEF CallInv
  <2> QED
    BY <2>1, <2>2, <2>3, OthersKeep
<1> QED
  BY <1>1, <1>2, <1>3, <1>4, <1>5, <1>6, <1>7, <1>8, <1>9, <1>10 DEF Controller!Step

LEMMA AdaptInvHolds == Controller!Spec => []AdaptInv
<1>1. ASSUME Controller!Init PROVE AdaptInv
  <2>1. TypeInv /\ \A e \in Calls : tasks[e] = <<>> /\ where[e] = "idle"
    BY <1>1 DEF Controller!Init, TypeInv
  <2> QED
    BY <2>1 DEF AdaptInv, CallInv, Shape
<1>2. ASSUME AdaptInv, [Controller!Next]_(Controller!vars) PROVE AdaptInv'
  <2>1. CASE Controller!Next
    BY <1>2, <2>1, StepKeeps DEF Controller!Next
  <2>2. CASE UNCHANGED Controller!vars
    BY <1>2, <2>2 DEF Controller!vars, AdaptInv, TypeInv
  <2> QED
    BY <1>2, <2>1, <2>2
<1> QED
  BY <1>1, <1>2, PTL DEF Controller!Spec

(* Whatever executor and planner answer, the tasks shown as running are the  *)
(* path from the root to the task at hand, and none is when Execute is done  *)
(* (orchestrator.go:113-206).                                                *)
THEOREM StackIsShown == Controller!Spec => []RunningIsTheStack
<1>1. ASSUME AdaptInv, NEW e \in Calls
      PROVE  /\ where[e] \in {"attempt", "plan", "spawn"} => Controller!OnStack(e, cur[e])
             /\ where[e] = "return" => ~Controller!OnStack(e, cur[e])
             /\ where[e] = "done" => \A i \in DOMAIN tasks[e] : ~Controller!OnStack(e, i)
             /\ \A i, j \in DOMAIN tasks[e] :
                  /\ Controller!OnStack(e, i) /\ tasks[e][i].parent # 0
                       => Controller!OnStack(e, tasks[e][i].parent)
                  /\ Controller!OnStack(e, i) /\ Controller!OnStack(e, j)
                     /\ tasks[e][i].depth = tasks[e][j].depth
                       => i = j
  <2> DEFINE T == tasks[e]
             p == where[e]
             c == cur[e]
  <2>1. /\ CallInv(T, p, c, left[e]) /\ DOMAIN T = 1 .. Len(T) /\ Len(T) \in Nat
        /\ p \in {"idle", "root", "publish", "attempt", "plan", "spawn", "return", "done"}
        /\ \A i : Controller!OnStack(e, i) <=> On(T, i)
    BY <1>1, TaskFields DEF AdaptInv, TypeInv, Controller!OnStack, On
  <2>2. CASE p \in {"idle", "root", "publish"}
    <3>1. \A i \in 1 .. Len(T) : ~On(T, i)
      BY <2>1, <2>2 DEF CallInv, On
    <3> QED
      BY <2>1, <2>2, <3>1
  <2>3. CASE p \in {"attempt", "plan", "spawn"}
    <3>1. c \in 1 .. Len(T) /\ Chain(T, c)
      BY <2>1, <2>3 DEF CallInv, Stack
    <3>2. On(T, c)
      BY <2>1, <3>1 DEF Chain
    <3> QED
      BY <2>1, <2>3, <3>1, <3>2 DEF Chain
  <2>4. CASE p = "return"
    <3>1. Chain(T, T[c].parent) /\ ~On(T, c)
      BY <2>1, <2>4 DEF CallInv, Stack, On, Controller!Ended
    <3> QED
      BY <2>1, <2>4, <3>1 DEF Chain
  <2>5. CASE p = "done"
    <3>1. \A i \in 1 .. Len(T) : ~On(T, i)
      BY <2>1, <2>5 DEF CallInv, Stack, Chain
    <3> QED
      BY <2>1, <2>5, <3>1
  <2> QED
    BY <2>1, <2>2, <2>3, <2>4, <2>5
<1>2. AdaptInv => RunningIsTheStack
  BY <1>1 DEF RunningIsTheStack, Controller!RunningIsTheStack
<1> QED
  BY <1>2, AdaptInvHolds, PTL

LEMMA SameCount == \A S : Controller!Cardinality(S) = Cardinality(S)
BY DEF Controller!Cardinality, Cardinality

(* The outcome of every decomposed task is what its composition makes of its *)
(* sub-tasks', and nothing ran after the one that settled it                 *)
(* (orchestrator.go:209-272).                                                *)
THEOREM OutcomesAreComposed == Controller!Spec => []OutcomesCompose
<1>1. ASSUME AdaptInv, NEW e \in Calls, NEW i \in DOMAIN tasks[e],
             tasks[e][i].status \in Controller!Ended,
             Controller!ChildrenOf(e, i) # {}
      PROVE  LET t == tasks[e][i]
                 Having(s) == {j \in Controller!ChildrenOf(e, i) : tasks[e][j].status = s}
             IN  /\ Having("running") = {}
                 /\ t.op = "AND" =>
                      /\ t.status = "success" <=> Having("success") = Controller!ChildrenOf(e, i)
                      /\ t.status = "failed" <=> Cardinality(Having("failed")) = 1
                 /\ t.op = "OR" =>
                      /\ t.status = "success" <=> Cardinality(Having("success")) = 1
                      /\ t.status = "failed" <=> Having("failed") = Controller!ChildrenOf(e, i)
                 /\ \A j \in Having("pending"), k \in Having("success") \union Having("failed") : k < j
  <2> DEFINE T == tasks[e]
             K == Kids(T, i)
             Has(s) == {j \in K : T[j].status = s}
  <2>1. /\ T \in Seq(Task) /\ Controller!ChildrenOf(e, i) = K /\ i \in 1 .. Len(T) /\ K # {}
        /\ T[i].status \in Controller!Ended /\ CallInv(T, where[e], cur[e], left[e])
        /\ where[e] \in {"idle", "root", "publish", "attempt", "plan", "spawn", "return", "done"}
    BY <1>1, KidsAreChildren, TaskFields DEF AdaptInv, TypeInv
  <2>2. Settled(T)
    <3>1. CASE where[e] \in {"idle", "root", "publish"}
      BY <2>1, <3>1 DEF CallInv, Settled, Controller!Ended
    <3>2. CASE where[e] \in {"attempt", "plan", "spawn", "return", "done"}
      BY <2>1, <3>2 DEF CallInv, Stack
    <3> QED
      BY <2>1, <3>1, <3>2
  <2>3. PICK a \in K : SettledBy(T, i, a)
    BY <2>1, <2>2 DEF Settled
  <2>4. /\ \A j \in K : /\ j \in Nat /\ a \in Nat
                        /\ j < a => T[j].status = Continues(T[i].op)
                        /\ j > a => T[j].status = "pending"
        /\ T[a].status = T[i].status
        /\ T[a].status # Continues(T[i].op) \/ \A j \in K : j <= a
        /\ T[i].op \in {"AND", "OR"} /\ T[i].status \in {"success", "failed"}
    BY <2>1, <2>3, TaskFields DEF SettledBy, Turn, Kids, Controller!Ended
  <2> HIDE DEF T, K
  <2>5. \A j \in K : j < a \/ j = a \/ j > a
    BY <2>4
  <2>6. ASSUME NEW s \in {"success", "failed"}, s # Continues(T[i].op)
        PROVE  T[i].status = s <=> Cardinality(Has(s)) = 1
    <3>1. CASE T[i].status = s
      <4>1. Has(s) = {a}
        BY <2>3, <2>4, <2>5, <2>6, <3>1
      <4> QED
        BY <3>1, <4>1, FS_Singleton
    <3>2. CASE T[i].status # s
      <4>1. Has(s) = {}
        BY <2>4, <2>5, <2>6, <3>2
      <4>2. Cardinality(Has(s)) = 0
        BY <4>1, FS_EmptySet
      <4> QED
        BY <3>2, <4>2
    <3> QED
      BY <3>1, <3>2
  <2>7. ASSUME NEW s \in {"success", "failed"}, s = Continues(T[i].op)
        PROVE  T[i].status = s <=> Has(s) = K
    <3>1. CASE T[i].status = s
      <4>1. \A j \in K : j <= a
        BY <2>4, <2>7, <3>1
      <4>2. \A j \in K : T[j].status = s
        BY <2>4, <2>5, <2>7, <3>1, <4>1
      <4> QED
        BY <3>1, <4>2
    <3>2. CASE T[i].status # s
      <4>1. a \notin Has(s)
        BY <2>4, <3>2
      <4> QED
        BY <2>3, <3>2, <4>1
    <3> QED
      BY <3>1, <3>2
  <2>8. Has("running") = {}
    BY <2>4, <2>5 DEF Continues
  <2>9. \A j \in Has("pending"), k \in Has("success") \union Has("failed") : k < j
    <3> SUFFICES ASSUME NEW j \in Has("pending"), NEW k \in Has("success") \union Has("failed")
                 PROVE  k < j
      OBVIOUS
    <3>1. j \in K /\ k \in K /\ T[j].status = "pending" /\ T[k].status # "pending"
      OBVIOUS
    <3>2. ~(k > a) /\ ~(j < a) /\ j # a
      BY <2>4, <3>1 DEF Continues
    <3> QED
      BY <2>4, <3>1, <3>2
  <2>10. T[i].op = "AND" => /\ T[i].status = "success" <=> Has("success") = K
                            /\ T[i].status = "failed" <=> Cardinality(Has("failed")) = 1
    BY <2>6, <2>7 DEF Continues
  <2>11. T[i].op = "OR" => /\ T[i].status = "success" <=> Cardinality(Has("success")) = 1
                           /\ T[i].status = "failed" <=> Has("failed") = K
    BY <2>6, <2>7 DEF Continues
  <2> HIDE DEF Has
  <2>12. \A s : {j \in Controller!ChildrenOf(e, i) : tasks[e][j].status = s} = Has(s)
    BY <2>1 DEF Has, T
  <2> QED
    BY <2>1, <2>8, <2>9, <2>10, <2>11, <2>12 DEF T
<1>2. AdaptInv => OutcomesCompose
  BY <1>1, SameCount DEF OutcomesCompose, Controller!OutcomesCompose
<1> QED
  BY <1>2, AdaptInvHolds, PTL
====
