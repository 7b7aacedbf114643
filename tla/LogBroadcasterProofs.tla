------------------------ MODULE LogBroadcasterProofs ------------------------
(***************************************************************************)
(* LogBroadcaster's channel discipline, the order of what it delivers and  *)
(* the absence of gaps, for any number of streams and any capacities.      *)
(***************************************************************************)
EXTENDS LogBroadcaster, Integers, TLAPS

(* The handlers' program counters tell whose channel is registered, whose   *)
(* is closed.                                                               *)
ChannelInv ==
  /\ todo \subseteq listeners
  /\ \A s \in Streams :
       /\ (s \in listeners) <=> (st[s] \in {"reading", "sending", "leaving"})
       /\ (s \in closed) <=> (st[s] = "gone")

LEMMA InitChannel == Init => TypeOK /\ ChannelInv
BY CapacityAssumption DEF Init, TypeOK, ChannelInv, Msgs

LEMMA AppendFacts == ASSUME NEW S, NEW q \in Seq(S), NEW n \in S
                     PROVE  Append(q, n) \in Seq(S) /\ Len(Append(q, n)) = Len(q) + 1
OBVIOUS

LEMMA LinesAreNumbers == \A q \in Seq(Msgs) : q \in Seq(Nat)
<1> SUFFICES ASSUME NEW q \in Seq(Msgs) PROVE q \in Seq(Nat)
    OBVIOUS
<1>1. /\ Len(q) \in Nat /\ q \in [1 .. Len(q) -> Msgs]
  OBVIOUS
<1>2. q \in [1 .. Len(q) -> Nat]
  BY <1>1 DEF Msgs
<1> QED BY <1>1, <1>2

LEMMA WriteType == TypeOK /\ Write => TypeOK'
<1> SUFFICES ASSUME TypeOK, Write PROVE TypeOK'
    OBVIOUS
<1>1. PICK n \in Msgs : Enqueue(n)
  BY CapacityAssumption DEF Write, TypeOK, Msgs
<1>2. n \in 0 .. MaxMsg
  BY DEF Msgs
<1>3. CASE Len(queue) < QueueCap
  <2>1. Append(queue, n) \in Seq(Msgs) /\ Len(Append(queue, n)) <= QueueCap
    BY <1>3, AppendFacts, CapacityAssumption DEF TypeOK
  <2> QED BY <1>1, <1>2, <1>3, <2>1 DEF Enqueue, TypeOK
<1>4. CASE ~(Len(queue) < QueueCap)
  BY <1>1, <1>2, <1>4 DEF Enqueue, TypeOK
<1> QED BY <1>3, <1>4

LEMMA TakeType == TypeOK /\ HubTake => TypeOK'
<1> SUFFICES ASSUME TypeOK, HubTake PROVE TypeOK'
    OBVIOUS
<1>1. Head(queue) \in Msgs /\ Tail(queue) \in Seq(Msgs) /\ Len(Tail(queue)) <= QueueCap
  BY CapacityAssumption DEF HubTake, TypeOK
<1> QED BY <1>1, CapacityAssumption DEF HubTake, TypeOK, Msgs

LEMMA SendType == ASSUME TypeOK, cur \in Msgs, NEW s \in Streams, HubSend(s) PROVE TypeOK'
<1>1. CASE Fits(s)
  <2>1. /\ Append(buf[s], cur) \in Seq(Msgs)
        /\ Len(Append(buf[s], cur)) <= ListenCap
    BY <1>1, CapacityAssumption DEF TypeOK, Fits
  <2> QED BY <1>1, <2>1 DEF HubSend, StillToVisit, TypeOK
<1>2. CASE ~Fits(s)
  BY <1>2 DEF HubSend, StillToVisit, TypeOK
<1> QED BY <1>1, <1>2

LEMMA StreamType == ASSUME TypeOK, NEW s \in Streams, Stream(s) \/ HubRegister(s) \/ HubDeregister(s)
                    PROVE  TypeOK'
<1>1. CASE Read(s)
  <2>1. /\ Head(buf[s]) \in Msgs /\ Tail(buf[s]) \in Seq(Msgs)
        /\ Len(Tail(buf[s])) <= ListenCap
    BY <1>1, CapacityAssumption DEF Read, TypeOK
  <2> QED BY <1>1, <2>1 DEF Read, Moves, TypeOK, Msgs
<1>2. CASE Connect(s) \/ Disconnect(s) \/ Leave(s) \/ SendOk(s) \/ SendFails(s)
  BY <1>2 DEF Connect, Disconnect, Leave, SendOk, SendFails, Moves, TypeOK
<1>3. CASE HubRegister(s) \/ HubDeregister(s)
  BY <1>3 DEF HubRegister, HubDeregister, Unlisted, TypeOK
<1> QED BY <1>1, <1>2, <1>3 DEF Stream

LEMMA ChannelStep == TypeOK /\ ChannelInv /\ [Next]_vars => ChannelInv'
<1> SUFFICES ASSUME TypeOK, ChannelInv, [Next]_vars PROVE ChannelInv'
    OBVIOUS
<1> USE DEF TypeOK, ChannelInv
<1>1. CASE Write \/ HubTake
  BY <1>1 DEF Write, Enqueue, HubTake
<1>2. ASSUME NEW s \in Streams, Hub(s) PROVE ChannelInv'
  BY <1>2 DEF Hub, HubRegister, HubDeregister, HubSend, StillToVisit, Unlisted, InSelect
<1>3. ASSUME NEW s \in Streams, Stream(s) PROVE ChannelInv'
  BY <1>3 DEF Stream, Connect, Disconnect, Read, Leave, SendOk, SendFails, Moves
<1>4. CASE UNCHANGED vars
  BY <1>4 DEF vars
<1> QED BY <1>1, <1>2, <1>3, <1>4 DEF Next

-----------------------------------------------------------------------------
(* Order. *)

Rising(q) == \A i, j \in 1 .. Len(q) : i < j => q[i] < q[j]

(* Every element of q is above lo and at most hi. *)
Within(q, lo, hi) == \A i \in 1 .. Len(q) : lo < q[i] /\ q[i] <= hi

(* The newest line s can have: not the one being fanned out, while it waits. *)
Seen(s) == IF s \in todo THEN cur - 1 ELSE cur

OrderInv ==
  /\ cur <= written
  /\ todo # {} => cur > 0
  /\ Rising(queue) /\ Within(queue, cur, written)
  /\ \A s \in Streams : /\ last[s] <= Seen(s)
                        /\ Rising(buf[s]) /\ Within(buf[s], last[s], Seen(s))

LEMMA RisingAppend ==
  ASSUME NEW q \in Seq(Nat), NEW n \in Nat, NEW lo \in Int, NEW hi \in Int,
         Rising(q), Within(q, lo, hi), hi < n, lo < n
  PROVE  Rising(Append(q, n)) /\ Within(Append(q, n), lo, n)
<1>1. /\ Len(Append(q, n)) = Len(q) + 1
      /\ \A i \in 1 .. Len(q) : Append(q, n)[i] = q[i]
      /\ Append(q, n)[Len(q) + 1] = n
  OBVIOUS
<1>2. \A i \in 1 .. Len(q) : q[i] \in Nat /\ lo < q[i] /\ q[i] <= hi
  BY DEF Within
<1>3. Within(Append(q, n), lo, n)
  BY <1>1, <1>2 DEF Within
<1>4. Rising(Append(q, n))
  BY <1>1, <1>2 DEF Rising
<1> QED BY <1>3, <1>4

LEMMA RisingTail ==
  ASSUME NEW q \in Seq(Nat), q # <<>>, NEW lo \in Int, NEW hi \in Int,
         Rising(q), Within(q, lo, hi)
  PROVE  /\ Rising(Tail(q)) /\ Within(Tail(q), Head(q), hi)
         /\ lo < Head(q) /\ Head(q) <= hi
<1>1. /\ Len(Tail(q)) = Len(q) - 1 /\ Len(q) \in Nat \ {0}
      /\ \A i \in 1 .. Len(q) - 1 : Tail(q)[i] = q[i + 1]
      /\ Head(q) = q[1]
  OBVIOUS
<1> QED BY <1>1 DEF Rising, Within

LEMMA RisingConcat ==
  ASSUME NEW a \in Seq(Nat), NEW b \in Seq(Nat),
         NEW lo \in Int, NEW mid \in Int, NEW hi \in Int, lo <= mid, mid <= hi,
         Rising(a), Within(a, lo, mid), Rising(b), Within(b, mid, hi)
  PROVE  a \o b \in Seq(Nat) /\ Rising(a \o b) /\ Within(a \o b, lo, hi)
<1>1. /\ Len(a \o b) = Len(a) + Len(b)
      /\ \A i \in 1 .. Len(a) : (a \o b)[i] = a[i]
      /\ \A i \in Len(a) + 1 .. Len(a) + Len(b) : (a \o b)[i] = b[i - Len(a)]
  OBVIOUS
<1>2. /\ \A i \in 1 .. Len(a) : a[i] \in Nat /\ lo < a[i] /\ a[i] <= mid
      /\ \A i \in 1 .. Len(b) : b[i] \in Nat /\ mid < b[i] /\ b[i] <= hi
  BY DEF Within
<1>3. \A i \in Len(a) + 1 .. Len(a) + Len(b) : i - Len(a) \in 1 .. Len(b)
  OBVIOUS
<1>4. Within(a \o b, lo, hi)
  BY <1>1, <1>2, <1>3 DEF Within
<1>5. ASSUME NEW i \in 1 .. Len(a) + Len(b), NEW j \in 1 .. Len(a) + Len(b), i < j
      PROVE  (a \o b)[i] < (a \o b)[j]
  <2>1. CASE j <= Len(a)
    <3>1. i \in 1 .. Len(a) /\ j \in 1 .. Len(a)
      BY <1>5, <2>1
    <3> QED BY <1>1, <1>5, <3>1 DEF Rising
  <2>2. CASE i <= Len(a) /\ j > Len(a)
    <3>1. i \in 1 .. Len(a) /\ j \in Len(a) + 1 .. Len(a) + Len(b)
      BY <1>5, <2>2
    <3>2. (a \o b)[i] <= mid /\ mid < (a \o b)[j]
      BY <1>1, <1>2, <1>3, <3>1
    <3> QED BY <1>1, <1>2, <1>3, <3>1, <3>2
  <2>3. CASE i > Len(a)
    <3>1. /\ i \in Len(a) + 1 .. Len(a) + Len(b)
          /\ j \in Len(a) + 1 .. Len(a) + Len(b)
          /\ i - Len(a) < j - Len(a)
      BY <1>5, <2>3
    <3>2. b[i - Len(a)] < b[j - Len(a)]
      BY <1>3, <3>1 DEF Rising
    <3> QED BY <1>1, <3>1, <3>2
  <2> QED BY <2>1, <2>2, <2>3
<1> QED BY <1>1, <1>4, <1>5 DEF Rising

LEMMA InitOrder == Init => OrderInv
BY DEF Init, OrderInv, Rising, Within, Seen

LEMMA TypeStep == TypeOK /\ OrderInv /\ [Next]_vars => TypeOK'
<1> SUFFICES ASSUME TypeOK, OrderInv, [Next]_vars PROVE TypeOK'
    OBVIOUS
<1>1. ASSUME NEW s \in Streams, HubSend(s) PROVE TypeOK'
  <2>1. cur \in Msgs
    BY <1>1 DEF HubSend, OrderInv, TypeOK, Msgs
  <2> QED BY <1>1, <2>1, SendType
<1>2. CASE UNCHANGED vars
  BY <1>2 DEF vars, TypeOK
<1> QED BY <1>1, <1>2, WriteType, TakeType, StreamType DEF Next, Hub

LEMMA WriteOrder == TypeOK /\ OrderInv /\ Write => OrderInv'
<1> SUFFICES ASSUME TypeOK, OrderInv, Write PROVE OrderInv'
    OBVIOUS
<1>1. /\ cur \in Nat /\ written \in Nat /\ cur <= written
      /\ queue \in Seq(Nat) /\ Rising(queue) /\ Within(queue, cur, written)
  BY LinesAreNumbers DEF TypeOK, OrderInv
<1>2. PICK n \in Nat : n = written + 1 /\ Enqueue(n)
  BY <1>1 DEF Write
<1>3. Rising(Append(queue, n)) /\ Within(Append(queue, n), cur, n)
  BY <1>1, <1>2, RisingAppend
<1>4. Within(queue, cur, n)
  <2>1. \A i \in 1 .. Len(queue) : queue[i] \in Nat
    BY <1>1
  <2> QED BY <1>1, <1>2, <2>1 DEF Within
<1>5. cur' = cur /\ written' = n /\ (Rising(queue) /\ Within(queue, cur, written))'
  BY <1>1, <1>2, <1>3, <1>4 DEF Enqueue
<1>6. todo' = todo /\ last' = last /\ buf' = buf
  BY <1>2 DEF Enqueue
<1> QED BY <1>1, <1>2, <1>5, <1>6 DEF OrderInv, Seen

LEMMA TakeOrder == TypeOK /\ OrderInv /\ HubTake => OrderInv'
<1> SUFFICES ASSUME TypeOK, OrderInv, HubTake PROVE OrderInv'
    OBVIOUS
<1> USE DEF TypeOK, OrderInv, HubTake, Msgs, InSelect
<1>1. /\ cur \in Nat /\ written \in Nat /\ written' = written
      /\ queue \in Seq(Nat) /\ queue # <<>>
  BY LinesAreNumbers
<1>2. /\ Rising(queue') /\ Within(queue', cur', written')
      /\ cur < cur' /\ cur' <= written
  BY <1>1, RisingTail
<1>3. cur' \in Nat
  BY <1>1
<1>4. ASSUME NEW s \in Streams
      PROVE  (last[s] <= Seen(s))' /\ (Rising(buf[s]) /\ Within(buf[s], last[s], Seen(s)))'
  <2>1. Seen(s) = cur /\ cur <= Seen(s)' /\ Seen(s)' \in Int
    BY <1>1, <1>2, <1>3 DEF Seen
  <2>2. /\ buf' = buf /\ last' = last /\ last[s] \in Nat /\ buf[s] \in Seq(Nat)
        /\ last[s] <= cur /\ Rising(buf[s]) /\ Within(buf[s], last[s], cur)
    BY <2>1, LinesAreNumbers
  <2> HIDE DEF TypeOK, OrderInv, HubTake, Msgs, InSelect
  <2>3. \A i \in 1 .. Len(buf[s]) : buf[s][i] \in Nat
    BY <2>2
  <2>4. Within(buf[s], last[s], Seen(s)')
    BY <1>1, <2>1, <2>2, <2>3 DEF Within
  <2> QED BY <1>1, <2>1, <2>2, <2>4
<1> QED BY <1>1, <1>2, <1>3, <1>4

LEMMA SendOrder == ASSUME TypeOK, OrderInv, NEW s \in Streams, HubSend(s) PROVE OrderInv'
<1> USE DEF TypeOK, OrderInv, HubSend, StillToVisit, Msgs
<1>1. cur \in Nat /\ cur > 0 /\ s \in todo
  OBVIOUS
<1>2. Seen(s) = cur - 1 /\ Seen(s)' = cur
  BY <1>1 DEF Seen
<1>3. \A r \in Streams \ {s} : Seen(r)' = Seen(r)
  BY <1>1 DEF Seen
<1>4. Rising(buf'[s]) /\ Within(buf'[s], last[s], cur)
  <2>1. CASE Fits(s)
    <3>1. buf'[s] = Append(buf[s], cur)
      BY <2>1
    <3>2. buf[s] \in Seq(Nat) /\ last[s] \in Nat /\ last[s] <= cur - 1
      BY <1>2, LinesAreNumbers
    <3> QED BY <1>1, <1>2, <3>1, <3>2, RisingAppend
  <2>2. CASE ~Fits(s)
    <3>1. buf'[s] = buf[s] /\ Within(buf[s], last[s], cur - 1) /\ Rising(buf[s])
      BY <1>2, <2>2
    <3>2. buf[s] \in Seq(Nat)
      BY LinesAreNumbers
    <3>3. \A i \in 1 .. Len(buf[s]) : buf[s][i] \in Nat
      BY <3>2
    <3> QED BY <1>1, <3>1, <3>3 DEF Within
  <2> QED BY <2>1, <2>2
<1>5. last[s] <= cur /\ last' = last
  BY <1>1, <1>2
<1>6. \A r \in Streams \ {s} : buf'[r] = buf[r]
  OBVIOUS
<1>7. \A r \in Streams : /\ (last[r] <= Seen(r))'
                         /\ (Rising(buf[r]) /\ Within(buf[r], last[r], Seen(r)))'
  BY <1>2, <1>3, <1>4, <1>5, <1>6
<1>8. cur' = cur /\ written' = written /\ queue' = queue
  OBVIOUS
<1> QED BY <1>1, <1>7, <1>8

LEMMA StreamOrder ==
  ASSUME TypeOK, OrderInv, NEW s \in Streams, Stream(s) \/ HubRegister(s) \/ HubDeregister(s)
  PROVE  OrderInv'
<1>1. CASE Read(s)
  <2> USE <1>1 DEF TypeOK, OrderInv, Read, Msgs
  <2>1. buf[s] \in Seq(Nat) /\ buf[s] # <<>> /\ last[s] \in Nat /\ Seen(s) \in Int
    BY LinesAreNumbers DEF Seen
  <2>2. /\ Rising(Tail(buf[s])) /\ Within(Tail(buf[s]), Head(buf[s]), Seen(s))
        /\ Head(buf[s]) <= Seen(s)
    BY <2>1, RisingTail
  <2>3. \A r \in Streams : Seen(r)' = Seen(r)
    BY DEF Seen
  <2>4. buf'[s] = Tail(buf[s]) /\ last'[s] = Head(buf[s])
    OBVIOUS
  <2>5. \A r \in Streams \ {s} : buf'[r] = buf[r] /\ last'[r] = last[r]
    OBVIOUS
  <2>6. \A r \in Streams : /\ (last[r] <= Seen(r))'
                           /\ (Rising(buf[r]) /\ Within(buf[r], last[r], Seen(r)))'
    BY <2>2, <2>3, <2>4, <2>5
  <2>7. cur' = cur /\ written' = written /\ queue' = queue /\ todo' = todo
    OBVIOUS
  <2> QED BY <2>6, <2>7
<1>2. CASE ~Read(s)
  <2>1. /\ cur' = cur /\ written' = written /\ queue' = queue /\ todo' = todo
        /\ buf' = buf /\ last' = last
    BY <1>2 DEF Stream, HubRegister, HubDeregister, Connect, Disconnect, Leave, SendOk, SendFails
  <2> QED BY <2>1 DEF OrderInv, Seen
<1> QED BY <1>1, <1>2

LEMMA OrderStep == TypeOK /\ OrderInv /\ [Next]_vars => OrderInv'
<1> SUFFICES ASSUME TypeOK, OrderInv, [Next]_vars PROVE OrderInv'
    OBVIOUS
<1>1. CASE UNCHANGED vars
  BY <1>1 DEF vars, OrderInv, Seen
<1> QED BY <1>1, WriteOrder, TakeOrder, SendOrder, StreamOrder DEF Next, Hub

-----------------------------------------------------------------------------
(* Completeness. *)

Has(q, n) == \E i \in 1 .. Len(q) : q[i] = n

(* Stream s has, or took, a line older than n. *)
Begun(s, n) ==
  \/ last[s] # 0 /\ last[s] < n
  \/ \E i \in 1 .. Len(buf[s]) : buf[s][i] < n

(* What was not refused is still somewhere: a line the hub has not taken is *)
(* on the queue, and a line it has shown s since s began is in its channel. *)
GapInv ==
  /\ \A n \in cur + 1 .. written : n \in dropped \/ Has(queue, n)
  /\ \A s \in Streams : st[s] \in {"new", "registering"} => last[s] = 0 /\ buf[s] = <<>>
  /\ \A s \in listeners \ missed : \A n \in 1 .. Seen(s) :
       Begun(s, n) => n \in dropped \/ Has(buf[s], n)

LEMMA InitGap == Init => GapInv
BY DEF Init, GapInv

LEMMA HasAppend ==
  ASSUME NEW q \in Seq(Nat), NEW m \in Nat
  PROVE  /\ \A n \in Nat : Has(q, n) => Has(Append(q, m), n)
         /\ Has(Append(q, m), m)
<1>1. /\ Len(Append(q, m)) = Len(q) + 1 /\ Len(q) \in Nat
      /\ \A i \in 1 .. Len(q) : Append(q, m)[i] = q[i]
      /\ Append(q, m)[Len(q) + 1] = m
  OBVIOUS
<1> QED BY <1>1 DEF Has

(* The head of a rising sequence is its least element; the rest stay. *)
LEMMA HasTail ==
  ASSUME NEW q \in Seq(Nat), q # <<>>, Rising(q), NEW n \in Nat, Has(q, n)
  PROVE  Head(q) <= n /\ (Head(q) < n => Has(Tail(q), n))
<1>1. /\ Len(Tail(q)) = Len(q) - 1 /\ Len(q) \in Nat \ {0}
      /\ \A i \in 1 .. Len(q) - 1 : Tail(q)[i] = q[i + 1]
      /\ Head(q) = q[1] /\ q[1] \in Nat
  OBVIOUS
<1>2. PICK i \in 1 .. Len(q) : q[i] = n
  BY DEF Has
<1>3. CASE i = 1
  BY <1>1, <1>2, <1>3
<1>4. CASE i # 1
  <2>1. i - 1 \in 1 .. Len(q) - 1 /\ Tail(q)[i - 1] = n
    BY <1>1, <1>2, <1>4
  <2>2. q[1] < q[i]
    BY <1>1, <1>4 DEF Rising
  <2> QED BY <1>1, <1>2, <2>1, <2>2 DEF Has
<1> QED BY <1>3, <1>4

LEMMA HasConcat ==
  ASSUME NEW a \in Seq(Nat), NEW b \in Seq(Nat), NEW n \in Nat
  PROVE  Has(a \o b, n) <=> Has(a, n) \/ Has(b, n)
<1>1. /\ Len(a \o b) = Len(a) + Len(b) /\ Len(a) \in Nat /\ Len(b) \in Nat
      /\ \A i \in 1 .. Len(a) : (a \o b)[i] = a[i]
      /\ \A i \in Len(a) + 1 .. Len(a) + Len(b) : (a \o b)[i] = b[i - Len(a)]
  OBVIOUS
<1>2. ASSUME Has(a \o b, n) PROVE Has(a, n) \/ Has(b, n)
  <2>1. PICK i \in 1 .. Len(a) + Len(b) : (a \o b)[i] = n
    BY <1>1, <1>2 DEF Has
  <2>2. CASE i <= Len(a)
    BY <1>1, <2>1, <2>2 DEF Has
  <2>3. CASE i > Len(a)
    <3>1. i - Len(a) \in 1 .. Len(b) /\ b[i - Len(a)] = n
      BY <1>1, <2>1, <2>3
    <3> QED BY <3>1 DEF Has
  <2> QED BY <1>1, <2>2, <2>3
<1>3. ASSUME Has(a, n) PROVE Has(a \o b, n)
  BY <1>1, <1>3 DEF Has
<1>4. ASSUME Has(b, n) PROVE Has(a \o b, n)
  <2>1. PICK j \in 1 .. Len(b) : b[j] = n
    BY <1>4 DEF Has
  <2>2. j + Len(a) \in Len(a) + 1 .. Len(a) + Len(b) /\ (j + Len(a)) - Len(a) = j
    BY <1>1, <2>1
  <2>3. (a \o b)[j + Len(a)] = n
    BY <1>1, <2>1, <2>2
  <2>4. j + Len(a) \in 1 .. Len(a \o b)
    BY <1>1, <2>1
  <2> QED BY <2>3, <2>4 DEF Has
<1> QED BY <1>2, <1>3, <1>4

LEMMA WriteGap == TypeOK /\ OrderInv /\ GapInv /\ Write => GapInv'
<1> SUFFICES ASSUME TypeOK, OrderInv, GapInv, Write PROVE GapInv'
    OBVIOUS
<1>1. cur \in Nat /\ written \in Nat /\ cur <= written /\ queue \in Seq(Nat)
  BY LinesAreNumbers DEF TypeOK, OrderInv
<1>2. /\ written' = written + 1 /\ cur' = cur
      /\ \/ queue' = Append(queue, written + 1) /\ dropped' = dropped
         \/ queue' = queue /\ dropped' = dropped \union {written + 1}
  BY DEF Write, Enqueue
<1>3. \A n \in cur' + 1 .. written' : n \in dropped' \/ Has(queue', n)
  <2> SUFFICES ASSUME NEW n \in cur + 1 .. written + 1 PROVE n \in dropped' \/ Has(queue', n)
      BY <1>2
  <2>1. n \in Nat /\ (n = written + 1 \/ n \in cur + 1 .. written)
    BY <1>1
  <2>2. \/ queue' = Append(queue, written + 1) /\ Has(queue', written + 1)
        \/ queue' = queue /\ dropped' = dropped \union {written + 1}
    <3> DEFINE q == Append(queue, written + 1)
    <3>1. Has(q, written + 1)
      BY <1>1, HasAppend
    <3> HIDE DEF q
    <3> QED BY <1>2, <3>1 DEF q
  <2>3. \A k \in Nat : Has(queue, k) => Has(queue', k)
    <3> DEFINE q == Append(queue, written + 1)
    <3>1. \A k \in Nat : Has(queue, k) => Has(q, k)
      BY <1>1, HasAppend
    <3> HIDE DEF q
    <3> QED BY <1>2, <3>1 DEF q
  <2>4. CASE n = written + 1
    BY <2>2, <2>4, <1>2
  <2>5. CASE n \in cur + 1 .. written
    <3>1. n \in dropped \/ Has(queue, n)
      BY <2>5 DEF GapInv
    <3> QED BY <1>2, <2>1, <2>3, <3>1
  <2> QED BY <2>1, <2>4, <2>5
<1>4. /\ todo' = todo /\ last' = last /\ buf' = buf /\ st' = st
      /\ listeners' = listeners /\ missed' = missed /\ dropped \subseteq dropped'
  BY <1>2 DEF Write, Enqueue
<1> QED BY <1>2, <1>3, <1>4 DEF GapInv, Seen, Begun

LEMMA TakeGap == TypeOK /\ OrderInv /\ GapInv /\ HubTake => GapInv'
<1> SUFFICES ASSUME TypeOK, OrderInv, GapInv, HubTake PROVE GapInv'
    OBVIOUS
<1>1. /\ cur \in Nat /\ written \in Nat /\ written' = written
      /\ queue \in Seq(Nat) /\ queue # <<>> /\ Rising(queue) /\ Within(queue, cur, written)
      /\ cur' = Head(queue) /\ queue' = Tail(queue) /\ cur' \in Nat
  BY LinesAreNumbers DEF TypeOK, OrderInv, HubTake
<1>2. cur < cur'
  BY <1>1, RisingTail
<1>3. \A n \in Nat : Has(queue, n) => cur' <= n /\ (cur' < n => Has(queue', n))
  BY <1>1, HasTail
<1>4. \A n \in cur + 1 .. written : n \in dropped \/ Has(queue, n)
  BY DEF GapInv
<1>5. /\ dropped' = dropped /\ last' = last /\ buf' = buf /\ st' = st
      /\ listeners' = listeners /\ missed' = missed /\ todo = {} /\ todo' = listeners
  BY DEF HubTake, InSelect
<1>6. \A n \in cur' + 1 .. written' : n \in dropped' \/ Has(queue', n)
  BY <1>1, <1>2, <1>3, <1>4, <1>5
<1>7. ASSUME NEW s \in listeners' \ missed', NEW n \in 1 .. Seen(s)', Begun(s, n)'
      PROVE  n \in dropped' \/ Has(buf'[s], n)
  <2>1. Seen(s)' = cur' - 1 /\ Seen(s) = cur
    BY <1>5, <1>7 DEF Seen
  <2>2. n \in Nat /\ n < cur'
    BY <1>1, <1>7, <2>1
  <2>3. CASE n <= cur
    <3>1. n \in 1 .. Seen(s) /\ Begun(s, n)
      BY <1>1, <1>5, <1>7, <2>1, <2>3 DEF Begun
    <3> QED BY <1>5, <1>7, <3>1 DEF GapInv
  <2>4. CASE n > cur
    <3>1. n <= written
      BY <1>1, <2>2, RisingTail
    <3>2. ~Has(queue, n)
      BY <1>1, <1>3, <2>2
    <3> QED BY <1>1, <1>4, <1>5, <2>2, <2>4, <3>1, <3>2
  <2> QED BY <1>1, <2>2, <2>3, <2>4
<1>8. \A s \in Streams : st'[s] \in {"new", "registering"} => last'[s] = 0 /\ buf'[s] = <<>>
  BY <1>5 DEF GapInv
<1> QED BY <1>6, <1>7, <1>8 DEF GapInv

LEMMA SendGap ==
  ASSUME TypeOK, ChannelInv, OrderInv, GapInv, NEW s \in Streams, HubSend(s)
  PROVE  GapInv'
<1>1. /\ cur \in Nat /\ cur > 0 /\ s \in todo /\ s \in listeners
      /\ buf[s] \in Seq(Nat) /\ last[s] \in Nat
  BY LinesAreNumbers DEF TypeOK, OrderInv, HubSend, ChannelInv
<1>2. /\ cur' = cur /\ written' = written /\ queue' = queue /\ dropped' = dropped
      /\ last' = last /\ st' = st /\ listeners' = listeners /\ todo' = todo \ {s}
      /\ \A r \in Streams \ {s} : buf'[r] = buf[r]
      /\ missed \subseteq missed'
  BY DEF HubSend, StillToVisit, TypeOK
<1>3. Seen(s) = cur - 1 /\ Seen(s)' = cur /\ \A r \in Streams \ {s} : Seen(r)' = Seen(r)
  BY <1>1, <1>2 DEF Seen
<1>4. st[s] \notin {"new", "registering"}
  BY <1>1 DEF ChannelInv
<1>5. ASSUME s \notin missed', NEW n \in 1 .. Seen(s)', Begun(s, n)'
      PROVE  n \in dropped' \/ Has(buf'[s], n)
  <2>1. s \notin missed /\ buf'[s] = Append(buf[s], cur)
    BY <1>2, <1>5 DEF HubSend, TypeOK
  <2>2. /\ Len(buf'[s]) = Len(buf[s]) + 1 /\ Len(buf[s]) \in Nat
        /\ \A i \in 1 .. Len(buf[s]) : buf'[s][i] = buf[s][i]
        /\ buf'[s][Len(buf[s]) + 1] = cur
    BY <1>1, <2>1
  <2>3. n \in 1 .. cur
    BY <1>3, <1>5
  <2>4. CASE n = cur
    BY <1>1, <2>1, <2>4, HasAppend
  <2>5. CASE n # cur
    <3>1. n \in 1 .. Seen(s) /\ ~(cur < n) /\ n \in Nat
      BY <1>1, <1>3, <2>3, <2>5
    <3>2. Begun(s, n)
      BY <1>2, <1>5, <2>2, <3>1 DEF Begun
    <3>3. n \in dropped \/ Has(buf[s], n)
      BY <1>1, <2>1, <3>1, <3>2 DEF GapInv
    <3> QED BY <1>1, <1>2, <2>1, <3>1, <3>3, HasAppend
  <2> QED BY <2>4, <2>5
<1>6. ASSUME NEW r \in listeners \ missed', r # s, NEW n \in 1 .. Seen(r)', Begun(r, n)'
      PROVE  n \in dropped' \/ Has(buf'[r], n)
  <2>1. r \in Streams \ {s} /\ r \in listeners \ missed
    BY <1>2, <1>6 DEF TypeOK
  <2> QED BY <1>2, <1>3, <1>6, <2>1 DEF GapInv, Begun
<1>7. \A r \in Streams : st'[r] \in {"new", "registering"} => last'[r] = 0 /\ buf'[r] = <<>>
  BY <1>2, <1>4 DEF GapInv
<1>8. \A n \in cur' + 1 .. written' : n \in dropped' \/ Has(queue', n)
  BY <1>2 DEF GapInv
<1>9. \A r \in listeners' \ missed' : \A n \in 1 .. Seen(r)' :
        Begun(r, n)' => n \in dropped' \/ Has(buf'[r], n)
  BY <1>2, <1>5, <1>6
<1> QED BY <1>7, <1>8, <1>9 DEF GapInv

LEMMA ReadGap ==
  ASSUME TypeOK, OrderInv, GapInv, NEW s \in Streams, Read(s) PROVE GapInv'
<1>1. /\ buf[s] \in Seq(Nat) /\ buf[s] # <<>> /\ last[s] \in Nat /\ Rising(buf[s])
      /\ last'[s] = Head(buf[s]) /\ buf'[s] = Tail(buf[s]) /\ st'[s] = "sending"
  BY LinesAreNumbers DEF TypeOK, OrderInv, Read, Moves
<1>2. /\ cur' = cur /\ written' = written /\ queue' = queue /\ dropped' = dropped
      /\ todo' = todo /\ listeners' = listeners /\ missed' = missed
      /\ \A r \in Streams \ {s} : buf'[r] = buf[r] /\ last'[r] = last[r] /\ st'[r] = st[r]
      /\ \A r \in Streams : Seen(r)' = Seen(r)
  BY DEF Read, Moves, TypeOK, Seen
<1>3. ASSUME s \in listeners \ missed, NEW n \in 1 .. Seen(s)', Begun(s, n)'
      PROVE  n \in dropped' \/ Has(buf'[s], n)
  <2>1. /\ Len(buf'[s]) = Len(buf[s]) - 1 /\ Len(buf[s]) \in Nat \ {0}
        /\ \A i \in 1 .. Len(buf[s]) - 1 : buf'[s][i] = buf[s][i + 1]
        /\ Head(buf[s]) = buf[s][1] /\ \A i \in 1 .. Len(buf[s]) : buf[s][i] \in Nat
    BY <1>1
  <2>2. n \in Nat
    OBVIOUS
  <2>3. buf[s][1] < n
    <3>1. CASE last'[s] # 0 /\ last'[s] < n
      BY <1>1, <2>1, <3>1
    <3>2. CASE \E i \in 1 .. Len(buf'[s]) : buf'[s][i] < n
      <4>1. PICK i \in 1 .. Len(buf[s]) - 1 : buf[s][i + 1] < n
        BY <2>1, <3>2
      <4>2. 1 \in 1 .. Len(buf[s]) /\ i + 1 \in 1 .. Len(buf[s]) /\ 1 < i + 1
        BY <2>1, <4>1
      <4>3. buf[s][1] < buf[s][i + 1]
        BY <1>1, <4>2 DEF Rising
      <4> QED BY <2>1, <2>2, <4>1, <4>2, <4>3
    <3> QED BY <1>3, <3>1, <3>2 DEF Begun
  <2>4. Begun(s, n) /\ n \in 1 .. Seen(s)
    BY <1>2, <1>3, <2>1, <2>3 DEF Begun
  <2>5. n \in dropped \/ Has(buf[s], n)
    BY <1>3, <2>4 DEF GapInv
  <2> QED BY <1>1, <1>2, <2>1, <2>2, <2>3, <2>5, HasTail
<1>4. ASSUME NEW r \in listeners \ missed, r # s, NEW n \in 1 .. Seen(r)', Begun(r, n)'
      PROVE  n \in dropped' \/ Has(buf'[r], n)
  <2>1. r \in Streams \ {s}
    BY <1>4 DEF TypeOK
  <2> QED BY <1>2, <1>4, <2>1 DEF GapInv, Begun
<1>5. \A r \in Streams : st'[r] \in {"new", "registering"} => last'[r] = 0 /\ buf'[r] = <<>>
  BY <1>1, <1>2 DEF GapInv
<1>6. \A n \in cur' + 1 .. written' : n \in dropped' \/ Has(queue', n)
  BY <1>2 DEF GapInv
<1>7. \A r \in listeners' \ missed' : \A n \in 1 .. Seen(r)' :
        Begun(r, n)' => n \in dropped' \/ Has(buf'[r], n)
  BY <1>2, <1>3, <1>4
<1> QED BY <1>5, <1>6, <1>7 DEF GapInv

(* A stream that registers has begun with nothing. *)
LEMMA StreamGap ==
  ASSUME TypeOK, OrderInv, GapInv, NEW s \in Streams, Stream(s) \/ HubRegister(s) \/ HubDeregister(s)
  PROVE  GapInv'
<1>1. CASE HubRegister(s)
  <2>1. /\ cur' = cur /\ written' = written /\ queue' = queue /\ dropped' = dropped
        /\ todo' = todo /\ buf' = buf /\ last' = last /\ missed' = missed
        /\ listeners' = listeners \union {s}
        /\ \A r \in Streams : Seen(r)' = Seen(r)
        /\ \A r \in Streams : st'[r] \in {"new", "registering"} => st[r] = st'[r]
    BY <1>1 DEF HubRegister, TypeOK, Seen
  <2>2. \A n \in 1 .. Seen(s)' : ~Begun(s, n)'
    <3>1. last[s] = 0 /\ buf[s] = <<>>
      BY <1>1 DEF HubRegister, GapInv
    <3> QED BY <2>1, <3>1 DEF Begun
  <2>3. \A r \in listeners \ missed : \A n \in 1 .. Seen(r)' :
          Begun(r, n)' => n \in dropped' \/ Has(buf'[r], n)
    BY <2>1 DEF GapInv, Begun, TypeOK
  <2> QED BY <2>1, <2>2, <2>3 DEF GapInv
<1>2. CASE ~HubRegister(s) /\ ~Read(s)
  <2>1. /\ cur' = cur /\ written' = written /\ queue' = queue /\ dropped' = dropped
        /\ todo' = todo /\ buf' = buf /\ last' = last /\ missed' = missed
        /\ listeners' \subseteq listeners
    BY <1>2 DEF Stream, HubDeregister, Unlisted, Connect, Disconnect, Leave, SendOk, SendFails
  <2>2. \A r \in Streams : st'[r] \in {"new", "registering"} => st[r] \in {"new", "registering"}
    BY <1>2 DEF Stream, HubDeregister, Connect, Disconnect, Leave, SendOk, SendFails,
                Moves, TypeOK
  <2>3. \A r \in Streams : Seen(r)' = Seen(r) /\ \A n : Begun(r, n)' = Begun(r, n)
    BY <2>1 DEF Seen, Begun
  <2>4. \A r \in listeners' \ missed' : r \in Streams /\ r \in listeners \ missed
    BY <2>1 DEF TypeOK
  <2> QED BY <2>1, <2>2, <2>3, <2>4 DEF GapInv
<1> QED BY <1>1, <1>2, ReadGap

LEMMA GapStep == TypeOK /\ ChannelInv /\ OrderInv /\ GapInv /\ [Next]_vars => GapInv'
<1> SUFFICES ASSUME TypeOK, ChannelInv, OrderInv, GapInv, [Next]_vars PROVE GapInv'
    OBVIOUS
<1>1. CASE UNCHANGED vars
  BY <1>1 DEF vars, GapInv, Seen, Begun
<1> QED BY <1>1, WriteGap, TakeGap, SendGap, StreamGap DEF Next, Hub

IInv == TypeOK /\ ChannelInv /\ OrderInv /\ GapInv

LEMMA Invariance == Spec => []IInv
<1>1. Init => IInv
  BY InitChannel, InitOrder, InitGap DEF IInv
<1>2. IInv /\ [Next]_vars => IInv'
  BY ChannelStep, TypeStep, OrderStep, GapStep DEF IInv
<1> QED BY <1>1, <1>2, PTL DEF Spec

(* Every variable keeps its shape; no channel outgrows its capacity. *)
THEOREM TypeCorrect == Spec => []TypeOK
<1>1. IInv => TypeOK
  BY DEF IInv
<1> QED BY <1>1, Invariance, PTL

(* The hub never touches a channel it has closed. *)
THEOREM ClosedForGood == Spec => []ClosedIsForgotten
<1>1. IInv => ClosedIsForgotten
  BY DEF IInv, ChannelInv, ClosedIsForgotten, TypeOK
<1> QED BY <1>1, Invariance, PTL

(* The parts of OnTheWay(s) rise one above the other, and so does the whole. *)
LEMMA TheWayRises ==
  ASSUME IInv, NEW s \in Streams
  PROVE  /\ OnTheWay(s) \in Seq(Nat) /\ Rising(OnTheWay(s))
         /\ Within(OnTheWay(s), -1, written)
         /\ DOMAIN OnTheWay(s) = 1 .. Len(OnTheWay(s))
<1> DEFINE a == IF last[s] = 0 THEN <<>> ELSE <<last[s]>>
           low == -1
           b == IF s \in todo THEN <<cur>> ELSE <<>>
<1> USE DEF IInv, TypeOK, OrderInv, Msgs
<1>1. /\ last[s] \in Nat /\ cur \in Nat /\ written \in Nat /\ Seen(s) \in Int
      /\ buf[s] \in Seq(Nat) /\ queue \in Seq(Nat) /\ Seen(s) <= cur
  BY LinesAreNumbers DEF Seen
<1>2. a \in Seq(Nat) /\ Rising(a) /\ Within(a, low, last[s])
  BY <1>1 DEF Rising, Within
<1>3. b \in Seq(Nat) /\ Rising(b) /\ Within(b, Seen(s), cur)
  BY <1>1 DEF Rising, Within, Seen
<1>4. /\ last[s] <= Seen(s) /\ Rising(buf[s]) /\ Within(buf[s], last[s], Seen(s))
      /\ cur <= written /\ Rising(queue) /\ Within(queue, cur, written)
  OBVIOUS
<1>5. low \in Int /\ low <= last[s] /\ low <= Seen(s) /\ low <= cur
  BY <1>1, <1>4
<1> HIDE DEF a, b, low, IInv, TypeOK, OrderInv, Msgs
<1> DEFINE c == a \o buf[s]
           d == c \o b
<1>6. c \in Seq(Nat) /\ Rising(c) /\ Within(c, low, Seen(s))
  BY <1>1, <1>2, <1>4, <1>5, RisingConcat
<1>7. OnTheWay(s) = d \o queue
  BY DEF OnTheWay, a, b
<1> HIDE DEF c
<1>8. d \in Seq(Nat) /\ Rising(d) /\ Within(d, low, cur)
  BY <1>1, <1>3, <1>5, <1>6, RisingConcat
<1> HIDE DEF d
<1>9. /\ d \o queue \in Seq(Nat) /\ Rising(d \o queue)
      /\ Within(d \o queue, low, written)
  BY <1>1, <1>4, <1>5, <1>8, RisingConcat
<1>10. DOMAIN (d \o queue) = 1 .. Len(d \o queue)
  BY <1>9
<1> QED BY <1>7, <1>9, <1>10 DEF low

(* Every stream gets its lines in the order they were written. *)
THEOREM Ordered == Spec => []InOrder
<1>1. IInv => InOrder
  <2> SUFFICES ASSUME IInv, NEW s \in listeners
               PROVE  Rising(OnTheWay(s)) /\ DOMAIN OnTheWay(s) = 1 .. Len(OnTheWay(s))
      BY DEF InOrder, Rising
  <2>1. s \in Streams
    BY DEF IInv, TypeOK
  <2> QED BY <2>1, TheWayRises
<1> QED BY <1>1, Invariance, PTL

(* A line that was not refused and that s began before is on its way. *)
LEMMA NothingLost ==
  ASSUME IInv, NEW s \in listeners \ missed, NEW m \in Nat, Has(OnTheWay(s), m),
         NEW n \in Nat, m < n, n <= written
  PROVE  n \in dropped \/ Has(OnTheWay(s), n)
<1> DEFINE a == IF last[s] = 0 THEN <<>> ELSE <<last[s]>>
           b == IF s \in todo THEN <<cur>> ELSE <<>>
<1>1. /\ s \in Streams /\ last[s] \in Nat /\ cur \in Nat /\ written \in Nat
      /\ buf[s] \in Seq(Nat) /\ queue \in Seq(Nat)
      /\ Within(queue, cur, written)
  BY LinesAreNumbers DEF IInv, TypeOK, OrderInv
<1>2. a \in Seq(Nat) /\ b \in Seq(Nat)
  BY <1>1
<1>3. /\ \A k \in Nat : Has(a, k) <=> last[s] # 0 /\ k = last[s]
      /\ \A k \in Nat : Has(b, k) <=> s \in todo /\ k = cur
  BY <1>1 DEF Has
<1>4. OnTheWay(s) = ((a \o buf[s]) \o b) \o queue
  BY DEF OnTheWay
<1> HIDE DEF a, b
<1> DEFINE c == a \o buf[s]
           d == c \o b
<1>5. c \in Seq(Nat) /\ d \in Seq(Nat)
  BY <1>1, <1>2
<1>6. \A k \in Nat : Has(c, k) <=> Has(a, k) \/ Has(buf[s], k)
  BY <1>1, <1>2, HasConcat
<1> HIDE DEF c
<1>7. \A k \in Nat : Has(d, k) <=> Has(c, k) \/ Has(b, k)
  BY <1>2, <1>5, HasConcat
<1> HIDE DEF d
<1>8. \A k \in Nat : Has(d \o queue, k) <=> Has(d, k) \/ Has(queue, k)
  BY <1>1, <1>5, HasConcat
<1>9. \A k \in Nat : Has(OnTheWay(s), k) <=>
        Has(a, k) \/ Has(buf[s], k) \/ Has(b, k) \/ Has(queue, k)
  BY <1>4, <1>6, <1>7, <1>8 DEF c, d
<1>10. CASE n > cur
  <2>1. n \in cur + 1 .. written
    BY <1>1, <1>10
  <2> QED BY <1>9, <2>1 DEF IInv, GapInv
<1>11. CASE n = cur /\ s \in todo
  BY <1>3, <1>9, <1>11
<1>12. CASE n <= cur /\ ~(n = cur /\ s \in todo)
  <2>1. n \in 1 .. Seen(s)
    BY <1>1, <1>12 DEF Seen
  <2>2. ~Has(queue, m)
    <3>1. \A i \in 1 .. Len(queue) : cur < queue[i] /\ queue[i] \in Nat
      BY <1>1 DEF Within
    <3> QED BY <1>1, <1>12, <3>1 DEF Has
  <2>3. ~Has(b, m)
    BY <1>3, <1>12
  <2>4. Has(a, m) \/ Has(buf[s], m)
    BY <1>9, <2>2, <2>3
  <2>5. Begun(s, n)
    BY <1>3, <2>4 DEF Begun, Has
  <2> QED BY <1>9, <2>1, <2>5 DEF IInv, GapInv
<1> QED BY <1>1, <1>10, <1>11, <1>12

(* A stream the hub never skipped misses only lines that Write refused. *)
THEOREM Gapless == Spec => []NoSilentGap
<1>1. IInv => NoSilentGap
  <2> SUFFICES ASSUME IInv, NEW s \in listeners \ missed,
                      NEW i \in 1 .. Len(OnTheWay(s)) - 1,
                      NEW n \in (OnTheWay(s)[i] + 1) .. (OnTheWay(s)[i + 1] - 1)
               PROVE  n \in dropped
      BY DEF NoSilentGap
  <2> DEFINE q == OnTheWay(s)
  <2>1. s \in Streams
    BY DEF IInv, TypeOK
  <2>2. q \in Seq(Nat) /\ Rising(q) /\ Len(q) \in Nat
    BY <2>1, TheWayRises
  <2>3. /\ i \in 1 .. Len(q) /\ i + 1 \in 1 .. Len(q)
        /\ q[i] \in Nat /\ q[i + 1] \in Nat /\ n \in Nat /\ q[i] < n /\ n < q[i + 1]
    BY <2>2
  <2>4. q[i + 1] <= written
    BY <2>1, <2>3, TheWayRises DEF Within
  <2>5. written \in Nat
    BY DEF IInv, TypeOK
  <2>6. n \in dropped \/ Has(q, n)
    <3>1. Has(q, q[i])
      BY <2>3 DEF Has
    <3> QED BY <2>3, <2>4, <2>5, <3>1, NothingLost
  <2>7. ~Has(q, n)
    <3> SUFFICES ASSUME NEW k \in 1 .. Len(q), q[k] = n PROVE FALSE
        BY DEF Has
    <3> HIDE DEF q
    <3>1. CASE k < i
      BY <2>2, <2>3, <3>1 DEF Rising
    <3>2. CASE k > i + 1
      BY <2>2, <2>3, <3>2 DEF Rising
    <3>3. CASE k = i \/ k = i + 1
      BY <2>3, <3>3
    <3> QED BY <2>2, <3>1, <3>2, <3>3
  <2> QED BY <2>6, <2>7
<1> QED BY <1>1, Invariance, PTL
=============================================================================
