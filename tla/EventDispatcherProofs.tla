------------------------ MODULE EventDispatcherProofs ------------------------
(***************************************************************************)
(* Theorems about EventDispatcher, for any number of goroutines, streams   *)
(* and events and any capacity: the list keeps its shape, a fan-out ranges *)
(* over a list nobody changes, a channel keeps the newest events in order, *)
(* and nothing but a full channel brings everyone to a halt.               *)
(* And, if one stream at most ends: open streams are in the list, closed   *)
(* ones are not, and no removal is out of range.                           *)
(***************************************************************************)
EXTENDS EventDispatcher, SequenceTheorems, TLAPS

-----------------------------------------------------------------------------
(* The inductive invariant.                                                *)

Sending == {"send", "evict", "resend"}

(* No stream is in the list twice, nor before it has asked to be.          *)
ListInv ==
    /\ \A i, j \in 1..list.len : Cell(list, i) = Cell(list, j) => i = j
    /\ \A i \in 1..list.len : stream[Cell(list, i)].pc \notin {"off", "add"}

(* Who is in the overflow branch has a listener in hand.                   *)
SendInv ==
    /\ FanOutListIsStable
    /\ \A d \in Dispatchers : disp[d].pc \in {"evict", "resend"} => disp[d].i <= list.len

(* Whether the event in hand is still to be sent to stream s, and the last *)
(* event of d that has been.                                               *)
Pending(d, s) ==
    \/ disp[d].pc = "rlock"
    \/ /\ disp[d].pc \in Sending
       /\ \E k \in 1..list.len : disp[d].i <= k /\ Cell(list, k) = s
LastSent(d, s) == IF Pending(d, s) THEN disp[d].n - 1 ELSE disp[d].n

(* No stream has, or has had, an event that has not been sent to it.       *)
SentInv ==
    \A s \in Streams :
        /\ \A d \in Dispatchers : past[s][d] <= LastSent(d, s)
        /\ \A i \in 1..Len(channel[s]) : channel[s][i].n <= LastSent(channel[s][i].from, s)

IInv == TypeOK /\ ListInv /\ SendInv /\ SentInv /\ NewestAreKeptInOrder

-----------------------------------------------------------------------------
(* The list.                                                               *)

(* The cells of the list are those of its array, and hold streams.         *)
LEMMA ListCells ==
    ASSUME TypeOK
    PROVE  /\ list.len \in Nat /\ list.arr \in 1..Len(arrays)
           /\ arrays[list.arr] \in Seq(Streams \cup {None})
           /\ \A i \in 1..list.len : Cell(list, i) = arrays[list.arr][i] /\ Cell(list, i) \in Streams
           /\ \A i \in Nat : i > list.len => i \notin 1..list.len
  <1>1. list.len \in Nat /\ list.arr \in 1..Len(arrays) /\ arrays[list.arr] \in Seq(Streams \cup {None})
    BY DEF TypeOK, Slices
  <1>2. list.len <= Len(arrays[list.arr]) /\ Len(arrays[list.arr]) \in Nat
    BY <1>1 DEF TypeOK
  <1>3. \A i \in 1..list.len : Cell(list, i) = arrays[list.arr][i]
    BY <1>1, <1>2 DEF Cell
  <1>4. \A i \in 1..list.len : Cell(list, i) \in Registered
    BY DEF Registered
  <1> QED
    BY <1>1, <1>3, <1>4 DEF TypeOK

(* Three sequences, of which the second has one element.                   *)
LEMMA Extended ==
    ASSUME NEW E, NEW a \in Seq(E), NEW b \in Seq(E), NEW c \in Seq(E), Len(b) = 1
    PROVE  /\ (a \o b) \o c \in Seq(E) /\ Len((a \o b) \o c) = Len(a) + 1 + Len(c)
           /\ \A i \in 1..Len(a) : ((a \o b) \o c)[i] = a[i]
           /\ ((a \o b) \o c)[Len(a) + 1] = b[1]
           /\ \A i \in 1..Len(c) : ((a \o b) \o c)[Len(a) + 1 + i] = c[i]
  <1> DEFINE ab == a \o b
             new == ab \o c
  <1>2. /\ ab \in Seq(E) /\ Len(ab) = Len(a) + 1
        /\ \A i \in 1..(Len(a) + 1) : ab[i] = IF i <= Len(a) THEN a[i] ELSE b[i - Len(a)]
    <2>1. /\ ab \in Seq(E) /\ Len(ab) = Len(a) + Len(b)
          /\ \A i \in 1..(Len(a) + Len(b)) : ab[i] = IF i <= Len(a) THEN a[i] ELSE b[i - Len(a)]
      BY ConcatProperties, Zenon
    <2> HIDE DEF ab
    <2> QED
      BY <2>1
  <1> HIDE DEF ab
  <1>3. /\ new \in Seq(E) /\ Len(new) = Len(ab) + Len(c)
        /\ \A i \in 1..(Len(ab) + Len(c)) : new[i] = IF i <= Len(ab) THEN ab[i] ELSE c[i - Len(ab)]
    <2>1. ab \in Seq(E) /\ c \in Seq(E)
      BY <1>2
    <2> QED
      BY <2>1, ConcatProperties, Zenon
  <1> HIDE DEF new
  <1>4. Len(a) \in Nat /\ Len(c) \in Nat /\ Len(ab) = Len(a) + 1
    BY <1>2
  <1>5. ASSUME NEW i \in 1..Len(a) PROVE new[i] = a[i]
    BY <1>2, <1>3, <1>4
  <1>6. new[Len(a) + 1] = b[1]
    BY <1>2, <1>3, <1>4
  <1>7. ASSUME NEW i \in 1..Len(c) PROVE new[Len(a) + 1 + i] = c[i]
    <2> DEFINE k == Len(a) + 1 + i
    <2>1. k \in 1..(Len(ab) + Len(c)) /\ ~(k <= Len(ab)) /\ k - Len(ab) = i
      BY <1>4
    <2> HIDE DEF k
    <2>2. new[k] = c[i]
      BY <1>3, <2>1
    <2> QED
      BY <2>2 DEF k
  <1> QED
    <2>1. new \in Seq(E) /\ Len(new) = Len(a) + 1 + Len(c)
      BY <1>3, <1>4
    <2> QED
      BY <1>5, <1>6, <1>7, <2>1, Zenon DEF new, ab

(* append adds a cell, and changes no other of any array but the one it    *)
(* writes; what follows it in an array of its own is empty.                *)
LEMMA Appended ==
    ASSUME TypeOK, NEW s \in Streams, AppendToList(s)
    PROVE  /\ arrays' \in Seq(Seq(Streams \cup {None})) /\ Len(arrays') \in Nat /\ Len(arrays) <= Len(arrays')
           /\ list'.arr \in 1..Len(arrays') /\ list'.len = list.len + 1
           /\ list' = [arr |-> list'.arr, len |-> list'.len]
           /\ list'.len <= Len(arrays'[list'.arr])
           /\ \A i \in 1..list.len : arrays'[list'.arr][i] = arrays[list.arr][i]
           /\ arrays'[list'.arr][list'.len] = s
           /\ \A a \in 1..Len(arrays) :
                 /\ Len(arrays'[a]) = Len(arrays[a])
                 /\ \A i \in 1..Len(arrays[a]) :
                       arrays'[a][i] = IF a = list'.arr /\ i = list'.len THEN s ELSE arrays[a][i]
           /\ list'.arr \notin 1..Len(arrays) =>
                 \A i \in 1..Len(arrays'[list'.arr]) : i > list'.len => arrays'[list'.arr][i] = None
           /\ \A a \in 1..Len(arrays') : a \in 1..Len(arrays) \/ a = list'.arr
  <1> DEFINE E == Streams \cup {None}
             old == arrays[list.arr]
             n == list.len
             cap == Len(old)
             room == (IF cap = 0 THEN 1 ELSE 2 * cap) - (n + 1)
             new == Elements(list) \o <<s>> \o [i \in 1..room |-> None]
  <1>1. arrays \in Seq(Seq(E)) /\ list.arr \in 1..Len(arrays) /\ Len(arrays) \in Nat
        /\ n \in Nat /\ n <= cap /\ old \in Seq(E) /\ cap \in Nat /\ list = [arr |-> list.arr, len |-> list.len]
    BY DEF TypeOK, Slices
  <1>2. CASE n < cap
    <2>1. arrays' = [arrays EXCEPT ![list.arr][n + 1] = s] /\ list' = [list EXCEPT !.len = n + 1]
      BY <1>2 DEF AppendToList
    <2>2. list'.arr = list.arr /\ list'.len = n + 1 /\ list' = [arr |-> list'.arr, len |-> list'.len]
      BY <1>1, <2>1
    <2> DEFINE written == [old EXCEPT ![n + 1] = s]
    <2>3. n + 1 \in 1..cap /\ s \in E
      BY <1>1, <1>2
    <2>4. /\ written \in Seq(E) /\ Len(written) = cap /\ written[n + 1] = s
          /\ \A i \in 1..cap : written[i] = IF i = n + 1 THEN s ELSE old[i]
      BY <1>1, <2>3
    <2>5. arrays' = [arrays EXCEPT ![list.arr] = written]
      BY <2>1
    <2> HIDE DEF written
    <2>6. /\ arrays' \in Seq(Seq(E)) /\ Len(arrays') = Len(arrays) /\ arrays'[list.arr] = written
          /\ \A a \in 1..Len(arrays) : a # list.arr => arrays'[a] = arrays[a]
      BY <1>1, <2>4, <2>5
    <2>7. \A i \in 1..n : i \in 1..cap /\ i # n + 1
      BY <1>1
    <2> QED
      BY <1>1, <2>2, <2>3, <2>4, <2>6, <2>7, SMTT(30)
  <1>3. CASE n = cap
    <2>1. arrays' = Append(arrays, new) /\ list' = [arr |-> Len(arrays) + 1, len |-> n + 1]
      BY <1>3 DEF AppendToList
    <2>2. /\ Elements(list) \in Seq(E) /\ Len(Elements(list)) = n
          /\ \A i \in 1..n : Elements(list)[i] = old[i]
      BY <1>1, <1>3, SubSeqProperties DEF Elements
    <2>3. room \in Nat
      BY <1>1, <1>3
    <2>4. s \in E /\ None \in E
      OBVIOUS
    <2> HIDE DEF room
    <2>5. /\ new \in Seq(E) /\ Len(new) = n + 1 + room
          /\ \A i \in 1..n : new[i] = old[i]
          /\ new[n + 1] = s
          /\ \A i \in (n + 2)..Len(new) : new[i] = None
      <3> DEFINE front == Elements(list)
                 one == <<s>>
                 rest == [i \in 1..room |-> None]
      <3>1. rest \in Seq(E) /\ Len(rest) = room /\ \A i \in 1..room : rest[i] = None
        BY <2>3, <2>4
      <3>2. one \in Seq(E) /\ Len(one) = 1 /\ one[1] = s
        BY <2>4
      <3>3. front \in Seq(E) /\ rest \in Seq(E) /\ one \in Seq(E) /\ new = (front \o one) \o rest
        BY <2>2, <3>1, <3>2
      <3> HIDE DEF front, one, rest, new, E
      <3>5. /\ new \in Seq(E) /\ Len(new) = Len(front) + 1 + Len(rest)
            /\ \A i \in 1..Len(front) : new[i] = front[i]
            /\ new[Len(front) + 1] = s
            /\ \A i \in 1..Len(rest) : new[Len(front) + 1 + i] = rest[i]
        <4>1. front \in Seq(E) /\ one \in Seq(E) /\ rest \in Seq(E) /\ Len(one) = 1
          BY <3>2, <3>3
        <4>2. /\ (front \o one) \o rest \in Seq(E)
              /\ Len((front \o one) \o rest) = Len(front) + 1 + Len(rest)
              /\ \A i \in 1..Len(front) : ((front \o one) \o rest)[i] = front[i]
              /\ ((front \o one) \o rest)[Len(front) + 1] = one[1]
              /\ \A i \in 1..Len(rest) : ((front \o one) \o rest)[Len(front) + 1 + i] = rest[i]
          BY <4>1, Extended, SMTT(60)
        <4> QED
          BY <3>2, <3>3, <4>2, Zenon
      <3>4. Len(front) = n /\ \A i \in 1..n : front[i] = old[i]
        BY <2>2 DEF front
      <3>6. ASSUME NEW i \in (n + 2)..Len(new) PROVE new[i] = None
        <4>1. Len(new) = n + 1 + room /\ n \in Nat /\ room \in Nat
          BY <1>1, <2>3, <3>1, <3>4, <3>5
        <4> HIDE DEF n
        <4>2. PICK k \in 1..room : i = n + 1 + k
          <5>1. i - (n + 1) \in 1..room /\ i = n + 1 + (i - (n + 1))
            BY <4>1
          <5> QED
            BY <5>1
        <4>3. new[n + 1 + k] = rest[k] /\ rest[k] = None
          BY <3>1, <3>4, <3>5, Zenon
        <4> QED
          BY <4>2, <4>3
      <3> QED
        BY <3>1, <3>4, <3>5, <3>6
    <2> HIDE DEF new
    <2>6. /\ arrays' \in Seq(Seq(E)) /\ Len(arrays') = Len(arrays) + 1
          /\ arrays'[Len(arrays) + 1] = new
          /\ \A a \in 1..Len(arrays) : arrays'[a] = arrays[a]
      BY <1>1, <2>1, <2>5, AppendProperties
    <2>7. list'.arr = Len(arrays) + 1 /\ list'.len = n + 1
      BY <2>1
    <2>8. list'.arr \notin 1..Len(arrays) /\ list'.arr \in 1..Len(arrays')
          /\ \A a \in 1..Len(arrays') : a \in 1..Len(arrays) \/ a = list'.arr
      BY <1>1, <2>6, <2>7
    <2>9. \A i \in 1..Len(new) : i > n + 1 => new[i] = None
      BY <1>1, <2>3, <2>5
    <2> QED
      BY <1>1, <2>1, <2>3, <2>5, <2>6, <2>7, <2>8, <2>9
  <1> QED
    BY <1>1, <1>2, <1>3

(* A deletion shifts the cells behind it, of the array of the list only.   *)
LEMMA Deleted ==
    ASSUME TypeOK, NEW k \in Nat \ {0}, k <= list.len, DeleteFromList(k)
    PROVE  /\ arrays' \in Seq(Seq(Streams \cup {None})) /\ Len(arrays') = Len(arrays)
           /\ list'.arr = list.arr /\ list'.len = list.len - 1 /\ list'.len \in Nat
           /\ list' = [arr |-> list'.arr, len |-> list'.len]
           /\ list'.len <= Len(arrays'[list'.arr])
           /\ \A i \in 1..list'.len :
                 arrays'[list'.arr][i] = IF i < k THEN arrays[list.arr][i] ELSE arrays[list.arr][i + 1]
  <1> DEFINE E == Streams \cup {None}
             old == arrays[list.arr]
             n == list.len
             cap == Len(old)
             new == [j \in DOMAIN old |-> IF k <= j /\ j < n THEN old[j + 1] ELSE old[j]]
  <1>1. arrays \in Seq(Seq(E)) /\ list.arr \in 1..Len(arrays)
        /\ n \in Nat /\ n <= cap /\ old \in Seq(E) /\ cap \in Nat /\ list = [arr |-> list.arr, len |-> list.len]
    BY DEF TypeOK, Slices
  <1>2. arrays' = [arrays EXCEPT ![list.arr] = new] /\ list' = [list EXCEPT !.len = n - 1]
    BY DEF DeleteFromList
  <1>3. DOMAIN old = 1..cap
    BY <1>1
  <1>4. new \in [1..cap -> E]
    BY <1>1, <1>3
  <1>6. \A i \in 1..(n - 1) : new[i] = IF i < k THEN old[i] ELSE old[i + 1]
    BY <1>1, <1>3
  <1> HIDE DEF new
  <1>5. new \in Seq(E) /\ Len(new) = cap
    <2> HIDE DEF E, cap
    <2>1. cap \in Nat /\ new \in [1..cap -> E]
      BY <1>1, <1>4
    <2> QED
      BY <2>1
  <1>7. arrays' \in Seq(Seq(E)) /\ Len(arrays') = Len(arrays) /\ arrays'[list.arr] = new
    BY <1>1, <1>2, <1>5
  <1>8. list'.arr = list.arr /\ list'.len = n - 1 /\ list' = [arr |-> list'.arr, len |-> list'.len]
    BY <1>1, <1>2
  <1> QED
    BY <1>1, <1>5, <1>6, <1>7, <1>8

-----------------------------------------------------------------------------
(* Channels.                                                               *)

(* An event put into a channel that does not have it yet.                  *)
LEMMA Put ==
    ASSUME IInv, NEW d \in Dispatchers, NEW s \in Streams, Len(channel[s]) < Capacity,
           channel' = [channel EXCEPT ![s] = Append(@, Event(d))], UNCHANGED past,
           disp[d].n \in 1..MaxEvents, Pending(d, s), LastSent(d, s)' = disp[d].n,
           \A e \in Dispatchers, u \in Streams : LastSent(e, u)' \in Int /\ LastSent(e, u) <= LastSent(e, u)'
    PROVE  /\ channel' \in [Streams -> Seq(Events)] /\ \A u \in Streams : Len(channel'[u]) <= Capacity
           /\ SentInv' /\ NewestAreKeptInOrder'
  <1> DEFINE old == channel[s]
             new == Append(old, Event(d))
             m == Len(old)
  <1>1. channel \in [Streams -> Seq(Events)] /\ old \in Seq(Events) /\ m \in Nat
        /\ past \in [Streams -> [Dispatchers -> 0..MaxEvents]]
    BY DEF IInv, TypeOK
  <1>2. Event(d) \in Events /\ Event(d).from = d /\ Event(d).n = disp[d].n
    BY DEF Event, Events
  <1>3. /\ new \in Seq(Events) /\ Len(new) = m + 1 /\ new[m + 1] = Event(d)
        /\ \A i \in 1..m : new[i] = old[i]
    BY <1>1, <1>2, AppendProperties
  <1> HIDE DEF new
  <1>4. channel' = [channel EXCEPT ![s] = new]
    BY DEF new
  <1>5. channel'[s] = new /\ \A u \in Streams : u # s => channel'[u] = channel[u]
    BY <1>1, <1>4
  <1>6. channel' \in [Streams -> Seq(Events)] /\ \A u \in Streams : Len(channel'[u]) <= Capacity
    BY <1>1, <1>3, <1>4, CapacityAssumption DEF IInv, TypeOK
  <1>7. ASSUME NEW u \in Streams, NEW i \in 1..Len(channel[u])
        PROVE  /\ channel[u][i].from \in Dispatchers
               /\ channel[u][i].n \in 1..MaxEvents /\ channel[u][i].n \in Int
    <2>1. channel[u] \in Seq(Events)
      BY <1>1
    <2>2. channel[u][i] \in Events
      BY <2>1
    <2> QED
      BY <2>2, MaxEventsAssumption DEF Events
  <1>8. LastSent(d, s) = disp[d].n - 1
    BY DEF LastSent
  <1>9. ASSUME NEW i \in 1..m PROVE old[i].n <= LastSent(old[i].from, s)
    BY <1>1 DEF IInv, SentInv
  <1>10. \A e \in Dispatchers, u \in Streams : LastSent(e, u) \in Int
    BY MaxEventsAssumption DEF LastSent, IInv, TypeOK, DispatcherStates
  <1>11. SentInv'
    <2>1. ASSUME NEW u \in Streams, NEW e \in Dispatchers PROVE past'[u][e] <= LastSent(e, u)'
      BY <1>1, <1>10, MaxEventsAssumption, SMTT(30) DEF IInv, SentInv
    <2>2. ASSUME NEW u \in Streams, NEW i \in 1..Len(channel'[u]),
                 NEW e \in Dispatchers, e = channel'[u][i].from
          PROVE  channel'[u][i].n <= LastSent(e, u)'
      <3>1. ASSUME NEW k \in 1..Len(channel[u]), channel'[u][i] = channel[u][k]
            PROVE  channel'[u][i].n <= LastSent(e, u)'
        <4>1. channel[u][k].n <= LastSent(e, u) /\ channel[u][k].n \in Int
          BY <1>7, <2>2, <3>1 DEF IInv, SentInv
        <4>2. LastSent(e, u) <= LastSent(e, u)' /\ LastSent(e, u)' \in Int /\ LastSent(e, u) \in Int
          BY <1>10
        <4> QED
          BY <3>1, <4>1, <4>2
      <3>2. CASE u # s
        BY <1>5, <3>1, <3>2
      <3>3. CASE u = s /\ i = m + 1
        <4>1. channel'[u][i] = Event(d) /\ e = d
          BY <1>2, <1>3, <1>5, <2>2, <3>3
        <4>2. LastSent(e, u)' = disp[d].n
          BY <3>3, <4>1
        <4>3. disp[d].n \in Int
          BY MaxEventsAssumption
        <4> QED
          BY <1>2, <4>1, <4>2, <4>3
      <3>4. CASE u = s /\ i # m + 1
        <4>1. i \in 1..Len(channel[u]) /\ channel'[u][i] = channel[u][i]
          BY <1>1, <1>3, <1>5, <3>4
        <4> QED
          BY <3>1, <4>1
      <3> QED
        BY <3>2, <3>3, <3>4
    <2>3. ASSUME NEW u \in Streams, NEW i \in 1..Len(channel'[u])
          PROVE  channel'[u][i].from \in Dispatchers
      <3>1. channel'[u][i] \in Events
        BY <1>6
      <3> QED
        BY <3>1 DEF Events
    <2> QED
      BY <2>1, <2>2, <2>3 DEF SentInv
  <1>12. NewestAreKeptInOrder'
    <2> SUFFICES ASSUME NEW u \in Streams, NEW i \in 1..Len(channel'[u])
                 PROVE  /\ past'[u][channel'[u][i].from] < channel'[u][i].n
                        /\ \A j \in (i + 1)..Len(channel'[u]) :
                              channel'[u][j].from = channel'[u][i].from => channel'[u][i].n < channel'[u][j].n
      BY DEF NewestAreKeptInOrder
    <2>1. CASE u # s
      BY <1>5, <2>1 DEF IInv, NewestAreKeptInOrder
    <2>2. CASE u = s /\ i = m + 1
      <3>1. channel'[u][i] = Event(d) /\ (i + 1)..Len(channel'[u]) = {}
        BY <1>1, <1>3, <1>5, <2>2
      <3>2. past[s][d] <= disp[d].n - 1 /\ past[s][d] \in Int
        BY <1>1, <1>8 DEF IInv, SentInv
      <3> QED
        BY <1>2, <2>2, <3>1, <3>2
    <2>3. CASE u = s /\ i # m + 1
      <3>1. i \in 1..m /\ channel'[u][i] = old[i]
        BY <1>1, <1>3, <1>5, <2>3
      <3>2. past[s][old[i].from] < old[i].n
        BY <3>1 DEF IInv, NewestAreKeptInOrder
      <3>3. ASSUME NEW j \in (i + 1)..Len(channel'[u]), channel'[u][j].from = old[i].from
            PROVE  old[i].n < channel'[u][j].n
        <4>1. CASE j = m + 1
          <5>1. channel'[u][j] = Event(d) /\ old[i].from = d
            BY <1>2, <1>3, <1>5, <2>3, <3>3, <4>1
          <5>2. old[i].n <= disp[d].n - 1 /\ old[i].n \in Int
            BY <1>7, <1>8, <1>9, <3>1, <5>1
          <5>3. channel'[u][j].n = disp[d].n /\ disp[d].n \in Int
            BY <1>2, <5>1, MaxEventsAssumption
          <5> QED
            BY <5>2, <5>3, SMTT(30)
        <4>2. CASE j # m + 1
          <5>1. j \in (i + 1)..m /\ j \in 1..m /\ channel'[u][j] = old[j]
            BY <1>1, <1>3, <1>5, <2>3, <3>1, <4>2
          <5> QED
            BY <3>1, <3>3, <5>1 DEF IInv, NewestAreKeptInOrder
        <4> QED
          BY <4>1, <4>2
      <3> QED
        BY <2>3, <3>1, <3>2, <3>3
    <2> QED
      BY <2>1, <2>2, <2>3
  <1> QED
    BY <1>6, <1>11, <1>12

(* The oldest event leaves a channel.                                      *)
LEMMA Take ==
    ASSUME IInv, NEW s \in Streams, channel[s] # <<>>, Forget(s, Head(channel[s])),
           channel' = [channel EXCEPT ![s] = Tail(@)],
           \A e \in Dispatchers, u \in Streams : LastSent(e, u)' = LastSent(e, u)
    PROVE  /\ channel' \in [Streams -> Seq(Events)] /\ \A u \in Streams : Len(channel'[u]) <= Capacity
           /\ past' \in [Streams -> [Dispatchers -> 0..MaxEvents]]
           /\ SentInv' /\ NewestAreKeptInOrder'
  <1> DEFINE old == channel[s]
             new == Tail(old)
             m == Len(old)
             first == old[1]
  <1>1. channel \in [Streams -> Seq(Events)] /\ old \in Seq(Events) /\ m \in Nat \ {0}
        /\ past \in [Streams -> [Dispatchers -> 0..MaxEvents]]
    BY DEF IInv, TypeOK
  <1>2. /\ new \in Seq(Events) /\ Len(new) = m - 1
        /\ \A i \in 1..(m - 1) : new[i] = old[i + 1]
    BY <1>1, HeadTailProperties
  <1>3. first.from \in Dispatchers /\ first.n \in 1..MaxEvents /\ first.n \in Int /\ Head(old) = first
    <2>1. first \in Events /\ Head(old) = first
      BY <1>1
    <2> QED
      BY <2>1, MaxEventsAssumption DEF Events
  <1> HIDE DEF new
  <1>4. channel' = [channel EXCEPT ![s] = new]
    BY DEF new
  <1>5. channel'[s] = new /\ \A u \in Streams : u # s => channel'[u] = channel[u]
    BY <1>1, <1>4
  <1>6. channel' \in [Streams -> Seq(Events)] /\ \A u \in Streams : Len(channel'[u]) <= Capacity
    BY <1>1, <1>2, <1>4, CapacityAssumption DEF IInv, TypeOK
  <1>7. ASSUME NEW u \in Streams, NEW i \in 1..Len(channel[u])
        PROVE  /\ channel[u][i].from \in Dispatchers
               /\ channel[u][i].n \in 1..MaxEvents /\ channel[u][i].n \in Int
    <2>1. channel[u] \in Seq(Events)
      BY <1>1
    <2>2. channel[u][i] \in Events
      BY <2>1
    <2> QED
      BY <2>2, MaxEventsAssumption DEF Events
  <1>8. past' = [past EXCEPT ![s][first.from] = first.n]
    BY <1>3 DEF Forget
  <1>9. /\ past' \in [Streams -> [Dispatchers -> 0..MaxEvents]]
        /\ \A u \in Streams, e \in Dispatchers :
              past'[u][e] = IF u = s /\ e = first.from THEN first.n ELSE past[u][e]
    BY <1>1, <1>3, <1>8, MaxEventsAssumption
  <1>10. \A i \in 1..(m - 1) : i + 1 \in 1..m /\ i + 1 \in 2..m
    BY <1>1
  <1>11. SentInv'
    <2>1. ASSUME NEW u \in Streams, NEW e \in Dispatchers PROVE past'[u][e] <= LastSent(e, u)'
      <3>1. 1 \in 1..m
        BY <1>1
      <3>2. first.n <= LastSent(first.from, s)
        BY <3>1 DEF IInv, SentInv
      <3> QED
        BY <1>3, <1>9, <3>2 DEF IInv, SentInv
    <2>2. ASSUME NEW u \in Streams, NEW i \in 1..Len(channel'[u]),
                 NEW e \in Dispatchers, e = channel'[u][i].from
          PROVE  channel'[u][i].n <= LastSent(e, u)'
      <3>1. PICK k \in 1..Len(channel[u]) : channel'[u][i] = channel[u][k]
        <4>1. CASE u # s
          BY <1>5, <4>1
        <4>2. CASE u = s
          BY <1>2, <1>5, <1>10, <4>2
        <4> QED
          BY <4>1, <4>2
      <3>2. channel[u][k].n <= LastSent(e, u)
        BY <2>2, <3>1 DEF IInv, SentInv
      <3>3. LastSent(e, u)' = LastSent(e, u)
        OBVIOUS
      <3> QED
        BY <3>1, <3>2, <3>3
    <2>3. ASSUME NEW u \in Streams, NEW i \in 1..Len(channel'[u])
          PROVE  channel'[u][i].from \in Dispatchers
      <3>1. channel'[u][i] \in Events
        BY <1>6
      <3> QED
        BY <3>1 DEF Events
    <2> QED
      BY <2>1, <2>2, <2>3 DEF SentInv
  <1>12. NewestAreKeptInOrder'
    <2> SUFFICES ASSUME NEW u \in Streams, NEW i \in 1..Len(channel'[u])
                 PROVE  /\ past'[u][channel'[u][i].from] < channel'[u][i].n
                        /\ \A j \in (i + 1)..Len(channel'[u]) :
                              channel'[u][j].from = channel'[u][i].from => channel'[u][i].n < channel'[u][j].n
      BY DEF NewestAreKeptInOrder
    <2>1. CASE u # s
      <3>1. channel'[u] = channel[u]
        BY <1>5, <2>1
      <3>2. channel[u][i].from \in Dispatchers
        BY <1>7, <3>1
      <3>3. past'[u][channel[u][i].from] = past[u][channel[u][i].from]
        BY <1>9, <2>1, <3>2
      <3> QED
        BY <3>1, <3>3 DEF IInv, NewestAreKeptInOrder
    <2>2. CASE u = s
      <3>1. i \in 1..(m - 1) /\ i + 1 \in 1..m /\ i + 1 \in 2..m /\ channel'[u][i] = old[i + 1]
        BY <1>2, <1>5, <1>10, <2>2
      <3>2. past[s][old[i + 1].from] < old[i + 1].n /\ old[i + 1].from \in Dispatchers
        BY <1>7, <3>1 DEF IInv, NewestAreKeptInOrder
      <3>3. old[i + 1].from = first.from => first.n < old[i + 1].n
        <4>1. 1 \in 1..m /\ 1 + 1 = 2
          BY <1>1
        <4> QED
          BY <3>1, <4>1 DEF IInv, NewestAreKeptInOrder
      <3>4. ASSUME NEW j \in (i + 1)..Len(channel'[u])
            PROVE  channel'[u][j] = old[j + 1] /\ j + 1 \in ((i + 1) + 1)..m
        BY <1>1, <1>2, <1>5, <2>2, <3>1
      <3>5. \A j \in ((i + 1) + 1)..m : old[j].from = old[i + 1].from => old[i + 1].n < old[j].n
        BY <3>1 DEF IInv, NewestAreKeptInOrder
      <3>6. past'[u][channel'[u][i].from] < channel'[u][i].n
        BY <1>9, <2>2, <3>1, <3>2, <3>3
      <3> QED
        BY <3>1, <3>4, <3>5, <3>6
    <2> QED
      BY <2>1, <2>2
  <1> QED
    BY <1>6, <1>9, <1>11, <1>12

-----------------------------------------------------------------------------
(* What a step leaves alone.                                               *)

LEMMA SameList ==
    ASSUME UNCHANGED <<arrays, list>>
    PROVE  /\ Slices' = Slices /\ Registered' = Registered
           /\ \A i \in Nat : Cell(list, i)' = Cell(list, i)
  BY DEF Slices, Registered, Cell

LEMMA SameSent ==
    ASSUME UNCHANGED <<arrays, list>>, NEW d \in Dispatchers, disp'[d] = disp[d], NEW s \in Streams
    PROVE  LastSent(d, s)' = LastSent(d, s)
  <1>1. list' = list /\ arrays' = arrays
    OBVIOUS
  <1>2. \A k : Cell(list, k)' = Cell(list, k)
    BY DEF Cell
  <1>3. Pending(d, s)' <=> Pending(d, s)
    BY <1>1, <1>2 DEF Pending
  <1> QED
    BY <1>3 DEF LastSent

LEMMA SentIsInt ==
    ASSUME TypeOK, NEW d \in Dispatchers, NEW s \in Streams
    PROVE  LastSent(d, s) \in Int /\ disp[d].n \in Int /\ disp[d].n - 1 <= LastSent(d, s) /\ LastSent(d, s) <= disp[d].n
  <1>1. disp[d].n \in Int
    BY MaxEventsAssumption DEF TypeOK, DispatcherStates
  <1> QED
    BY <1>1 DEF LastSent

(* Channels that keep their events stay in order.                          *)
LEMMA SameChannels ==
    ASSUME IInv, TypeOK', UNCHANGED <<channel, past>>,
           \A d \in Dispatchers, s \in Streams : LastSent(d, s) <= LastSent(d, s)'
    PROVE  SentInv' /\ NewestAreKeptInOrder'
  <1>1. \A d \in Dispatchers, s \in Streams : LastSent(d, s) \in Int /\ LastSent(d, s)' \in Int
    <2>1. TypeOK
      BY DEF IInv
    <2>2. \A d \in Dispatchers, s \in Streams : LastSent(d, s) \in Int
      BY <2>1, SentIsInt, Zenon
    <2>3. \A d \in Dispatchers, s \in Streams : (LastSent(d, s) \in Int)'
      <3> TAKE d \in Dispatchers, s \in Streams
      <3>1. (disp[d].n \in Int)'
        BY MaxEventsAssumption DEF TypeOK, DispatcherStates
      <3> QED
        BY <3>1 DEF LastSent
    <2> QED
      BY <2>2, <2>3
  <1>2. past \in [Streams -> [Dispatchers -> 0..MaxEvents]] /\ channel \in [Streams -> Seq(Events)]
    BY DEF IInv, TypeOK
  <1>3. ASSUME NEW s \in Streams, NEW i \in 1..Len(channel[s])
        PROVE  channel[s][i].from \in Dispatchers /\ channel[s][i].n \in Int
    <2>1. channel[s] \in Seq(Events)
      BY <1>2
    <2>2. channel[s][i] \in Events
      BY <2>1
    <2> QED
      BY <2>2, MaxEventsAssumption DEF Events
  <1>4. ASSUME NEW s \in Streams, NEW d \in Dispatchers PROVE past[s][d] <= LastSent(d, s)'
    <2>1. past[s][d] <= LastSent(d, s) /\ past[s][d] \in Int
      BY <1>2, MaxEventsAssumption DEF IInv, SentInv
    <2> QED
      BY <1>1, <2>1
  <1>5. ASSUME NEW s \in Streams, NEW i \in 1..Len(channel[s]), NEW d \in Dispatchers, d = channel[s][i].from
        PROVE  channel[s][i].n <= LastSent(d, s)'
    <2>1. channel[s][i].n <= LastSent(d, s)
      BY <1>5 DEF IInv, SentInv
    <2> QED
      BY <1>1, <1>3, <2>1
  <1>6. NewestAreKeptInOrder'
    BY DEF IInv, NewestAreKeptInOrder
  <1> QED
    BY <1>3, <1>4, <1>5, <1>6 DEF SentInv

(* A step of a goroutine that dispatches.                                  *)
LEMMA Moves ==
    ASSUME IInv, UNCHANGED <<arrays, list, writer, stream, crashed>>,
           NEW d \in Dispatchers, NEW r \in DispatcherStates, disp' = [disp EXCEPT ![d] = r],
           readers' = IF r.pc \in Sending THEN readers \cup {d} ELSE readers \ {d},
           r.pc \in Sending => r.list = list,
           r.pc \in {"evict", "resend"} => r.i <= list.len,
           channel' \in [Streams -> Seq(Events)], \A s \in Streams : Len(channel'[s]) <= Capacity,
           past' \in [Streams -> [Dispatchers -> 0..MaxEvents]]
    PROVE  TypeOK' /\ ListInv' /\ SendInv'
  <1>1. disp \in [Dispatchers -> DispatcherStates] /\ readers = {e \in Dispatchers : disp[e].pc \in Sending}
    BY DEF IInv, TypeOK, Sending
  <1>2. disp' \in [Dispatchers -> DispatcherStates] /\ disp'[d] = r
        /\ \A e \in Dispatchers : e # d => disp'[e] = disp[e]
    BY <1>1
  <1>3. readers' = {e \in Dispatchers : disp'[e].pc \in Sending}
    BY <1>1, <1>2
  <1>4. Slices' = Slices /\ Registered' = Registered /\ \A i \in Nat : Cell(list, i)' = Cell(list, i)
    BY SameList
  <1>5. TypeOK'
    BY <1>2, <1>3, <1>4 DEF IInv, TypeOK, DispatcherStates, StreamStates, Sending
  <1>6. ListInv'
    BY DEF IInv, ListInv, Cell
  <1>7. SendInv'
    BY <1>2, <1>3 DEF IInv, SendInv, FanOutListIsStable, Sending
  <1> QED
    BY <1>5, <1>6, <1>7

(* A step of a stream that leaves the list alone.                          *)
LEMMA StreamMoves ==
    ASSUME IInv, UNCHANGED <<arrays, list, readers, disp, channel, past, crashed>>,
           writer' \in Streams \cup {None},
           NEW s \in Streams, NEW r \in StreamStates, stream' = [stream EXCEPT ![s] = r],
           r.pc \in {"off", "add"} => stream[s].pc \in {"off", "add"}
    PROVE  IInv'
  <1>1. stream \in [Streams -> StreamStates]
    BY DEF IInv, TypeOK
  <1>2. stream' \in [Streams -> StreamStates] /\ stream'[s] = r
        /\ \A u \in Streams : u # s => stream'[u] = stream[u]
    BY <1>1
  <1>3. Slices' = Slices /\ Registered' = Registered /\ \A i \in Nat : Cell(list, i)' = Cell(list, i)
    BY SameList
  <1>4. TypeOK'
    BY <1>2, <1>3 DEF IInv, TypeOK, DispatcherStates, StreamStates
  <1>5. ListInv'
    <2>1. \A i \in 1..list.len : Cell(list, i) \in Streams
      BY ListCells DEF IInv
    <2>2. \A i \in 1..list.len : Cell(list, i)' = Cell(list, i)
      BY DEF Cell
    <2> QED
      BY <1>2, <2>1, <2>2 DEF IInv, ListInv
  <1>6. SendInv'
    BY DEF IInv, SendInv, FanOutListIsStable
  <1>7. \A d \in Dispatchers, u \in Streams : LastSent(d, u)' = LastSent(d, u)
    BY SameSent
  <1>8. \A d \in Dispatchers, u \in Streams : LastSent(d, u) \in Int
    BY SentIsInt, Zenon DEF IInv
  <1>9. SentInv' /\ NewestAreKeptInOrder'
    BY <1>4, <1>7, <1>8, SameChannels
  <1> QED
    BY <1>4, <1>5, <1>6, <1>9 DEF IInv

-----------------------------------------------------------------------------
(* The steps of a goroutine that dispatches.                               *)

(* Its record keeps its shape.                                             *)
LEMMA Fields ==
    ASSUME NEW r \in DispatcherStates
    PROVE  /\ r.n < MaxEvents => [r EXCEPT !.pc = "rlock", !.n = r.n + 1] \in DispatcherStates
           /\ \A l \in Slices : [r EXCEPT !.pc = "send", !.list = l, !.i = 1] \in DispatcherStates
           /\ [r EXCEPT !.i = r.i + 1] \in DispatcherStates
           /\ \A pc \in {"idle", "evict", "resend"} : [r EXCEPT !.pc = pc] \in DispatcherStates
           /\ [r EXCEPT !.pc = "send", !.i = r.i + 1] \in DispatcherStates
  <1> USE DEF DispatcherStates
  <1>1. r.n < MaxEvents => r.n + 1 \in 0..MaxEvents
    BY MaxEventsAssumption
  <1>2. r.i + 1 \in Nat \ {0} /\ 1 \in Nat \ {0}
    OBVIOUS
  <1>3. r.n < MaxEvents => [r EXCEPT !.pc = "rlock", !.n = r.n + 1] \in DispatcherStates
    BY <1>1
  <1>4. \A l \in Slices : [r EXCEPT !.pc = "send", !.list = l, !.i = 1] \in DispatcherStates
    BY <1>2
  <1>5. [r EXCEPT !.i = r.i + 1] \in DispatcherStates
    BY <1>2
  <1>6. \A pc \in {"idle", "evict", "resend"} : [r EXCEPT !.pc = pc] \in DispatcherStates
    OBVIOUS
  <1>7. [r EXCEPT !.pc = "send", !.i = r.i + 1] \in DispatcherStates
    BY <1>2
  <1> QED
    BY <1>3, <1>4, <1>5, <1>6, <1>7

(* A goroutine in the fan-out ranges over the list, at a listener.         *)
LEMMA InFanOut ==
    ASSUME IInv, NEW d \in Dispatchers, disp[d].pc \in Sending
    PROVE  /\ disp[d] \in DispatcherStates /\ d \in readers /\ disp[d].list = list /\ disp[d].i \in Nat \ {0}
           /\ list.len \in Nat /\ disp[d].n \in 0..MaxEvents
           /\ disp[d].i <= list.len => /\ Target(d) \in Streams /\ Target(d) = Cell(list, disp[d].i)
                                       /\ disp[d].i \in 1..list.len /\ Pending(d, Target(d))
  <1>1. disp[d] \in DispatcherStates /\ d \in readers
    BY DEF IInv, TypeOK, Sending
  <1>2. disp[d].list = list /\ disp[d].i \in Nat \ {0} /\ list.len \in Nat /\ disp[d].n \in 0..MaxEvents
    BY <1>1, ListCells DEF IInv, SendInv, FanOutListIsStable, DispatcherStates
  <1>3. ASSUME disp[d].i <= list.len
        PROVE  /\ Target(d) \in Streams /\ Target(d) = Cell(list, disp[d].i)
               /\ disp[d].i \in 1..list.len /\ Pending(d, Target(d))
    <2>1. disp[d].i \in 1..list.len /\ Target(d) = Cell(list, disp[d].i)
      BY <1>2, <1>3 DEF Target
    <2>2. Cell(list, disp[d].i) \in Streams
      BY <2>1, ListCells DEF IInv
    <2>3. disp[d].i <= disp[d].i
      BY <1>2
    <2> QED
      BY <2>1, <2>2, <2>3 DEF Pending
  <1> QED
    BY <1>1, <1>2, <1>3

(* Moving on to the next listener, the last step done for the one before.  *)
LEMMA MovesOn ==
    ASSUME IInv, UNCHANGED <<arrays, list>>, NEW d \in Dispatchers,
           disp[d].pc \in Sending, disp[d].i <= list.len, NEW t \in Streams, t = Target(d),
           disp'[d].pc = "send", disp'[d].i = disp[d].i + 1, disp'[d].n = disp[d].n,
           \A e \in Dispatchers : e # d => disp'[e] = disp[e]
    PROVE  /\ LastSent(d, t)' = disp[d].n
           /\ \A e \in Dispatchers, s \in Streams : LastSent(e, s)' \in Int /\ LastSent(e, s) <= LastSent(e, s)'
  <1> DEFINE i == disp[d].i
  <1>1. i \in 1..list.len /\ Target(d) = Cell(list, i) /\ Target(d) \in Streams /\ list.len \in Nat
    BY InFanOut
  <1>2. disp'[d].pc \in Sending /\ "rlock" # disp'[d].pc
    BY DEF Sending
  <1>3. \A k \in 1..list.len : Cell(list, k)' = Cell(list, k)
    BY DEF Cell
  <1>5. \A s \in Streams : Pending(d, s)' => Pending(d, s) /\ s # Cell(list, i)
    <2> SUFFICES ASSUME NEW s \in Streams, Pending(d, s)' PROVE Pending(d, s) /\ s # Cell(list, i)
      OBVIOUS
    <2>1. PICK k \in 1..list.len : i + 1 <= k /\ Cell(list, k) = s
      BY <1>2, <1>3 DEF Pending
    <2>2. i <= k /\ i # k
      BY <1>1, <2>1
    <2>3. Cell(list, i) # s
      BY <1>1, <2>1, <2>2 DEF IInv, ListInv
    <2> QED
      BY <2>1, <2>2, <2>3 DEF Pending
  <1>6. LastSent(d, t)' = disp[d].n
    BY <1>1, <1>5 DEF LastSent
  <1>7. \A e \in Dispatchers, s \in Streams : LastSent(e, s) \in Int /\ disp[e].n \in Int
    BY SentIsInt, Zenon DEF IInv
  <1>8. ASSUME NEW e \in Dispatchers, NEW s \in Streams
        PROVE  LastSent(e, s)' \in Int /\ LastSent(e, s) <= LastSent(e, s)'
    <2>1. CASE e # d
      <3>1. LastSent(e, s)' = LastSent(e, s)
        BY <2>1, SameSent
      <3> QED
        BY <1>7, <3>1
    <2>2. CASE e = d
      BY <1>5, <1>7, <2>2 DEF LastSent
    <2> QED
      BY <2>1, <2>2
  <1> QED
    BY <1>6, <1>8

LEMMA DispatchOK ==
    ASSUME IInv, NEW d \in Dispatchers, Dispatch(d)
    PROVE  IInv'
  <1> DEFINE r == [disp[d] EXCEPT !.pc = "rlock", !.n = disp[d].n + 1]
  <1>1. disp[d] \in DispatcherStates /\ disp \in [Dispatchers -> DispatcherStates]
    BY DEF IInv, TypeOK
  <1>2. r \in DispatcherStates /\ r.pc = "rlock" /\ r.n = disp[d].n + 1 /\ disp[d].n \in Nat
    <2>1. disp[d].n < MaxEvents
      BY DEF Dispatch
    <2>2. r \in DispatcherStates
      BY <1>1, <2>1, Fields, Zenon
    <2>3. r.pc = "rlock" /\ r.n = disp[d].n + 1 /\ disp[d].n \in Nat
      BY <1>1, MaxEventsAssumption DEF DispatcherStates
    <2> QED
      BY <2>2, <2>3
  <1>3. disp' = [disp EXCEPT ![d] = r] /\ disp[d].pc = "idle"
        /\ UNCHANGED <<arrays, list, readers, writer, channel, stream, past, crashed>>
    BY DEF Dispatch
  <1> HIDE DEF r
  <1>4. disp'[d] = r /\ \A e \in Dispatchers : e # d => disp'[e] = disp[e]
    BY <1>1, <1>3
  <1>5. r.pc \notin Sending /\ readers \ {d} = readers /\ r.pc \notin {"evict", "resend"}
    BY <1>2, <1>3 DEF IInv, TypeOK, Sending
  <1>6. TypeOK' /\ ListInv' /\ SendInv'
    BY <1>2, <1>3, <1>5, Moves DEF IInv, TypeOK
  <1>7. ASSUME NEW e \in Dispatchers, NEW s \in Streams PROVE LastSent(e, s) <= LastSent(e, s)'
    <2>1. LastSent(e, s) \in Int
      BY SentIsInt, Zenon DEF IInv
    <2>2. CASE e # d
      <3>1. LastSent(e, s)' = LastSent(e, s)
        BY <1>3, <1>4, <2>2, SameSent
      <3> QED
        BY <2>1, <3>1
    <2>3. CASE e = d
      BY <1>2, <1>3, <1>4, <2>3 DEF LastSent, Pending, Sending
    <2> QED
      BY <2>2, <2>3
  <1>8. SentInv' /\ NewestAreKeptInOrder'
    BY <1>3, <1>6, <1>7, SameChannels
  <1> QED
    BY <1>6, <1>8 DEF IInv

LEMMA RLockOK ==
    ASSUME IInv, NEW d \in Dispatchers, RLock(d)
    PROVE  IInv'
  <1> DEFINE r == [disp[d] EXCEPT !.pc = "send", !.list = list, !.i = 1]
  <1>1. disp[d] \in DispatcherStates /\ disp \in [Dispatchers -> DispatcherStates] /\ list \in Slices
    BY DEF IInv, TypeOK
  <1>2. r \in DispatcherStates /\ r.pc = "send" /\ r.n = disp[d].n /\ disp[d].n \in Nat /\ r.list = list
    <2>1. r \in DispatcherStates
      BY <1>1, Fields, Zenon
    <2>2. r.pc = "send" /\ r.n = disp[d].n /\ disp[d].n \in Nat /\ r.list = list
      BY <1>1, MaxEventsAssumption DEF DispatcherStates
    <2> QED
      BY <2>1, <2>2
  <1>3. disp' = [disp EXCEPT ![d] = r] /\ disp[d].pc = "rlock" /\ readers' = readers \cup {d}
        /\ UNCHANGED <<arrays, list, writer, channel, stream, past, crashed>>
    BY DEF RLock
  <1> HIDE DEF r
  <1>4. disp'[d] = r /\ \A e \in Dispatchers : e # d => disp'[e] = disp[e]
    BY <1>1, <1>3
  <1>5. r.pc \in Sending /\ r.pc \notin {"evict", "resend"}
    BY <1>2 DEF Sending
  <1>6. TypeOK' /\ ListInv' /\ SendInv'
    BY <1>2, <1>3, <1>5, Moves DEF IInv, TypeOK
  <1>7. ASSUME NEW e \in Dispatchers, NEW s \in Streams PROVE LastSent(e, s) <= LastSent(e, s)'
    <2>1. LastSent(e, s) \in Int
      BY SentIsInt, Zenon DEF IInv
    <2>2. CASE e # d
      <3>1. LastSent(e, s)' = LastSent(e, s)
        BY <1>3, <1>4, <2>2, SameSent
      <3> QED
        BY <2>1, <3>1
    <2>3. CASE e = d
      <3>1. LastSent(d, s) = disp[d].n - 1
        BY <1>3 DEF LastSent, Pending
      <3>2. LastSent(d, s)' \in {disp[d].n - 1, disp[d].n}
        BY <1>2, <1>4 DEF LastSent
      <3> QED
        BY <1>2, <2>3, <3>1, <3>2
    <2> QED
      BY <2>2, <2>3
  <1>8. SentInv' /\ NewestAreKeptInOrder'
    BY <1>3, <1>6, <1>7, SameChannels
  <1> QED
    BY <1>6, <1>8 DEF IInv

(* An event goes into the channel of the listener in hand.                 *)
LEMMA PutOK ==
    ASSUME IInv, NEW d \in Dispatchers, disp[d].pc \in Sending, disp[d].i <= list.len,
           Len(channel[Target(d)]) < Capacity,
           channel' = [channel EXCEPT ![Target(d)] = Append(@, Event(d))],
           disp' = [disp EXCEPT ![d] = [disp[d] EXCEPT !.pc = "send", !.i = disp[d].i + 1]],
           UNCHANGED <<arrays, list, readers, writer, stream, past, crashed>>
    PROVE  IInv'
  <1> DEFINE r == [disp[d] EXCEPT !.pc = "send", !.i = disp[d].i + 1]
  <1>0. /\ disp[d] \in DispatcherStates /\ d \in readers /\ disp[d].list = list
        /\ Target(d) \in Streams /\ Pending(d, Target(d))
    BY InFanOut
  <1> PICK t \in Streams : t = Target(d)
    BY <1>0
  <1>1. /\ disp[d] \in DispatcherStates /\ d \in readers /\ disp[d].list = list
        /\ t \in Streams /\ Pending(d, t)
    BY <1>0
  <1>2. r \in DispatcherStates /\ r.pc = "send" /\ r.n = disp[d].n /\ r.list = list /\ r.i = disp[d].i + 1
    <2>1. r \in DispatcherStates
      BY <1>1, Fields, Zenon
    <2>2. r.pc = "send" /\ r.n = disp[d].n /\ r.list = list /\ r.i = disp[d].i + 1
      BY <1>1 DEF DispatcherStates
    <2> QED
      BY <2>1, <2>2
  <1>3. disp \in [Dispatchers -> DispatcherStates] /\ disp' = [disp EXCEPT ![d] = r]
    BY DEF IInv, TypeOK
  <1> HIDE DEF r
  <1>4. disp'[d] = r /\ \A e \in Dispatchers : e # d => disp'[e] = disp[e]
    BY <1>3
  <1>5. r.pc \in Sending /\ r.pc \notin {"evict", "resend"}
    BY <1>2 DEF Sending
  <1>6. /\ LastSent(d, t)' = disp[d].n
        /\ \A e \in Dispatchers, s \in Streams : LastSent(e, s)' \in Int /\ LastSent(e, s) <= LastSent(e, s)'
    <2>1. t = Target(d)
      OBVIOUS
    <2>2. disp'[d].pc = "send" /\ disp'[d].i = disp[d].i + 1 /\ disp'[d].n = disp[d].n
      BY <1>2, <1>4
    <2> QED
      BY <1>1, <1>4, <2>1, <2>2, MovesOn, Zenon
  <1>7. disp[d].n \in 1..MaxEvents
    <2>1. past[t][d] <= disp[d].n - 1 /\ past[t][d] \in 0..MaxEvents
      BY <1>1 DEF IInv, SentInv, TypeOK, LastSent
    <2>2. disp[d].n \in 0..MaxEvents
      BY <1>1 DEF DispatcherStates
    <2> QED
      BY <2>1, <2>2, MaxEventsAssumption
  <1>8. Len(channel[t]) < Capacity /\ channel' = [channel EXCEPT ![t] = Append(@, Event(d))]
    OBVIOUS
  <1>9. /\ channel' \in [Streams -> Seq(Events)] /\ \A u \in Streams : Len(channel'[u]) <= Capacity
        /\ SentInv' /\ NewestAreKeptInOrder'
    <2>1. UNCHANGED past
      OBVIOUS
    <2> QED
      BY <1>1, <1>6, <1>7, <1>8, <2>1, Put, Zenon
  <1>10. readers \cup {d} = readers /\ past' \in [Streams -> [Dispatchers -> 0..MaxEvents]]
    BY <1>1 DEF IInv, TypeOK
  <1>11. TypeOK' /\ ListInv' /\ SendInv'
    BY <1>2, <1>3, <1>5, <1>9, <1>10, Moves
  <1> QED
    BY <1>9, <1>11 DEF IInv

(* The oldest event leaves a channel, nobody's fan-out moves on.           *)
LEMMA StaysInFanOut ==
    ASSUME UNCHANGED <<arrays, list>>, NEW d \in Dispatchers,
           disp[d].pc \in Sending, disp'[d].pc \in Sending, disp'[d].i = disp[d].i, disp'[d].n = disp[d].n,
           NEW s \in Streams
    PROVE  LastSent(d, s)' = LastSent(d, s)
  <1>1. list' = list /\ \A k : Cell(list, k)' = Cell(list, k)
    BY DEF Cell
  <1>2. disp[d].pc # "rlock" /\ disp'[d].pc # "rlock"
    BY DEF Sending
  <1>3. Pending(d, s)' <=> Pending(d, s)
    BY <1>1, <1>2 DEF Pending
  <1> QED
    BY <1>3 DEF LastSent

LEMMA SendOK ==
    ASSUME IInv, NEW d \in Dispatchers, Send(d)
    PROVE  IInv'
  <1>1. disp[d].pc \in Sending /\ d \in readers /\ disp[d] \in DispatcherStates
        /\ disp \in [Dispatchers -> DispatcherStates]
    BY DEF Send, Sending, IInv, TypeOK
  <1>2. disp[d].list = list /\ disp[d].i <= list.len
    BY <1>1 DEF Send, IInv, SendInv, FanOutListIsStable
  <1>3. CASE Len(channel[Target(d)]) < Capacity
    <2>1. disp' = [disp EXCEPT ![d] = [disp[d] EXCEPT !.pc = "send", !.i = disp[d].i + 1]]
      <3>1. disp' = [disp EXCEPT ![d] = [disp[d] EXCEPT !.i = disp[d].i + 1]]
        BY <1>3 DEF Send
      <3>2. [disp[d] EXCEPT !.i = disp[d].i + 1] = [disp[d] EXCEPT !.pc = "send", !.i = disp[d].i + 1]
        BY <1>1 DEF Send, DispatcherStates
      <3> QED
        BY <3>1, <3>2
    <2> QED
      BY <1>1, <1>2, <1>3, <2>1, PutOK DEF Send
  <1>4. CASE ~(Len(channel[Target(d)]) < Capacity)
    <2> DEFINE r == [disp[d] EXCEPT !.pc = "evict"]
    <2>1. r \in DispatcherStates /\ r.pc = "evict" /\ r.n = disp[d].n /\ r.list = list /\ r.i = disp[d].i
      <3>1. r \in DispatcherStates
        BY <1>1, <1>2, Fields, Zenon
      <3>2. r.pc = "evict" /\ r.n = disp[d].n /\ r.list = list /\ r.i = disp[d].i
        BY <1>1, <1>2 DEF DispatcherStates
      <3> QED
        BY <3>1, <3>2
    <2>2. disp' = [disp EXCEPT ![d] = r]
          /\ UNCHANGED <<arrays, list, readers, writer, channel, stream, past, crashed>>
      BY <1>4 DEF Send
    <2> HIDE DEF r
    <2>3. disp'[d] = r /\ \A e \in Dispatchers : e # d => disp'[e] = disp[e]
      BY <1>1, <2>2
    <2>4. r.pc \in Sending /\ readers \cup {d} = readers /\ r.i <= list.len
      BY <1>1, <1>2, <2>1 DEF Sending
    <2>5. TypeOK' /\ ListInv' /\ SendInv'
      BY <2>1, <2>2, <2>4, Moves DEF IInv, TypeOK
    <2>6. ASSUME NEW e \in Dispatchers, NEW s \in Streams PROVE LastSent(e, s)' = LastSent(e, s)
      BY <1>1, <2>1, <2>2, <2>3, <2>4, SameSent, StaysInFanOut
    <2>7. \A e \in Dispatchers, s \in Streams : LastSent(e, s) \in Int
      BY SentIsInt, Zenon DEF IInv
    <2>8. SentInv' /\ NewestAreKeptInOrder'
      BY <2>2, <2>5, <2>6, <2>7, SameChannels
    <2> QED
      BY <2>5, <2>8 DEF IInv
  <1> QED
    BY <1>3, <1>4

LEMMA EvictOK ==
    ASSUME IInv, NEW d \in Dispatchers, Evict(d)
    PROVE  IInv'
  <1> DEFINE r == [disp[d] EXCEPT !.pc = "resend"]
             t == Target(d)
  <1>1. disp[d].pc \in Sending /\ disp[d].i <= list.len /\ disp \in [Dispatchers -> DispatcherStates]
    BY DEF Evict, Sending, IInv, SendInv, TypeOK
  <1>2. disp[d] \in DispatcherStates /\ d \in readers /\ disp[d].list = list /\ t \in Streams
    BY <1>1, InFanOut
  <1>3. r \in DispatcherStates /\ r.pc = "resend" /\ r.n = disp[d].n /\ r.list = list /\ r.i = disp[d].i
    <2>1. r \in DispatcherStates
      BY <1>2, Fields, Zenon
    <2>2. r.pc = "resend" /\ r.n = disp[d].n /\ r.list = list /\ r.i = disp[d].i
      BY <1>2 DEF DispatcherStates
    <2> QED
      BY <2>1, <2>2
  <1>4. /\ disp' = [disp EXCEPT ![d] = r] /\ channel[t] # <<>> /\ Forget(t, Head(channel[t]))
        /\ channel' = [channel EXCEPT ![t] = Tail(@)]
        /\ UNCHANGED <<arrays, list, readers, writer, stream, crashed>>
    BY DEF Evict
  <1> HIDE DEF r, t
  <1>5. disp'[d] = r /\ \A e \in Dispatchers : e # d => disp'[e] = disp[e]
    BY <1>1, <1>4
  <1>6. r.pc \in Sending /\ readers \cup {d} = readers /\ r.i <= list.len
    BY <1>1, <1>2, <1>3 DEF Sending
  <1>7. ASSUME NEW e \in Dispatchers, NEW s \in Streams PROVE LastSent(e, s)' = LastSent(e, s)
    BY <1>1, <1>3, <1>4, <1>5, <1>6, SameSent, StaysInFanOut
  <1>8. /\ channel' \in [Streams -> Seq(Events)] /\ \A u \in Streams : Len(channel'[u]) <= Capacity
        /\ past' \in [Streams -> [Dispatchers -> 0..MaxEvents]]
        /\ SentInv' /\ NewestAreKeptInOrder'
    BY <1>2, <1>4, <1>7, Take
  <1>9. TypeOK' /\ ListInv' /\ SendInv'
    BY <1>3, <1>4, <1>6, <1>8, Moves
  <1> QED
    BY <1>8, <1>9 DEF IInv

LEMMA ResendOK ==
    ASSUME IInv, NEW d \in Dispatchers, Resend(d)
    PROVE  IInv'
  <1>1. disp[d].pc \in Sending /\ disp[d].i <= list.len
    BY DEF Resend, Sending, IInv, SendInv
  <1> QED
    BY <1>1, PutOK DEF Resend

LEMMA RUnlockOK ==
    ASSUME IInv, NEW d \in Dispatchers, RUnlock(d)
    PROVE  IInv'
  <1> DEFINE r == [disp[d] EXCEPT !.pc = "idle"]
  <1>1. disp[d].pc \in Sending /\ d \in readers /\ disp[d] \in DispatcherStates
        /\ disp \in [Dispatchers -> DispatcherStates]
    BY DEF RUnlock, Sending, IInv, TypeOK
  <1>2. disp[d].list = list /\ disp[d].i > list.len /\ disp[d].i \in Nat /\ list.len \in Nat
    BY <1>1, ListCells DEF RUnlock, IInv, SendInv, FanOutListIsStable, DispatcherStates
  <1>3. r \in DispatcherStates /\ r.pc = "idle" /\ r.n = disp[d].n
    <2>1. r \in DispatcherStates
      BY <1>1, Fields, Zenon
    <2>2. r.pc = "idle" /\ r.n = disp[d].n
      BY <1>1 DEF DispatcherStates
    <2> QED
      BY <2>1, <2>2
  <1>4. disp' = [disp EXCEPT ![d] = r] /\ readers' = readers \ {d} /\ disp[d].pc = "send"
        /\ UNCHANGED <<arrays, list, writer, channel, stream, past, crashed>>
    BY DEF RUnlock
  <1> HIDE DEF r
  <1>5. disp'[d] = r /\ \A e \in Dispatchers : e # d => disp'[e] = disp[e]
    BY <1>1, <1>4
  <1>6. r.pc \notin Sending /\ r.pc \notin {"evict", "resend"}
    BY <1>3 DEF Sending
  <1>7. TypeOK' /\ ListInv' /\ SendInv'
    BY <1>3, <1>4, <1>6, Moves DEF IInv, TypeOK
  <1>8. ASSUME NEW e \in Dispatchers, NEW s \in Streams PROVE LastSent(e, s)' = LastSent(e, s)
    <2>1. CASE e # d
      BY <1>4, <1>5, <2>1, SameSent
    <2>2. CASE e = d
      <3>1. ~Pending(d, s)
        BY <1>2, <1>4 DEF Pending
      <3>2. ~Pending(d, s)'
        BY <1>3, <1>5, <1>6 DEF Pending
      <3> QED
        BY <1>3, <1>5, <2>2, <3>1, <3>2 DEF LastSent
    <2> QED
      BY <2>1, <2>2
  <1>9. \A e \in Dispatchers, s \in Streams : LastSent(e, s) \in Int
    BY SentIsInt, Zenon DEF IInv
  <1>10. SentInv' /\ NewestAreKeptInOrder'
    BY <1>4, <1>7, <1>8, <1>9, SameChannels
  <1> QED
    BY <1>7, <1>10 DEF IInv

-----------------------------------------------------------------------------
(* The steps of a stream.                                                  *)

(* Its record keeps its shape, whichever half of the list it copies.       *)
LEMMA StreamFields ==
    ASSUME NEW r \in StreamStates, NEW l \in Slices, NEW pc \in {"length", "array", "search"}
    PROVE  /\ [r EXCEPT !.pc = pc, !.list.arr = l.arr] \in StreamStates
           /\ [r EXCEPT !.pc = pc, !.list.len = l.len] \in StreamStates
           /\ [r EXCEPT !.pc = pc, !.list.arr = l.arr].pc = pc
           /\ [r EXCEPT !.pc = pc, !.list.len = l.len].pc = pc
  <1>1. r.list \in Slices /\ l.arr \in 1..Len(arrays) /\ l.len \in Nat
    BY DEF StreamStates, Slices
  <1>2. [r.list EXCEPT !.arr = l.arr] \in Slices /\ [r.list EXCEPT !.len = l.len] \in Slices
    BY <1>1 DEF Slices
  <1>3. \A k \in Slices : [r EXCEPT !.pc = pc, !.list = k] \in StreamStates /\ [r EXCEPT !.pc = pc, !.list = k].pc = pc
    BY DEF StreamStates
  <1> QED
    BY <1>2, <1>3

LEMMA OpenOK ==
    ASSUME IInv, NEW s \in Streams, Open(s)
    PROVE  IInv'
  <1> DEFINE r == [stream[s] EXCEPT !.pc = "add"]
  <1>1. stream[s] \in StreamStates /\ writer \in Streams \cup {None}
    BY DEF IInv, TypeOK
  <1>2. r \in StreamStates /\ stream[s].pc = "off"
    BY <1>1 DEF StreamStates, Open
  <1>3. stream' = [stream EXCEPT ![s] = r]
        /\ UNCHANGED <<arrays, list, readers, disp, channel, past, crashed, writer>>
    BY DEF Open
  <1> HIDE DEF r
  <1> QED
    BY <1>1, <1>2, <1>3, StreamMoves

LEMMA LockOK ==
    ASSUME IInv, NEW s \in Streams, Lock(s)
    PROVE  IInv'
  <1>1. stream[s] \in StreamStates /\ stream \in [Streams -> StreamStates]
    BY DEF IInv, TypeOK
  <1>2. stream' = [stream EXCEPT ![s] = stream[s]] /\ writer' \in Streams \cup {None}
        /\ UNCHANGED <<arrays, list, readers, disp, channel, past, crashed>>
    BY <1>1 DEF Lock
  <1> QED
    BY <1>1, <1>2, StreamMoves

LEMMA CloseOK ==
    ASSUME IInv, NEW s \in Streams, Close(s)
    PROVE  IInv'
  <1>1. stream[s] \in StreamStates /\ writer \in Streams \cup {None} /\ list \in Slices
    BY DEF IInv, TypeOK
  <1>2. UNCHANGED <<arrays, list, readers, disp, channel, past, crashed, writer>>
    BY DEF Close
  <1>3. PICK r : /\ stream' = [stream EXCEPT ![s] = r]
                 /\ r \in {[stream[s] EXCEPT !.pc = "length", !.list.arr = list.arr],
                           [stream[s] EXCEPT !.pc = "array", !.list.len = list.len]}
    <2>1. CASE stream' = [stream EXCEPT ![s].pc = "length", ![s].list.arr = list.arr]
      BY <2>1
    <2>2. CASE stream' = [stream EXCEPT ![s].pc = "array", ![s].list.len = list.len]
      BY <2>2
    <2> QED
      BY <2>1, <2>2 DEF Close
  <1>4. r \in StreamStates /\ r.pc \in {"length", "array"}
    <2>1. /\ [stream[s] EXCEPT !.pc = "length", !.list.arr = list.arr] \in StreamStates
          /\ [stream[s] EXCEPT !.pc = "length", !.list.arr = list.arr].pc = "length"
          /\ [stream[s] EXCEPT !.pc = "array", !.list.len = list.len] \in StreamStates
          /\ [stream[s] EXCEPT !.pc = "array", !.list.len = list.len].pc = "array"
      BY <1>1, StreamFields, Zenon
    <2> QED
      BY <1>3, <2>1, Zenon
  <1> QED
    BY <1>1, <1>2, <1>3, <1>4, StreamMoves

LEMMA CopyRestOK ==
    ASSUME IInv, NEW s \in Streams, CopyRest(s)
    PROVE  IInv'
  <1>1. stream[s] \in StreamStates /\ writer \in Streams \cup {None} /\ list \in Slices
    BY DEF IInv, TypeOK
  <1>2. UNCHANGED <<arrays, list, readers, disp, channel, past, crashed, writer>>
    BY DEF CopyRest
  <1>3. PICK r : /\ stream' = [stream EXCEPT ![s] = r]
                 /\ r \in {[stream[s] EXCEPT !.pc = "search", !.list.len = list.len],
                           [stream[s] EXCEPT !.pc = "search", !.list.arr = list.arr]}
    <2>1. CASE stream' = [stream EXCEPT ![s].pc = "search", ![s].list.len = list.len]
      BY <2>1
    <2>2. CASE stream' = [stream EXCEPT ![s].pc = "search", ![s].list.arr = list.arr]
      BY <2>2
    <2> QED
      BY <2>1, <2>2 DEF CopyRest
  <1>4. r \in StreamStates /\ r.pc = "search"
    <2>1. /\ [stream[s] EXCEPT !.pc = "search", !.list.arr = list.arr] \in StreamStates
          /\ [stream[s] EXCEPT !.pc = "search", !.list.arr = list.arr].pc = "search"
          /\ [stream[s] EXCEPT !.pc = "search", !.list.len = list.len] \in StreamStates
          /\ [stream[s] EXCEPT !.pc = "search", !.list.len = list.len].pc = "search"
      BY <1>1, StreamFields, Zenon
    <2> QED
      BY <1>3, <2>1, Zenon
  <1> QED
    BY <1>1, <1>2, <1>3, <1>4, StreamMoves

LEMMA SearchOK ==
    ASSUME IInv, NEW s \in Streams, Search(s)
    PROVE  IInv'
  <1>1. stream[s] \in StreamStates /\ writer \in Streams \cup {None}
    BY DEF IInv, TypeOK
  <1>2. UNCHANGED <<arrays, list, readers, disp, channel, past, crashed, writer>>
    BY DEF Search
  <1>3. PICK r : /\ stream' = [stream EXCEPT ![s] = r]
                 /\ r \in {[stream[s] EXCEPT !.pc = "closed"], [stream[s] EXCEPT !.pc = "remove"],
                           [stream[s] EXCEPT !.i = stream[s].i + 1]}
    BY DEF Search
  <1>4. r \in StreamStates /\ r.pc \notin {"off", "add"}
    BY <1>1, <1>3 DEF StreamStates, Search
  <1> QED
    BY <1>1, <1>2, <1>3, <1>4, StreamMoves

LEMMA ReceiveOK ==
    ASSUME IInv, NEW s \in Streams, Receive(s)
    PROVE  IInv'
  <1>1. /\ channel[s] # <<>> /\ Forget(s, Head(channel[s]))
        /\ channel' = [channel EXCEPT ![s] = Tail(@)]
        /\ UNCHANGED <<arrays, list, readers, writer, disp, stream, crashed>>
    BY DEF Receive
  <1>2. \A e \in Dispatchers, u \in Streams : LastSent(e, u)' = LastSent(e, u)
    BY <1>1, SameSent
  <1>3. /\ channel' \in [Streams -> Seq(Events)] /\ \A u \in Streams : Len(channel'[u]) <= Capacity
        /\ past' \in [Streams -> [Dispatchers -> 0..MaxEvents]]
        /\ SentInv' /\ NewestAreKeptInOrder'
    BY <1>1, <1>2, Take, Zenon
  <1>4. Slices' = Slices /\ Registered' = Registered
    BY <1>1, SameList
  <1>5. TypeOK'
    BY <1>1, <1>3, <1>4 DEF IInv, TypeOK, DispatcherStates, StreamStates
  <1>6. ListInv' /\ SendInv'
    BY <1>1 DEF IInv, ListInv, SendInv, FanOutListIsStable, Cell
  <1> QED
    BY <1>3, <1>5, <1>6 DEF IInv

-----------------------------------------------------------------------------
(* The list changes hands: whoever holds the lock for writing is alone.    *)

(* Nobody sends, so nothing is pending that was not.                       *)
LEMMA ListChanges ==
    ASSUME IInv, readers = {}, UNCHANGED <<readers, channel, disp, past, crashed>>,
           arrays' \in Seq(Seq(Streams \cup {None})), Len(arrays) <= Len(arrays'),
           list' \in Slices', list'.len <= Len(arrays'[list'.arr]),
           \A i \in 1..list'.len : arrays'[list'.arr][i] \in Streams,
           writer' \in Streams \cup {None}, stream' \in [Streams -> StreamStates'], ListInv'
    PROVE  IInv'
  <1>1. ASSUME NEW d \in Dispatchers PROVE disp[d].pc \notin Sending
    BY DEF IInv, TypeOK, Sending
  <1>2. Registered' \subseteq Streams
    <2>1. list'.len \in Nat /\ list'.arr \in 1..Len(arrays') /\ Len(arrays'[list'.arr]) \in Nat
      BY DEF Slices
    <2>2. \A i \in 1..list'.len : Cell(list, i)' = arrays'[list'.arr][i]
      BY <2>1 DEF Cell
    <2> QED
      BY <2>2 DEF Registered
  <1>3. \A r \in DispatcherStates : r \in DispatcherStates'
    <2>1. Len(arrays) \in Nat /\ Len(arrays') \in Nat
      BY DEF IInv, TypeOK
    <2>2. \A l \in Slices : l \in Slices'
      BY <2>1 DEF Slices
    <2> QED
      BY <2>2 DEF DispatcherStates
  <1>4. disp' \in [Dispatchers -> DispatcherStates']
    BY <1>3 DEF IInv, TypeOK
  <1>5. TypeOK'
    BY <1>2, <1>4 DEF IInv, TypeOK, Events
  <1>6. SendInv'
    BY <1>1 DEF IInv, SendInv, FanOutListIsStable, Sending
  <1>7. ASSUME NEW d \in Dispatchers, NEW s \in Streams PROVE LastSent(d, s)' = LastSent(d, s)
    BY <1>1 DEF LastSent, Pending
  <1>8. \A d \in Dispatchers, s \in Streams : LastSent(d, s) \in Int
    BY SentIsInt, Zenon DEF IInv
  <1>9. SentInv' /\ NewestAreKeptInOrder'
    BY <1>5, <1>7, <1>8, SameChannels
  <1> QED
    BY <1>5, <1>6, <1>9 DEF IInv

LEMMA SliceStates ==
    ASSUME TypeOK, arrays' \in Seq(Seq(Streams \cup {None})), Len(arrays) <= Len(arrays'),
           NEW r \in StreamStates
    PROVE  \A pc \in {"open", "closed"} : [r EXCEPT !.pc = pc] \in StreamStates' /\ r \in StreamStates'
  <1>1. Len(arrays) \in Nat /\ Len(arrays') \in Nat
    BY DEF TypeOK
  <1>2. r.list \in Slices'
    BY <1>1 DEF StreamStates, Slices
  <1> QED
    BY <1>2 DEF StreamStates

LEMMA AddListenerOK ==
    ASSUME IInv, NEW s \in Streams, AddListener(s)
    PROVE  IInv'
  <1> DEFINE old == arrays[list.arr]
             new == arrays'[list'.arr]
             n == list.len
  <1>1. TypeOK /\ AppendToList(s) /\ readers = {} /\ writer' = None
        /\ UNCHANGED <<readers, channel, disp, past, crashed>>
    BY DEF AddListener, IInv
  <1>2. /\ arrays' \in Seq(Seq(Streams \cup {None})) /\ Len(arrays') \in Nat /\ Len(arrays) <= Len(arrays')
        /\ list'.arr \in 1..Len(arrays') /\ list'.len = n + 1
        /\ list' = [arr |-> list'.arr, len |-> list'.len]
        /\ list'.len <= Len(new)
        /\ \A i \in 1..n : new[i] = old[i]
        /\ new[list'.len] = s
    BY <1>1, Appended
  <1>3. /\ n \in Nat
        /\ \A i \in 1..n : Cell(list, i) = old[i] /\ old[i] \in Streams
    BY <1>1, ListCells
  <1>4. stream' = [stream EXCEPT ![s] = [stream[s] EXCEPT !.pc = "open"]] /\ stream[s].pc = "add"
        /\ stream \in [Streams -> StreamStates]
    BY <1>1 DEF AddListener, TypeOK
  <1>5. stream' \in [Streams -> StreamStates']
    <2>1. \A u \in Streams : stream[u] \in StreamStates' /\ [stream[u] EXCEPT !.pc = "open"] \in StreamStates'
      BY <1>1, <1>2, <1>4, SliceStates
    <2> QED
      BY <1>4, <2>1
  <1>6. list' \in Slices'
    BY <1>2, <1>3 DEF Slices
  <1> HIDE DEF old, new
  <1>7. \A i \in 1..list'.len : IF i <= n THEN i \in 1..n /\ new[i] = old[i] ELSE i = n + 1 /\ new[i] = s
    BY <1>2, <1>3, SMTT(30)
  <1>8. \A i \in 1..list'.len : Cell(list, i)' = new[i]
    BY <1>2, <1>3 DEF Cell, new
  <1>9. \A i \in 1..n : old[i] # s
    BY <1>3, <1>4 DEF IInv, ListInv
  <1>10. \A i \in 1..list'.len : new[i] \in Streams
    BY <1>3, <1>7
  <1>11. ListInv'
    <2>1. ASSUME NEW i \in 1..list'.len, NEW j \in 1..list'.len, new[i] = new[j] PROVE i = j
      BY <1>3, <1>7, <1>9, <2>1 DEF IInv, ListInv
    <2>2. ASSUME NEW i \in 1..list'.len PROVE stream'[new[i]].pc \notin {"off", "add"}
      BY <1>3, <1>4, <1>7, <1>9 DEF IInv, ListInv
    <2> QED
      BY <1>8, <2>1, <2>2 DEF ListInv
  <1>12. /\ list'.len <= Len(arrays'[list'.arr])
         /\ \A i \in 1..list'.len : arrays'[list'.arr][i] \in Streams
    BY <1>2, <1>10 DEF new
  <1> QED
    BY <1>1, <1>2, <1>5, <1>6, <1>11, <1>12, ListChanges

LEMMA RemoveListenerOK ==
    ASSUME IInv, NEW s \in Streams, RemoveListener(s)
    PROVE  IInv'
  <1>1. CASE stream[s].i <= list.len
    <2> DEFINE old == arrays[list.arr]
               new == arrays'[list'.arr]
               n == list.len
               k == stream[s].i
    <2>1. TypeOK /\ DeleteFromList(k) /\ readers = {} /\ writer' = None /\ k <= n
          /\ UNCHANGED <<readers, channel, disp, past, crashed>>
      BY <1>1 DEF RemoveListener, IInv
    <2>2. k \in Nat \ {0} /\ stream \in [Streams -> StreamStates]
      BY <2>1 DEF TypeOK, StreamStates
    <2>3. /\ arrays' \in Seq(Seq(Streams \cup {None})) /\ Len(arrays') = Len(arrays)
          /\ list'.arr = list.arr /\ list'.len = n - 1 /\ list'.len \in Nat
          /\ list' = [arr |-> list'.arr, len |-> list'.len]
          /\ list'.len <= Len(new)
          /\ \A i \in 1..list'.len : new[i] = IF i < k THEN old[i] ELSE old[i + 1]
      BY <2>1, <2>2, Deleted
    <2>4. /\ n \in Nat /\ list.arr \in 1..Len(arrays) /\ Len(arrays) \in Nat
          /\ \A i \in 1..n : Cell(list, i) = old[i] /\ old[i] \in Streams
      BY <2>1, ListCells DEF TypeOK
    <2>5. stream' = [stream EXCEPT ![s] = [stream[s] EXCEPT !.pc = "closed"]]
      BY <1>1 DEF RemoveListener
    <2>6. stream' \in [Streams -> StreamStates']
      <3>1. \A u \in Streams : stream[u] \in StreamStates' /\ [stream[u] EXCEPT !.pc = "closed"] \in StreamStates'
        <4>1. Len(arrays) <= Len(arrays') /\ arrays' \in Seq(Seq(Streams \cup {None})) /\ TypeOK
          BY <2>1, <2>3, <2>4
        <4> QED
          BY <2>2, <4>1, SliceStates
      <3> QED
        BY <2>2, <2>5, <3>1
    <2>7. list' \in Slices'
      BY <2>3, <2>4 DEF Slices
    <2>8. \A i \in 1..list'.len : Cell(list, i)' = new[i]
      BY <2>3 DEF Cell
    <2> HIDE DEF old, new, k
    <2> DEFINE was(i) == IF i < k THEN i ELSE i + 1
    <2>9. \A i \in 1..list'.len : was(i) \in 1..n /\ new[i] = old[was(i)]
      BY <2>2, <2>3, <2>4, SMTT(30)
    <2>10. \A i, j \in 1..list'.len : was(i) = was(j) => i = j
      BY <2>2
    <2> HIDE DEF was
    <2>11. ListInv'
      <3>1. ASSUME NEW i \in 1..list'.len, NEW j \in 1..list'.len, new[i] = new[j] PROVE i = j
        BY <2>4, <2>9, <2>10, <3>1 DEF IInv, ListInv
      <3>2. ASSUME NEW i \in 1..list'.len PROVE stream'[new[i]].pc \notin {"off", "add"}
        <4>1. new[i] \in Streams /\ stream[new[i]].pc \notin {"off", "add"}
          BY <2>4, <2>9 DEF IInv, ListInv
        <4> QED
          BY <2>2, <2>5, <4>1
      <3> QED
        BY <2>8, <3>1, <3>2 DEF ListInv
    <2>12. /\ list'.len <= Len(arrays'[list'.arr])
           /\ \A i \in 1..list'.len : arrays'[list'.arr][i] \in Streams
      BY <2>3, <2>4, <2>9 DEF new
    <2>13. Len(arrays) <= Len(arrays')
      BY <2>3, <2>4
    <2> QED
      BY <2>1, <2>3, <2>6, <2>7, <2>11, <2>12, <2>13, ListChanges
  <1>2. CASE ~(stream[s].i <= list.len)
    <2>1. UNCHANGED <<arrays, list, readers, writer, channel, disp, stream, past>> /\ crashed' \in BOOLEAN
      BY <1>2 DEF RemoveListener
    <2>2. Slices' = Slices /\ Registered' = Registered
      BY <2>1, SameList
    <2>3. TypeOK'
      BY <2>1, <2>2 DEF IInv, TypeOK, DispatcherStates, StreamStates
    <2> QED
      BY <2>1, <2>3, SMTT(30) DEF IInv, ListInv, SendInv, SentInv, LastSent, Pending, FanOutListIsStable,
                        NewestAreKeptInOrder, Cell
  <1> QED
    BY <1>1, <1>2

-----------------------------------------------------------------------------
(* The theorems.                                                           *)

LEMMA InitOK == Init => IInv
  <1> SUFFICES ASSUME Init PROVE IInv
    OBVIOUS
  <1>1. list.len = 0 /\ list.arr = 1 /\ Len(arrays) = 1 /\ Len(arrays[1]) = 0 /\ list \in Slices
        /\ 1..list.len = {}
    BY DEF Init, Slices
  <1>2. Registered = {} /\ arrays \in Seq(Seq(Streams \cup {None}))
    BY <1>1 DEF Registered, Init
  <1>3. disp \in [Dispatchers -> DispatcherStates] /\ stream \in [Streams -> StreamStates]
    BY <1>1, MaxEventsAssumption DEF Init, DispatcherStates, StreamStates
  <1>4. channel \in [Streams -> Seq(Events)] /\ \A s \in Streams : channel[s] = <<>> /\ Len(channel[s]) = 0
    BY DEF Init
  <1>5. past \in [Streams -> [Dispatchers -> 0..MaxEvents]] /\ crashed \in BOOLEAN
        /\ writer \in Streams \cup {None} /\ readers = {d \in Dispatchers : disp[d].pc \in {"send", "evict", "resend"}}
    <2>1. past \in [Streams -> [Dispatchers -> 0..MaxEvents]]
      BY MaxEventsAssumption DEF Init
    <2>2. crashed \in BOOLEAN /\ writer \in Streams \cup {None}
      BY DEF Init
    <2>3. readers = {d \in Dispatchers : disp[d].pc \in {"send", "evict", "resend"}}
      <3>1. \A d \in Dispatchers : disp[d].pc = "idle"
        BY DEF Init
      <3>2. readers = {}
        BY DEF Init
      <3> QED
        BY <3>1, <3>2
    <2> QED
      BY <2>1, <2>2, <2>3
  <1>6. TypeOK
    BY <1>1, <1>2, <1>3, <1>4, <1>5, CapacityAssumption DEF TypeOK
  <1>7. ListInv
    BY <1>1 DEF ListInv
  <1>8. SendInv
    BY DEF Init, SendInv, FanOutListIsStable
  <1>9. SentInv
    BY <1>4 DEF SentInv, LastSent, Pending, Init, Sending
  <1>10. NewestAreKeptInOrder
    BY <1>4 DEF NewestAreKeptInOrder
  <1> QED
    BY <1>6, <1>7, <1>8, <1>9, <1>10 DEF IInv

LEMMA Inductive == IInv /\ [Next]_vars => IInv'
  <1> SUFFICES ASSUME IInv, [Next]_vars PROVE IInv'
    OBVIOUS
  <1>1. ASSUME NEW d \in Dispatchers, Dispatch(d) PROVE IInv'
    BY <1>1, DispatchOK
  <1>2. ASSUME NEW s \in Streams, Open(s) \/ Receive(s) \/ Close(s) PROVE IInv'
    BY <1>2, OpenOK, ReceiveOK, CloseOK
  <1>3. ASSUME NEW d \in Dispatchers, DispatchStep(d) PROVE IInv'
    BY <1>3, RLockOK, SendOK, EvictOK, ResendOK, RUnlockOK DEF DispatchStep
  <1>4. ASSUME NEW s \in Streams, ListStep(s) PROVE IInv'
    BY <1>4, LockOK, AddListenerOK, CopyRestOK, SearchOK, RemoveListenerOK DEF ListStep
  <1>5. CASE UNCHANGED vars
    <2>1. UNCHANGED <<arrays, list, readers, writer, channel, disp, stream, past, crashed>>
      BY <1>5 DEF vars
    <2>2. Slices' = Slices /\ Registered' = Registered
      BY <2>1, SameList
    <2>3. TypeOK'
      BY <2>1, <2>2 DEF IInv, TypeOK, DispatcherStates, StreamStates
    <2> QED
      BY <2>1, <2>3 DEF IInv, ListInv, SendInv, SentInv, LastSent, Pending, FanOutListIsStable,
                        NewestAreKeptInOrder, Cell
  <1> QED
    BY <1>1, <1>2, <1>3, <1>4, <1>5 DEF Next

LEMMA Invariant == Spec => []IInv
  BY InitOK, Inductive, PTL DEF Spec

(* The list and its copies are slices of arrays that exist, and the read   *)
(* lock is held by those who are sending (NewListener, Close, Dispatch).   *)
THEOREM TypeCorrect == Spec => []TypeOK
  <1>1. IInv => TypeOK
    BY DEF IInv
  <1> QED
    BY <1>1, Invariant, PTL

(* Dispatch ranges over a list that nobody changes while it sends.         *)
THEOREM FanOutIsStable == Spec => []FanOutListIsStable
  <1>1. IInv => FanOutListIsStable
    BY DEF IInv, SendInv
  <1> QED
    BY <1>1, Invariant, PTL

(* Send drops the oldest events of a full channel and no others, however   *)
(* many goroutines send to it.                                             *)
THEOREM NewestAreKept == Spec => []NewestAreKeptInOrder
  <1>1. IInv => NewestAreKeptInOrder
    BY DEF IInv
  <1> QED
    BY <1>1, Invariant, PTL

-----------------------------------------------------------------------------
(* Who can hold up whom.                                                   *)

(* The stream that has asked readers to stay out has its change to make.   *)
WriterInv == writer # None => stream[writer].pc \in {"add", "remove"}

LEMMA WriterInductive == IInv /\ WriterInv /\ [Next]_vars => WriterInv'
  <1> SUFFICES ASSUME IInv, WriterInv, [Next]_vars PROVE WriterInv'
    OBVIOUS
  <1>0. stream \in [Streams -> StreamStates] /\ writer \in Streams \cup {None}
    BY DEF IInv, TypeOK
  <1>1. ASSUME NEW d \in Dispatchers, Dispatch(d) \/ DispatchStep(d) PROVE WriterInv'
    BY <1>1 DEF Dispatch, DispatchStep, RLock, Send, Evict, Resend, RUnlock, WriterInv
  <1>2. ASSUME NEW s \in Streams, Lock(s) PROVE WriterInv'
    BY <1>2 DEF Lock, WriterInv
  <1>3. ASSUME NEW s \in Streams, AddListener(s) PROVE WriterInv'
    BY <1>3 DEF AddListener, WriterInv
  <1>4. ASSUME NEW s \in Streams, RemoveListener(s) PROVE WriterInv'
    BY <1>4 DEF RemoveListener, WriterInv
  <1>5. ASSUME NEW s \in Streams, Open(s) \/ Receive(s) \/ Close(s) \/ CopyRest(s) \/ Search(s)
        PROVE  WriterInv'
    <2>1. writer' = writer
      BY <1>5 DEF Open, Receive, Close, CopyRest, Search
    <2>2. stream' = stream \/ (stream[s].pc \notin {"add", "remove"} /\ \A r \in Streams \ {s} : stream'[r] = stream[r])
      BY <1>0, <1>5 DEF Open, Receive, Close, CopyRest, Search
    <2> QED
      BY <1>0, <2>1, <2>2 DEF WriterInv
  <1>6. CASE UNCHANGED vars
    BY <1>6 DEF vars, WriterInv
  <1> QED
    BY <1>1, <1>2, <1>3, <1>4, <1>5, <1>6 DEF Next, ListStep

(* Nothing else brings goroutines and streams to a halt but the overflow   *)
(* branch of Send, and only when the channel has been emptied meanwhile or *)
(* its stream reads no more: readers and writers never wait for each other *)
(* in a circle, for any number of them, of listeners and of events.        *)
THEOREM OnlyOverflowBlocks == Spec => []OnlyOverflowHalts
  <1>1. Init => WriterInv
    BY DEF Init, WriterInv
  <1>2. ASSUME IInv, WriterInv, Halted, Waiting
        PROVE  \E d \in Dispatchers :
                  \/ disp[d].pc = "evict" /\ channel[Target(d)] = <<>>
                  \/ disp[d].pc = "resend" /\ stream[Target(d)].pc # "open"
    <2>1. /\ disp \in [Dispatchers -> DispatcherStates] /\ stream \in [Streams -> StreamStates]
          /\ writer \in Streams \cup {None}
          /\ readers = {d \in Dispatchers : disp[d].pc \in {"send", "evict", "resend"}}
          /\ channel \in [Streams -> Seq(Events)]
      BY <1>2 DEF IInv, TypeOK
    <2>2. CASE readers = {}
      <3>1. writer = None
        <4> SUFFICES ASSUME writer # None PROVE FALSE
          OBVIOUS
        <4>1. writer \in Streams /\ stream[writer].pc \in {"add", "remove"}
          BY <1>2, <2>1 DEF WriterInv
        <4> QED
          BY <1>2, <2>2, <4>1 DEF Halted, StreamReady
      <3>2. \A d \in Dispatchers : disp[d].pc = "idle"
        BY <1>2, <2>1, <2>2, <3>1 DEF Halted, DispatcherReady, DispatcherStates
      <3>3. \A s \in Streams : stream[s].pc \in {"off", "open", "closed"}
        BY <1>2, <2>1, <3>1 DEF Halted, StreamReady, StreamStates
      <3> QED
        BY <1>2, <3>2, <3>3 DEF Waiting
    <2>3. CASE readers # {}
      <3>1. PICK d \in readers : TRUE
        BY <2>3
      <3>2. d \in Dispatchers /\ disp[d].pc \in {"evict", "resend"}
        BY <1>2, <2>1 DEF Halted, DispatcherReady
      <3>3. CASE disp[d].pc = "evict"
        BY <1>2, <3>2, <3>3 DEF Halted, DispatcherReady
      <3>4. CASE disp[d].pc = "resend"
        <4>1. Target(d) \in Streams
          <5>1. disp[d].list = list /\ disp[d].i \in 1..list.len
            BY <1>2, <2>1, <3>2, ListCells DEF IInv, SendInv, FanOutListIsStable, DispatcherStates
          <5> QED
            BY <1>2, <5>1, ListCells DEF IInv, Target
        <4>2. ~(Len(channel[Target(d)]) < Capacity)
          BY <1>2, <3>2, <3>4 DEF Halted, DispatcherReady
        <4>3. channel[Target(d)] # <<>>
          BY <2>1, <4>1, <4>2, CapacityAssumption
        <4>4. stream[Target(d)].pc # "open"
          BY <1>2, <4>1, <4>3 DEF Halted, StreamReady
        <4> QED
          BY <3>2, <3>4, <4>4
      <3> QED
        BY <3>2, <3>3, <3>4
    <2> QED
      BY <2>2, <2>3
  <1>3. IInv /\ WriterInv => OnlyOverflowHalts
    BY <1>2 DEF OnlyOverflowHalts
  <1> QED
    BY <1>1, <1>3, Invariant, WriterInductive, PTL DEF Spec

-----------------------------------------------------------------------------
(* When one stream at most ends.  Until it has, listeners are only ever    *)
(* appended: no cell that has been written changes or disagrees with the   *)
(* list, so the search finds the listener whichever array it runs over,    *)
(* and finds it where the list has it.                                     *)

Grown ==
    \A a \in 1..Len(arrays) : \A i \in 1..Len(arrays[a]) :
        arrays[a][i] # None => i <= list.len /\ arrays[a][i] = arrays[list.arr][i]

At(c, k) == k \in 1..list.len /\ arrays[list.arr][k] = c
CopyHas(c, k) == k <= Len(arrays[stream[c].list.arr]) /\ arrays[stream[c].list.arr][k] = c

Copied(c) ==
    /\ stream[c].pc \notin {"search", "remove", "closed"} => stream[c].i = 1
    /\ stream[c].pc = "length" => \E k : At(c, k) /\ CopyHas(c, k)
    /\ stream[c].pc = "array" => \E k : At(c, k) /\ k <= stream[c].list.len
    /\ stream[c].pc = "search" =>
          \E k : At(c, k) /\ CopyHas(c, k) /\ k <= stream[c].list.len /\ stream[c].i <= k
    /\ stream[c].pc = "remove" => At(c, stream[c].i)

Placed ==
    /\ \A s \in Streams : stream[s].pc \notin {"off", "add", "closed"} => \E k : At(s, k)
    /\ \A s \in Streams : stream[s].pc = "closed" => ~\E k : At(s, k)

OneEnds(c) ==
    /\ ~crashed
    /\ \A s \in Streams : s # c => stream[s].pc \in {"off", "add", "open"}
    /\ stream[c].pc # "closed" => Grown
    /\ Copied(c)
    /\ Placed

(* A step that leaves the list alone moves one stream.                     *)
LEMMA OneEndsMoves ==
    ASSUME IInv, NEW c \in Streams, OneEnds(c), UNCHANGED <<arrays, list, crashed>>,
           NEW s \in Streams, NEW r, stream' = [stream EXCEPT ![s] = r],
           s # c => r.pc \in {"off", "add", "open"} /\ s # c,
           r.pc # "closed", stream[s].pc # "closed",
           stream[s].pc \in {"off", "add"} => r.pc \in {"off", "add"},
           s = c => Copied(c)'
    PROVE  OneEnds(c)'
  <1>1. stream \in [Streams -> StreamStates]
    BY DEF IInv, TypeOK
  <1>2. stream'[s] = r /\ \A u \in Streams : u # s => stream'[u] = stream[u]
    BY <1>1
  <1>3. \A u, k : At(u, k)' <=> At(u, k)
    BY DEF At
  <1>4. Copied(c)'
    BY <1>2, <1>3 DEF OneEnds, Copied, CopyHas
  <1>5. Placed'
    BY <1>2, <1>3 DEF OneEnds, Placed
  <1> QED
    BY <1>2, <1>4, <1>5 DEF OneEnds, Grown

(* A listener is appended: those there keep their cells.                   *)
LEMMA OneEndsAdd ==
    ASSUME IInv, NEW c \in Streams, OneEnds(c), NEW s \in Streams, AddListener(s)
    PROVE  OneEnds(c)'
  <1> DEFINE n == list.len
             new == arrays'[list'.arr]
  <1>1. TypeOK /\ AppendToList(s) /\ crashed' = crashed /\ stream[s].pc = "add"
        /\ stream' = [stream EXCEPT ![s] = [stream[s] EXCEPT !.pc = "open"]]
        /\ stream \in [Streams -> StreamStates]
    BY DEF AddListener, IInv, TypeOK
  <1>2. /\ arrays' \in Seq(Seq(Streams \cup {None})) /\ Len(arrays) <= Len(arrays') /\ Len(arrays') \in Nat
        /\ list'.len = n + 1 /\ list'.arr \in 1..Len(arrays') /\ list'.len <= Len(new)
        /\ \A i \in 1..n : new[i] = arrays[list.arr][i]
        /\ new[n + 1] = s
        /\ \A a \in 1..Len(arrays) :
              /\ Len(arrays'[a]) = Len(arrays[a])
              /\ \A i \in 1..Len(arrays[a]) :
                    arrays'[a][i] = IF a = list'.arr /\ i = n + 1 THEN s ELSE arrays[a][i]
        /\ list'.arr \notin 1..Len(arrays) => \A i \in 1..Len(new) : i > n + 1 => new[i] = None
        /\ \A a \in 1..Len(arrays') : a \in 1..Len(arrays) \/ a = list'.arr
    BY <1>1, Appended, SMTT(30)
  <1>3. n \in Nat /\ \A i \in 1..n : arrays[list.arr][i] = Cell(list, i)
    BY <1>1, ListCells
  <1> HIDE DEF new
  <1>4. \A u, k : At(u, k) => At(u, k)'
    BY <1>2, <1>3, SMTT(30) DEF At, new
  <1>5. \E k : At(s, k)'
    <2>1. n + 1 \in 1..list'.len /\ arrays'[list'.arr][n + 1] = s
      BY <1>2, <1>3, SMTT(30) DEF new
    <2>2. PICK k : k = n + 1
      OBVIOUS
    <2>3. At(s, k)'
      BY <2>1, <2>2 DEF At
    <2> QED
      BY <2>3
  <1>6. ASSUME NEW u, NEW k, At(u, k)', u # s PROVE At(u, k)
    <2>1. k \in 1..(n + 1) /\ new[k] = u
      BY <1>2, <1>6 DEF At, new
    <2>2. k # n + 1
      BY <1>2, <1>6, <2>1
    <2>3. k \in 1..n
      BY <1>3, <2>1, <2>2
    <2> QED
      BY <1>2, <2>1, <2>3 DEF At
  <1>7. stream'[s].pc = "open" /\ stream'[s].i = stream[s].i /\ \A u \in Streams : u # s => stream'[u] = stream[u]
    BY <1>1 DEF StreamStates
  <1>8. Placed'
    BY <1>1, <1>4, <1>5, <1>6, <1>7 DEF OneEnds, Placed
  <1>9. ASSUME NEW k, At(c, k), CopyHas(c, k), s # c PROVE CopyHas(c, k)'
    <2>1. stream'[c] = stream[c] /\ stream[c].list.arr \in 1..Len(arrays)
      BY <1>1, <1>7, <1>9 DEF StreamStates, Slices
    <2> DEFINE a == stream[c].list.arr
    <2>2. k \in 1..n /\ k # n + 1 /\ k \in 1..Len(arrays[a])
      <3>1. Len(arrays[a]) \in Nat
        BY <1>1, <2>1 DEF TypeOK
      <3> QED
        BY <1>3, <1>9, <3>1 DEF At, CopyHas
    <2>3. arrays'[a][k] = arrays[a][k] /\ Len(arrays'[a]) = Len(arrays[a])
      BY <1>2, <2>1, <2>2
    <2> QED
      BY <1>9, <2>1, <2>3 DEF CopyHas
  <1>10. Copied(c)'
    <2>1. CASE s = c
      BY <1>1, <1>7, <2>1 DEF OneEnds, Copied
    <2>2. CASE s # c
      BY <1>4, <1>7, <1>9, <2>2 DEF OneEnds, Copied
    <2> QED
      BY <2>1, <2>2
  <1>11. ASSUME stream'[c].pc # "closed" PROVE Grown'
    <2>1. Grown
      BY <1>1, <1>7, <1>11 DEF OneEnds
    <2> SUFFICES ASSUME NEW a \in 1..Len(arrays'), NEW i \in 1..Len(arrays'[a]), arrays'[a][i] # None
                 PROVE  i <= list'.len /\ arrays'[a][i] = new[i]
      BY DEF Grown, new
    <2>2. CASE a \in 1..Len(arrays) /\ ~(a = list'.arr /\ i = n + 1)
      <3>1. i \in 1..Len(arrays[a]) /\ arrays'[a][i] = arrays[a][i]
        BY <1>2, <2>2
      <3>2. i <= n /\ arrays[a][i] = arrays[list.arr][i]
        BY <2>1, <2>2, <3>1 DEF Grown
      <3>3. i \in 1..n
        <4>1. Len(arrays[a]) \in Nat
          BY <1>1, <2>2 DEF TypeOK
        <4> QED
          BY <1>3, <3>1, <3>2, <4>1
      <3>4. new[i] = arrays[list.arr][i]
        BY <1>2, <3>3
      <3>5. i <= list'.len
        BY <1>2, <1>3, <3>3
      <3> QED
        BY <3>1, <3>2, <3>4, <3>5
    <2>3. CASE a = list'.arr /\ i = n + 1
      BY <1>2, <1>3, <2>3 DEF new
    <2>4. CASE a \notin 1..Len(arrays)
      <3>1. a = list'.arr /\ arrays'[a][i] = new[i] /\ i \in 1..Len(new)
        BY <1>2, <2>4 DEF new
      <3>2. ~(i > n + 1)
        BY <1>2, <2>4, <3>1
      <3> QED
        BY <1>2, <1>3, <3>1, <3>2
    <2> QED
      BY <2>2, <2>3, <2>4
  <1>12. \A u \in Streams : u # c => stream'[u].pc \in {"off", "add", "open"}
    BY <1>7 DEF OneEnds
  <1> QED
    BY <1>1, <1>8, <1>10, <1>11, <1>12 DEF OneEnds

(* The listener is where the search found it.                              *)
LEMMA OneEndsRemove ==
    ASSUME IInv, NEW c \in Streams, OneEnds(c), RemoveListener(c)
    PROVE  OneEnds(c)'
  <1> DEFINE k == stream[c].i
             n == list.len
             old == arrays[list.arr]
             new == arrays'[list'.arr]
  <1>1. At(c, k) /\ stream[c].pc = "remove" /\ TypeOK /\ stream \in [Streams -> StreamStates]
    BY DEF OneEnds, Copied, RemoveListener, IInv, TypeOK
  <1>2. n \in Nat /\ \A i \in 1..n : old[i] = Cell(list, i)
    BY <1>1, ListCells
  <1>3. k \in Nat \ {0} /\ k <= n /\ old[k] = c
    BY <1>1, <1>2 DEF At
  <1>4. DeleteFromList(k) /\ stream' = [stream EXCEPT ![c].pc = "closed"] /\ crashed' = crashed
    BY <1>3 DEF RemoveListener
  <1>5. list'.len = n - 1 /\ \A i \in 1..list'.len : new[i] = IF i < k THEN old[i] ELSE old[i + 1]
    BY <1>1, <1>3, <1>4, Deleted
  <1>6. stream'[c].pc = "closed" /\ \A u \in Streams : u # c => stream'[u] = stream[u]
    BY <1>1, <1>4 DEF StreamStates
  <1>7. \A i, j \in 1..n : old[i] = old[j] => i = j
    BY <1>2 DEF IInv, ListInv
  <1>8. At(c, k)
    BY <1>1
  <1> HIDE DEF k, n, old, new
  <1>9. ASSUME NEW i, At(c, i)' PROVE FALSE
    <2>1. i \in 1..(n - 1) /\ new[i] = c
      BY <1>5, <1>9 DEF At, new
    <2>2. CASE i < k
      BY <1>2, <1>3, <1>5, <1>7, <2>1, <2>2
    <2>3. CASE ~(i < k)
      <3>1. i + 1 \in 1..n /\ i + 1 # k /\ old[i + 1] = c /\ k \in 1..n
        BY <1>2, <1>3, <1>5, <2>1, <2>3
      <3> QED
        BY <1>3, <1>7, <3>1
    <2> QED
      BY <2>2, <2>3
  <1>10. ASSUME NEW u \in Streams, u # c, NEW i, At(u, i) PROVE \E j : At(u, j)'
    <2>1. i \in 1..n /\ old[i] = u /\ i # k
      BY <1>3, <1>10 DEF At, n, old
    <2>2. CASE i < k
      <3>1. i \in 1..list'.len /\ new[i] = u
        BY <1>2, <1>3, <1>5, <2>1, <2>2
      <3> QED
        BY <3>1 DEF At, new
    <2>3. CASE i > k
      <3>1. i - 1 \in 1..list'.len /\ ~(i - 1 < k) /\ (i - 1) + 1 = i
        BY <1>2, <1>3, <1>5, <2>1, <2>3
      <3>2. new[i - 1] = u
        BY <1>5, <2>1, <3>1
      <3> QED
        BY <3>1, <3>2 DEF At, new
    <2> QED
      BY <1>2, <1>3, <2>1, <2>2, <2>3
  <1>11. Placed'
    <2>1. \A u \in Streams : u # c => stream[u].pc # "closed"
      BY DEF OneEnds
    <2> QED
      BY <1>6, <1>9, <1>10, <2>1 DEF OneEnds, Placed
  <1>12. Copied(c)'
    BY <1>6 DEF Copied
  <1> QED
    BY <1>4, <1>6, <1>11, <1>12 DEF OneEnds

LEMMA OneEndsSearch ==
    ASSUME IInv, NEW c \in Streams, OneEnds(c), Search(c)
    PROVE  OneEnds(c)'
  <1> DEFINE i == stream[c].i
             l == stream[c].list
  <1>1. stream \in [Streams -> StreamStates] /\ stream[c].pc = "search" /\ i \in Nat \ {0}
        /\ UNCHANGED <<arrays, list, crashed>> /\ stream[c] \in StreamStates
    BY DEF Search, IInv, TypeOK, StreamStates
  <1>2. l.arr \in 1..Len(arrays) /\ l.len \in Nat /\ Len(arrays[l.arr]) \in Nat /\ list.len \in Nat
    BY <1>1, SMTT(30) DEF StreamStates, Slices, IInv, TypeOK
  <1>3. PICK k : At(c, k) /\ CopyHas(c, k) /\ k <= l.len /\ i <= k
    BY <1>1 DEF OneEnds, Copied
  <1>4. k \in Nat \ {0} /\ i <= l.len /\ i \in 1..Len(arrays[l.arr])
    BY <1>1, <1>2, <1>3 DEF At, CopyHas
  <1>5. Cell(l, i) = arrays[l.arr][i]
    BY <1>2, <1>4 DEF Cell
  <1>6. CASE arrays[l.arr][i] = c
    <2> DEFINE r == [stream[c] EXCEPT !.pc = "remove"]
    <2>1. stream' = [stream EXCEPT ![c] = r]
      BY <1>2, <1>4, <1>5, <1>6 DEF Search
    <2>2. r.pc = "remove" /\ r.i = i
      BY <1>1 DEF StreamStates
    <2> HIDE DEF r, i, l
    <2>3. At(c, i)
      <3>1. c # None
        BY NoneAssumption
      <3>2. i <= list.len /\ arrays[l.arr][i] = arrays[list.arr][i]
        BY <1>1, <1>2, <1>4, <1>6, <3>1 DEF OneEnds, Grown
      <3> QED
        BY <1>1, <1>2, <1>6, <3>2 DEF At
    <2>4. stream'[c].pc = "remove" /\ stream'[c].i = i
      BY <1>1, <2>1, <2>2
    <2>5. Copied(c)'
      BY <1>1, <2>3, <2>4 DEF Copied, At
    <2> QED
      BY <1>1, <2>1, <2>2, <2>5, OneEndsMoves
  <1>7. CASE arrays[l.arr][i] # c
    <2> DEFINE r == [stream[c] EXCEPT !.i = i + 1]
    <2>1. stream' = [stream EXCEPT ![c] = r]
      BY <1>2, <1>4, <1>5, <1>7 DEF Search
    <2>2. r.pc = "search" /\ r.i = i + 1 /\ r.list = l
      BY <1>1 DEF StreamStates
    <2>3. i + 1 <= k
      BY <1>1, <1>3, <1>4, <1>7 DEF CopyHas
    <2> HIDE DEF r
    <2>4. stream'[c] = r
      BY <1>1, <2>1
    <2>5. At(c, k)' /\ CopyHas(c, k)' /\ k <= stream'[c].list.len /\ stream'[c].i <= k
      BY <1>1, <1>3, <2>2, <2>3, <2>4 DEF At, CopyHas
    <2>6. Copied(c)'
      BY <2>2, <2>4, <2>5 DEF Copied
    <2> QED
      BY <1>1, <2>1, <2>2, <2>6, OneEndsMoves
  <1> QED
    BY <1>6, <1>7

LEMMA OneEndsCopies ==
    ASSUME IInv, NEW c \in Streams, OneEnds(c), Close(c) \/ CopyRest(c)
    PROVE  OneEnds(c)'
  <1>1. stream \in [Streams -> StreamStates] /\ UNCHANGED <<arrays, list, crashed>>
        /\ list.arr \in 1..Len(arrays) /\ list.len \in Nat
        /\ stream[c] \in StreamStates /\ stream[c].list \in Slices
    BY DEF Close, CopyRest, IInv, TypeOK, StreamStates, Slices
  <1>2. \A k : At(c, k) => k <= list.len /\ k <= Len(arrays[list.arr]) /\ k \in Nat \ {0}
    <2>1. list.len <= Len(arrays[list.arr]) /\ Len(arrays[list.arr]) \in Nat
      BY DEF IInv, TypeOK, Slices
    <2> QED
      BY <1>1, <2>1 DEF At
  <1>3. stream[c].pc \in {"open", "array", "length"} /\ stream[c].i = 1
    BY DEF Close, CopyRest, OneEnds, Copied
  <1>4. PICK k : At(c, k) /\ (stream[c].pc = "length" => CopyHas(c, k))
                /\ (stream[c].pc = "array" => k <= stream[c].list.len)
    BY <1>3 DEF OneEnds, Copied, Placed
  <1>5. PICK r : /\ stream' = [stream EXCEPT ![c] = r] /\ r.i = 1
                 /\ \/ r.pc = "length" /\ r.list.arr = list.arr
                    \/ r.pc = "array" /\ r.list.len = list.len
                    \/ r.pc = "search" /\ r.list.len = list.len /\ stream[c].pc = "length"
                                      /\ r.list.arr = stream[c].list.arr
                    \/ r.pc = "search" /\ r.list.arr = list.arr /\ stream[c].pc = "array"
                                      /\ r.list.len = stream[c].list.len
    <2>1. stream[c] = [pc |-> stream[c].pc, list |-> stream[c].list, i |-> stream[c].i]
          /\ stream[c].list = [arr |-> stream[c].list.arr, len |-> stream[c].list.len]
      BY <1>1 DEF StreamStates, Slices
    <2>2. CASE stream' = [stream EXCEPT ![c].pc = "length", ![c].list.arr = list.arr]
      <3> WITNESS [stream[c] EXCEPT !.pc = "length", !.list.arr = list.arr]
      <3> QED
        BY <1>3, <2>1, <2>2
    <2>3. CASE stream' = [stream EXCEPT ![c].pc = "array", ![c].list.len = list.len]
      <3> WITNESS [stream[c] EXCEPT !.pc = "array", !.list.len = list.len]
      <3> QED
        BY <1>3, <2>1, <2>3
    <2>4. CASE stream[c].pc = "length" /\ stream' = [stream EXCEPT ![c].pc = "search", ![c].list.len = list.len]
      <3> WITNESS [stream[c] EXCEPT !.pc = "search", !.list.len = list.len]
      <3> QED
        BY <1>3, <2>1, <2>4
    <2>5. CASE stream[c].pc = "array" /\ stream' = [stream EXCEPT ![c].pc = "search", ![c].list.arr = list.arr]
      <3> WITNESS [stream[c] EXCEPT !.pc = "search", !.list.arr = list.arr]
      <3> QED
        BY <1>3, <2>1, <2>5
    <2> QED
      BY <2>2, <2>3, <2>4, <2>5 DEF Close, CopyRest
  <1>6. stream'[c] = r
    BY <1>1, <1>5
  <1>7. r.pc = "length" => CopyHas(c, k)'
    BY <1>1, <1>2, <1>4, <1>5, <1>6 DEF CopyHas, At
  <1>8. r.pc = "array" => k <= r.list.len
    BY <1>2, <1>4, <1>5
  <1>9. r.pc = "search" => CopyHas(c, k)' /\ k <= r.list.len /\ r.i <= k
    BY <1>1, <1>2, <1>4, <1>5, <1>6 DEF CopyHas, At
  <1>10. r.pc \in {"length", "array", "search"} /\ At(c, k)'
    BY <1>1, <1>4, <1>5 DEF At
  <1>11. Copied(c)'
    BY <1>5, <1>6, <1>7, <1>8, <1>9, <1>10 DEF Copied
  <1> QED
    BY <1>1, <1>3, <1>5, <1>10, <1>11, OneEndsMoves

LEMMA OneEndsInductive ==
    ASSUME NEW c \in Streams, Closing \subseteq {c}, IInv, OneEnds(c), [Next]_vars
    PROVE  OneEnds(c)'
  <1>1. CASE UNCHANGED <<arrays, list, stream, crashed>>
    BY <1>1 DEF OneEnds, Grown, At, CopyHas, Copied, Placed
  <1>2. CASE UNCHANGED vars
    BY <1>1, <1>2 DEF vars
  <1>3. ASSUME NEW d \in Dispatchers, Dispatch(d) \/ DispatchStep(d) PROVE OneEnds(c)'
    <2>1. UNCHANGED <<arrays, list, stream, crashed>>
      BY <1>3 DEF Dispatch, DispatchStep, RLock, Send, Evict, Resend, RUnlock
    <2> QED
      BY <1>1, <2>1
  <1>4. ASSUME NEW s \in Streams, Receive(s) \/ Lock(s) PROVE OneEnds(c)'
    <2>1. UNCHANGED <<arrays, list, stream, crashed>>
      BY <1>4 DEF Receive, Lock
    <2> QED
      BY <1>1, <2>1
  <1>5. ASSUME NEW s \in Streams, Open(s) PROVE OneEnds(c)'
    <2> DEFINE r == [stream[s] EXCEPT !.pc = "add"]
    <2>1. stream' = [stream EXCEPT ![s] = r] /\ stream[s].pc = "off" /\ UNCHANGED <<arrays, list, crashed>>
          /\ stream \in [Streams -> StreamStates] /\ stream[s] \in StreamStates
      BY <1>5 DEF Open, IInv, TypeOK
    <2>2. r.pc = "add" /\ r.i = stream[s].i
      BY <2>1 DEF StreamStates
    <2> HIDE DEF r
    <2>3. stream'[s] = r
      BY <2>1
    <2>4. s = c => Copied(c)'
      BY <2>1, <2>2, <2>3 DEF OneEnds, Copied
    <2> QED
      BY <2>1, <2>2, <2>4, OneEndsMoves
  <1>6. ASSUME NEW s \in Streams, Close(s) \/ CopyRest(s) \/ Search(s) \/ RemoveListener(s) PROVE OneEnds(c)'
    <2>1. s = c
      BY <1>6 DEF Close, CopyRest, Search, RemoveListener, OneEnds
    <2> QED
      BY <1>6, <2>1, OneEndsCopies, OneEndsSearch, OneEndsRemove
  <1>7. ASSUME NEW s \in Streams, AddListener(s) PROVE OneEnds(c)'
    BY <1>7, OneEndsAdd
  <1> QED
    BY <1>2, <1>3, <1>4, <1>5, <1>6, <1>7 DEF Next, ListStep

LEMMA OneEndsInit ==
    ASSUME NEW c \in Streams, Init
    PROVE  OneEnds(c)
  <1>1. \A s \in Streams : stream[s].pc = "off" /\ stream[s].i = 1
    BY DEF Init
  <1>2. Len(arrays) = 1 /\ Len(arrays[1]) = 0 /\ ~crashed
    BY DEF Init
  <1>3. Grown
    BY <1>2 DEF Grown
  <1> QED
    BY <1>1, <1>2, <1>3 DEF OneEnds, Copied, Placed

LEMMA OneEndsInvariant ==
    ASSUME NEW c \in Streams, Closing \subseteq {c}
    PROVE  Spec => [](IInv /\ OneEnds(c))
  <1>1. Init => IInv /\ OneEnds(c)
    BY InitOK, OneEndsInit
  <1>2. IInv /\ OneEnds(c) /\ [Next]_vars => (IInv /\ OneEnds(c))'
    BY Inductive, OneEndsInductive
  <1> QED
    BY <1>1, <1>2, PTL DEF Spec

LEMMA RegisteredCells ==
    ASSUME TypeOK, NEW s
    PROVE  s \in Registered <=> \E k : At(s, k)
  BY ListCells DEF Registered, At

(* A stream that has not ended is in the list, and its Close does not      *)
(* panic, although the search takes no lock.                               *)
THEOREM OpenAreRegistered ==
    ASSUME NEW c \in Streams, Closing \subseteq {c}
    PROVE  Spec => [](OpenStreamsAreRegistered /\ ~crashed)
  <1>1. IInv /\ OneEnds(c) => OpenStreamsAreRegistered /\ ~crashed
    BY RegisteredCells DEF IInv, OneEnds, Placed, OpenStreamsAreRegistered
  <1> QED
    BY <1>1, OneEndsInvariant, PTL

(* A stream whose Close has returned is in the list no more.               *)
THEOREM ClosedAreGone ==
    ASSUME NEW c \in Streams, Closing \subseteq {c}
    PROVE  Spec => []ClosedStreamsAreGone
  <1>1. IInv /\ OneEnds(c) => ClosedStreamsAreGone
    BY RegisteredCells DEF IInv, OneEnds, Placed, ClosedStreamsAreGone
  <1> QED
    BY <1>1, OneEndsInvariant, PTL
=============================================================================
