-------------------------- MODULE E4ServiceProofs ---------------------------
(***************************************************************************)
(* Theorems about E4Service, for every number of clients, topics, workers  *)
(* and calls, every batch size, both databases and both crypto modes.      *)
(***************************************************************************)
EXTENDS E4Service, FiniteSetTheorems, WellFoundedInduction, TLAPS

USE NumClientsAssumption, NumTopicsAssumption

-----------------------------------------------------------------------------
(* Handlers.                                                               *)

(* The length of a handler is a number.                                    *)
LEMMA ProgramLength ==
    ASSUME NEW op \in AllOps
    PROVE  Len(Program(op)) \in Nat \ {0}
  BY DEF Program, Statements, AllOps, ClientOps, TopicOps, ClientTopicOps, PeerOps

(* Which handlers have a statement that needs a client, a topic or a pair. *)
LEMMA StatementOps ==
    ASSUME NEW r \in ActiveCalls
    PROVE  /\ Program(r.op)[r.pc] = "Publish" =>
                r.op \in {"ResetClient", "NewClientKey", "ResetClientPubKeys", "NewTopicClient",
                          "RemoveTopicClient", "SendClientPubKey", "RemoveClientPubKey"}
           /\ Program(r.op)[r.pc] \in {"GetClient", "FindClient", "WriteClient", "CountLinked"} => r.c \in Names
           /\ Program(r.op)[r.pc] = "GetPeer" => r.d \in Names
           /\ Program(r.op)[r.pc] \in {"GetTopic", "FindTopic", "WriteTopic", "CountClients", "CommitTx",
                                       "SubscribeToTopic", "UnsubscribeFromTopic", "DeleteTopic"} => r.t \in Topics
           /\ Program(r.op)[r.pc] = "SendToAll" => \/ r.op = "NewTopic" /\ r.t \in Topics
                                                   \/ r.op = "NewClientKey" /\ r.c \in Names
  <1>1. r \in Calls /\ r.op \in AllOps /\ r.pc \in 1..Len(Program(r.op))
        /\ [c |-> r.c, d |-> r.d, t |-> r.t] \in Arguments(r.op)
    BY ProgramLength DEF ActiveCalls, Calls
  <1>2. /\ r.op \in ClientOps => r.c \in Names
        /\ r.op \in ClientTopicOps => r.c \in Names /\ r.t \in Topics
        /\ r.op \in TopicOps => r.t \in Topics
        /\ r.op \in PeerOps => r.c \in Names /\ r.d \in Names
    BY <1>1 DEF Arguments, ClientOps, ClientTopicOps, TopicOps, PeerOps
  <1> QED
    BY <1>1, <1>2 DEF Program, Statements, AllOps, ClientOps, TopicOps, ClientTopicOps, PeerOps

(* A set of names is counted by a number.                                  *)
LEMMA SubsetCard ==
    ASSUME NEW S \in SUBSET Names
    PROVE  IsFiniteSet(S) /\ Cardinality(S) \in Nat
  <1>1. IsFiniteSet(Names)
    BY FS_Interval DEF Names
  <1> QED
    BY <1>1, FS_Subset, FS_CardinalityType

(* A call that has taken a statement is at the next one or has returned.   *)
LEMMA AdvanceOK ==
    ASSUME NEW r \in ActiveCalls
    PROVE  Advance(r) \in {Idle} \cup ActiveCalls
  <1>1. r \in Calls /\ r.op \in AllOps /\ r.pc \in Nat \ {0} /\ r.pc <= Len(Program(r.op))
        /\ [c |-> r.c, d |-> r.d, t |-> r.t] \in Arguments(r.op)
    BY DEF ActiveCalls, Calls
  <1>2. Len(Program(r.op)) \in Nat
    BY <1>1, ProgramLength
  <1>3. CASE r.pc = Len(Program(r.op))
    BY <1>3 DEF Advance
  <1>4. CASE r.pc # Len(Program(r.op))
    <2> DEFINE n == [r EXCEPT !.pc = r.pc + 1]
    <2>1. Advance(r) = n
      BY <1>4 DEF Advance
    <2>2. n \in Calls /\ n.op = r.op /\ n.pc = r.pc + 1 /\ n.c = r.c /\ n.d = r.d /\ n.t = r.t
      BY <1>1 DEF Calls
    <2>3. n.pc <= Len(Program(n.op))
      BY <1>1, <1>2, <1>4, <2>2
    <2> QED
      BY <1>1, <2>1, <2>2, <2>3 DEF ActiveCalls
  <1> QED
    BY <1>3, <1>4

(* Reading a row, counting, or reading a page keeps a call a call.         *)
LEMMA LocalOK ==
    ASSUME NEW r \in ActiveCalls, NEW row \in Row
    PROVE  /\ [r EXCEPT !.client = row] \in ActiveCalls
           /\ [r EXCEPT !.peer = row] \in ActiveCalls
           /\ [r EXCEPT !.topic = row] \in ActiveCalls
           /\ [r EXCEPT !.row = row] \in ActiveCalls
  BY DEF ActiveCalls, Calls

LEMMA PagingOK ==
    ASSUME NEW r \in ActiveCalls, NEW n \in Nat
    PROVE  /\ [r EXCEPT !.count = n] \in ActiveCalls
           /\ [r EXCEPT !.offset = n] \in ActiveCalls
  BY DEF ActiveCalls, Calls

LEMMA TodoOK ==
    ASSUME NEW r \in ActiveCalls, NEW todo \in SUBSET [name : Names, row : Row]
    PROVE  [r EXCEPT !.todo = todo] \in ActiveCalls
  BY DEF ActiveCalls, Calls

-----------------------------------------------------------------------------
(* Messages.                                                               *)

(* A device that applies a command remains a device.                       *)
LEMMA ApplyOK ==
    ASSUME NEW d \in Devices, NEW cmd \in Commands
    PROVE  Apply(d, cmd) \in Devices
  BY DEF Apply, Devices, Commands

LEMMA ReceivedOK ==
    ASSUME dev \in [Names -> Devices], NEW m \in Messages
    PROVE  Received(m) \in [Names -> Devices]
  <1>1. m.to \in Names /\ m.cmd \in Commands
    BY DEF Messages
  <1>2. Apply(dev[m.to], m.cmd) \in Devices
    BY <1>1, ApplyOK
  <1> QED
    BY <1>1, <1>2 DEF Received

(* What Publish sends to its recipient, and SendToAll to each client.      *)
LEMMA CommandOK ==
    ASSUME NEW r \in ActiveCalls, Program(r.op)[r.pc] = "Publish"
    PROVE  Message(Command(r), Recipient(r)) \in Messages
  <1>1. r.op \in {"ResetClient", "NewClientKey", "ResetClientPubKeys", "NewTopicClient",
                  "RemoveTopicClient", "SendClientPubKey", "RemoveClientPubKey"}
    BY StatementOps
  <1>2. r \in Calls /\ r.c \in Names \cup {0} /\ r.t \in Topics \cup {0} /\ r.key \in Nat
        /\ r.client \in Row /\ r.peer \in Row /\ r.topic \in Row
    BY DEF ActiveCalls, Calls
  <1>3. r.c \in Names /\ (r.op \in PeerOps => r.d \in Names)
    BY <1>1 DEF ActiveCalls, Arguments, ClientOps, ClientTopicOps, TopicOps, PeerOps
  <1>4. Command(r) \in Commands
    BY <1>1, <1>2 DEF Command, Cmd, Commands, Row, Names, Topics
  <1>5. Recipient(r).name \in Names /\ Recipient(r).row.key \in Nat
    BY <1>1, <1>2, <1>3 DEF Recipient, Row
  <1> QED
    BY <1>4, <1>5 DEF Message, Messages

(* SendToAll picks one of the clients of the page.                         *)
LEMMA FirstOfPage ==
    ASSUME NEW S \in SUBSET [name : Names, row : Row], S # {}
    PROVE  (CHOOSE x \in S : \A y \in S : x.name <= y.name) \in S
  <1> DEFINE N == {x.name : x \in S}
  <1>1. N \subseteq Nat /\ N # {}
    BY DEF Names
  <1>2. \E m \in N : \A n \in N : <<n, m>> \notin OpToRel(<, Nat)
    <2> HIDE DEF N
    <2> QED
      BY <1>1, WFMin, NatLessThanWellFounded, Zenon
  <1>3. PICK m \in N : \A n \in N : m <= n
    <2> HIDE DEF N
    <2>1. PICK m \in N : \A n \in N : <<n, m>> \notin OpToRel(<, Nat)
      BY <1>2
    <2>2. ASSUME NEW n \in N PROVE m <= n
      <3>1. n \in Nat /\ m \in Nat
        BY <1>1
      <3>2. ~(n < m)
        <4>1. n < m => <<n, m>> \in OpToRel(<, Nat)
          BY <3>1, Zenon DEF OpToRel
        <4> QED
          BY <2>1, <4>1
      <3> QED
        BY <3>1, <3>2
    <2> QED
      BY <2>2
  <1>4. \E x \in S : \A y \in S : x.name <= y.name
    BY <1>3
  <1> QED
    BY <1>4

LEMMA BroadcastOK ==
    ASSUME NEW r \in ActiveCalls, NEW to \in [name : Names, row : Row]
    PROVE  Message(Broadcast(r), to) \in Messages
  <1>1. r.c \in Names \cup {0} /\ r.t \in Topics \cup {0} /\ r.key \in Nat
    BY DEF ActiveCalls, Calls
  <1>2. Broadcast(r) \in Commands
    BY <1>1 DEF Broadcast, Cmd, Commands, Names, Topics
  <1> QED
    BY <1>2 DEF Message, Messages, Row

-----------------------------------------------------------------------------
(* Type correctness.                                                       *)

(* What a worker's statement leaves of the types when it only advances or  *)
(* fails the call.                                                         *)
LEMMA ReturnOK ==
    ASSUME TypeOK, NEW w \in Workers, NEW r \in ActiveCalls, Return(w, r)
    PROVE  /\ rpc' \in [Workers -> {Idle} \cup ActiveCalls]
           /\ flaggedClients' \subseteq Names
           /\ flaggedTopics' \subseteq Topics
  <1>1. Advance(r) \in {Idle} \cup ActiveCalls
    BY AdvanceOK
  <1> QED
    BY <1>1 DEF TypeOK, Return

LEMMA FailOK ==
    ASSUME TypeOK, NEW w \in Workers, rpc[w] \in ActiveCalls, Fail(w)
    PROVE  /\ rpc' \in [Workers -> {Idle} \cup ActiveCalls]
           /\ flaggedClients' \subseteq Names
           /\ flaggedTopics' \subseteq Topics
  <1>1. rpc[w].c \in Names \cup {0} /\ rpc[w].t \in Topics \cup {0}
    BY DEF ActiveCalls, Calls
  <1> QED
    BY <1>1 DEF TypeOK, Fail

(* A worker at a statement serves a call.                                  *)
LEMMA AtOK ==
    ASSUME TypeOK, NEW w \in Workers, NEW step, At(w, step)
    PROVE  rpc[w] \in ActiveCalls /\ Program(rpc[w].op)[rpc[w].pc] = step
  BY DEF TypeOK, At, Idle

(* A lookup that finds a row.                                              *)
LEMMA LookupOK ==
    ASSUME TypeOK, NEW w \in Workers, NEW step, NEW field \in {"client", "peer", "topic"},
           NEW row \in Row, Lookup(w, step, field, row)
    PROVE  TypeOK'
  <1>1. rpc[w] \in ActiveCalls
    BY AtOK DEF Lookup
  <1>2. [rpc[w] EXCEPT ![field] = row] \in ActiveCalls
    BY <1>1, LocalOK
  <1>3. Advance([rpc[w] EXCEPT ![field] = row]) \in {Idle} \cup ActiveCalls
    BY <1>2, AdvanceOK
  <1> QED
    BY <1>3 DEF TypeOK, DBTypeOK, dbVars, Lookup

LEMMA FindOK ==
    ASSUME TypeOK, NEW w \in Workers, NEW step, NEW row \in Row, NEW failures, Find(w, step, row, failures)
    PROVE  TypeOK'
  <1>1. rpc[w] \in ActiveCalls
    BY AtOK DEF Find
  <1>2. PICK found \in {row, NoRow} : Return(w, [rpc[w] EXCEPT !.row = found])
    BY DEF Find
  <1>3. found \in Row
    BY DEF NoRow, Row
  <1>4. [rpc[w] EXCEPT !.row = found] \in ActiveCalls
    BY <1>1, <1>3, LocalOK
  <1>5. /\ rpc' \in [Workers -> {Idle} \cup ActiveCalls]
        /\ flaggedClients' \subseteq Names
        /\ flaggedTopics' \subseteq Topics
    BY <1>2, <1>4, ReturnOK
  <1> QED
    BY <1>5 DEF TypeOK, DBTypeOK, dbVars, Find

(* A count is that of the set, or nothing when it failed.                  *)
LEMMA CountedIs ==
    ASSUME NEW w \in Workers, NEW name, NEW S \in SUBSET Names, NEW failures, Counted(w, name, S, failures)
    PROVE  \E n \in Nat :
               /\ Return(w, [rpc[w] EXCEPT !.count = n])
               /\ \/ n = Cardinality(S) /\ trail' = trail
                  \/ trail' = trail \cup {<<"uncounted", name, rpc[w].key>>}
  <1>1. Cardinality(S) \in Nat /\ 0 \in Nat
    BY SubsetCard
  <1>2. PICK failed \in failures :
            /\ Return(w, [rpc[w] EXCEPT !.count = IF failed THEN 0 ELSE Cardinality(S)])
            /\ trail' = trail \cup (IF failed THEN {<<"uncounted", name, rpc[w].key>>} ELSE {})
    BY DEF Counted, Record
  <1>3. CASE failed
    BY <1>1, <1>2, <1>3
  <1>4. CASE ~failed
    BY <1>1, <1>2, <1>4
  <1> QED
    BY <1>3, <1>4

LEMMA CountOK ==
    ASSUME TypeOK, NEW w \in Workers, rpc[w] \in ActiveCalls,
           NEW name \in Names \cup Topics, NEW S \in SUBSET Names, NEW failures,
           \/ Fail(w) /\ UNCHANGED trail
           \/ Counted(w, name, S, failures)
    PROVE  /\ rpc' \in [Workers -> {Idle} \cup ActiveCalls]
           /\ flaggedClients' \subseteq Names /\ flaggedTopics' \subseteq Topics /\ trail' \subseteq Facts
  <1>1. CASE Fail(w) /\ UNCHANGED trail
    BY <1>1, FailOK DEF TypeOK
  <1>2. CASE Counted(w, name, S, failures)
    <2>1. PICK n \in Nat : /\ Return(w, [rpc[w] EXCEPT !.count = n])
                          /\ trail' \subseteq trail \cup {<<"uncounted", name, rpc[w].key>>}
      BY <1>2, CountedIs
    <2>2. [rpc[w] EXCEPT !.count = n] \in ActiveCalls
      BY PagingOK
    <2>3. name \in Nat /\ rpc[w].key \in Nat
      BY DEF ActiveCalls, Calls, Names, Topics
    <2>4. trail' \subseteq Facts
      BY <2>1, <2>3 DEF TypeOK, Facts
    <2> QED
      BY <2>1, <2>2, <2>4, ReturnOK
  <1> QED
    BY <1>1, <1>2

(* The tables keep their types under each statement.                       *)
LEMMA StatementsOK ==
    ASSUME DBTypeOK, NEW row \in Row, NEW other \in Row, NEW c \in Names, NEW k \in Nat
    PROVE  /\ CreateClient(c, k) => DBTypeOK'
           /\ UpdateClient(row, k) => DBTypeOK'
           /\ DeleteClientRow(row) => DBTypeOK'
           /\ DeleteTopicRow(row) => DBTypeOK'
           /\ LinkTopicRow(row, other) => DBTypeOK'
           /\ UnlinkTopicRow(row, other) => DBTypeOK'
           /\ LinkClientRow(row, other) => DBTypeOK'
           /\ UnlinkClientRow(row, other) => DBTypeOK'
           /\ UNCHANGED dbVars => DBTypeOK'
  <1>1. CreateClient(c, k) => DBTypeOK'
    BY DEF CreateClient, NewClientId, DBTypeOK, Row
  <1>2. UpdateClient(row, k) => DBTypeOK'
    BY DEF UpdateClient, DBTypeOK, Row
  <1>3. DeleteClientRow(row) => DBTypeOK'
    BY DEF DeleteClientRow, DBTypeOK, Row, NoRow
  <1>4. DeleteTopicRow(row) => DBTypeOK'
    BY DEF DeleteTopicRow, DBTypeOK, Row, NoRow
  <1>5. LinkTopicRow(row, other) => DBTypeOK'
    BY DEF LinkTopicRow, DBTypeOK, Row
  <1>6. UnlinkTopicRow(row, other) => DBTypeOK'
    BY DEF UnlinkTopicRow, DBTypeOK
  <1>7. LinkClientRow(row, other) => DBTypeOK'
    BY DEF LinkClientRow, DBTypeOK, Row
  <1>8. UnlinkClientRow(row, other) => DBTypeOK'
    BY DEF UnlinkClientRow, DBTypeOK
  <1>9. UNCHANGED dbVars => DBTypeOK'
    BY DEF dbVars, DBTypeOK
  <1> QED
    BY <1>1, <1>2, <1>3, <1>4, <1>5, <1>6, <1>7, <1>8, <1>9

LEMMA InitTypeOK == Init => TypeOK
  <1> SUFFICES ASSUME Init PROVE TypeOK
    OBVIOUS
  <1>1. Names \subseteq Nat /\ Topics \subseteq Nat
    BY DEF Names, Topics
  <1>2. FactoryKey \in [Names -> Nat] /\ FirstTopicKey \in [Topics -> Nat]
    BY <1>1 DEF FactoryKey, FirstTopicKey
  <1>3. clients \in [Names -> Row] /\ topics \in [Topics -> Row]
    BY <1>1, <1>2 DEF Init, DBInit, Row, NoRow
  <1>4. ctopics \subseteq Nat \X Nat /\ cclients \subseteq Nat \X Nat
    BY <1>1 DEF Init, DBInit
  <1>5. nextId \in Nat \ {0}
    BY DEF Init, DBInit
  <1>6. dev \in [Names -> Devices]
    BY <1>1, <1>2 DEF Init, Devices
  <1>7. trail \subseteq Facts
    <2>1. {<<"registered", c, FactoryKey[c]>> : c \in Names} \subseteq Facts
      BY <1>1, <1>2 DEF Facts
    <2>2. {<<"committed", t, FirstTopicKey[t]>> : t \in Topics} \subseteq Facts
      BY <1>1, <1>2 DEF Facts
    <2>3. {"SetTopicKey", "linked", "subscribed"} \X Names \X Topics \subseteq Facts
      BY <1>1 DEF Facts
    <2> QED
      BY <2>1, <2>2, <2>3 DEF Init
  <1> QED
    BY <1>3, <1>4, <1>5, <1>6, <1>7 DEF Init, TypeOK, DBTypeOK

(* The record of a call that starts.                                       *)
LEMMA NewCallOK ==
    ASSUME NEW op \in AllOps, NEW c \in Names \cup {0}, NEW d \in Names \cup {0},
           NEW t \in Topics \cup {0}, NEW key \in Nat
    PROVE  [Idle EXCEPT !.op = op, !.pc = 1, !.c = c, !.d = d, !.t = t, !.key = key] \in Calls
  <1>1. NoRow \in Row
    BY DEF NoRow, Row
  <1>2. {} \in SUBSET [name : Names, row : Row]
    OBVIOUS
  <1>3. 0 \in Nat /\ 1 \in Nat \ {0}
    OBVIOUS
  <1> HIDE DEF NoRow, Row, Names, Topics
  <1> QED
    BY <1>1, <1>2, <1>3 DEF Calls, Idle

LEMMA CallTypeOK ==
    ASSUME TypeOK, NEW w \in Workers, Call(w)
    PROVE  TypeOK'
  <1>0. PICK op \in Ops : \E a \in Arguments(op) :
           rpc' = [rpc EXCEPT ![w] = [Idle EXCEPT !.op = op, !.pc = 1, !.c = a.c, !.d = a.d, !.t = a.t,
                                                  !.key = CallKey(op, a.c)]]
    BY DEF Call
  <1>1. PICK a \in Arguments(op) :
           rpc' = [rpc EXCEPT ![w] = [Idle EXCEPT !.op = op, !.pc = 1, !.c = a.c, !.d = a.d, !.t = a.t,
                                                  !.key = CallKey(op, a.c)]]
    BY <1>0
  <1> DEFINE n == [Idle EXCEPT !.op = op, !.pc = 1, !.c = a.c, !.d = a.d, !.t = a.t,
                               !.key = CallKey(op, a.c)]
  <1>2. op \in AllOps
    BY OpsAssumption
  <1>3. /\ a = [c |-> a.c, d |-> a.d, t |-> a.t]
        /\ a.c \in Names \cup {0} /\ a.d \in Names \cup {0} /\ a.t \in Topics \cup {0}
    BY DEF Arguments
  <1>4. op = "NewClient" => a.c \in Names
    BY DEF Arguments, ClientOps
  <1>5. CallKey(op, a.c) \in Nat
    BY <1>4 DEF CallKey, FreshKey, TypeOK, Devices
  <1>6. n \in Calls
    BY <1>2, <1>3, <1>5, NewCallOK
  <1>7. n.pc <= Len(Program(n.op))
    BY <1>2, ProgramLength DEF Idle
  <1>8. [c |-> n.c, d |-> n.d, t |-> n.t] \in Arguments(n.op)
    BY <1>3 DEF Idle
  <1>9. n \in ActiveCalls
    BY <1>6, <1>7, <1>8 DEF ActiveCalls
  <1> QED
    BY <1>1, <1>9 DEF Call, TypeOK, DBTypeOK, dbVars

(* Statements on clients.                                                  *)
LEMMA ClientStepsTypeOK ==
    ASSUME TypeOK, NEW w \in Workers
    PROVE  /\ WriteClient(w) => TypeOK'
           /\ DeleteClient(w) => TypeOK'
           /\ Publish(w) => TypeOK'
           /\ LinkClients(w) => TypeOK'
           /\ UnlinkClients(w) => TypeOK'
  <1> DEFINE r == rpc[w]
  <1>r. ASSUME r \in ActiveCalls
        PROVE  r.key \in Nat /\ r.client \in Row /\ r.peer \in Row /\ r.row \in Row
    BY <1>r DEF ActiveCalls, Calls
  <1>1. ASSUME WriteClient(w) PROVE TypeOK'
    <2>1. r \in ActiveCalls /\ r.c \in Names
      BY <1>1, AtOK, StatementOps DEF WriteClient
    <2>2. CASE NewRecord(r.row) /\ ~NewRecord(clients[r.c])
      <3>1. Fail(w) /\ UNCHANGED <<dbVars, trail, dev, inflight, subs, calls>>
        BY <1>1, <2>2 DEF WriteClient
      <3> QED
        BY <2>1, <3>1, FailOK DEF TypeOK, DBTypeOK, dbVars
    <2>3. CASE ~(NewRecord(r.row) /\ ~NewRecord(clients[r.c]))
      <3>1. /\ CreateClient(r.c, r.key) \/ UpdateClient(r.row, r.key)
            /\ Return(w, r)
            /\ Record(IF r.op = "NewClient" THEN {<<"registered", r.c, r.key>>} ELSE {})
            /\ UNCHANGED <<dev, inflight, subs, calls>>
        BY <1>1, <2>3 DEF WriteClient
      <3>2. DBTypeOK'
        BY <1>r, <2>1, <3>1, StatementsOK DEF TypeOK
      <3>3. trail' \subseteq Facts
        BY <1>r, <2>1, <3>1 DEF TypeOK, Record, Facts, Names
      <3> QED
        BY <2>1, <3>1, <3>2, <3>3, ReturnOK DEF TypeOK
    <2> QED
      BY <2>2, <2>3
  <1>2. ASSUME DeleteClient(w) PROVE TypeOK'
    <2>1. r \in ActiveCalls
      BY <1>2, AtOK DEF DeleteClient
    <2>2. DBTypeOK'
      BY <1>2, <1>r, <2>1, StatementsOK DEF DeleteClient, TypeOK, Names
    <2> QED
      BY <1>2, <2>1, <2>2, ReturnOK DEF DeleteClient, TypeOK
  <1>3. ASSUME Publish(w) PROVE TypeOK'
    <2>1. r \in ActiveCalls /\ Program(r.op)[r.pc] = "Publish"
      BY <1>3, AtOK DEF Publish
    <2> DEFINE m == Message(Command(r), Recipient(r))
    <2>2. m \in Messages /\ Recipient(r).name \in Names
      BY <2>1, CommandOK DEF Message, Messages
    <2>3. PICK outcome \in Outcomes :
            /\ Transmit(m, outcome)
            /\ IF outcome = "ok"
               THEN Return(w, r) /\ Record(Accepted(r))
               ELSE /\ rpc' = [rpc EXCEPT ![w] = Idle]
                    /\ flaggedClients' = flaggedClients \cup
                                           (IF outcome = "late" THEN {Recipient(r).name} ELSE {})
                    /\ UNCHANGED <<flaggedTopics, trail>>
      BY <1>3 DEF Publish
    <2>4. dev' \in [Names -> Devices] /\ inflight' \subseteq Messages
      BY <2>2, <2>3, ReceivedOK DEF Transmit, TypeOK
    <2>5. Accepted(r) \subseteq Facts
      <3>1. r.c \in Nat /\ r.key \in Nat /\ r.client.id \in Nat /\ r.topic.id \in Nat
        <4>1. r.c \in Names \cup {0} /\ r.key \in Nat /\ r.client \in Row /\ r.topic \in Row
          BY <2>1 DEF ActiveCalls, Calls
        <4>2. r.c \in Nat
          BY <4>1 DEF Names
        <4> QED
          BY <4>1, <4>2 DEF Row
      <3>2. CASE r.op = "NewTopicClient"
        BY <3>1, <3>2 DEF Accepted, Facts
      <3>3. CASE r.op = "NewClientKey"
        BY <3>1, <3>3 DEF Accepted, Facts
      <3>4. CASE r.op # "NewTopicClient" /\ r.op # "NewClientKey"
        BY <3>4 DEF Accepted
      <3> QED
        BY <3>2, <3>3, <3>4
    <2>6. /\ rpc' \in [Workers -> {Idle} \cup ActiveCalls]
          /\ flaggedClients' \subseteq Names
          /\ flaggedTopics' \subseteq Topics
          /\ trail' \subseteq Facts
      <3>1. CASE outcome = "ok"
        BY <2>1, <2>3, <2>5, <3>1, ReturnOK DEF Record, TypeOK
      <3>2. CASE outcome # "ok"
        BY <2>2, <2>3, <3>2 DEF TypeOK
      <3> QED
        BY <3>1, <3>2
    <2> QED
      BY <1>3, <2>4, <2>6 DEF Publish, TypeOK, DBTypeOK, dbVars
  <1>4. ASSUME LinkClients(w) PROVE TypeOK'
    <2>1. r \in ActiveCalls
      BY <1>4, AtOK DEF LinkClients
    <2>2. DBTypeOK'
      BY <1>4, <1>r, <2>1, StatementsOK DEF LinkClients, TypeOK, Names
    <2>3. Return(w, r) \/ Fail(w)
      BY <1>4 DEF LinkClients
    <2> QED
      BY <1>4, <2>1, <2>2, <2>3, ReturnOK, FailOK DEF LinkClients, TypeOK
  <1>5. ASSUME UnlinkClients(w) PROVE TypeOK'
    <2>1. r \in ActiveCalls
      BY <1>5, AtOK DEF UnlinkClients
    <2>2. DBTypeOK'
      BY <1>5, <1>r, <2>1, StatementsOK DEF UnlinkClients, TypeOK, Names
    <2> QED
      BY <1>5, <2>1, <2>2, ReturnOK DEF UnlinkClients, TypeOK
  <1> QED
    BY <1>1, <1>2, <1>3, <1>4, <1>5

(* Statements on topics and on the clients of topics.                      *)
LEMMA TopicStepsTypeOK ==
    ASSUME TypeOK, NEW w \in Workers
    PROVE  /\ LinkClientTopic(w) => TypeOK'
           /\ UnlinkClientTopic(w) => TypeOK'
           /\ Dispatch(w) => TypeOK'
           /\ WriteTopic(w) => TypeOK'
           /\ CountClients(w) => TypeOK'
           /\ CommitTx(w) => TypeOK'
           /\ SubscribeToTopic(w) => TypeOK'
           /\ UnsubscribeFromTopic(w) => TypeOK'
           /\ DeleteTopic(w) => TypeOK'
  <1> DEFINE r == rpc[w]
  <1>r. ASSUME r \in ActiveCalls
        PROVE  /\ r.key \in Nat /\ r.client \in Row /\ r.topic \in Row /\ r.row \in Row
               /\ r.client.id \in Nat /\ r.topic.id \in Nat
    BY <1>r DEF ActiveCalls, Calls, Row
  <1>n. 1 \in Names /\ 0 \in Nat
    BY DEF Names
  <1>1. ASSUME LinkClientTopic(w) PROVE TypeOK'
    <2>1. r \in ActiveCalls
      BY <1>1, AtOK DEF LinkClientTopic
    <2>2. DBTypeOK'
      BY <1>1, <1>r, <1>n, <2>1, StatementsOK DEF LinkClientTopic, TypeOK
    <2>3. trail' \subseteq Facts
      BY <1>1, <1>r, <2>1 DEF LinkClientTopic, Record, TypeOK, Facts
    <2>4. Return(w, r) \/ Fail(w)
      BY <1>1 DEF LinkClientTopic
    <2> QED
      BY <1>1, <2>1, <2>2, <2>3, <2>4, ReturnOK, FailOK DEF LinkClientTopic, TypeOK
  <1>2. ASSUME UnlinkClientTopic(w) PROVE TypeOK'
    <2>1. r \in ActiveCalls
      BY <1>2, AtOK DEF UnlinkClientTopic
    <2>2. DBTypeOK'
      BY <1>2, <1>r, <1>n, <2>1, StatementsOK DEF UnlinkClientTopic, TypeOK
    <2>3. trail' \subseteq Facts
      BY <1>2, <1>r, <2>1 DEF UnlinkClientTopic, Record, TypeOK, Facts
    <2>4. Return(w, r) \/ Fail(w)
      BY <1>2 DEF UnlinkClientTopic
    <2> QED
      BY <1>2, <2>1, <2>2, <2>3, <2>4, ReturnOK, FailOK DEF UnlinkClientTopic, TypeOK
  <1>3. ASSUME Dispatch(w) PROVE TypeOK'
    <2>1. r \in ActiveCalls
      BY <1>3, AtOK DEF Dispatch
    <2>2. trail' \subseteq Facts
      BY <1>3, <1>r, <2>1 DEF Dispatch, Record, TypeOK, Facts
    <2>3. Return(w, r)
      BY <1>3 DEF Dispatch
    <2> QED
      BY <1>3, <2>1, <2>2, <2>3, ReturnOK DEF Dispatch, TypeOK, DBTypeOK, dbVars
  <1>4. ASSUME WriteTopic(w) PROVE TypeOK'
    <2>1. r \in ActiveCalls
      BY <1>4, AtOK DEF WriteTopic, NewTopicId
    <2> DEFINE row == IF NewRecord(r.row) THEN [id |-> nextId, key |-> r.key]
                      ELSE IF r.row.id = topics[r.t].id THEN [id |-> r.row.id, key |-> r.key]
                      ELSE NoRow
    <2>2. row \in Row
      BY <1>r, <2>1 DEF TypeOK, DBTypeOK, Row, NoRow
    <2>3. [r EXCEPT !.topic = row] \in ActiveCalls
      BY <2>1, <2>2, LocalOK
    <2>4. Fail(w) \/ Return(w, [r EXCEPT !.topic = row])
      BY <1>4 DEF WriteTopic, NewTopicId
    <2>5. nextId' \in Nat \ {0}
      BY <1>4 DEF WriteTopic, NewTopicId, TypeOK, DBTypeOK
    <2> QED
      BY <1>4, <2>1, <2>3, <2>4, <2>5, ReturnOK, FailOK DEF WriteTopic, NewTopicId, TypeOK, DBTypeOK
  <1>5. ASSUME CountClients(w) PROVE TypeOK'
    <2>1. r \in ActiveCalls /\ r.t \in Topics
      BY <1>5, AtOK, StatementOps DEF CountClients
    <2> DEFINE id == IF NewRecord(r.topic) THEN topics[r.t].id ELSE r.topic.id
               S == {c \in Names : ~NewRecord(clients[c]) /\ <<clients[c].id, id>> \in ctopics}
    <2>2. (Fail(w) /\ UNCHANGED trail) \/ Counted(w, r.t, S, Unnoticed(TRUE))
      BY <1>5 DEF CountClients
    <2> QED
      BY <1>5, <2>1, <2>2, CountOK DEF CountClients, TypeOK, DBTypeOK, dbVars
  <1>6. ASSUME CommitTx(w) PROVE TypeOK'
    <2>1. r \in ActiveCalls /\ r.t \in Topics
      BY <1>6, AtOK, StatementOps DEF CommitTx
    <2>2. topics' \in [Topics -> Row]
      BY <1>6, <1>r, <2>1 DEF CommitTx, TypeOK, DBTypeOK
    <2>3. trail' \subseteq Facts
      BY <1>6, <1>r, <2>1 DEF CommitTx, Record, TypeOK, Facts, Topics
    <2>4. Return(w, r)
      BY <1>6 DEF CommitTx
    <2> QED
      BY <1>6, <2>1, <2>2, <2>3, <2>4, ReturnOK DEF CommitTx, TypeOK, DBTypeOK
  <1>7. ASSUME SubscribeToTopic(w) PROVE TypeOK'
    <2>1. r \in ActiveCalls /\ r.t \in Topics
      BY <1>7, AtOK, StatementOps DEF SubscribeToTopic
    <2>2. subs' \subseteq Topics
      BY <1>7, <2>1 DEF SubscribeToTopic, TypeOK
    <2>3. Return(w, r) \/ Fail(w)
      BY <1>7 DEF SubscribeToTopic
    <2> QED
      BY <1>7, <2>1, <2>2, <2>3, ReturnOK, FailOK DEF SubscribeToTopic, TypeOK, DBTypeOK, dbVars
  <1>8. ASSUME UnsubscribeFromTopic(w) PROVE TypeOK'
    <2>1. r \in ActiveCalls /\ r.t \in Topics
      BY <1>8, AtOK, StatementOps DEF UnsubscribeFromTopic
    <2>2. subs' \subseteq Topics /\ flaggedTopics' \subseteq Topics
      BY <1>8, <2>1 DEF UnsubscribeFromTopic, TypeOK
    <2>3. Advance(r) \in {Idle} \cup ActiveCalls
      BY <2>1, AdvanceOK
    <2>4. rpc' \in [Workers -> {Idle} \cup ActiveCalls]
      BY <1>8, <2>3 DEF UnsubscribeFromTopic, TypeOK
    <2> QED
      BY <1>8, <2>2, <2>4 DEF UnsubscribeFromTopic, TypeOK, DBTypeOK, dbVars
  <1>9. ASSUME DeleteTopic(w) PROVE TypeOK'
    <2>1. r \in ActiveCalls
      BY <1>9, AtOK DEF DeleteTopic
    <2>2. DBTypeOK'
      BY <1>9, <1>r, <1>n, <2>1, StatementsOK DEF DeleteTopic, TypeOK
    <2>3. Return(w, r)
      BY <1>9 DEF DeleteTopic
    <2> QED
      BY <1>9, <2>1, <2>2, <2>3, ReturnOK DEF DeleteTopic, TypeOK
  <1> QED
    BY <1>1, <1>2, <1>3, <1>4, <1>5, <1>6, <1>7, <1>8, <1>9

(* Sending to many.                                                        *)
LEMMA PageStepsTypeOK ==
    ASSUME TypeOK, NEW w \in Workers
    PROVE  /\ CountLinked(w) => TypeOK'
           /\ ReadPage(w) => TypeOK'
           /\ SendToNext(w) => TypeOK'
           /\ EndOfPages(w) => TypeOK'
  <1> DEFINE r == rpc[w]
  <1>1. ASSUME CountLinked(w) PROVE TypeOK'
    <2>1. r \in ActiveCalls /\ r.c \in Names
      BY <1>1, AtOK, StatementOps DEF CountLinked
    <2>2. LinkedClients(clients[r.c]) \in SUBSET Names
      BY DEF LinkedClients
    <2>3. (Fail(w) /\ UNCHANGED trail) \/ Counted(w, r.c, LinkedClients(clients[r.c]), Unnoticed(FALSE))
      BY <1>1 DEF CountLinked
    <2> QED
      BY <1>1, <2>1, <2>2, <2>3, CountOK DEF CountLinked, TypeOK, DBTypeOK, dbVars
  <1>2. ASSUME ReadPage(w) PROVE TypeOK'
    <2>1. r \in ActiveCalls /\ r.c \in Names \cup {0} /\ r.t \in Topics \cup {0} /\ r.offset \in Nat
      BY <1>2, AtOK DEF ReadPage, ActiveCalls, Calls
    <2> DEFINE todo == {[name |-> c, row |-> clients[c]] : c \in Page(Audience(r), r.offset, BatchSize)}
    <2>2. NextPage(r) \in ActiveCalls
      <3>1. r.offset + BatchSize \in Nat
        BY <2>1, BatchSizeAssumption
      <3> QED
        BY <2>1, <3>1, PagingOK DEF NextPage
    <2>3. Page(Audience(r), r.offset, BatchSize) \subseteq Names
      BY DEF Page, Audience, ClientsForTopic, LinkedClients
    <2>4. todo \in SUBSET [name : Names, row : Row]
      BY <2>3 DEF TypeOK, DBTypeOK
    <2>5. [NextPage(r) EXCEPT !.todo = todo] \in ActiveCalls
      BY <2>2, <2>4, TodoOK
    <2>6. \/ /\ rpc' = [rpc EXCEPT ![w] = NextPage(r)]
             /\ flaggedClients' = flaggedClients \cup ({r.c} \ {0})
             /\ flaggedTopics' = flaggedTopics \cup ({r.t} \ {0})
          \/ /\ rpc' = [rpc EXCEPT ![w] = [NextPage(r) EXCEPT !.todo = todo]]
             /\ UNCHANGED <<flaggedClients, flaggedTopics>>
      BY <1>2 DEF ReadPage
    <2>7. /\ rpc' \in [Workers -> {Idle} \cup ActiveCalls]
          /\ flaggedClients' \subseteq Names
          /\ flaggedTopics' \subseteq Topics
      BY <2>1, <2>2, <2>5, <2>6 DEF TypeOK
    <2> QED
      BY <1>2, <2>7 DEF ReadPage, TypeOK, DBTypeOK, dbVars
  <1>3. ASSUME SendToNext(w) PROVE TypeOK'
    <2> DEFINE to == CHOOSE x \in r.todo : \A y \in r.todo : x.name <= y.name
               m == Message(Broadcast(r), to)
    <2>1. r \in ActiveCalls /\ r.todo \in SUBSET [name : Names, row : Row] /\ r.todo # {}
      BY <1>3, AtOK DEF SendToNext, ActiveCalls, Calls
    <2>2. to \in [name : Names, row : Row]
      BY <2>1, FirstOfPage
    <2>3. m \in Messages /\ to.name \in Names
      BY <2>1, <2>2, BroadcastOK
    <2>4. PICK outcome \in Outcomes :
            /\ Transmit(m, outcome)
            /\ flaggedClients' = IF outcome = "ok" THEN flaggedClients ELSE flaggedClients \cup {to.name}
      BY <1>3 DEF SendToNext
    <2>5. dev' \in [Names -> Devices] /\ inflight' \subseteq Messages /\ flaggedClients' \subseteq Names
      BY <2>3, <2>4, ReceivedOK DEF Transmit, TypeOK
    <2>6. [r EXCEPT !.todo = r.todo \ {to}] \in ActiveCalls
      BY <2>1, TodoOK
    <2>7. rpc' \in [Workers -> {Idle} \cup ActiveCalls]
      BY <1>3, <2>6 DEF SendToNext, TypeOK
    <2> QED
      BY <1>3, <2>5, <2>7 DEF SendToNext, TypeOK, DBTypeOK, dbVars
  <1>4. ASSUME EndOfPages(w) PROVE TypeOK'
    <2>1. r \in ActiveCalls /\ Return(w, r)
      BY <1>4, AtOK DEF EndOfPages
    <2> QED
      BY <1>4, <2>1, ReturnOK DEF EndOfPages, TypeOK, DBTypeOK, dbVars
  <1> QED
    BY <1>1, <1>2, <1>3, <1>4

LEMMA NextTypeOK == TypeOK /\ [Next]_vars => TypeOK'
  <1> SUFFICES ASSUME TypeOK, [Next]_vars PROVE TypeOK'
    OBVIOUS
  <1>1. ASSUME NEW w \in Workers, Call(w) PROVE TypeOK'
    BY <1>1, CallTypeOK
  <1>2. ASSUME NEW w \in Workers, Handle(w) PROVE TypeOK'
    <2>1. clients \in [Names -> Row] /\ topics \in [Topics -> Row]
      BY DEF TypeOK, DBTypeOK
    <2>2. CASE GetClient(w)
      <3>1. clients[rpc[w].c] \in Row
        BY <2>1, <2>2, AtOK, StatementOps DEF GetClient, Lookup
      <3> QED
        BY <2>2, <3>1, LookupOK DEF GetClient
    <2>3. CASE GetPeer(w)
      <3>1. clients[rpc[w].d] \in Row
        BY <2>1, <2>3, AtOK, StatementOps DEF GetPeer, Lookup
      <3> QED
        BY <2>3, <3>1, LookupOK DEF GetPeer
    <2>4. CASE GetTopic(w)
      <3>1. topics[rpc[w].t] \in Row
        BY <2>1, <2>4, AtOK, StatementOps DEF GetTopic, Lookup
      <3> QED
        BY <2>4, <3>1, LookupOK DEF GetTopic
    <2>5. CASE FindClient(w)
      <3>1. clients[rpc[w].c] \in Row
        BY <2>1, <2>5, AtOK, StatementOps DEF FindClient, Find
      <3> QED
        BY <2>5, <3>1, FindOK DEF FindClient
    <2>6. CASE FindTopic(w)
      <3>1. topics[rpc[w].t] \in Row
        BY <2>1, <2>6, AtOK, StatementOps DEF FindTopic, Find
      <3> QED
        BY <2>6, <3>1, FindOK DEF FindTopic
    <2>7. CASE WriteClient(w) \/ DeleteClient(w) \/ Publish(w) \/ LinkClients(w) \/ UnlinkClients(w)
      BY <2>7, ClientStepsTypeOK
    <2>8. CASE \/ LinkClientTopic(w) \/ UnlinkClientTopic(w) \/ Dispatch(w)
               \/ WriteTopic(w) \/ CountClients(w) \/ CommitTx(w) \/ SubscribeToTopic(w)
               \/ UnsubscribeFromTopic(w) \/ DeleteTopic(w)
      BY <2>8, TopicStepsTypeOK
    <2>9. CASE CountLinked(w) \/ ReadPage(w) \/ SendToNext(w) \/ EndOfPages(w)
      BY <2>9, PageStepsTypeOK
    <2>10. CASE DBFault(w)
      <3>1. rpc[w] \in ActiveCalls
        BY <2>10, AtOK DEF DBFault
      <3> QED
        BY <2>10, <3>1, FailOK DEF DBFault, TypeOK, DBTypeOK, dbVars
    <2> QED
      BY <1>2, <2>2, <2>3, <2>4, <2>5, <2>6, <2>7, <2>8, <2>9, <2>10 DEF Handle
  <1>3. CASE Arrive
    <2>1. PICK m \in inflight :
            /\ dev' \in {Received(m), dev}
            /\ inflight' = inflight \ {m}
            /\ UNCHANGED <<dbVars, rpc, subs, flaggedClients, flaggedTopics, trail, calls>>
      BY <1>3 DEF Arrive
    <2>2. dev' \in [Names -> Devices]
      BY <2>1, ReceivedOK DEF TypeOK
    <2> QED
      BY <2>1, <2>2 DEF TypeOK, DBTypeOK, dbVars
  <1>4. CASE Restart
    <2>1. ASSUME NEW w \in Workers
          PROVE  rpc[w].c \in Names \cup {0} /\ rpc[w].t \in Topics \cup {0}
      <3>1. CASE rpc[w] = Idle
        BY <3>1 DEF Idle
      <3>2. CASE rpc[w] \in ActiveCalls
        BY <3>2 DEF ActiveCalls, Calls
      <3> QED
        BY <3>1, <3>2 DEF TypeOK
    <2> QED
      BY <1>4, <2>1 DEF Restart, TypeOK, DBTypeOK, dbVars
  <1>5. CASE UNCHANGED vars
    BY <1>5 DEF vars, TypeOK, DBTypeOK
  <1> QED
    BY <1>1, <1>2, <1>3, <1>4, <1>5 DEF Next, Finished

(* Every reachable state has its type: TypeOK, for every instance.         *)
THEOREM TypeCorrect == Spec => []TypeOK
  BY InitTypeOK, NextTypeOK, PTL DEF Spec

-----------------------------------------------------------------------------
(* The clients of topics.                                                  *)

(* Where a call that links or unlinks a client stands.                     *)
LEMMA LinkProgram ==
    ASSUME NEW r \in ActiveCalls
    PROVE  /\ r.op \in ClientTopicOps =>
                \/ r.pc = 1 /\ Program(r.op)[r.pc] = "GetClient"
                \/ r.pc = 2 /\ Program(r.op)[r.pc] = "GetTopic"
                \/ r.pc = 3 /\ Program(r.op)[r.pc] = "Publish"
                \/ r.pc = 4 /\ Program(r.op)[r.pc] = IF r.op = "NewTopicClient" THEN "LinkClientTopic"
                                                                             ELSE "UnlinkClientTopic"
                \/ r.pc = 5 /\ Program(r.op)[r.pc] = "Dispatch"
           /\ Program(r.op)[r.pc] = "LinkClientTopic" => r.op = "NewTopicClient"
           /\ Program(r.op)[r.pc] = "UnlinkClientTopic" => r.op = "RemoveTopicClient"
           /\ Program(r.op)[r.pc] = "Dispatch" => r.op \in ClientTopicOps
  <1>1. r.op \in AllOps /\ r.pc \in 1..Len(Program(r.op))
    BY ProgramLength DEF ActiveCalls, Calls
  <1>2. ASSUME r.op \in ClientTopicOps
        PROVE  \/ r.pc = 1 /\ Program(r.op)[r.pc] = "GetClient"
               \/ r.pc = 2 /\ Program(r.op)[r.pc] = "GetTopic"
               \/ r.pc = 3 /\ Program(r.op)[r.pc] = "Publish"
               \/ r.pc = 4 /\ Program(r.op)[r.pc] = IF r.op = "NewTopicClient" THEN "LinkClientTopic"
                                                                            ELSE "UnlinkClientTopic"
               \/ r.pc = 5 /\ Program(r.op)[r.pc] = "Dispatch"
    BY <1>1, <1>2 DEF Program, Statements, ClientTopicOps
  <1>3. /\ Program(r.op)[r.pc] = "LinkClientTopic" => r.op = "NewTopicClient"
        /\ Program(r.op)[r.pc] = "UnlinkClientTopic" => r.op = "RemoveTopicClient"
        /\ Program(r.op)[r.pc] = "Dispatch" => r.op \in ClientTopicOps
    BY <1>1 DEF Program, Statements, AllOps, ClientOps, TopicOps, ClientTopicOps, PeerOps
  <1> QED
    BY <1>2, <1>3

(* A call that returns or takes its next statement is still the same call. *)
LEMMA AdvanceIs ==
    ASSUME NEW r \in ActiveCalls
    PROVE  \/ Advance(r) = Idle
           \/ /\ Advance(r).op = r.op /\ Advance(r).pc = r.pc + 1
              /\ Advance(r).client = r.client /\ Advance(r).topic = r.topic
  BY DEF Advance, ActiveCalls, Calls

LEMMA IdleLinkStep == LinkStep(Idle)'
  BY DEF LinkStep, Idle

(* A step that saves no link and dispatches no event keeps LinkInv as soon *)
(* as the call it advances keeps its part of it.                           *)
LEMMA QuietStep ==
    ASSUME TypeOK, LinkInv, NEW w \in Workers, NEW n,
           rpc' = [rpc EXCEPT ![w] = n], LinkStep(n)',
           ctopics' \subseteq ctopics, trail \subseteq trail',
           \A f \in trail' \ trail : f[1] \notin {"subscribed", "unsubscribed"}
    PROVE  LinkInv'
  <1>1. LinkedClientsWereNotified'
    BY DEF LinkInv, LinkedClientsWereNotified
  <1>2. EventsFollowLinks'
    BY DEF LinkInv, EventsFollowLinks
  <1>3. ASSUME NEW v \in Workers PROVE LinkStep(rpc[v])'
    <2>1. CASE v = w
      <3>1. rpc'[v] = n
        BY <2>1 DEF TypeOK
      <3> QED
        BY <3>1 DEF LinkStep
    <2>2. CASE v # w
      <3>1. rpc'[v] = rpc[v] /\ LinkStep(rpc[v])
        BY <2>2 DEF TypeOK, LinkInv
      <3> QED
        BY <3>1 DEF LinkStep
    <2> QED
      BY <2>1, <2>2
  <1> QED
    BY <1>1, <1>2, <1>3 DEF LinkInv

(* A call that is not yet past its publication has nothing to show.        *)
LEMMA EarlyStep ==
    ASSUME NEW r \in ActiveCalls, NEW n, n = Advance(r),
           r.op \in ClientTopicOps => r.pc <= 2
    PROVE  LinkStep(n)'
  <1>1. r.pc \in Nat
    BY DEF ActiveCalls, Calls
  <1>2. CASE n = Idle
    BY <1>2 DEF LinkStep, Idle
  <1>3. CASE n.op = r.op /\ n.pc = r.pc + 1
    BY <1>1, <1>3 DEF LinkStep, ClientTopicOps
  <1> QED
    BY <1>2, <1>3, AdvanceIs

LEMMA QuietReturn ==
    ASSUME TypeOK, LinkInv, NEW w \in Workers, NEW r \in ActiveCalls, Return(w, r),
           r.op \in ClientTopicOps => r.pc <= 2,
           ctopics' \subseteq ctopics, trail \subseteq trail',
           \A f \in trail' \ trail : f[1] \notin {"subscribed", "unsubscribed"}
    PROVE  LinkInv'
  <1>1. PICK n : n = Advance(r) /\ rpc' = [rpc EXCEPT ![w] = n]
    BY DEF Return
  <1>2. LinkStep(n)'
    BY <1>1, EarlyStep
  <1> QED
    BY <1>1, <1>2, QuietStep

LEMMA QuietIdle ==
    ASSUME TypeOK, LinkInv, NEW w \in Workers, rpc' = [rpc EXCEPT ![w] = Idle],
           ctopics' \subseteq ctopics, trail' = trail
    PROVE  LinkInv'
  BY IdleLinkStep, QuietStep, Zenon

(* Lookups: the links and the trail are unchanged.                         *)
LEMMA LookupLinkInv ==
    ASSUME TypeOK, LinkInv, NEW w \in Workers, NEW step \in {"GetClient", "GetPeer", "GetTopic"},
           NEW field \in {"client", "peer", "topic"}, NEW row \in Row, Lookup(w, step, field, row)
    PROVE  LinkInv'
  <1>1. rpc[w] \in ActiveCalls /\ Program(rpc[w].op)[rpc[w].pc] = step
    BY AtOK DEF Lookup
  <1>2. rpc[w].op \in ClientTopicOps => rpc[w].pc <= 2
    BY <1>1, LinkProgram
  <1>3. UNCHANGED <<ctopics, trail>>
    BY DEF Lookup, dbVars
  <1>4. CASE NewRecord(row)
    <2>1. rpc' = [rpc EXCEPT ![w] = Idle]
      BY <1>4 DEF Lookup
    <2> QED
      BY <1>3, <2>1, QuietIdle
  <1>5. CASE ~NewRecord(row)
    <2>1. PICK r : r = [rpc[w] EXCEPT ![field] = row]
      OBVIOUS
    <2>2. r \in ActiveCalls
      BY <1>1, <2>1, LocalOK
    <2>3. r.op = rpc[w].op /\ r.pc = rpc[w].pc
      BY <1>1, <2>1 DEF ActiveCalls, Calls
    <2>4. Return(w, r)
      BY <1>5, <2>1 DEF Lookup, Return
    <2> QED
      BY <1>2, <1>3, <2>2, <2>3, <2>4, QuietReturn
  <1> QED
    BY <1>4, <1>5

LEMMA FindLinkInv ==
    ASSUME TypeOK, LinkInv, NEW w \in Workers, NEW step \in {"FindClient", "FindTopic"},
           NEW row \in Row, NEW failures, Find(w, step, row, failures)
    PROVE  LinkInv'
  <1>1. rpc[w] \in ActiveCalls /\ Program(rpc[w].op)[rpc[w].pc] = step
    BY AtOK DEF Find
  <1>2. rpc[w].op \notin ClientTopicOps
    BY <1>1, LinkProgram
  <1>3. PICK found \in {row, NoRow} : Return(w, [rpc[w] EXCEPT !.row = found])
    BY DEF Find
  <1>4. PICK r : r = [rpc[w] EXCEPT !.row = found]
    OBVIOUS
  <1>5. found \in Row
    BY DEF NoRow, Row
  <1>6. r \in ActiveCalls /\ r.op = rpc[w].op
    <2>1. r \in ActiveCalls
      BY <1>1, <1>4, <1>5, LocalOK
    <2> QED
      BY <1>1, <1>4, <2>1 DEF ActiveCalls, Calls
  <1>7. Return(w, r) /\ UNCHANGED <<ctopics, trail>>
    BY <1>3, <1>4 DEF Find, dbVars
  <1> QED
    BY <1>2, <1>6, <1>7, QuietReturn

(* NewTopicClient and RemoveTopicClient.                                   *)
LEMMA ClientTopicLinkInv ==
    ASSUME TypeOK, LinkInv, NEW w \in Workers
    PROVE  /\ Publish(w) => LinkInv'
           /\ LinkClientTopic(w) => LinkInv'
           /\ UnlinkClientTopic(w) => LinkInv'
           /\ Dispatch(w) => LinkInv'
  <1>1. PICK r : r = rpc[w]
    OBVIOUS
  <1>2. LinkStep(r)
    BY <1>1 DEF LinkInv
  <1>3. ASSUME r \in ActiveCalls PROVE r.pc \in Nat
    BY <1>3 DEF ActiveCalls, Calls
  <1>4. ASSUME Publish(w) PROVE LinkInv'
    <2>1. r \in ActiveCalls /\ Program(r.op)[r.pc] = "Publish"
      BY <1>1, <1>4, AtOK DEF Publish
    <2>2. ctopics' = ctopics
      BY <1>4 DEF Publish, dbVars
    <2>3. CASE rpc' = [rpc EXCEPT ![w] = Idle] /\ trail' = trail
      BY <2>2, <2>3, QuietIdle
    <2>4. CASE Return(w, r) /\ Record(Accepted(r))
      <3>1. PICK n : n = Advance(r) /\ rpc' = [rpc EXCEPT ![w] = n]
        BY <2>4 DEF Return
      <3>2. /\ trail \subseteq trail'
            /\ \A f \in trail' \ trail : f[1] \notin {"subscribed", "unsubscribed"}
            /\ r.op = "NewTopicClient" => <<"SetTopicKey", r.client.id, r.topic.id>> \in trail'
        BY <2>4 DEF Record, Accepted
      <3>3. r.op \in ClientTopicOps => r.pc = 3
        BY <2>1, LinkProgram
      <3>4. LinkStep(n)'
        <4>1. CASE n = Idle
          BY <4>1 DEF LinkStep, Idle
        <4>2. CASE n.op = r.op /\ n.pc = r.pc + 1 /\ n.client = r.client /\ n.topic = r.topic
          BY <4>2, <3>2, <3>3 DEF LinkStep, ClientTopicOps
        <4> QED
          BY <2>1, <3>1, <4>1, <4>2, AdvanceIs
      <3> QED
        BY <2>2, <3>1, <3>2, <3>4, QuietStep
    <2> QED
      BY <1>1, <1>4, <2>3, <2>4 DEF Publish
  <1>5. ASSUME LinkClientTopic(w) PROVE LinkInv'
    <2>1. r \in ActiveCalls /\ r.op = "NewTopicClient" /\ r.pc = 4
      BY <1>1, <1>5, AtOK, LinkProgram DEF LinkClientTopic, ClientTopicOps
    <2>2. CASE Fail(w) /\ UNCHANGED <<dbVars, trail>>
      BY <2>2, QuietIdle DEF Fail, dbVars
    <2>3. CASE /\ LinkTopicRow(r.client, r.topic)
               /\ Return(w, r)
               /\ Record({<<"linked", r.client.id, r.topic.id>>})
      <3>1. PICK n : n = Advance(r) /\ rpc' = [rpc EXCEPT ![w] = n]
        BY <2>3 DEF Return
      <3>2. <<"SetTopicKey", r.client.id, r.topic.id>> \in trail
        BY <1>2, <2>1 DEF LinkStep
      <3>3. /\ trail' = trail \cup {<<"linked", r.client.id, r.topic.id>>}
            /\ ctopics' = ctopics \cup {<<r.client.id, r.topic.id>>}
        BY <2>3 DEF Record, LinkTopicRow
      <3>4. LinkedClientsWereNotified'
        <4>1. ASSUME NEW l \in ctopics' PROVE <<"SetTopicKey", l[1], l[2]>> \in trail'
          <5>1. CASE l \in ctopics
            BY <3>3, <5>1 DEF LinkInv, LinkedClientsWereNotified
          <5>2. CASE l = <<r.client.id, r.topic.id>>
            <6>1. l[1] = r.client.id /\ l[2] = r.topic.id
              BY <5>2
            <6> QED
              BY <3>2, <3>3, <6>1
          <5> QED
            BY <3>3, <5>1, <5>2
        <4> QED
          BY <4>1 DEF LinkedClientsWereNotified
      <3>5. EventsFollowLinks'
        <4>1. ASSUME NEW f \in trail', f[1] \in {"subscribed", "unsubscribed"} PROVE f \in trail
          <5>1. CASE f = <<"linked", r.client.id, r.topic.id>>
            <6>1. f[1] = "linked"
              BY <5>1
            <6> QED
              BY <4>1, <6>1
          <5> QED
            BY <3>3, <5>1
        <4> QED
          BY <3>3, <4>1 DEF LinkInv, EventsFollowLinks
      <3>6. LinkStep(n)'
        <4>1. CASE n = Idle
          BY <4>1 DEF LinkStep, Idle
        <4>2. CASE n.op = r.op /\ n.pc = r.pc + 1 /\ n.client = r.client /\ n.topic = r.topic
          BY <2>1, <4>2, <3>2, <3>3 DEF LinkStep
        <4> QED
          BY <2>1, <3>1, <4>1, <4>2, AdvanceIs
      <3>7. ASSUME NEW v \in Workers PROVE LinkStep(rpc[v])'
        <4>1. CASE v = w
          <5>1. rpc'[v] = n
            BY <3>1, <4>1 DEF TypeOK
          <5> QED
            BY <3>6, <5>1 DEF LinkStep
        <4>2. CASE v # w
          <5>1. rpc'[v] = rpc[v] /\ LinkStep(rpc[v])
            BY <3>1, <4>2 DEF TypeOK, LinkInv
          <5> QED
            BY <3>3, <5>1 DEF LinkStep
        <4> QED
          BY <4>1, <4>2
      <3> QED
        BY <3>4, <3>5, <3>7 DEF LinkInv
    <2> QED
      BY <1>1, <1>5, <2>2, <2>3 DEF LinkClientTopic
  <1>6. ASSUME UnlinkClientTopic(w) PROVE LinkInv'
    <2>1. r \in ActiveCalls /\ r.op = "RemoveTopicClient" /\ r.pc = 4
      BY <1>1, <1>6, AtOK, LinkProgram DEF UnlinkClientTopic, ClientTopicOps
    <2>2. CASE Fail(w) /\ UNCHANGED <<dbVars, trail>>
      BY <2>2, QuietIdle DEF Fail, dbVars
    <2>3. CASE /\ UnlinkTopicRow(r.client, r.topic)
               /\ Return(w, r)
               /\ Record({<<"unlinked", r.client.id, r.topic.id>>})
      <3>1. PICK n : n = Advance(r) /\ rpc' = [rpc EXCEPT ![w] = n]
        BY <2>3 DEF Return
      <3>2. /\ trail' = trail \cup {<<"unlinked", r.client.id, r.topic.id>>}
            /\ ctopics' \subseteq ctopics
        BY <2>3 DEF Record, UnlinkTopicRow
      <3>3. LinkStep(n)'
        <4>1. CASE n = Idle
          BY <4>1 DEF LinkStep, Idle
        <4>2. CASE n.op = r.op /\ n.pc = r.pc + 1 /\ n.client = r.client /\ n.topic = r.topic
          BY <2>1, <4>2, <3>2 DEF LinkStep
        <4> QED
          BY <2>1, <3>1, <4>1, <4>2, AdvanceIs
      <3>4. ASSUME NEW f \in trail' \ trail PROVE f[1] \notin {"subscribed", "unsubscribed"}
        <4>1. f = <<"unlinked", r.client.id, r.topic.id>>
          BY <3>2
        <4>2. f[1] = "unlinked"
          BY <4>1
        <4> QED
          BY <4>2
      <3>5. trail \subseteq trail'
        BY <3>2
      <3> QED
        BY <3>1, <3>2, <3>3, <3>4, <3>5, QuietStep
    <2> QED
      BY <1>1, <1>6, <2>2, <2>3 DEF UnlinkClientTopic
  <1>7. ASSUME Dispatch(w) PROVE LinkInv'
    <2>1. r \in ActiveCalls /\ r.op \in ClientTopicOps /\ r.pc = 5
      BY <1>1, <1>7, AtOK, LinkProgram DEF Dispatch
    <2>2. PICK type : type = IF r.op = "NewTopicClient" THEN "subscribed" ELSE "unsubscribed"
      OBVIOUS
    <2>3. /\ Return(w, r)
          /\ trail' = trail \cup {<<type, r.client.id, r.topic.id>>}
          /\ ctopics' = ctopics
      BY <1>1, <1>7, <2>2 DEF Dispatch, Record, dbVars
    <2>4. LinkedClientsWereNotified'
      BY <2>3 DEF LinkInv, LinkedClientsWereNotified
    <2>5. EventsFollowLinks'
      <3>1. /\ type = "subscribed" => <<"linked", r.client.id, r.topic.id>> \in trail
            /\ type = "unsubscribed" => <<"unlinked", r.client.id, r.topic.id>> \in trail
        BY <1>2, <2>1, <2>2 DEF LinkStep, ClientTopicOps
      <3>2. ASSUME NEW f \in trail'
            PROVE  /\ f[1] = "subscribed"   => <<"linked", f[2], f[3]>> \in trail'
                   /\ f[1] = "unsubscribed" => <<"unlinked", f[2], f[3]>> \in trail'
        <4>1. CASE f \in trail
          BY <2>3, <4>1 DEF LinkInv, EventsFollowLinks
        <4>2. CASE f = <<type, r.client.id, r.topic.id>>
          <5>1. f[1] = type /\ f[2] = r.client.id /\ f[3] = r.topic.id
            BY <4>2
          <5> QED
            BY <2>3, <3>1, <5>1
        <4> QED
          BY <2>3, <4>1, <4>2
      <3> QED
        BY <3>2 DEF EventsFollowLinks
    <2>6. PICK n : n = Advance(r) /\ rpc' = [rpc EXCEPT ![w] = n]
      BY <2>3 DEF Return
    <2>7. LinkStep(n)'
      <3>1. CASE n = Idle
        BY <3>1 DEF LinkStep, Idle
      <3>2. CASE n.op = r.op /\ n.pc = r.pc + 1 /\ n.client = r.client /\ n.topic = r.topic
        BY <1>2, <2>1, <2>3, <3>2 DEF LinkStep
      <3> QED
        BY <2>1, <2>6, <3>1, <3>2, AdvanceIs
    <2>8. ASSUME NEW v \in Workers PROVE LinkStep(rpc[v])'
      <3>1. CASE v = w
        <4>1. rpc'[v] = n
          BY <2>6, <3>1 DEF TypeOK
        <4> QED
          BY <2>7, <4>1 DEF LinkStep
      <3>2. CASE v # w
        <4>1. rpc'[v] = rpc[v] /\ LinkStep(rpc[v])
          BY <2>6, <3>2 DEF TypeOK, LinkInv
        <4> QED
          BY <2>3, <4>1 DEF LinkStep
      <3> QED
        BY <3>1, <3>2
    <2> QED
      BY <2>4, <2>5, <2>8 DEF LinkInv
  <1> QED
    BY <1>4, <1>5, <1>6, <1>7

(* The handlers that neither link nor unlink a client of a topic.          *)
OtherStep(w) ==
    /\ \E n : /\ rpc' = [rpc EXCEPT ![w] = n]
            /\ n.op \notin ClientTopicOps
    /\ ctopics' \subseteq ctopics
    /\ trail \subseteq trail'
    /\ \A f \in trail' \ trail : f[1] \notin {"subscribed", "unsubscribed"}

LEMMA OtherLinkInv ==
    ASSUME TypeOK, LinkInv, NEW w \in Workers, OtherStep(w)
    PROVE  LinkInv'
  <1>1. PICK n : rpc' = [rpc EXCEPT ![w] = n] /\ n.op \notin ClientTopicOps
    BY DEF OtherStep
  <1>2. LinkStep(n)'
    BY <1>1 DEF LinkStep, ClientTopicOps
  <1> QED
    BY <1>1, <1>2, QuietStep DEF OtherStep

LEMMA OtherCall ==
    ASSUME TypeOK, NEW w \in Workers, NEW step, At(w, step),
           step \notin {"GetClient", "GetTopic", "Publish", "LinkClientTopic",
                       "UnlinkClientTopic", "Dispatch"}
    PROVE  rpc[w] \in ActiveCalls /\ rpc[w].op \notin ClientTopicOps
  BY AtOK, LinkProgram

(* Whether it returns or fails, and whatever it read.                      *)
LEMMA OtherReturn ==
    ASSUME NEW w \in Workers, NEW r \in ActiveCalls, r.op \notin ClientTopicOps, Return(w, r) \/ Fail(w)
    PROVE  \E n : rpc' = [rpc EXCEPT ![w] = n] /\ n.op \notin ClientTopicOps
  <1>1. Idle.op \notin ClientTopicOps
    BY DEF Idle, ClientTopicOps
  <1>2. CASE Fail(w)
    BY <1>1, <1>2 DEF Fail
  <1>3. CASE Return(w, r)
    <2>1. Advance(r).op \notin ClientTopicOps
      BY <1>1, AdvanceIs
    <2> QED
      BY <1>3, <2>1 DEF Return
  <1> QED
    BY <1>2, <1>3

LEMMA ClientStepsLinkInv ==
    ASSUME TypeOK, LinkInv, NEW w \in Workers
    PROVE  /\ WriteClient(w) => LinkInv'
           /\ DeleteClient(w) => LinkInv'
           /\ LinkClients(w) => LinkInv'
           /\ UnlinkClients(w) => LinkInv'
  <1> DEFINE r == rpc[w]
  <1>1. ASSUME WriteClient(w) PROVE LinkInv'
    <2>1. r \in ActiveCalls /\ r.op \notin ClientTopicOps
      BY <1>1, OtherCall DEF WriteClient
    <2>2. Return(w, r) \/ Fail(w)
      BY <1>1 DEF WriteClient
    <2>3. ctopics' = ctopics
      BY <1>1 DEF WriteClient, CreateClient, NewClientId, UpdateClient, dbVars
    <2>4. trail' = trail \/ trail' = trail \cup {<<"registered", r.c, r.key>>}
      BY <1>1 DEF WriteClient, Record
    <2>5. ASSUME NEW f \in trail' \ trail PROVE f[1] = "registered"
      <3>1. f = <<"registered", r.c, r.key>>
        BY <2>4
      <3> QED
        BY <3>1
    <2>6. OtherStep(w)
      BY <2>1, <2>2, <2>3, <2>4, <2>5, OtherReturn DEF OtherStep
    <2> QED
      BY <2>6, OtherLinkInv
  <1>2. ASSUME DeleteClient(w) PROVE LinkInv'
    <2>1. r \in ActiveCalls /\ r.op \notin ClientTopicOps /\ Return(w, r)
      BY <1>2, OtherCall DEF DeleteClient
    <2>2. ctopics' \subseteq ctopics /\ trail' = trail
      BY <1>2 DEF DeleteClient, DeleteClientRow
    <2>3. OtherStep(w)
      BY <2>1, <2>2, OtherReturn DEF OtherStep
    <2> QED
      BY <2>3, OtherLinkInv
  <1>3. ASSUME LinkClients(w) PROVE LinkInv'
    <2>1. r \in ActiveCalls /\ r.op \notin ClientTopicOps /\ (Return(w, r) \/ Fail(w))
      BY <1>3, OtherCall DEF LinkClients
    <2>2. ctopics' = ctopics /\ trail' = trail
      BY <1>3 DEF LinkClients, LinkClientRow, dbVars
    <2>3. OtherStep(w)
      BY <2>1, <2>2, OtherReturn DEF OtherStep
    <2> QED
      BY <2>3, OtherLinkInv
  <1>4. ASSUME UnlinkClients(w) PROVE LinkInv'
    <2>1. r \in ActiveCalls /\ r.op \notin ClientTopicOps /\ Return(w, r)
      BY <1>4, OtherCall DEF UnlinkClients
    <2>2. ctopics' = ctopics /\ trail' = trail
      BY <1>4 DEF UnlinkClients, UnlinkClientRow
    <2>3. OtherStep(w)
      BY <2>1, <2>2, OtherReturn DEF OtherStep
    <2> QED
      BY <2>3, OtherLinkInv
  <1> QED
    BY <1>1, <1>2, <1>3, <1>4

LEMMA OtherCounted ==
    ASSUME NEW w \in Workers, rpc[w] \in ActiveCalls, rpc[w].op \notin ClientTopicOps,
           NEW name, NEW S \in SUBSET Names, NEW failures,
           \/ Fail(w) /\ UNCHANGED trail
           \/ Counted(w, name, S, failures),
           ctopics' = ctopics
    PROVE  OtherStep(w)
  <1>1. CASE Fail(w) /\ UNCHANGED trail
    BY <1>1, OtherReturn DEF OtherStep
  <1>2. CASE Counted(w, name, S, failures)
    <2>1. PICK n \in Nat : /\ Return(w, [rpc[w] EXCEPT !.count = n])
                          /\ \/ trail' = trail
                             \/ trail' = trail \cup {<<"uncounted", name, rpc[w].key>>}
      BY <1>2, CountedIs
    <2>2. PICK m : m = [rpc[w] EXCEPT !.count = n]
      OBVIOUS
    <2>3. m \in ActiveCalls /\ m.op = rpc[w].op
      <3>1. m \in ActiveCalls
        BY <2>2, PagingOK
      <3> QED
        BY <2>2, <3>1 DEF ActiveCalls, Calls
    <2>4. ASSUME NEW f \in trail' \ trail PROVE f[1] = "uncounted"
      <3>1. f = <<"uncounted", name, rpc[w].key>>
        BY <2>1
      <3> QED
        BY <3>1
    <2>5. \E k : rpc' = [rpc EXCEPT ![w] = k] /\ k.op \notin ClientTopicOps
      BY <2>1, <2>2, <2>3, OtherReturn
    <2> QED
      BY <2>1, <2>4, <2>5 DEF OtherStep
  <1> QED
    BY <1>1, <1>2

LEMMA TopicStepsLinkInv ==
    ASSUME TypeOK, LinkInv, NEW w \in Workers
    PROVE  /\ WriteTopic(w) => LinkInv'
           /\ CountClients(w) => LinkInv'
           /\ CommitTx(w) => LinkInv'
           /\ SubscribeToTopic(w) => LinkInv'
           /\ UnsubscribeFromTopic(w) => LinkInv'
           /\ DeleteTopic(w) => LinkInv'
  <1> DEFINE r == rpc[w]
  <1>1. ASSUME WriteTopic(w) PROVE LinkInv'
    <2>1. r \in ActiveCalls /\ r.op \notin ClientTopicOps
      BY <1>1, OtherCall DEF WriteTopic, NewTopicId
    <2> DEFINE row == IF NewRecord(r.row) THEN [id |-> nextId, key |-> r.key]
                      ELSE IF r.row.id = topics[r.t].id THEN [id |-> r.row.id, key |-> r.key]
                      ELSE NoRow
    <2>2. row \in Row
      BY <2>1 DEF TypeOK, DBTypeOK, Row, NoRow, ActiveCalls, Calls
    <2>3. [r EXCEPT !.topic = row] \in ActiveCalls
      BY <2>1, <2>2, LocalOK
    <2>4. [r EXCEPT !.topic = row].op = r.op
      BY <2>1 DEF ActiveCalls, Calls
    <2>5. Return(w, [r EXCEPT !.topic = row]) \/ Fail(w)
      BY <1>1 DEF WriteTopic, NewTopicId
    <2>6. ctopics' = ctopics /\ trail' = trail
      BY <1>1 DEF WriteTopic, NewTopicId
    <2>7. OtherStep(w)
      BY <2>1, <2>3, <2>4, <2>5, <2>6, OtherReturn DEF OtherStep
    <2> QED
      BY <2>7, OtherLinkInv
  <1>2. ASSUME CountClients(w) PROVE LinkInv'
    <2>1. r \in ActiveCalls /\ r.op \notin ClientTopicOps
      BY <1>2, OtherCall DEF CountClients
    <2> DEFINE id == IF NewRecord(r.topic) THEN topics[r.t].id ELSE r.topic.id
               S == {c \in Names : ~NewRecord(clients[c]) /\ <<clients[c].id, id>> \in ctopics}
    <2>2. /\ ctopics' = ctopics
          /\ (Fail(w) /\ UNCHANGED trail) \/ Counted(w, r.t, S, Unnoticed(TRUE))
      BY <1>2 DEF CountClients, dbVars
    <2> QED
      BY <2>1, <2>2, OtherCounted, OtherLinkInv
  <1>3. ASSUME CommitTx(w) PROVE LinkInv'
    <2>1. r \in ActiveCalls /\ r.op \notin ClientTopicOps /\ Return(w, r)
      BY <1>3, OtherCall DEF CommitTx
    <2>2. ctopics' = ctopics
      BY <1>3 DEF CommitTx
    <2>3. trail' = trail \/ trail' = trail \cup {<<"committed", r.t, r.key>>}
      BY <1>3 DEF CommitTx, Record
    <2>4. ASSUME NEW f \in trail' \ trail PROVE f[1] = "committed"
      <3>1. f = <<"committed", r.t, r.key>>
        BY <2>3
      <3> QED
        BY <3>1
    <2>5. OtherStep(w)
      BY <2>1, <2>2, <2>3, <2>4, OtherReturn DEF OtherStep
    <2> QED
      BY <2>5, OtherLinkInv
  <1>4. ASSUME SubscribeToTopic(w) PROVE LinkInv'
    <2>1. r \in ActiveCalls /\ r.op \notin ClientTopicOps /\ (Return(w, r) \/ Fail(w))
      BY <1>4, OtherCall DEF SubscribeToTopic
    <2>2. ctopics' = ctopics /\ trail' = trail
      BY <1>4 DEF SubscribeToTopic, dbVars
    <2>3. OtherStep(w)
      BY <2>1, <2>2, OtherReturn DEF OtherStep
    <2> QED
      BY <2>3, OtherLinkInv
  <1>5. ASSUME UnsubscribeFromTopic(w) PROVE LinkInv'
    <2>1. r \in ActiveCalls /\ r.op \notin ClientTopicOps
      BY <1>5, OtherCall DEF UnsubscribeFromTopic
    <2>2. rpc' = [rpc EXCEPT ![w] = Advance(r)] /\ ctopics' = ctopics /\ trail' = trail
      BY <1>5 DEF UnsubscribeFromTopic, dbVars
    <2>3. Advance(r).op \notin ClientTopicOps
      BY <2>1, AdvanceIs DEF Idle, ClientTopicOps
    <2>4. OtherStep(w)
      BY <2>2, <2>3 DEF OtherStep
    <2> QED
      BY <2>4, OtherLinkInv
  <1>6. ASSUME DeleteTopic(w) PROVE LinkInv'
    <2>1. r \in ActiveCalls /\ r.op \notin ClientTopicOps /\ Return(w, r)
      BY <1>6, OtherCall DEF DeleteTopic
    <2>2. ctopics' \subseteq ctopics /\ trail' = trail
      BY <1>6 DEF DeleteTopic, DeleteTopicRow
    <2>3. OtherStep(w)
      BY <2>1, <2>2, OtherReturn DEF OtherStep
    <2> QED
      BY <2>3, OtherLinkInv
  <1> QED
    BY <1>1, <1>2, <1>3, <1>4, <1>5, <1>6

LEMMA PageStepsLinkInv ==
    ASSUME TypeOK, LinkInv, NEW w \in Workers
    PROVE  /\ CountLinked(w) => LinkInv'
           /\ ReadPage(w) => LinkInv'
           /\ SendToNext(w) => LinkInv'
           /\ EndOfPages(w) => LinkInv'
  <1> DEFINE r == rpc[w]
  <1>1. ASSUME CountLinked(w) PROVE LinkInv'
    <2>1. r \in ActiveCalls /\ r.op \notin ClientTopicOps
      BY <1>1, OtherCall DEF CountLinked
    <2>2. LinkedClients(clients[r.c]) \in SUBSET Names
      BY DEF LinkedClients
    <2>3. /\ ctopics' = ctopics
          /\ (Fail(w) /\ UNCHANGED trail) \/ Counted(w, r.c, LinkedClients(clients[r.c]), Unnoticed(FALSE))
      BY <1>1 DEF CountLinked, dbVars
    <2> QED
      BY <2>1, <2>2, <2>3, OtherCounted, OtherLinkInv
  <1>2. ASSUME ReadPage(w) PROVE LinkInv'
    <2>1. r \in ActiveCalls /\ r.op \notin ClientTopicOps
      BY <1>2, OtherCall DEF ReadPage
    <2> DEFINE todo == {[name |-> c, row |-> clients[c]] : c \in Page(Audience(r), r.offset, BatchSize)}
    <2>2. /\ NextPage(r).op = r.op
          /\ [NextPage(r) EXCEPT !.todo = todo].op = r.op
      BY <2>1 DEF NextPage, ActiveCalls, Calls
    <2>3. \/ rpc' = [rpc EXCEPT ![w] = NextPage(r)]
          \/ rpc' = [rpc EXCEPT ![w] = [NextPage(r) EXCEPT !.todo = todo]]
      BY <1>2 DEF ReadPage
    <2>4. ctopics' = ctopics /\ trail' = trail
      BY <1>2 DEF ReadPage, dbVars
    <2>5. OtherStep(w)
      BY <2>1, <2>2, <2>3, <2>4 DEF OtherStep
    <2> QED
      BY <2>5, OtherLinkInv
  <1>3. ASSUME SendToNext(w) PROVE LinkInv'
    <2>1. r \in ActiveCalls /\ r.op \notin ClientTopicOps
      BY <1>3, OtherCall DEF SendToNext
    <2> DEFINE to == CHOOSE x \in r.todo : \A y \in r.todo : x.name <= y.name
    <2>2. [r EXCEPT !.todo = r.todo \ {to}].op = r.op
      BY <2>1 DEF ActiveCalls, Calls
    <2>3. rpc' = [rpc EXCEPT ![w] = [r EXCEPT !.todo = r.todo \ {to}]]
      BY <1>3 DEF SendToNext, TypeOK
    <2>4. ctopics' = ctopics /\ trail' = trail
      BY <1>3 DEF SendToNext, dbVars
    <2>5. OtherStep(w)
      BY <2>1, <2>2, <2>3, <2>4 DEF OtherStep
    <2> QED
      BY <2>5, OtherLinkInv
  <1>4. ASSUME EndOfPages(w) PROVE LinkInv'
    <2>1. r \in ActiveCalls /\ r.op \notin ClientTopicOps /\ Return(w, r)
      BY <1>4, OtherCall DEF EndOfPages
    <2>2. ctopics' = ctopics /\ trail' = trail
      BY <1>4 DEF EndOfPages, dbVars
    <2>3. OtherStep(w)
      BY <2>1, <2>2, OtherReturn DEF OtherStep
    <2> QED
      BY <2>3, OtherLinkInv
  <1> QED
    BY <1>1, <1>2, <1>3, <1>4

(* A call starts before its first statement.                               *)
LEMMA CallLinkInv ==
    ASSUME TypeOK, LinkInv, NEW w \in Workers, Call(w)
    PROVE  LinkInv'
  <1>1. PICK n : rpc' = [rpc EXCEPT ![w] = n] /\ n.pc = 1
    <2>1. PICK op \in Ops : \E a \in Arguments(op) :
             rpc' = [rpc EXCEPT ![w] = [Idle EXCEPT !.op = op, !.pc = 1, !.c = a.c, !.d = a.d, !.t = a.t,
                                                    !.key = CallKey(op, a.c)]]
      BY DEF Call
    <2>2. PICK a \in Arguments(op) :
             rpc' = [rpc EXCEPT ![w] = [Idle EXCEPT !.op = op, !.pc = 1, !.c = a.c, !.d = a.d, !.t = a.t,
                                                    !.key = CallKey(op, a.c)]]
      BY <2>1
    <2>3. [Idle EXCEPT !.op = op, !.pc = 1, !.c = a.c, !.d = a.d, !.t = a.t, !.key = CallKey(op, a.c)].pc = 1
      BY DEF Idle
    <2> QED
      BY <2>2, <2>3
  <1>2. LinkStep(n)'
    BY <1>1 DEF LinkStep
  <1>3. ctopics' = ctopics /\ trail' = trail
    BY DEF Call, dbVars
  <1> QED
    BY <1>1, <1>2, <1>3, QuietStep

LEMMA HandleLinkInv ==
    ASSUME TypeOK, LinkInv, NEW w \in Workers, Handle(w)
    PROVE  LinkInv'
  <1>1. clients \in [Names -> Row] /\ topics \in [Topics -> Row]
    BY DEF TypeOK, DBTypeOK
  <1>2. CASE GetClient(w)
    <2>1. clients[rpc[w].c] \in Row
      BY <1>1, <1>2, AtOK, StatementOps DEF GetClient, Lookup
    <2> QED
      BY <1>2, <2>1, LookupLinkInv DEF GetClient
  <1>3. CASE GetPeer(w)
    <2>1. clients[rpc[w].d] \in Row
      BY <1>1, <1>3, AtOK, StatementOps DEF GetPeer, Lookup
    <2> QED
      BY <1>3, <2>1, LookupLinkInv DEF GetPeer
  <1>4. CASE GetTopic(w)
    <2>1. topics[rpc[w].t] \in Row
      BY <1>1, <1>4, AtOK, StatementOps DEF GetTopic, Lookup
    <2> QED
      BY <1>4, <2>1, LookupLinkInv DEF GetTopic
  <1>5. CASE FindClient(w)
    <2>1. clients[rpc[w].c] \in Row
      BY <1>1, <1>5, AtOK, StatementOps DEF FindClient, Find
    <2> QED
      BY <1>5, <2>1, FindLinkInv DEF FindClient
  <1>6. CASE FindTopic(w)
    <2>1. topics[rpc[w].t] \in Row
      BY <1>1, <1>6, AtOK, StatementOps DEF FindTopic, Find
    <2> QED
      BY <1>6, <2>1, FindLinkInv DEF FindTopic
  <1>7. CASE Publish(w) \/ LinkClientTopic(w) \/ UnlinkClientTopic(w) \/ Dispatch(w)
    BY <1>7, ClientTopicLinkInv
  <1>8. CASE WriteClient(w) \/ DeleteClient(w) \/ LinkClients(w) \/ UnlinkClients(w)
    BY <1>8, ClientStepsLinkInv
  <1>9. CASE \/ WriteTopic(w) \/ CountClients(w) \/ CommitTx(w) \/ SubscribeToTopic(w)
             \/ UnsubscribeFromTopic(w) \/ DeleteTopic(w)
    BY <1>9, TopicStepsLinkInv
  <1>10. CASE CountLinked(w) \/ ReadPage(w) \/ SendToNext(w) \/ EndOfPages(w)
    BY <1>10, PageStepsLinkInv
  <1>11. CASE DBFault(w)
    <2>1. rpc' = [rpc EXCEPT ![w] = Idle] /\ ctopics' = ctopics /\ trail' = trail
      BY <1>11 DEF DBFault, Fail, dbVars
    <2> QED
      BY <2>1, QuietIdle
  <1> QED
    BY <1>2, <1>3, <1>4, <1>5, <1>6, <1>7, <1>8, <1>9, <1>10, <1>11 DEF Handle

LEMMA NextLinkInv == TypeOK /\ LinkInv /\ [Next]_vars => LinkInv'
  <1> SUFFICES ASSUME TypeOK, LinkInv, [Next]_vars PROVE LinkInv'
    OBVIOUS
  <1>1. ASSUME NEW w \in Workers, Call(w) \/ Handle(w) PROVE LinkInv'
    BY <1>1, CallLinkInv, HandleLinkInv
  <1>2. CASE Restart
    <2>1. ctopics' = ctopics /\ trail' = trail
      BY <1>2 DEF Restart, dbVars
    <2>2. \A v \in Workers : rpc'[v] = Idle
      BY <1>2 DEF Restart
    <2>3. \A v \in Workers : LinkStep(rpc[v])'
      BY <2>2 DEF LinkStep, Idle
    <2> QED
      BY <2>1, <2>3 DEF LinkInv, LinkedClientsWereNotified, EventsFollowLinks
  <1>3. CASE Arrive \/ UNCHANGED vars
    <2>1. ctopics' = ctopics /\ trail' = trail /\ rpc' = rpc
      BY <1>3 DEF Arrive, vars, dbVars
    <2> QED
      BY <2>1 DEF LinkInv, LinkedClientsWereNotified, EventsFollowLinks, LinkStep
  <1> QED
    BY <1>1, <1>2, <1>3 DEF Next, Finished

LEMMA InitLinkInv == Init => LinkInv
  <1> SUFFICES ASSUME Init PROVE LinkInv
    OBVIOUS
  <1>1. LinkedClientsWereNotified
    BY DEF Init, DBInit, LinkedClientsWereNotified
  <1>2. EventsFollowLinks
    <2>1. ASSUME NEW f \in trail
          PROVE  /\ f[1] = "subscribed" => <<"linked", f[2], f[3]>> \in trail
                 /\ f[1] # "unsubscribed"
      <3>1. CASE f \in {<<"registered", c, FactoryKey[c]>> : c \in Names}
        <4>1. f[1] = "registered"
          BY <3>1
        <4> QED
          BY <4>1
      <3>2. CASE f \in {<<"committed", t, FirstTopicKey[t]>> : t \in Topics}
        <4>1. f[1] = "committed"
          BY <3>2
        <4> QED
          BY <4>1
      <3>3. CASE Populated /\ f \in {"SetTopicKey", "linked", "subscribed"} \X Names \X Topics
        <4>1. f[1] # "unsubscribed" /\ f[2] \in Names /\ f[3] \in Topics
          BY <3>3
        <4> QED
          BY <3>3, <4>1 DEF Init
      <3> QED
        BY <3>1, <3>2, <3>3 DEF Init
    <2> QED
      BY <2>1 DEF EventsFollowLinks
  <1>3. \A w \in Workers : LinkStep(rpc[w])
    BY DEF Init, LinkStep, Idle
  <1> QED
    BY <1>1, <1>2, <1>3 DEF LinkInv

(* What a call that has published, or saved or removed a link, relies on   *)
(* stays true, whatever runs beside it, fails or crashes.                  *)
THEOREM LinksAreOrdered == Spec => []LinkInv
  BY InitLinkInv, NextLinkInv, TypeCorrect, PTL DEF Spec

(* The database links a client to a topic only after the broker has        *)
(* accepted the key of the topic for that client: NewTopicClient sends,    *)
(* then saves, whatever runs beside it, fails or crashes.                  *)
THEOREM LinksWereNotified == Spec => []LinkedClientsWereNotified
  <1>1. LinkInv => LinkedClientsWereNotified
    BY DEF LinkInv
  <1> QED
    BY <1>1, LinksAreOrdered, PTL

(* The event of a (un)subscription is dispatched only once the database    *)
(* has saved (removed) the link it announces.                              *)
THEOREM EventsAreHonest == Spec => []EventsFollowLinks
  <1>1. LinkInv => EventsFollowLinks
    BY DEF LinkInv
  <1> QED
    BY <1>1, LinksAreOrdered, PTL

=============================================================================
