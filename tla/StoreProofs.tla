----------------------------- MODULE StoreProofs -----------------------------
(***************************************************************************)
(* What the tables of the database promise, however the calls of E4Service *)
(* overlap: the keys of clients, the links of postgres, the monitored      *)
(* topics, and the registry they amount to.  Built on the names of rows    *)
(* that RowProofs settles.                                                 *)
(***************************************************************************)
EXTENDS RowProofs

-----------------------------------------------------------------------------
(* What the statements do to the rows they name.                           *)

(* The statement a call is at is the action it takes, unless it fails.     *)
LEMMA ByStatement ==
    ASSUME TypeOK, NEW w \in Workers, Handle(w)
    PROVE  /\ rpc[w] \in ActiveCalls
           /\ \/ DBFault(w)
              \/ /\ StepOf(rpc[w]) = "GetClient" => GetClient(w)
                 /\ StepOf(rpc[w]) = "GetPeer" => GetPeer(w)
                 /\ StepOf(rpc[w]) = "GetTopic" => GetTopic(w)
                 /\ StepOf(rpc[w]) = "FindClient" => FindClient(w)
                 /\ StepOf(rpc[w]) = "FindTopic" => FindTopic(w)
                 /\ StepOf(rpc[w]) = "WriteClient" => WriteClient(w)
                 /\ StepOf(rpc[w]) = "DeleteClient" => DeleteClient(w)
                 /\ StepOf(rpc[w]) = "Publish" => Publish(w)
                 /\ StepOf(rpc[w]) = "LinkClients" => LinkClients(w)
                 /\ StepOf(rpc[w]) = "UnlinkClients" => UnlinkClients(w)
                 /\ StepOf(rpc[w]) = "LinkClientTopic" => LinkClientTopic(w)
                 /\ StepOf(rpc[w]) = "UnlinkClientTopic" => UnlinkClientTopic(w)
                 /\ StepOf(rpc[w]) = "Dispatch" => Dispatch(w)
                 /\ StepOf(rpc[w]) = "WriteTopic" => WriteTopic(w)
                 /\ StepOf(rpc[w]) = "CountClients" => CountClients(w)
                 /\ StepOf(rpc[w]) = "CommitTx" => CommitTx(w)
                 /\ StepOf(rpc[w]) = "SubscribeToTopic" => SubscribeToTopic(w)
                 /\ StepOf(rpc[w]) = "UnsubscribeFromTopic" => UnsubscribeFromTopic(w)
                 /\ StepOf(rpc[w]) = "DeleteTopic" => DeleteTopic(w)
                 /\ StepOf(rpc[w]) = "CountLinked" => CountLinked(w)
                 /\ StepOf(rpc[w]) = "SendToAll" => ReadPage(w) \/ SendToNext(w) \/ EndOfPages(w)
  <1>1. \A step : At(w, step) => rpc[w] \in ActiveCalls /\ StepOf(rpc[w]) = step
    BY AtOK DEF StepOf
  <1>2. /\ GetClient(w) => At(w, "GetClient")
        /\ GetPeer(w) => At(w, "GetPeer")
        /\ GetTopic(w) => At(w, "GetTopic")
    BY DEF GetClient, GetPeer, GetTopic, Lookup
  <1>3. \A step, row, failures : Find(w, step, row, failures) => At(w, step)
    BY Zenon DEF Find
  <1>4. /\ FindClient(w) => At(w, "FindClient")
        /\ FindTopic(w) => At(w, "FindTopic")
    BY <1>3, Zenon DEF FindClient, FindTopic
  <1>5. /\ WriteClient(w) => At(w, "WriteClient")
        /\ DeleteClient(w) => At(w, "DeleteClient")
        /\ Publish(w) => At(w, "Publish")
        /\ LinkClients(w) => At(w, "LinkClients")
        /\ UnlinkClients(w) => At(w, "UnlinkClients")
    BY Zenon DEF WriteClient, DeleteClient, Publish, LinkClients, UnlinkClients
  <1>6. /\ LinkClientTopic(w) => At(w, "LinkClientTopic")
        /\ UnlinkClientTopic(w) => At(w, "UnlinkClientTopic")
        /\ Dispatch(w) => At(w, "Dispatch")
        /\ WriteTopic(w) => At(w, "WriteTopic")
        /\ CountClients(w) => At(w, "CountClients")
    BY Zenon DEF LinkClientTopic, UnlinkClientTopic, Dispatch, WriteTopic, CountClients
  <1>7. /\ CommitTx(w) => At(w, "CommitTx")
        /\ SubscribeToTopic(w) => At(w, "SubscribeToTopic")
        /\ UnsubscribeFromTopic(w) => At(w, "UnsubscribeFromTopic")
        /\ DeleteTopic(w) => At(w, "DeleteTopic")
        /\ CountLinked(w) => At(w, "CountLinked")
        /\ ReadPage(w) \/ SendToNext(w) \/ EndOfPages(w) => At(w, "SendToAll")
    BY Zenon DEF CommitTx, SubscribeToTopic, UnsubscribeFromTopic, DeleteTopic, CountLinked,
                 ReadPage, SendToNext, EndOfPages
  <1>8. DBFault(w) => \E step : At(w, step)
    BY DEF DBFault
  <1> QED
    BY <1>1, <1>2, <1>4, <1>5, <1>6, <1>7, <1>8, SMT DEF Handle

(* A call starts at its first statement, and holds no row.                 *)
LEMMA CallStarts ==
    ASSUME NEW w \in Workers, Call(w)
    PROVE  \E n : /\ rpc' = [rpc EXCEPT ![w] = n] /\ n.pc = 1 /\ n.op \in Ops
                 /\ n.client = NoRow /\ n.peer = NoRow /\ n.topic = NoRow /\ n.row = NoRow
  <1>1. PICK op \in Ops : \E a \in Arguments(op) :
           rpc' = [rpc EXCEPT ![w] = [Idle EXCEPT !.op = op, !.pc = 1, !.c = a.c, !.d = a.d, !.t = a.t,
                                                  !.key = CallKey(op, a.c)]]
    BY DEF Call
  <1>2. PICK a \in Arguments(op) :
           rpc' = [rpc EXCEPT ![w] = [Idle EXCEPT !.op = op, !.pc = 1, !.c = a.c, !.d = a.d, !.t = a.t,
                                                  !.key = CallKey(op, a.c)]]
    BY <1>1
  <1>3. PICK n : n = [Idle EXCEPT !.op = op, !.pc = 1, !.c = a.c, !.d = a.d, !.t = a.t, !.key = CallKey(op, a.c)]
    OBVIOUS
  <1>4. /\ n.pc = 1 /\ n.op = op /\ n.client = NoRow /\ n.peer = NoRow /\ n.topic = NoRow /\ n.row = NoRow
    BY <1>3 DEF Idle
  <1> QED
    BY <1>2, <1>3, <1>4

(* InsertClient writes one row, that of the client it was called for: a    *)
(* new one, or the row it found if that is still there.                    *)
LEMMA WrittenClient ==
    ASSUME TypeOK, RowInv, NEW w \in Workers, WriteClient(w)
    PROVE  LET r == rpc[w] IN
           /\ r \in ActiveCalls /\ r.op \in {"NewClient", "NewClientKey"} /\ r.c \in Names
           /\ \A c \in Names \ {r.c} : clients'[c] = clients[c]
           /\ \/ clients'[r.c] = clients[r.c]
              \/ /\ ~NewRecord(r.row)
                 /\ clients'[r.c] = [id |-> clients[r.c].id, key |-> r.key]
              \/ /\ NewRecord(r.row) /\ NewRecord(clients[r.c])
                 /\ clients'[r.c] = [id |-> nextId, key |-> r.key]
           /\ clients' = clients \/ trail' = trail \cup (IF r.op = "NewClient" THEN {<<"registered", r.c, r.key>>} ELSE {})
           /\ UNCHANGED <<topics, ctopics, cclients>>
  <1>1. PICK r : r = rpc[w]
    OBVIOUS
  <1>2. r \in ActiveCalls /\ Program(r.op)[r.pc] = "WriteClient" /\ r.c \in Names
    BY <1>1, AtOK, StatementOps DEF WriteClient
  <1>3. r.op \in {"NewClient", "NewClientKey"}
    <2>1. r.op \in AllOps /\ r.pc \in 1..Len(Program(r.op))
      BY <1>2, ProgramLength DEF ActiveCalls, Calls
    <2> QED
      BY <1>2, <2>1 DEF Program, Statements, AllOps, ClientOps, TopicOps, ClientTopicOps, PeerOps
  <1>4. clients \in [Names -> Row]
    BY DEF TypeOK, DBTypeOK
  <1>5. CASE NewRecord(r.row) /\ ~NewRecord(clients[r.c])
    BY <1>1, <1>2, <1>3, <1>5 DEF WriteClient, dbVars
  <1>6. CASE NewRecord(r.row) /\ NewRecord(clients[r.c])
    <2>1. CreateClient(r.c, r.key) /\ trail' = trail \cup (IF r.op = "NewClient" THEN {<<"registered", r.c, r.key>>} ELSE {})
      BY <1>1, <1>6 DEF WriteClient, Record
    <2> QED
      BY <1>1, <1>2, <1>3, <1>4, <1>6, <2>1 DEF CreateClient, NewClientId
  <1>7. CASE ~NewRecord(r.row)
    <2>1. UpdateClient(r.row, r.key) /\ trail' = trail \cup (IF r.op = "NewClient" THEN {<<"registered", r.c, r.key>>} ELSE {})
      BY <1>1, <1>7 DEF WriteClient, Record
    <2>2. \A c \in Names : clients[c].id = r.row.id => c = r.c
      BY <1>1, <1>3, <1>7 DEF RowInv, HeldRows, NewRecord, ClientOps
    <2>3. \A c \in Names : clients'[c] = IF clients[c].id = r.row.id
                                         THEN [id |-> r.row.id, key |-> r.key] ELSE clients[c]
      BY <2>1 DEF UpdateClient
    <2> QED
      BY <1>1, <1>2, <1>3, <1>7, <2>1, <2>2, <2>3 DEF UpdateClient
  <1> QED
    BY <1>5, <1>6, <1>7

-----------------------------------------------------------------------------
(* The keys of clients.                                                    *)

LEMMA KeyProgram ==
    ASSUME NEW r \in ActiveCalls, r.op = "NewClientKey"
    PROVE  /\ r.pc = 1 => StepOf(r) = "GetClient"
           /\ r.pc = 2 <=> StepOf(r) = "Publish"
           /\ r.pc = 3 <=> StepOf(r) = "FindClient"
           /\ r.pc = 4 <=> StepOf(r) = "WriteClient"
  <1>1. r.pc \in 1..Len(Program(r.op))
    BY ProgramLength DEF ActiveCalls, Calls
  <1> QED
    BY <1>1 DEF StepOf, Program, Statements

(* The call that goes on keeps its part of the invariant.                  *)
LEMMA KeyGoesOn ==
    ASSUME TypeOK, TypeOK', KeyInv, NEW w \in Workers, Handle(w)
    PROVE  \A v \in Workers : KeyAccepted(rpc[v])'
  <1>1. rpc[w] \in ActiveCalls /\ CallGoesOn(w) /\ trail \subseteq trail'
    BY HandleShape DEF Frame
  <1>2. PICK m \in ActiveCalls :
            /\ ReadBy(m, rpc[w])
            /\ \E n \in {Idle, Advance(m), m} : rpc' = [rpc EXCEPT ![w] = n]
    BY <1>1 DEF CallGoesOn
  <1>3. PICK n \in {Idle, Advance(m), m} : rpc' = [rpc EXCEPT ![w] = n]
    BY <1>2
  <1>4. /\ m.op = rpc[w].op /\ m.pc = rpc[w].pc /\ m.c = rpc[w].c /\ m.key = rpc[w].key
        /\ m.pc \in Nat /\ StepOf(m) = StepOf(rpc[w])
    BY <1>2 DEF ReadBy, ActiveCalls, Calls, StepOf
  <1>5. KeyAccepted(m)'
    BY <1>1, <1>4 DEF KeyInv, KeyAccepted
  <1>6. KeyAccepted(n)'
    <2>1. CASE n = Idle
      BY <2>1 DEF KeyAccepted, Idle
    <2>2. CASE n = m
      BY <1>5, <2>2
    <2>3. CASE n = Advance(m) /\ n # Idle
      <3>1. n.op = m.op /\ n.pc = m.pc + 1 /\ n.c = m.c /\ n.key = m.key
        BY <2>3, NextStatement
      <3>2. CASE m.op # "NewClientKey" \/ m.pc # 2
        BY <1>4, <1>5, <3>1, <3>2 DEF KeyAccepted
      <3>3. CASE m.op = "NewClientKey" /\ m.pc = 2
        <4>1. StepOf(rpc[w]) = "Publish"
          BY <1>4, <3>3, KeyProgram
        <4>2. rpc'[w] # Idle
          BY <1>3, <2>3 DEF TypeOK
        <4>3. CASE Publish(w)
          <5>1. Record(Accepted(rpc[w]))
            BY <4>2, <4>3 DEF Publish, TypeOK
          <5>2. <<"SetIDKey", rpc[w].c, rpc[w].key>> \in trail'
            BY <1>4, <3>3, <5>1 DEF Record, Accepted
          <5> QED
            BY <1>4, <3>1, <5>2 DEF KeyAccepted
        <4>4. CASE DBFault(w)
          BY <4>2, <4>4 DEF DBFault, Fail, TypeOK
        <4> QED
          BY <4>1, <4>3, <4>4, ByStatement
      <3> QED
        BY <3>2, <3>3
    <2> QED
      BY <2>1, <2>2, <2>3
  <1> SUFFICES ASSUME NEW v \in Workers PROVE KeyAccepted(rpc[v])'
    OBVIOUS
  <1>7. CASE v = w
    <2>1. rpc'[v] = n
      BY <1>3, <1>7 DEF TypeOK
    <2> QED
      BY <1>6, <2>1 DEF KeyAccepted
  <1>8. CASE v # w
    <2>1. rpc'[v] = rpc[v]
      BY <1>3, <1>8 DEF TypeOK
    <2> QED
      BY <1>1, <2>1 DEF KeyInv, KeyAccepted
  <1> QED
    BY <1>7, <1>8

(* The row a call writes holds a key the client was registered with, or    *)
(* one it has been sent.                                                   *)
LEMMA WrittenKey ==
    ASSUME TypeOK, TypeOK', RowInv, KeyInv, NEW w \in Workers, WriteClient(w)
    PROVE  StoredKeyWasHandedOver'
  <1>1. PICK r : r = rpc[w]
    OBVIOUS
  <1>2. /\ r \in ActiveCalls /\ r.op \in {"NewClient", "NewClientKey"} /\ r.c \in Names
        /\ \A c \in Names \ {r.c} : clients'[c] = clients[c]
        /\ clients'[r.c] = clients[r.c] \/ clients'[r.c].key = r.key
        /\ clients' = clients \/ trail' = trail \cup (IF r.op = "NewClient" THEN {<<"registered", r.c, r.key>>} ELSE {})
    <2>1. \/ clients'[r.c] = clients[r.c]
          \/ clients'[r.c] = [id |-> clients[r.c].id, key |-> r.key]
          \/ clients'[r.c] = [id |-> nextId, key |-> r.key]
      BY <1>1, WrittenClient
    <2> QED
      BY <1>1, <2>1, WrittenClient
  <1>3. trail \subseteq trail'
    BY DEF WriteClient, Record
  <1> SUFFICES ASSUME NEW c \in Names, ~NewRecord(clients[c])'
               PROVE  \E how \in {"registered", "SetIDKey"} : <<how, c, clients'[c].key>> \in trail'
    BY DEF StoredKeyWasHandedOver
  <1>4. CASE clients'[c] = clients[c]
    BY <1>3, <1>4 DEF KeyInv, StoredKeyWasHandedOver, NewRecord
  <1>5. CASE clients'[c] # clients[c]
    <2>1. c = r.c /\ clients'[c].key = r.key /\ clients' # clients
      BY <1>2, <1>5
    <2>2. CASE r.op = "NewClient"
      <3>1. <<"registered", r.c, r.key>> \in trail'
        BY <1>2, <2>1, <2>2
      <3> QED
        BY <2>1, <3>1
    <2>3. CASE r.op = "NewClientKey"
      <3>1. StepOf(r) = "WriteClient"
        BY <1>1, AtOK DEF WriteClient, StepOf
      <3>2. r.pc >= 3
        <4>1. r.pc \in Nat \ {0}
          BY <1>2 DEF ActiveCalls, Calls
        <4> QED
          BY <1>2, <2>3, <3>1, <4>1, KeyProgram
      <3>3. <<"SetIDKey", r.c, r.key>> \in trail
        BY <1>1, <2>3, <3>2 DEF KeyInv, KeyAccepted
      <3> QED
        BY <1>3, <2>1, <3>3
    <2> QED
      BY <1>2, <2>2, <2>3
  <1> QED
    BY <1>4, <1>5

LEMMA InitKeyInv == Init => KeyInv
  <1> SUFFICES ASSUME Init PROVE KeyInv
    OBVIOUS
  <1>1. \A w \in Workers : KeyAccepted(rpc[w])
    BY DEF Init, KeyAccepted, Idle
  <1>2. ASSUME NEW c \in Names, ~NewRecord(clients[c])
        PROVE  <<"registered", c, clients[c].key>> \in trail
    BY <1>2 DEF Init, DBInit, NoRow, NewRecord
  <1> QED
    BY <1>1, <1>2 DEF KeyInv, StoredKeyWasHandedOver

LEMMA NextKeyInv == TypeOK /\ TypeOK' /\ RowInv /\ KeyInv /\ [Next]_vars => KeyInv'
  <1> SUFFICES ASSUME TypeOK, TypeOK', RowInv, KeyInv, [Next]_vars PROVE KeyInv'
    OBVIOUS
  <1>1. ASSUME clients' = clients, trail \subseteq trail' PROVE StoredKeyWasHandedOver'
    BY <1>1 DEF KeyInv, StoredKeyWasHandedOver, NewRecord
  <1>2. ASSUME NEW w \in Workers, Handle(w) PROVE KeyInv'
    <2>1. StoredKeyWasHandedOver'
      <3>1. Frame(w) /\ rpc[w] \in ActiveCalls
        BY <1>2, HandleShape
      <3>2. CASE WriteClient(w)
        BY <3>2, WrittenKey
      <3>3. CASE DeleteClient(w)
        <4>1. \A c \in Names : clients'[c] = clients[c] \/ clients'[c] = NoRow
          BY <3>3 DEF DeleteClient, DeleteClientRow
        <4>2. trail' = trail
          BY <3>3 DEF DeleteClient
        <4> QED
          BY <4>1, <4>2 DEF KeyInv, StoredKeyWasHandedOver, NewRecord, NoRow
      <3>4. CASE DBFault(w)
        BY <1>1, <3>4 DEF DBFault, dbVars
      <3>5. CASE StepOf(rpc[w]) \notin {"WriteClient", "DeleteClient"}
        BY <1>1, <3>1, <3>5 DEF Frame
      <3> QED
        BY <1>2, <3>2, <3>3, <3>4, <3>5, ByStatement
    <2> QED
      BY <1>2, <2>1, KeyGoesOn DEF KeyInv
  <1>3. ASSUME NEW w \in Workers, Call(w) PROVE KeyInv'
    <2>1. clients' = clients /\ trail' = trail
      BY <1>3 DEF Call, dbVars
    <2>2. PICK n : rpc' = [rpc EXCEPT ![w] = n] /\ n.pc = 1
      BY <1>3, CallStarts
    <2>3. KeyAccepted(n)
      BY <2>2 DEF KeyAccepted
    <2>4. \A v \in Workers : rpc'[v] = rpc[v] \/ rpc'[v] = n
      BY <2>2 DEF TypeOK
    <2> QED
      BY <1>1, <2>1, <2>3, <2>4 DEF KeyInv, KeyAccepted
  <1>4. CASE Arrive \/ UNCHANGED vars
    <2>1. clients' = clients /\ trail' = trail /\ rpc' = rpc
      BY <1>4 DEF Arrive, vars, dbVars
    <2> QED
      BY <1>1, <2>1 DEF KeyInv, KeyAccepted
  <1>5. CASE Restart
    <2>1. clients' = clients /\ trail' = trail /\ \A v \in Workers : rpc'[v] = Idle
      BY <1>5 DEF Restart, dbVars
    <2> QED
      BY <1>1, <2>1 DEF KeyInv, KeyAccepted, Idle
  <1> QED
    BY <1>2, <1>3, <1>4, <1>5 DEF Next, Finished

(* Whatever the interleaving, crash or failure, the database holds no key  *)
(* for a client that the client was not given first.                       *)
THEOREM StoredKeysWereHandedOver == Spec => []StoredKeyWasHandedOver
  <1>1. KeyInv => StoredKeyWasHandedOver
    BY DEF KeyInv
  <1> QED
    BY <1>1, TypeCorrect, RowsKeepTheirNames, InitKeyInv, NextKeyInv, PTL DEF Spec

-----------------------------------------------------------------------------
(* The links of postgres.                                                  *)

(* What keeps the links without orphans: the clients they name stay, and a *)
(* new link names clients that are there.                                  *)
LEMMA OrphanFree ==
    ASSUME PostgresKeepsNoClientOrphans, LinkIds, LinkIds',
           \A c \in Names : clients[c].id # 0 => clients'[c].id = clients[c].id,
           Postgres => \A l \in ctopics' : l \in ctopics \/ ClientExists(l[1]),
           Postgres => \A l \in cclients' : l \in cclients \/ (ClientExists(l[1]) /\ ClientExists(l[2]))
    PROVE  PostgresKeepsNoClientOrphans'
  <1>1. \A id : id # 0 /\ ClientExists(id) => ClientExists(id)'
    BY DEF ClientExists
  <1>2. /\ \A l \in ctopics' : l[1] # 0
        /\ \A l \in cclients' : l[1] # 0 /\ l[2] # 0
    BY DEF LinkIds
  <1> QED
    BY <1>1, <1>2 DEF PostgresKeepsNoClientOrphans

LEMMA DeleteOrphanFree ==
    ASSUME TypeOK, RowInv, PostgresKeepsNoClientOrphans, NEW w \in Workers, DeleteClient(w)
    PROVE  PostgresKeepsNoClientOrphans'
  <1>1. PICK id : id = rpc[w].client.id
    OBVIOUS
  <1>2. /\ \A c \in Names : clients[c].id # id => clients'[c].id = clients[c].id
        /\ ctopics' = {l \in ctopics : l[1] # id}
        /\ Postgres => cclients' = {l \in cclients : l[1] # id /\ l[2] # id}
    BY <1>1 DEF DeleteClient, DeleteClientRow
  <1>3. \A other : other # id /\ ClientExists(other) => ClientExists(other)'
    BY <1>2 DEF ClientExists
  <1> QED
    BY <1>2, <1>3 DEF PostgresKeepsNoClientOrphans

LEMMA NextOrphans ==
    TypeOK /\ TypeOK' /\ RowInv /\ RowInv' /\ PostgresKeepsNoClientOrphans /\ [Next]_vars
      => PostgresKeepsNoClientOrphans'
  <1> SUFFICES ASSUME TypeOK, TypeOK', RowInv, RowInv', PostgresKeepsNoClientOrphans, [Next]_vars
               PROVE  PostgresKeepsNoClientOrphans'
    OBVIOUS
  <1>0. LinkIds /\ LinkIds'
    BY DEF RowInv
  <1>1. ASSUME clients' = clients, ctopics' \subseteq ctopics, cclients' \subseteq cclients
        PROVE  PostgresKeepsNoClientOrphans'
    BY <1>0, <1>1, OrphanFree
  <1>2. ASSUME NEW w \in Workers, Handle(w) PROVE PostgresKeepsNoClientOrphans'
    <2>1. Frame(w) /\ rpc[w] \in ActiveCalls
      BY <1>2, HandleShape
    <2>2. CASE WriteClient(w)
      <3>1. /\ \A c \in Names \ {rpc[w].c} : clients'[c] = clients[c]
            /\ clients[rpc[w].c].id # 0 => clients'[rpc[w].c].id = clients[rpc[w].c].id
            /\ ctopics' = ctopics /\ cclients' = cclients
        <4>1. \/ clients'[rpc[w].c] = clients[rpc[w].c]
              \/ clients'[rpc[w].c] = [id |-> clients[rpc[w].c].id, key |-> rpc[w].key]
              \/ NewRecord(clients[rpc[w].c])
          BY <2>2, WrittenClient
        <4>2. clients[rpc[w].c].id # 0 => clients'[rpc[w].c].id = clients[rpc[w].c].id
          BY <4>1 DEF NewRecord
        <4> QED
          BY <2>2, <4>2, WrittenClient
      <3> QED
        BY <1>0, <3>1, OrphanFree
    <2>3. CASE DeleteClient(w)
      BY <2>3, DeleteOrphanFree
    <2>4. CASE LinkClientTopic(w)
      <3>1. \/ dbVars' = dbVars
            \/ /\ CanLinkTopic(rpc[w].client)
               /\ LinkTopicRow(rpc[w].client, rpc[w].topic)
        BY <2>4 DEF LinkClientTopic
      <3>2. /\ clients' = clients /\ cclients' = cclients
            /\ Postgres => \A l \in ctopics' : l \in ctopics \/ ClientExists(l[1])
        BY <3>1 DEF LinkTopicRow, CanLinkTopic, dbVars
      <3> QED
        BY <1>0, <3>2, OrphanFree
    <2>5. CASE LinkClients(w)
      <3>1. \/ dbVars' = dbVars
            \/ /\ CanLinkClients(rpc[w].client, rpc[w].peer)
               /\ LinkClientRow(rpc[w].client, rpc[w].peer)
        BY <2>5 DEF LinkClients
      <3>2. /\ clients' = clients /\ ctopics' = ctopics
            /\ Postgres => \A l \in cclients' : l \in cclients \/ (ClientExists(l[1]) /\ ClientExists(l[2]))
        BY <3>1 DEF LinkClientRow, CanLinkClients, dbVars
      <3> QED
        BY <1>0, <3>2, OrphanFree
    <2>6. CASE UnlinkClientTopic(w) \/ UnlinkClients(w) \/ DeleteTopic(w)
      BY <1>1, <2>6 DEF UnlinkClientTopic, UnlinkTopicRow, UnlinkClients, UnlinkClientRow, DeleteTopic,
                        DeleteTopicRow, dbVars
    <2>7. CASE DBFault(w)
      BY <1>1, <2>7 DEF DBFault, dbVars
    <2>8. CASE StepOf(rpc[w]) \notin {"WriteClient", "DeleteClient", "LinkClientTopic", "LinkClients",
                                      "UnlinkClientTopic", "UnlinkClients", "DeleteTopic"}
      BY <1>1, <2>1, <2>8 DEF Frame
    <2> QED
      BY <1>2, <2>2, <2>3, <2>4, <2>5, <2>6, <2>7, <2>8, ByStatement
  <1>3. CASE (\E w \in Workers : Call(w)) \/ Arrive \/ Restart \/ UNCHANGED vars
    BY <1>1, <1>3 DEF Call, Arrive, Restart, vars, dbVars
  <1> QED
    BY <1>2, <1>3 DEF Next, Finished

LEMMA InitOrphans == Init => PostgresKeepsNoClientOrphans
  <1> SUFFICES ASSUME Init PROVE PostgresKeepsNoClientOrphans
    OBVIOUS
  <1>1. CASE Populated
    <2>1. \A c \in Names : clients[c].id = c
      BY <1>1 DEF Init, DBInit
    <2>2. ctopics \subseteq Names \X Topics /\ cclients \subseteq Names \X Names
      BY DEF Init, DBInit
    <2> QED
      BY <2>1, <2>2 DEF PostgresKeepsNoClientOrphans, ClientExists
  <1>2. CASE ~Populated
    BY <1>2 DEF Init, DBInit, PostgresKeepsNoClientOrphans
  <1> QED
    BY <1>1, <1>2

(* On postgres no link outlives a client it names, whatever is removed     *)
(* while the link is being made.                                           *)
THEOREM NoClientOrphansOnPostgres == Spec => []PostgresKeepsNoClientOrphans
  BY TypeCorrect, RowsKeepTheirNames, InitOrphans, NextOrphans, PTL DEF Spec

-----------------------------------------------------------------------------
(* The topics that are monitored.                                          *)

LEMMA TopicProgram ==
    ASSUME NEW r \in ActiveCalls
    PROVE  /\ r.op = "NewTopic" => /\ r.pc = 4 <=> StepOf(r) = "CommitTx"
                                   /\ r.pc = 5 <=> StepOf(r) = "SendToAll"
                                   /\ r.pc = 6 <=> StepOf(r) = "SubscribeToTopic"
           /\ r.op = "RemoveTopic" => /\ r.pc = 1 <=> StepOf(r) = "UnsubscribeFromTopic"
                                      /\ r.pc = 2 <=> StepOf(r) = "GetTopic"
                                      /\ r.pc = 3 <=> StepOf(r) = "DeleteTopic"
           /\ r.op = "NewTopic" /\ r.pc < 6 => Advance(r) = [r EXCEPT !.pc = r.pc + 1]
           /\ r.op = "RemoveTopic" /\ r.pc < 3 => Advance(r) = [r EXCEPT !.pc = r.pc + 1]
  <1>1. r.op \in AllOps /\ r.pc \in 1..Len(Program(r.op))
    BY ProgramLength DEF ActiveCalls, Calls
  <1> QED
    BY <1>1, SMTT(30) DEF StepOf, Program, Statements, Advance

(* A call that fails when the broker has seen part of it is reported.      *)
LEMMA FailIsReported ==
    ASSUME TypeOK, NEW w \in Workers, rpc[w] \in ActiveCalls, Fail(w), NEW t \in Topics, Announces(rpc[w], t)
    PROVE  t \in flaggedTopics'
  <1>1. t # 0
    BY DEF Topics
  <1>2. Touched(rpc[w])
    BY DEF Announces, Touched, Program, Statements
  <1> QED
    BY <1>1, <1>2 DEF Fail, Announces

(* What a step of one call leaves to the invariant.                        *)
LEMMA StillMonitored ==
    ASSUME TypeOK, MonInv, NEW w \in Workers, NEW n, rpc' = [rpc EXCEPT ![w] = n],
           subs \subseteq subs', flaggedTopics \subseteq flaggedTopics', topics' = topics,
           \A t \in Topics \ flaggedTopics' :
               Announces(rpc[w], t) /\ ~NewRecord(topics[t]) => t \in subs' \/ Announces(n, t)
    PROVE  MonInv'
  <1> SUFFICES ASSUME NEW t \in Topics, t \notin flaggedTopics', ~NewRecord(topics[t])
               PROVE  t \in subs' \/ \E v \in Workers : Announces(rpc[v], t)'
    BY DEF MonInv, NewRecord
  <1>1. rpc'[w] = n /\ \A v \in Workers \ {w} : rpc'[v] = rpc[v]
    BY DEF TypeOK
  <1>2. \A v \in Workers \ {w} : Announces(rpc[v], t) => Announces(rpc[v], t)'
    BY <1>1 DEF Announces
  <1>3. Announces(n, t) => Announces(rpc[w], t)'
    BY <1>1 DEF Announces
  <1>4. t \in subs \/ \E v \in Workers : Announces(rpc[v], t)
    BY DEF MonInv
  <1> QED
    BY <1>2, <1>3, <1>4

LEMMA SubscriptionMonitored ==
    ASSUME TypeOK, MonInv, NEW w \in Workers
    PROVE  SubscribeToTopic(w) \/ UnsubscribeFromTopic(w) => MonInv'
  <1>1. ASSUME SubscribeToTopic(w) PROVE MonInv'
    <2>1. rpc[w] \in ActiveCalls /\ StepOf(rpc[w]) = "SubscribeToTopic" /\ rpc[w].t \in Topics
      BY <1>1, AtOK, StatementOps DEF SubscribeToTopic, StepOf
    <2>2. PICK outcome \in Outcomes :
             /\ subs' = IF outcome = "fail" THEN subs ELSE subs \cup {rpc[w].t}
             /\ IF outcome = "ok" THEN Return(w, rpc[w]) ELSE Fail(w)
      BY <1>1 DEF SubscribeToTopic
    <2>3. PICK n : n = rpc'[w]
      OBVIOUS
    <2>4. rpc' = [rpc EXCEPT ![w] = n] /\ subs \subseteq subs' /\ flaggedTopics \subseteq flaggedTopics'
          /\ topics' = topics
      BY <1>1, <2>2, <2>3 DEF Return, Fail, TypeOK, SubscribeToTopic, dbVars
    <2>5. ASSUME NEW t \in Topics \ flaggedTopics', Announces(rpc[w], t) PROVE t \in subs'
      <3>1. CASE outcome = "ok"
        BY <2>2, <2>5, <3>1 DEF Announces
      <3>2. CASE outcome # "ok"
        BY <2>1, <2>2, <2>5, <3>2, FailIsReported
      <3> QED
        BY <3>1, <3>2
    <2> QED
      BY <2>4, <2>5, StillMonitored
  <1>2. ASSUME UnsubscribeFromTopic(w) PROVE MonInv'
    <2>1. /\ rpc[w] \in ActiveCalls /\ StepOf(rpc[w]) = "UnsubscribeFromTopic" /\ rpc[w].t \in Topics
          /\ rpc[w].op = "RemoveTopic"
      BY <1>2, AtOK, StatementOps, RowProgram DEF UnsubscribeFromTopic, StepOf
    <2>2. PICK n : n = Advance(rpc[w])
      OBVIOUS
    <2>3. /\ rpc' = [rpc EXCEPT ![w] = n] /\ topics' = topics /\ flaggedTopics \subseteq flaggedTopics'
          /\ subs \ {rpc[w].t} \subseteq subs'
      BY <1>2, <2>2 DEF UnsubscribeFromTopic, dbVars
    <2>4. n = [rpc[w] EXCEPT !.pc = 2] /\ n.op = "RemoveTopic" /\ n.pc = 2 /\ n.t = rpc[w].t
      <3>1. rpc[w].pc = 1
        BY <2>1, TopicProgram
      <3> QED
        BY <2>1, <2>2, <3>1, TopicProgram DEF ActiveCalls, Calls
    <2> SUFFICES ASSUME NEW t \in Topics, t \notin flaggedTopics', ~NewRecord(topics[t])
                 PROVE  t \in subs' \/ \E v \in Workers : Announces(rpc[v], t)'
      BY <2>3 DEF MonInv, NewRecord
    <2>5. rpc'[w] = n /\ \A v \in Workers \ {w} : rpc'[v] = rpc[v]
      BY <2>3 DEF TypeOK
    <2>6. CASE t = rpc[w].t
      BY <2>4, <2>5, <2>6 DEF Announces
    <2>7. CASE t # rpc[w].t
      <3>1. t \in subs \/ \E v \in Workers : Announces(rpc[v], t)
        BY <2>3 DEF MonInv
      <3>2. \A v \in Workers : Announces(rpc[v], t) => v # w /\ Announces(rpc[v], t)'
        BY <2>3, <2>5, <2>7 DEF Announces
      <3> QED
        BY <2>3, <2>7, <3>1, <3>2
    <2> QED
      BY <2>6, <2>7
  <1> QED
    BY <1>1, <1>2

LEMMA TopicRowMonitored ==
    ASSUME TypeOK, TypeOK', MonInv, NEW w \in Workers
    PROVE  CommitTx(w) \/ DeleteTopic(w) => MonInv'
  <1>0. topics \in [Topics -> Row]
    BY DEF TypeOK, DBTypeOK
  <1>1. ASSUME CommitTx(w) PROVE MonInv'
    <2>1. /\ rpc[w] \in ActiveCalls /\ StepOf(rpc[w]) = "CommitTx" /\ rpc[w].t \in Topics
          /\ rpc[w].op = "NewTopic"
      BY <1>1, AtOK, StatementOps, RowProgram DEF CommitTx, StepOf
    <2>2. PICK n : n = Advance(rpc[w])
      OBVIOUS
    <2>3. /\ rpc' = [rpc EXCEPT ![w] = n] /\ subs' = subs /\ flaggedTopics' = flaggedTopics
          /\ \A t \in Topics \ {rpc[w].t} : topics'[t] = topics[t]
      BY <1>0, <1>1, <2>1, <2>2 DEF CommitTx, Return
    <2>4. n.op = "NewTopic" /\ n.pc = 5 /\ n.t = rpc[w].t
      <3>1. rpc[w].pc = 4
        BY <2>1, TopicProgram
      <3> QED
        BY <2>1, <2>2, <3>1, TopicProgram DEF ActiveCalls, Calls
    <2>5. rpc'[w] = n /\ \A v \in Workers \ {w} : rpc'[v] = rpc[v]
      BY <2>3 DEF TypeOK
    <2> SUFFICES ASSUME NEW t \in Topics, t \notin flaggedTopics, ~NewRecord(topics'[t])
                 PROVE  t \in subs \/ \E v \in Workers : Announces(rpc[v], t)'
      BY <2>3 DEF MonInv, NewRecord
    <2>6. CASE t = rpc[w].t
      BY <2>4, <2>5, <2>6 DEF Announces
    <2>7. CASE t # rpc[w].t
      <3>1. t \in subs \/ \E v \in Workers : Announces(rpc[v], t)
        BY <2>3, <2>7 DEF MonInv
      <3>2. \A v \in Workers : Announces(rpc[v], t) => v # w /\ Announces(rpc[v], t)'
        BY <2>3, <2>5, <2>7 DEF Announces
      <3> QED
        BY <3>1, <3>2
    <2> QED
      BY <2>6, <2>7
  <1>2. ASSUME DeleteTopic(w) PROVE MonInv'
    <2>1. /\ rpc[w] \in ActiveCalls /\ StepOf(rpc[w]) = "DeleteTopic" /\ rpc[w].op = "RemoveTopic"
      BY <1>2, AtOK, RowProgram DEF DeleteTopic, StepOf
    <2>2. rpc[w].pc = 3
      BY <2>1, TopicProgram
    <2>3. PICK n : rpc' = [rpc EXCEPT ![w] = n]
      BY <1>2 DEF DeleteTopic, Return
    <2>4. /\ subs' = subs /\ flaggedTopics' = flaggedTopics
          /\ \A t \in Topics : topics'[t] = IF topics[t].id = rpc[w].topic.id THEN NoRow ELSE topics[t]
      BY <1>2 DEF DeleteTopic, Return, DeleteTopicRow
    <2>5. \A v \in Workers \ {w} : rpc'[v] = rpc[v]
      BY <2>3 DEF TypeOK
    <2> SUFFICES ASSUME NEW t \in Topics, t \notin flaggedTopics, ~NewRecord(topics'[t])
                 PROVE  t \in subs \/ \E v \in Workers : Announces(rpc[v], t)'
      BY <2>4 DEF MonInv, NewRecord
    <2>6. topics'[t] = topics[t] /\ topics[t].id # rpc[w].topic.id
      BY <2>4 DEF NewRecord, NoRow
    <2>7. t \in subs \/ \E v \in Workers : Announces(rpc[v], t)
      BY <2>6 DEF MonInv
    <2>8. \A v \in Workers : Announces(rpc[v], t) => v # w /\ Announces(rpc[v], t)'
      BY <2>1, <2>2, <2>5, <2>6 DEF Announces
    <2> QED
      BY <2>7, <2>8
  <1> QED
    BY <1>1, <1>2

(* Sending to the clients of a topic, and reading the topic to remove.     *)
LEMMA ReadMonitored ==
    ASSUME TypeOK, TypeOK', MonInv, NEW w \in Workers
    PROVE  GetTopic(w) \/ ReadPage(w) \/ SendToNext(w) \/ EndOfPages(w) => MonInv'
  <1>1. ASSUME GetTopic(w) PROVE MonInv'
    <2>1. /\ rpc[w] \in ActiveCalls /\ StepOf(rpc[w]) = "GetTopic" /\ rpc[w].t \in Topics
      BY <1>1, AtOK, StatementOps DEF GetTopic, Lookup, StepOf
    <2>2. PICK n : n = IF NewRecord(topics[rpc[w].t]) THEN Idle
                       ELSE Advance([rpc[w] EXCEPT !.topic = topics[rpc[w].t]])
      OBVIOUS
    <2>3. rpc' = [rpc EXCEPT ![w] = n] /\ topics' = topics /\ subs' = subs /\ flaggedTopics' = flaggedTopics
      BY <1>1, <2>2 DEF GetTopic, Lookup, dbVars
    <2>4. ASSUME NEW t \in Topics, Announces(rpc[w], t), ~NewRecord(topics[t]) PROVE Announces(n, t)
      <3>1. rpc[w].op = "RemoveTopic" /\ rpc[w].t = t /\ rpc[w].pc = 2
        <4>1. rpc[w].op \in {"NewTopic", "RemoveTopic"} /\ rpc[w].t = t
          BY <2>4 DEF Announces
        <4>2. rpc[w].op # "NewTopic"
          BY <2>1, <2>4, TopicProgram DEF Announces
        <4> QED
          BY <2>1, <4>1, <4>2, TopicProgram
      <3>2. PICK m : m = [rpc[w] EXCEPT !.topic = topics[rpc[w].t]]
        OBVIOUS
      <3>3. m \in ActiveCalls /\ m.op = "RemoveTopic" /\ m.t = t /\ m.pc = 2 /\ m.topic = topics[t]
        <4>1. topics[rpc[w].t] \in Row
          BY <2>1 DEF TypeOK, DBTypeOK
        <4>2. m \in ActiveCalls
          BY <2>1, <3>2, <4>1, LocalOK
        <4> QED
          BY <2>1, <3>1, <3>2, <4>2 DEF ActiveCalls, Calls
      <3>4. n = Advance(m)
        BY <2>2, <2>4, <3>1, <3>2
      <3>5. n = [m EXCEPT !.pc = 3]
        BY <3>3, <3>4, TopicProgram
      <3> QED
        BY <3>3, <3>5 DEF Announces, ActiveCalls, Calls
    <2> QED
      BY <2>3, <2>4, StillMonitored
  <1>2. ASSUME ReadPage(w) \/ SendToNext(w) \/ EndOfPages(w) PROVE MonInv'
    <2>1. /\ rpc[w] \in ActiveCalls /\ StepOf(rpc[w]) = "SendToAll"
      <3>1. At(w, "SendToAll")
        BY <1>2 DEF ReadPage, SendToNext, EndOfPages
      <3> QED
        BY <3>1, AtOK DEF StepOf
    <2>2. PICK n : n = rpc'[w]
      OBVIOUS
    <2>3. /\ topics' = topics /\ subs' = subs /\ flaggedTopics \subseteq flaggedTopics'
          /\ rpc' = [rpc EXCEPT ![w] = n]
          /\ n = Advance(rpc[w]) \/ (n.op = rpc[w].op /\ n.pc = rpc[w].pc /\ n.t = rpc[w].t /\ n.topic = rpc[w].topic)
      <3>1. CASE ReadPage(w)
        <4> DEFINE read == {[name |-> c, row |-> clients[c]] : c \in Page(Audience(rpc[w]), rpc[w].offset, BatchSize)}
        <4>1. /\ \/ rpc' = [rpc EXCEPT ![w] = NextPage(rpc[w])]
                 \/ rpc' = [rpc EXCEPT ![w] = [NextPage(rpc[w]) EXCEPT !.todo = read]]
              /\ topics' = topics /\ subs' = subs /\ flaggedTopics \subseteq flaggedTopics'
          BY <3>1 DEF ReadPage, dbVars
        <4> HIDE DEF read
        <4>2. PICK m : (m = NextPage(rpc[w]) \/ m = [NextPage(rpc[w]) EXCEPT !.todo = read])
                       /\ rpc' = [rpc EXCEPT ![w] = m]
          BY <4>1
        <4>3. n = m
          BY <2>2, <4>2 DEF TypeOK
        <4> QED
          BY <2>1, <4>1, <4>2, <4>3 DEF NextPage, ActiveCalls, Calls
      <3>2. CASE SendToNext(w)
        <4> DEFINE left == rpc[w].todo \ {CHOOSE x \in rpc[w].todo : \A y \in rpc[w].todo : x.name <= y.name}
        <4>1. rpc' = [rpc EXCEPT ![w] = [rpc[w] EXCEPT !.todo = left]]
              /\ topics' = topics /\ subs' = subs /\ flaggedTopics' = flaggedTopics
          BY <3>2 DEF SendToNext, TypeOK, dbVars
        <4> HIDE DEF left
        <4>2. PICK m : m = [rpc[w] EXCEPT !.todo = left]
          OBVIOUS
        <4>3. n = m
          BY <2>2, <4>1, <4>2 DEF TypeOK
        <4> QED
          BY <2>1, <4>1, <4>2, <4>3 DEF ActiveCalls, Calls
      <3>3. CASE EndOfPages(w)
        BY <2>2, <3>3 DEF EndOfPages, Return, TypeOK, dbVars
      <3> QED
        BY <1>2, <3>1, <3>2, <3>3
    <2>4. ASSUME NEW t \in Topics, Announces(rpc[w], t) PROVE Announces(n, t)
      <3>1. rpc[w].op = "NewTopic" /\ rpc[w].pc = 5 /\ rpc[w].t = t
        <4>1. rpc[w].op \in {"NewTopic", "NewClientKey"}
          BY <2>1, RowProgram DEF StepOf
        <4> QED
          BY <2>1, <2>4, <4>1, TopicProgram DEF Announces
      <3>2. CASE n = Advance(rpc[w])
        <4>1. n = [rpc[w] EXCEPT !.pc = 6]
          BY <2>1, <3>1, <3>2, TopicProgram
        <4> QED
          BY <2>1, <3>1, <4>1 DEF Announces, ActiveCalls, Calls
      <3>3. CASE n.op = rpc[w].op /\ n.pc = rpc[w].pc /\ n.t = rpc[w].t /\ n.topic = rpc[w].topic
        BY <3>1, <3>3 DEF Announces
      <3> QED
        BY <2>3, <3>2, <3>3
    <2> QED
      BY <2>3, <2>4, StillMonitored
  <1> QED
    BY <1>1, <1>2

LEMMA NextMonInv == TypeOK /\ TypeOK' /\ MonInv /\ [Next]_vars => MonInv'
  <1> SUFFICES ASSUME TypeOK, TypeOK', MonInv, [Next]_vars PROVE MonInv'
    OBVIOUS
  <1>1. ASSUME NEW w \in Workers, Handle(w) PROVE MonInv'
    <2>1. Frame(w) /\ rpc[w] \in ActiveCalls /\ CallGoesOn(w)
      BY <1>1, HandleShape
    <2>2. CASE DBFault(w)
      <3>1. PICK n : rpc' = [rpc EXCEPT ![w] = n]
        BY <2>2 DEF DBFault, Fail
      <3>2. topics' = topics /\ subs' = subs /\ flaggedTopics \subseteq flaggedTopics' /\ Fail(w)
        BY <2>2 DEF DBFault, Fail, dbVars
      <3>3. \A t \in Topics \ flaggedTopics' : ~Announces(rpc[w], t)
        BY <2>1, <3>2, FailIsReported
      <3> QED
        BY <3>1, <3>2, <3>3, StillMonitored
    <2>3. CASE SubscribeToTopic(w) \/ UnsubscribeFromTopic(w)
      BY <2>3, SubscriptionMonitored
    <2>4. CASE CommitTx(w) \/ DeleteTopic(w)
      BY <2>4, TopicRowMonitored
    <2>5. CASE GetTopic(w) \/ ReadPage(w) \/ SendToNext(w) \/ EndOfPages(w)
      BY <2>5, ReadMonitored
    <2>6. CASE StepOf(rpc[w]) \notin {"SubscribeToTopic", "UnsubscribeFromTopic", "CommitTx", "DeleteTopic",
                                      "GetTopic", "SendToAll"}
      <3>1. PICK n : rpc' = [rpc EXCEPT ![w] = n]
        BY <2>1 DEF CallGoesOn
      <3>2. topics' = topics /\ subs' = subs /\ flaggedTopics \subseteq flaggedTopics'
        BY <2>1, <2>6 DEF Frame
      <3>3. \A t \in Topics : ~Announces(rpc[w], t)
        BY <2>1, <2>6, TopicProgram DEF Announces
      <3> QED
        BY <3>1, <3>2, <3>3, StillMonitored
    <2> QED
      BY <1>1, <2>2, <2>3, <2>4, <2>5, <2>6, ByStatement
  <1>2. ASSUME NEW w \in Workers, Call(w) PROVE MonInv'
    <2>1. PICK n : rpc' = [rpc EXCEPT ![w] = n]
      BY <1>2, CallStarts
    <2>2. topics' = topics /\ subs' = subs /\ flaggedTopics' = flaggedTopics /\ rpc[w] = Idle
      BY <1>2 DEF Call, dbVars
    <2>3. \A t \in Topics : ~Announces(rpc[w], t)
      BY <2>2 DEF Announces, Idle
    <2> QED
      BY <2>1, <2>2, <2>3, StillMonitored
  <1>3. CASE Arrive \/ UNCHANGED vars
    <2>1. topics' = topics /\ subs' = subs /\ flaggedTopics' = flaggedTopics /\ rpc' = rpc
      BY <1>3 DEF Arrive, vars, dbVars
    <2> QED
      BY <2>1 DEF MonInv, Announces, NewRecord
  <1>4. CASE Restart
    <2>1. topics' = topics /\ subs' = {t \in Topics : ~NewRecord(topics[t])}
      BY <1>4 DEF Restart, dbVars
    <2> QED
      BY <2>1 DEF MonInv, NewRecord
  <1> QED
    BY <1>1, <1>2, <1>3, <1>4 DEF Next, Finished

LEMMA InitMonInv == Init => MonInv
  BY DEF Init, DBInit, MonInv, NewRecord, NoRow

(* Once the calls have returned, every topic that exists is monitored,     *)
(* unless a call about it reported an error; calls may have overlapped.    *)
THEOREM TopicsAreMonitored == Spec => []ExistingTopicsAreMonitored
  <1>1. MonInv => ExistingTopicsAreMonitored
    BY DEF MonInv, ExistingTopicsAreMonitored, AllIdle, Announces, Idle
  <1> QED
    BY <1>1, TypeCorrect, InitMonInv, NextMonInv, PTL DEF Spec

(* Whatever overlaps, fails or crashes: a call at a statement can rely on  *)
(* what its earlier ones have established, a row held is not taken for     *)
(* another, an unannounced topic is about to be announced.                 *)
THEOREM CallsMayOverlap == Spec => []OverlapInv
  BY TypeCorrect, LinksAreOrdered, RowsKeepTheirNames, InitKeyInv, NextKeyInv, InitMonInv, NextMonInv,
     PTL DEF Spec, OverlapInv

-----------------------------------------------------------------------------
(* The registry.                                                           *)

(* What Abstract puts for the variables of Registry.                       *)
Registered == {c \in Names : ~NewRecord(clients[c])}
Existing   == {t \in Topics : ~NewRecord(topics[t])}
Members    == {m \in Names \X Topics : m[1] \in ClientsForTopic(m[2])}
Pairs      == {p \in Names \X Names : ~NewRecord(clients[p[1]]) /\ p[2] \in LinkedClients(clients[p[1]])}

(* The same by primary keys.                                               *)
ByIds ==
    /\ \A c \in Names : c \in Registered <=> clients[c].id # 0
    /\ \A t \in Topics : t \in Existing <=> topics[t].id # 0
    /\ \A c \in Names, t \in Topics :
           <<c, t>> \in Members <=> clients[c].id # 0 /\ <<clients[c].id, topics[t].id>> \in ctopics
    /\ \A a, b \in Names :
           <<a, b>> \in Pairs <=> /\ clients[a].id # 0 /\ clients[b].id # 0
                                  /\ <<clients[a].id, clients[b].id>> \in cclients

LEMMA RegistryIds == ByIds /\ ByIds'
  BY DEF ByIds, Registered, Existing, Members, Pairs, ClientsForTopic, LinkedClients, NewRecord

(* The sets of the registry are equal when they have the same elements.    *)
LEMMA RegistrySets ==
    /\ Registered \subseteq Names /\ Registered' \subseteq Names
    /\ Existing \subseteq Topics /\ Existing' \subseteq Topics
    /\ Members \subseteq Names \X Topics /\ Members' \subseteq Names \X Topics
    /\ Pairs \subseteq Names \X Names /\ Pairs' \subseteq Names \X Names
  BY DEF Registered, Existing, Members, Pairs

LEMMA MembersAre ==
    ASSUME NEW S \in SUBSET (Names \X Topics), \A c \in Names, t \in Topics : <<c, t>> \in Members' <=> <<c, t>> \in S
    PROVE  Members' = S
  <1>1. \A m \in Names \X Topics : m \in Members' <=> m \in S
    <2>1. \A m \in Names \X Topics : \E c \in Names, t \in Topics : m = <<c, t>>
      OBVIOUS
    <2> QED
      BY <2>1
  <1> QED
    BY <1>1, RegistrySets

LEMMA PairsAre ==
    ASSUME NEW S \in SUBSET (Names \X Names), \A a, b \in Names : <<a, b>> \in Pairs' <=> <<a, b>> \in S
    PROVE  Pairs' = S
  <1>1. \A p \in Names \X Names : p \in Pairs' <=> p \in S
    <2>1. \A p \in Names \X Names : \E a, b \in Names : p = <<a, b>>
      OBVIOUS
    <2> QED
      BY <2>1
  <1> QED
    BY <1>1, RegistrySets

(* The operations of the registry, by the sets they change.                *)
LEMMA RegistryClients ==
    ASSUME NEW c \in Names, UNCHANGED Existing
    PROVE  /\ c \notin Registered /\ Registered' = Registered \cup {c} /\ UNCHANGED <<Members, Pairs>> => Abstract!Next
           /\ (/\ c \in Registered /\ Registered' = Registered \ {c}
               /\ Members' = {m \in Members : m[1] # c}
               /\ Pairs' = {p \in Pairs : p[1] # c /\ p[2] # c}) => Abstract!Next
  <1>1. c \notin Registered /\ Registered' = Registered \cup {c} /\ UNCHANGED <<Members, Pairs>> => Abstract!Register(c)
    BY DEF Abstract!Register, Registered, Existing, Members, Pairs
  <1>2. ASSUME c \in Registered, Registered' = Registered \ {c},
               Members' = {m \in Members : m[1] # c}, Pairs' = {p \in Pairs : p[1] # c /\ p[2] # c}
        PROVE  Abstract!Unregister(c)
    BY <1>2 DEF Abstract!Unregister, Registered, Existing, Members, Pairs
  <1>3. Abstract!Register(c) \/ Abstract!Unregister(c) => Abstract!Next
    BY DEF Abstract!Next
  <1> QED
    BY <1>1, <1>2, <1>3

LEMMA RegistryTopics ==
    ASSUME NEW t \in Topics, UNCHANGED <<Registered, Pairs>>
    PROVE  /\ t \notin Existing /\ Existing' = Existing \cup {t} /\ UNCHANGED Members => Abstract!Next
           /\ t \in Existing /\ Existing' = Existing \ {t} /\ Members' = {m \in Members : m[2] # t} => Abstract!Next
  <1>1. t \notin Existing /\ Existing' = Existing \cup {t} /\ UNCHANGED Members => Abstract!Create(t)
    BY DEF Abstract!Create, Registered, Existing, Members, Pairs
  <1>2. t \in Existing /\ Existing' = Existing \ {t} /\ Members' = {m \in Members : m[2] # t} => Abstract!Remove(t)
    BY DEF Abstract!Remove, Registered, Existing, Members, Pairs
  <1>3. Abstract!Create(t) \/ Abstract!Remove(t) => Abstract!Next
    BY DEF Abstract!Next
  <1> QED
    BY <1>1, <1>2, <1>3

LEMMA RegistryMembers ==
    ASSUME NEW c \in Names, NEW t \in Topics, UNCHANGED <<Registered, Existing, Pairs>>
    PROVE  /\ c \in Registered /\ t \in Existing /\ Members' = Members \cup {<<c, t>>} => Abstract!Next
           /\ Members' = Members \ {<<c, t>>} => Abstract!Next
  <1>1. c \in Registered /\ t \in Existing /\ Members' = Members \cup {<<c, t>>} => Abstract!Join(c, t)
    BY DEF Abstract!Join, Registered, Existing, Members, Pairs
  <1>2. Members' = Members \ {<<c, t>>} => Abstract!Leave(c, t)
    BY DEF Abstract!Leave, Registered, Existing, Members, Pairs
  <1>3. Abstract!Join(c, t) \/ Abstract!Leave(c, t) => Abstract!Next
    BY DEF Abstract!Next
  <1> QED
    BY <1>1, <1>2, <1>3

LEMMA RegistryPairs ==
    ASSUME NEW a \in Names, NEW b \in Names, UNCHANGED <<Registered, Existing, Members>>
    PROVE  /\ a \in Registered /\ b \in Registered /\ Pairs' = Pairs \cup {<<a, b>>} => Abstract!Next
           /\ Pairs' = Pairs \ {<<a, b>>} => Abstract!Next
  <1>1. a \in Registered /\ b \in Registered /\ Pairs' = Pairs \cup {<<a, b>>} => Abstract!Pair(a, b)
    BY DEF Abstract!Pair, Registered, Existing, Members, Pairs
  <1>2. Pairs' = Pairs \ {<<a, b>>} => Abstract!Unpair(a, b)
    BY DEF Abstract!Unpair, Registered, Existing, Members, Pairs
  <1>3. Abstract!Pair(a, b) \/ Abstract!Unpair(a, b) => Abstract!Next
    BY DEF Abstract!Next
  <1> QED
    BY <1>1, <1>2, <1>3

LEMMA RegistryStutters ==
    UNCHANGED <<Registered, Existing, Members, Pairs>> => UNCHANGED Abstract!vars
  BY DEF Registered, Existing, Members, Pairs, Abstract!vars

LEMMA InitRegistry == Init => Abstract!Init
  <1> SUFFICES ASSUME Init PROVE Abstract!Init
    OBVIOUS
  <1>1. LinkIds
    BY InitRowInv DEF RowInv
  <1>2. \A c \in Names, t \in Topics : <<c, t>> \in Members => c \in Registered /\ t \in Existing
    <2>1. \A l \in ctopics : l[2] # 0
      BY <1>1 DEF LinkIds
    <2> QED
      BY <2>1, RegistryIds DEF ByIds
  <1>3. \A a, b \in Names : <<a, b>> \in Pairs => a \in Registered /\ b \in Registered
    BY RegistryIds DEF ByIds
  <1>4. Members \subseteq Registered \X Existing /\ Pairs \subseteq Registered \X Registered
    BY <1>2, <1>3 DEF Members, Pairs
  <1>5. Registered \subseteq Names /\ Existing \subseteq Topics
    BY DEF Registered, Existing
  <1> QED
    BY <1>4, <1>5 DEF Abstract!Init, Abstract!TypeOK, Registered, Existing, Members, Pairs

(* A step that changes neither the primary keys nor the links.             *)
LEMMA RegistryQuiet ==
    ASSUME \A c \in Names : clients'[c].id = clients[c].id,
           \A t \in Topics : topics'[t].id = topics[t].id,
           ctopics' = ctopics, cclients' = cclients
    PROVE  UNCHANGED Abstract!vars
  <1>1. /\ \A c \in Names : c \in Registered' <=> c \in Registered
        /\ \A t \in Topics : t \in Existing' <=> t \in Existing
    BY RegistryIds DEF ByIds
  <1>5. ASSUME NEW c \in Names, NEW t \in Topics PROVE <<c, t>> \in Members' <=> <<c, t>> \in Members
    <2>1. /\ <<c, t>> \in Members' <=> clients'[c].id # 0 /\ <<clients'[c].id, topics'[t].id>> \in ctopics'
          /\ <<c, t>> \in Members <=> clients[c].id # 0 /\ <<clients[c].id, topics[t].id>> \in ctopics
      BY RegistryIds DEF ByIds
    <2> QED
      BY <2>1
  <1>6. ASSUME NEW a \in Names, NEW b \in Names PROVE <<a, b>> \in Pairs' <=> <<a, b>> \in Pairs
    <2>1. /\ <<a, b>> \in Pairs' <=> /\ clients'[a].id # 0 /\ clients'[b].id # 0
                                     /\ <<clients'[a].id, clients'[b].id>> \in cclients'
          /\ <<a, b>> \in Pairs <=> /\ clients[a].id # 0 /\ clients[b].id # 0
                                    /\ <<clients[a].id, clients[b].id>> \in cclients
      BY RegistryIds DEF ByIds
    <2> QED
      BY <2>1
  <1>2. Registered' = Registered /\ Existing' = Existing
    BY <1>1, RegistrySets
  <1>3. Members' = Members
    BY <1>5, MembersAre, RegistrySets
  <1>4. Pairs' = Pairs
    BY <1>6, PairsAre, RegistrySets
  <1> QED
    BY <1>2, <1>3, <1>4, RegistryStutters

(* A client that is created has a primary key no link names.               *)
LEMMA WriteClientRegistry ==
    ASSUME TypeOK, RowInv, NEW w \in Workers, WriteClient(w)
    PROVE  Abstract!Next \/ UNCHANGED Abstract!vars
  <1>0. /\ nextId \in Nat \ {0} /\ UniqueIds /\ LinkIds
        /\ ctopics \subseteq Nat \X Nat /\ cclients \subseteq Nat \X Nat
    BY DEF RowInv, TypeOK, DBTypeOK
  <1>1. PICK c \in Names : c = rpc[w].c
    BY WrittenClient
  <1>2. /\ \A b \in Names \ {c} : clients'[b] = clients[b]
        /\ topics' = topics /\ ctopics' = ctopics /\ cclients' = cclients
    BY <1>1, WrittenClient
  <1>3. \/ clients'[c].id = clients[c].id
        \/ clients[c].id = 0 /\ clients'[c].id = nextId
    <2>1. \/ clients'[c] = clients[c]
          \/ clients'[c] = [id |-> clients[c].id, key |-> rpc[w].key]
          \/ NewRecord(clients[c]) /\ clients'[c] = [id |-> nextId, key |-> rpc[w].key]
      BY <1>1, WrittenClient
    <2> QED
      BY <2>1 DEF NewRecord
  <1>4. CASE clients'[c].id = clients[c].id
    <2>1. \A b \in Names : clients'[b].id = clients[b].id
      BY <1>2, <1>4
    <2> QED
      BY <1>2, <2>1, RegistryQuiet
  <1>5. CASE clients[c].id = 0 /\ clients'[c].id = nextId
    <2>1. /\ \A l \in ctopics : l[1] # nextId
          /\ \A l \in cclients : l[1] # nextId /\ l[2] # nextId
      BY <1>0 DEF LinkIds
    <2>2. /\ \A b \in Names : b \in Registered' <=> b \in Registered \/ b = c
          /\ c \notin Registered
          /\ \A t \in Topics : t \in Existing' <=> t \in Existing
      BY <1>0, <1>2, <1>5, RegistryIds DEF ByIds
    <2>3. \A b \in Names, t \in Topics : <<b, t>> \in Members' <=> <<b, t>> \in Members
      BY <1>2, <1>5, <2>1, RegistryIds DEF ByIds
    <2>4. \A a, b \in Names : <<a, b>> \in Pairs' <=> <<a, b>> \in Pairs
      <3>1. PICK id : id = nextId
        OBVIOUS
      <3>2. /\ \A b \in Names : clients'[b].id = IF b = c THEN id ELSE clients[b].id
            /\ \A l \in cclients : l[1] # id /\ l[2] # id
        BY <1>2, <1>5, <2>1, <3>1
      <3>3. /\ \A b \in Names : <<clients'[c].id, clients'[b].id>> \notin cclients
            /\ \A b \in Names : <<clients'[b].id, clients'[c].id>> \notin cclients
        BY <3>2
      <3>4. \A a, b \in Names : <<a, b>> \in Pairs' => <<a, b>> \in Pairs
        <4>1. SUFFICES ASSUME NEW a \in Names, NEW b \in Names, <<a, b>> \in Pairs' PROVE <<a, b>> \in Pairs
          OBVIOUS
        <4>2. clients'[a].id # 0 /\ clients'[b].id # 0 /\ <<clients'[a].id, clients'[b].id>> \in cclients
          BY <1>2, <4>1, RegistryIds DEF ByIds
        <4>3. a # c /\ b # c
          BY <3>3, <4>2
        <4> QED
          BY <3>2, <4>2, <4>3, RegistryIds DEF ByIds
      <3>5. \A a, b \in Names : <<a, b>> \in Pairs => <<a, b>> \in Pairs'
        <4>1. SUFFICES ASSUME NEW a \in Names, NEW b \in Names, <<a, b>> \in Pairs PROVE <<a, b>> \in Pairs'
          OBVIOUS
        <4>2. clients[a].id # 0 /\ clients[b].id # 0 /\ <<clients[a].id, clients[b].id>> \in cclients
          BY <4>1, RegistryIds DEF ByIds
        <4>3. clients'[a].id = clients[a].id /\ clients'[b].id = clients[b].id
          BY <1>5, <3>2, <4>2
        <4> QED
          BY <1>2, <4>2, <4>3, RegistryIds DEF ByIds
      <3> QED
        BY <3>4, <3>5
    <2>5. Registered' = Registered \cup {c} /\ Existing' = Existing
      BY <2>2, RegistrySets
    <2>6. Members' = Members
      BY <2>3, MembersAre, RegistrySets
    <2>7. Pairs' = Pairs
      BY <2>4, PairsAre, RegistrySets
    <2> QED
      BY <2>2, <2>5, <2>6, <2>7, RegistryClients
  <1> QED
    BY <1>3, <1>4, <1>5

(* A client goes with its links, those between clients too: sqlite keeps   *)
(* them, but no row will have their primary key again.                     *)
LEMMA DeleteClientRegistry ==
    ASSUME TypeOK, RowInv, NEW w \in Workers, DeleteClient(w)
    PROVE  Abstract!Next \/ UNCHANGED Abstract!vars
  <1>0. UniqueIds /\ LinkIds
    BY DEF RowInv
  <1>1. PICK id : id = rpc[w].client.id
    OBVIOUS
  <1>2. /\ \A c \in Names : clients'[c].id = IF clients[c].id = id THEN 0 ELSE clients[c].id
        /\ topics' = topics
        /\ ctopics' = {l \in ctopics : l[1] # id}
        /\ cclients' \in {cclients, {l \in cclients : l[1] # id /\ l[2] # id}}
    BY <1>1 DEF DeleteClient, DeleteClientRow, NoRow
  <1>3. \A c \in Names, t \in Topics :
            <<c, t>> \in Members' <=> <<c, t>> \in Members /\ clients[c].id # id
    <2> SUFFICES ASSUME NEW c \in Names, NEW t \in Topics
                 PROVE  <<c, t>> \in Members' <=> <<c, t>> \in Members /\ clients[c].id # id
      OBVIOUS
    <2>1. /\ <<c, t>> \in Members' <=> clients'[c].id # 0 /\ <<clients'[c].id, topics'[t].id>> \in ctopics'
          /\ <<c, t>> \in Members <=> clients[c].id # 0 /\ <<clients[c].id, topics[t].id>> \in ctopics
      BY RegistryIds DEF ByIds
    <2> QED
      BY <1>2, <2>1
  <1>4. \A a, b \in Names :
            <<a, b>> \in Pairs' <=> <<a, b>> \in Pairs /\ clients[a].id # id /\ clients[b].id # id
    <2> SUFFICES ASSUME NEW a \in Names, NEW b \in Names
                 PROVE  <<a, b>> \in Pairs' <=> <<a, b>> \in Pairs /\ clients[a].id # id /\ clients[b].id # id
      OBVIOUS
    <2>1. /\ <<a, b>> \in Pairs' <=> /\ clients'[a].id # 0 /\ clients'[b].id # 0
                                     /\ <<clients'[a].id, clients'[b].id>> \in cclients'
          /\ <<a, b>> \in Pairs <=> /\ clients[a].id # 0 /\ clients[b].id # 0
                                    /\ <<clients[a].id, clients[b].id>> \in cclients
      BY RegistryIds DEF ByIds
    <2> QED
      BY <1>2, <2>1
  <1>5. /\ \A c \in Names : c \in Registered' <=> c \in Registered /\ clients[c].id # id
        /\ \A t \in Topics : t \in Existing' <=> t \in Existing
    BY <1>2, RegistryIds DEF ByIds
  <1>6. CASE \E c \in Names : clients[c].id = id /\ id # 0
    <2>1. PICK c \in Names : clients[c].id = id /\ id # 0
      BY <1>6
    <2>2. \A b \in Names : clients[b].id = id <=> b = c
      BY <1>0, <2>1 DEF UniqueIds, NewRecord
    <2>3. Registered' = Registered \ {c} /\ Existing' = Existing /\ c \in Registered
      BY <1>5, <2>1, <2>2, RegistrySets, RegistryIds DEF ByIds
    <2>4. Members' = {m \in Members : m[1] # c}
      <3>1. PICK S : S = {m \in Members : m[1] # c}
        OBVIOUS
      <3>2. \A b \in Names, t \in Topics : <<b, t>> \in S <=> <<b, t>> \in Members /\ b # c
        BY <3>1
      <3>3. S \in SUBSET (Names \X Topics)
        BY <3>1, RegistrySets
      <3>4. \A b \in Names, t \in Topics : <<b, t>> \in Members' <=> <<b, t>> \in S
        BY <1>3, <2>2, <3>2
      <3> QED
        BY <3>1, <3>3, <3>4, MembersAre
    <2>5. Pairs' = {p \in Pairs : p[1] # c /\ p[2] # c}
      <3>1. PICK S : S = {p \in Pairs : p[1] # c /\ p[2] # c}
        OBVIOUS
      <3>2. \A a, b \in Names : <<a, b>> \in S <=> <<a, b>> \in Pairs /\ a # c /\ b # c
        BY <3>1
      <3>3. S \in SUBSET (Names \X Names)
        BY <3>1, RegistrySets
      <3>4. \A a, b \in Names : <<a, b>> \in Pairs' <=> <<a, b>> \in S
        BY <1>4, <2>2, <3>2
      <3> QED
        BY <3>1, <3>3, <3>4, PairsAre
    <2> QED
      BY <2>3, <2>4, <2>5, RegistryClients
  <1>7. CASE ~\E c \in Names : clients[c].id = id /\ id # 0
    <2>1. \A c \in Names : clients[c].id = id => c \notin Registered
      BY <1>7, RegistryIds DEF ByIds
    <2>2. /\ \A c \in Names, t \in Topics : <<c, t>> \in Members => clients[c].id # id
          /\ \A a, b \in Names : <<a, b>> \in Pairs => clients[a].id # id /\ clients[b].id # id
      BY <1>7, RegistryIds DEF ByIds
    <2>3. Registered' = Registered /\ Existing' = Existing
      BY <1>5, <2>1, RegistrySets
    <2>4. Members' = Members
      BY <1>3, <2>2, MembersAre, RegistrySets
    <2>5. Pairs' = Pairs
      BY <1>4, <2>2, PairsAre, RegistrySets
    <2> QED
      BY <2>3, <2>4, <2>5, RegistryStutters
  <1> QED
    BY <1>6, <1>7

(* NewTopic writes the row it found, or one that is new to everyone.       *)
LEMMA CommitRegistry ==
    ASSUME TypeOK, RowInv, NEW w \in Workers, CommitTx(w)
    PROVE  Abstract!Next \/ UNCHANGED Abstract!vars
  <1>0. topics \in [Topics -> Row]
    BY DEF TypeOK, DBTypeOK
  <1>1. /\ rpc[w] \in ActiveCalls /\ StepOf(rpc[w]) = "CommitTx" /\ rpc[w].t \in Topics
        /\ rpc[w].op = "NewTopic"
    BY AtOK, StatementOps, RowProgram DEF CommitTx, StepOf
  <1>2. PICK t \in Topics : t = rpc[w].t
    BY <1>1
  <1>3. /\ clients' = clients /\ ctopics' = ctopics /\ cclients' = cclients
        /\ topics' = IF NewRecord(rpc[w].topic) THEN topics ELSE [topics EXCEPT ![t] = rpc[w].topic]
    BY <1>2 DEF CommitTx
  <1>4. CASE NewRecord(rpc[w].topic)
    BY <1>3, <1>4, RegistryQuiet
  <1>5. CASE ~NewRecord(rpc[w].topic)
    <2>1. InTx(rpc[w])
      BY <1>1, <1>5, TopicProgram DEF InTx
    <2>2. /\ \A s \in Topics \ {t} : topics'[s] = topics[s]
          /\ topics'[t] = rpc[w].topic /\ rpc[w].topic.id # 0
      BY <1>0, <1>3, <1>5 DEF NewRecord
    <2>3. CASE topics[t].id = rpc[w].topic.id
      <3>1. \A s \in Topics : topics'[s].id = topics[s].id
        BY <2>2, <2>3
      <3> QED
        BY <1>3, <3>1, RegistryQuiet
    <2>4. CASE topics[t].id # rpc[w].topic.id
      <3>1. NewRecord(topics[t]) /\ \A l \in ctopics : l[2] # rpc[w].topic.id
        BY <1>2, <2>1, <2>4 DEF RowInv, TxInv, TxAlone, Unseen
      <3>2. \A l \in ctopics : l[2] # 0
        BY DEF RowInv, LinkIds
      <3>3. /\ \A s \in Topics : s \in Existing' <=> s \in Existing \/ s = t
            /\ t \notin Existing
            /\ \A c \in Names : c \in Registered' <=> c \in Registered
        BY <1>3, <2>2, <3>1, RegistryIds DEF ByIds, NewRecord
      <3>4. \A c \in Names, s \in Topics : <<c, s>> \in Members' <=> <<c, s>> \in Members
        <4>1. \A c \in Names : <<clients[c].id, topics[t].id>> \notin ctopics /\ <<clients[c].id, topics'[t].id>> \notin ctopics
          BY <2>2, <3>1, <3>2 DEF NewRecord
        <4>2. \A c \in Names, s \in Topics : <<clients'[c].id, topics'[s].id>> \in ctopics' <=>
                                              <<clients[c].id, topics[s].id>> \in ctopics
          BY <1>3, <2>2, <4>1
        <4> QED
          BY <1>3, <4>2, RegistryIds DEF ByIds
      <3>5. \A a, b \in Names : <<a, b>> \in Pairs' <=> <<a, b>> \in Pairs
        BY <1>3, RegistryIds DEF ByIds
      <3>6. Registered' = Registered /\ Existing' = Existing \cup {t}
        BY <3>3, RegistrySets
      <3>7. Members' = Members
        BY <3>4, MembersAre, RegistrySets
      <3>8. Pairs' = Pairs
        BY <3>5, PairsAre, RegistrySets
      <3> QED
        BY <3>3, <3>6, <3>7, <3>8, RegistryTopics
    <2> QED
      BY <2>3, <2>4
  <1> QED
    BY <1>4, <1>5

LEMMA DeleteTopicRegistry ==
    ASSUME TypeOK, RowInv, NEW w \in Workers, DeleteTopic(w)
    PROVE  Abstract!Next \/ UNCHANGED Abstract!vars
  <1>0. UniqueIds /\ \A l \in ctopics : l[2] # 0
    BY DEF RowInv, LinkIds
  <1>1. PICK id : id = rpc[w].topic.id
    OBVIOUS
  <1>2. /\ \A t \in Topics : topics'[t].id = IF topics[t].id = id THEN 0 ELSE topics[t].id
        /\ clients' = clients /\ cclients' = cclients
        /\ ctopics' = {l \in ctopics : l[2] # id}
    BY <1>1 DEF DeleteTopic, DeleteTopicRow, NoRow
  <1>3. \A c \in Names, t \in Topics :
            <<c, t>> \in Members' <=> <<c, t>> \in Members /\ topics[t].id # id
    BY <1>0, <1>2, RegistryIds DEF ByIds
  <1>4. \A a, b \in Names : <<a, b>> \in Pairs' <=> <<a, b>> \in Pairs
    BY <1>2, RegistryIds DEF ByIds
  <1>5. /\ \A c \in Names : c \in Registered' <=> c \in Registered
        /\ \A t \in Topics : t \in Existing' <=> t \in Existing /\ topics[t].id # id
    BY <1>2, RegistryIds DEF ByIds
  <1>6. Registered' = Registered /\ Pairs' = Pairs
    <2>1. Registered' = Registered
      BY <1>5, RegistrySets
    <2>2. Pairs' = Pairs
      BY <1>4, PairsAre, RegistrySets
    <2> QED
      BY <2>1, <2>2
  <1>7. CASE \E t \in Topics : topics[t].id = id /\ id # 0
    <2>1. PICK t \in Topics : topics[t].id = id /\ id # 0
      BY <1>7
    <2>2. \A s \in Topics : topics[s].id = id <=> s = t
      BY <1>0, <2>1 DEF UniqueIds, NewRecord
    <2>3. Existing' = Existing \ {t} /\ t \in Existing
      BY <1>5, <2>1, <2>2, RegistrySets, RegistryIds DEF ByIds
    <2>4. Members' = {m \in Members : m[2] # t}
      <3>1. PICK S : S = {m \in Members : m[2] # t}
        OBVIOUS
      <3>2. \A c \in Names, s \in Topics : <<c, s>> \in S <=> <<c, s>> \in Members /\ s # t
        BY <3>1
      <3>3. S \in SUBSET (Names \X Topics)
        BY <3>1, RegistrySets
      <3>4. \A c \in Names, s \in Topics : <<c, s>> \in Members' <=> <<c, s>> \in S
        BY <1>3, <2>2, <3>2
      <3> QED
        BY <3>1, <3>3, <3>4, MembersAre
    <2> QED
      BY <1>6, <2>3, <2>4, RegistryTopics
  <1>8. CASE ~\E t \in Topics : topics[t].id = id /\ id # 0
    <2>1. /\ \A t \in Topics : t \in Existing => topics[t].id # id
          /\ \A c \in Names, t \in Topics : <<c, t>> \in Members => topics[t].id # id
      BY <1>0, <1>8, RegistryIds DEF ByIds
    <2>2. Existing' = Existing
      BY <1>5, <2>1, RegistrySets
    <2>3. Members' = Members
      BY <1>3, <2>1, MembersAre, RegistrySets
    <2> QED
      BY <1>6, <2>2, <2>3, RegistryStutters
  <1> QED
    BY <1>7, <1>8

(* A link is of the one client and the one topic that have its primary     *)
(* keys, or of rows that are gone.                                         *)
LEMMA TopicLinkRegistry ==
    ASSUME RowInv, RowInv', NEW i, NEW j, clients' = clients, topics' = topics, cclients' = cclients,
           ctopics' = ctopics \cup {<<i, j>>} \/ ctopics' = ctopics \ {<<i, j>>}
    PROVE  Abstract!Next \/ UNCHANGED Abstract!vars
  <1>0. UniqueIds /\ (\A l \in ctopics : l[2] # 0) /\ (\A l \in ctopics' : l[2] # 0)
    BY DEF RowInv, LinkIds
  <1>1. Registered' = Registered /\ Existing' = Existing /\ Pairs' = Pairs
    BY DEF Registered, Existing, Pairs, LinkedClients, NewRecord
  <1>2. CASE \E c \in Names, t \in Topics : clients[c].id = i /\ i # 0 /\ topics[t].id = j /\ j # 0
    <2>1. PICK c \in Names, t \in Topics : clients[c].id = i /\ i # 0 /\ topics[t].id = j /\ j # 0
      BY <1>2
    <2>2. \A b \in Names, s \in Topics : <<clients[b].id, topics[s].id>> = <<i, j>> <=> <<b, s>> = <<c, t>>
      BY <1>0, <2>1 DEF UniqueIds, NewRecord
    <2>3. c \in Registered /\ t \in Existing
      BY <2>1, RegistryIds DEF ByIds
    <2>4. CASE ctopics' = ctopics \cup {<<i, j>>}
      <3>1. PICK S : S = Members \cup {<<c, t>>}
        OBVIOUS
      <3>2. \A b \in Names, s \in Topics : <<b, s>> \in Members' <=> <<b, s>> \in S
        <4>1. \A b \in Names, s \in Topics : <<clients[b].id, topics[s].id>> \in ctopics' <=>
                 <<clients[b].id, topics[s].id>> \in ctopics \/ <<b, s>> = <<c, t>>
          BY <2>2, <2>4
        <4>2. \A b \in Names, s \in Topics : <<b, s>> \in S <=> <<b, s>> \in Members \/ <<b, s>> = <<c, t>>
          BY <3>1
        <4>3. \A b \in Names, s \in Topics : <<b, s>> = <<c, t>> => clients[b].id # 0
          BY <2>1
        <4> SUFFICES ASSUME NEW b \in Names, NEW s \in Topics PROVE <<b, s>> \in Members' <=> <<b, s>> \in S
          OBVIOUS
        <4>4. /\ <<b, s>> \in Members' <=> clients[b].id # 0 /\ <<clients[b].id, topics[s].id>> \in ctopics'
              /\ <<b, s>> \in Members <=> clients[b].id # 0 /\ <<clients[b].id, topics[s].id>> \in ctopics
          BY RegistryIds DEF ByIds
        <4> QED
          BY <4>1, <4>2, <4>3, <4>4
      <3>3. S \in SUBSET (Names \X Topics)
        BY <3>1, RegistrySets
      <3> QED
        BY <1>1, <2>3, <3>1, <3>2, <3>3, MembersAre, RegistryMembers
    <2>5. CASE ctopics' = ctopics \ {<<i, j>>}
      <3>1. PICK S : S = Members \ {<<c, t>>}
        OBVIOUS
      <3>2. \A b \in Names, s \in Topics : <<b, s>> \in Members' <=> <<b, s>> \in S
        <4>1. \A b \in Names, s \in Topics : <<clients[b].id, topics[s].id>> \in ctopics' <=>
                 <<clients[b].id, topics[s].id>> \in ctopics /\ <<b, s>> # <<c, t>>
          BY <2>2, <2>5
        <4>2. \A b \in Names, s \in Topics : <<b, s>> \in S <=> <<b, s>> \in Members /\ <<b, s>> # <<c, t>>
          BY <3>1
        <4> QED
          BY <4>1, <4>2, RegistryIds DEF ByIds
      <3>3. S \in SUBSET (Names \X Topics)
        BY <3>1, RegistrySets
      <3> QED
        BY <1>1, <3>1, <3>2, <3>3, MembersAre, RegistryMembers
    <2> QED
      BY <2>4, <2>5
  <1>3. CASE ~\E c \in Names, t \in Topics : clients[c].id = i /\ i # 0 /\ topics[t].id = j /\ j # 0
    <2>1. \A c \in Names, t \in Topics : clients[c].id # 0 /\ <<clients[c].id, topics[t].id>> = <<i, j>> =>
              <<i, j>> \notin ctopics /\ <<i, j>> \notin ctopics'
      BY <1>0, <1>3
    <2>2. \A c \in Names, t \in Topics : <<c, t>> \in Members' <=> <<c, t>> \in Members
      BY <2>1, RegistryIds DEF ByIds
    <2>3. Members' = Members
      BY <2>2, MembersAre, RegistrySets
    <2> QED
      BY <1>1, <2>3, RegistryStutters
  <1> QED
    BY <1>2, <1>3

LEMMA ClientLinkRegistry ==
    ASSUME RowInv, NEW i, NEW j, clients' = clients, topics' = topics, ctopics' = ctopics,
           cclients' = cclients \cup {<<i, j>>} \/ cclients' = cclients \ {<<i, j>>}
    PROVE  Abstract!Next \/ UNCHANGED Abstract!vars
  <1>0. UniqueIds
    BY DEF RowInv
  <1>1. Registered' = Registered /\ Existing' = Existing /\ Members' = Members
    BY DEF Registered, Existing, Members, ClientsForTopic, NewRecord
  <1>2. CASE \E a, b \in Names : clients[a].id = i /\ i # 0 /\ clients[b].id = j /\ j # 0
    <2>1. PICK a, b \in Names : clients[a].id = i /\ i # 0 /\ clients[b].id = j /\ j # 0
      BY <1>2
    <2>2. \A c, d \in Names : <<clients[c].id, clients[d].id>> = <<i, j>> <=> <<c, d>> = <<a, b>>
      BY <1>0, <2>1 DEF UniqueIds, NewRecord
    <2>3. a \in Registered /\ b \in Registered
      BY <2>1, RegistryIds DEF ByIds
    <2>4. CASE cclients' = cclients \cup {<<i, j>>}
      <3>1. PICK S : S = Pairs \cup {<<a, b>>}
        OBVIOUS
      <3>2. \A c, d \in Names : <<c, d>> \in Pairs' <=> <<c, d>> \in S
        <4>1. \A c, d \in Names : <<clients[c].id, clients[d].id>> \in cclients' <=>
                 <<clients[c].id, clients[d].id>> \in cclients \/ <<c, d>> = <<a, b>>
          BY <2>2, <2>4
        <4>2. \A c, d \in Names : <<c, d>> \in S <=> <<c, d>> \in Pairs \/ <<c, d>> = <<a, b>>
          BY <3>1
        <4>3. \A c, d \in Names : <<c, d>> = <<a, b>> => clients[c].id # 0 /\ clients[d].id # 0
          BY <2>1
        <4> SUFFICES ASSUME NEW c \in Names, NEW d \in Names PROVE <<c, d>> \in Pairs' <=> <<c, d>> \in S
          OBVIOUS
        <4>4. /\ <<c, d>> \in Pairs' <=> /\ clients[c].id # 0 /\ clients[d].id # 0
                                         /\ <<clients[c].id, clients[d].id>> \in cclients'
              /\ <<c, d>> \in Pairs <=> /\ clients[c].id # 0 /\ clients[d].id # 0
                                        /\ <<clients[c].id, clients[d].id>> \in cclients
          BY RegistryIds DEF ByIds
        <4> QED
          BY <4>1, <4>2, <4>3, <4>4
      <3>3. S \in SUBSET (Names \X Names)
        BY <3>1, RegistrySets
      <3> QED
        BY <1>1, <2>3, <3>1, <3>2, <3>3, PairsAre, RegistryPairs
    <2>5. CASE cclients' = cclients \ {<<i, j>>}
      <3>1. PICK S : S = Pairs \ {<<a, b>>}
        OBVIOUS
      <3>2. \A c, d \in Names : <<c, d>> \in Pairs' <=> <<c, d>> \in S
        <4>1. \A c, d \in Names : <<clients[c].id, clients[d].id>> \in cclients' <=>
                 <<clients[c].id, clients[d].id>> \in cclients /\ <<c, d>> # <<a, b>>
          BY <2>2, <2>5
        <4>2. \A c, d \in Names : <<c, d>> \in S <=> <<c, d>> \in Pairs /\ <<c, d>> # <<a, b>>
          BY <3>1
        <4> SUFFICES ASSUME NEW c \in Names, NEW d \in Names PROVE <<c, d>> \in Pairs' <=> <<c, d>> \in S
          OBVIOUS
        <4>4. /\ <<c, d>> \in Pairs' <=> /\ clients[c].id # 0 /\ clients[d].id # 0
                                         /\ <<clients[c].id, clients[d].id>> \in cclients'
              /\ <<c, d>> \in Pairs <=> /\ clients[c].id # 0 /\ clients[d].id # 0
                                        /\ <<clients[c].id, clients[d].id>> \in cclients
          BY RegistryIds DEF ByIds
        <4> QED
          BY <4>1, <4>2, <4>4
      <3>3. S \in SUBSET (Names \X Names)
        BY <3>1, RegistrySets
      <3> QED
        BY <1>1, <3>1, <3>2, <3>3, PairsAre, RegistryPairs
    <2> QED
      BY <2>4, <2>5
  <1>3. CASE ~\E a, b \in Names : clients[a].id = i /\ i # 0 /\ clients[b].id = j /\ j # 0
    <2>1. \A a, b \in Names : clients[a].id # 0 /\ clients[b].id # 0 => <<clients[a].id, clients[b].id>> # <<i, j>>
      BY <1>3
    <2>2. \A a, b \in Names : <<a, b>> \in Pairs' <=> <<a, b>> \in Pairs
      BY <2>1, RegistryIds DEF ByIds
    <2>3. Pairs' = Pairs
      BY <2>2, PairsAre, RegistrySets
    <2> QED
      BY <1>1, <2>3, RegistryStutters
  <1> QED
    BY <1>2, <1>3

LEMMA NextRegistry ==
    ASSUME TypeOK, TypeOK', RowInv, RowInv', [Next]_vars
    PROVE  [Abstract!Next]_(Abstract!vars)
  <1>1. ASSUME dbVars' = dbVars PROVE UNCHANGED Abstract!vars
    BY <1>1, RegistryQuiet DEF dbVars
  <1>2. ASSUME NEW w \in Workers, Handle(w) PROVE Abstract!Next \/ UNCHANGED Abstract!vars
    <2>1. Frame(w) /\ rpc[w] \in ActiveCalls
      BY <1>2, HandleShape
    <2>2. CASE WriteClient(w)
      BY <2>2, WriteClientRegistry
    <2>3. CASE DeleteClient(w)
      BY <2>3, DeleteClientRegistry
    <2>4. CASE CommitTx(w)
      BY <2>4, CommitRegistry
    <2>5. CASE DeleteTopic(w)
      BY <2>5, DeleteTopicRegistry
    <2>6. CASE LinkClientTopic(w) \/ UnlinkClientTopic(w)
      <3>1. PICK i, j : <<i, j>> = <<rpc[w].client.id, rpc[w].topic.id>>
        OBVIOUS
      <3>2. \/ dbVars' = dbVars
            \/ /\ clients' = clients /\ topics' = topics /\ cclients' = cclients
               /\ ctopics' = ctopics \cup {<<i, j>>} \/ ctopics' = ctopics \ {<<i, j>>}
        BY <2>6, <3>1 DEF LinkClientTopic, UnlinkClientTopic, LinkTopicRow, UnlinkTopicRow
      <3> QED
        BY <1>1, <3>2, TopicLinkRegistry
    <2>7. CASE LinkClients(w) \/ UnlinkClients(w)
      <3>1. PICK i, j : <<i, j>> = <<rpc[w].peer.id, rpc[w].client.id>>
        OBVIOUS
      <3>2. \/ dbVars' = dbVars
            \/ /\ clients' = clients /\ topics' = topics /\ ctopics' = ctopics
               /\ cclients' = cclients \cup {<<i, j>>} \/ cclients' = cclients \ {<<i, j>>}
        BY <2>7, <3>1 DEF LinkClients, UnlinkClients, LinkClientRow, UnlinkClientRow
      <3> QED
        BY <1>1, <3>2, ClientLinkRegistry
    <2>8. CASE DBFault(w)
      BY <1>1, <2>8 DEF DBFault
    <2>9. CASE StepOf(rpc[w]) \notin {"WriteClient", "DeleteClient", "CommitTx", "DeleteTopic", "LinkClientTopic",
                                      "UnlinkClientTopic", "LinkClients", "UnlinkClients"}
      <3>1. clients' = clients /\ topics' = topics /\ ctopics' = ctopics /\ cclients' = cclients
        BY <2>1, <2>9 DEF Frame
      <3> QED
        BY <3>1, RegistryQuiet
    <2> QED
      BY <1>2, <2>2, <2>3, <2>4, <2>5, <2>6, <2>7, <2>8, <2>9, ByStatement
  <1>3. CASE (\E w \in Workers : Call(w)) \/ Arrive \/ Restart \/ UNCHANGED vars
    <2>1. dbVars' = dbVars
      BY <1>3 DEF Call, Arrive, Restart, vars, dbVars
    <2> QED
      BY <1>1, <2>1
  <1> QED
    BY <1>2, <1>3 DEF Next, Finished

(* Refinement: however the calls overlap, fail and crash, what a reader of *)
(* the database sees is a registry whose operations take effect at once.   *)
THEOREM RegistryIsImplemented == Spec => ImplementsRegistry
  <1>1. TypeOK /\ TypeOK' /\ RowInv /\ RowInv' /\ [Next]_vars => [Abstract!Next]_(Abstract!vars)
    BY NextRegistry
  <1> QED
    BY <1>1, InitRegistry, TypeCorrect, RowsKeepTheirNames, PTL DEF Spec, ImplementsRegistry, Abstract!Spec
=============================================================================
