---------------------------- MODULE ApartProofs -----------------------------
(***************************************************************************)
(* What E4Service promises of calls that are kept apart: whatever fails,   *)
(* times out or restarts, no device, topic or subscription is left behind  *)
(* the database without an error that says so.  The theorems are for every *)
(* number of workers, clients, topics and calls, and every batch size.     *)
(*                                                                         *)
(* The proof follows each call in progress: what it relies on is kept by   *)
(* its own statements, and by those of any call that is not in its way.    *)
(* Four invariants say what that is of the topic a call works on, of the   *)
(* key of its client, of the clients it has still to send to, and of those *)
(* it has already sent a public key to.                                    *)
(***************************************************************************)
EXTENDS StoreProofs

-----------------------------------------------------------------------------
(* Calls that are kept apart.                                              *)

LEMMA ApartKept == ApartSpec => Spec /\ []Apart
  <1>1. Init => Apart
    BY DEF Init, Apart, InTheWay, Idle
  <1>2. Apart /\ [Next /\ Apart']_vars => Apart'
    <2>1. Apart /\ UNCHANGED vars => Apart'
      BY DEF vars, dbVars, Apart, InTheWay, Audience, ClientsForTopic, LinkedClients, NewRecord
    <2> QED
      BY <2>1
  <1>3. [Next /\ Apart']_vars => [Next]_vars
    OBVIOUS
  <1> QED
    BY <1>1, <1>2, <1>3, PTL DEF ApartSpec, Spec

OneCall == \A v, w \in Workers : v = w

(* Calls that do not overlap at all, which is to say with one worker, are  *)
(* kept apart: what is shown below holds of calls one at a time.           *)
THEOREM OneCallIsApart == ASSUME OneCall PROVE Spec => ApartSpec
  <1>1. [Next]_vars => [Next /\ Apart']_vars
    BY DEF OneCall, Apart
  <1> QED
    BY <1>1, PTL DEF Spec, ApartSpec

(* What no other call is about while one is in progress.                   *)
LEMMA OtherCalls ==
    ASSUME Apart, NEW v \in Workers, NEW w \in Workers, v # w, NEW r, r = rpc[v], NEW s, s = rpc[w]
    PROVE  /\ r.op = "NewTopic" \/ s.op = "NewTopic" => r.t # s.t
           /\ r.op = "NewClientKey" => r.c \notin {s.c, s.d}
           /\ s.op = "NewClientKey" => s.c \notin {r.c, r.d}
           /\ Broadcasts(r) /\ s.op \in {"RemoveClient", "NewClientKey"} => s.c \notin Audience(r)
           /\ Broadcasts(r) /\ r.op = "NewClientKey" /\ s.op = "ResetClientPubKeys" => s.c \notin Audience(r)
  BY DEF Apart, InTheWay

(* A step of one call leaves the others where they are.                    *)
LEMMA OthersStay ==
    ASSUME TypeOK, NEW w \in Workers, NEW n, rpc' = [rpc EXCEPT ![w] = n]
    PROVE  rpc'[w] = n /\ \A v \in Workers \ {w} : rpc'[v] = rpc[v]
  BY DEF TypeOK

LEMMA OneMoves ==
    ASSUME TypeOK, TypeOK', NEW w \in Workers, Handle(w), NEW v \in Workers, v # w
    PROVE  rpc'[v] = rpc[v]
  <1>1. PICK n : rpc' = [rpc EXCEPT ![w] = n]
    BY HandleShape DEF CallGoesOn
  <1> QED
    BY <1>1, OthersStay

(* The step of a call that is not its end.                                 *)
LEMMA GoesOn ==
    ASSUME NEW r \in ActiveCalls, Advance(r) # Idle
    PROVE  /\ Advance(r).op = r.op /\ Advance(r).pc = r.pc + 1 /\ r.pc \in Nat \ {0}
           /\ Advance(r).c = r.c /\ Advance(r).d = r.d /\ Advance(r).t = r.t /\ Advance(r).key = r.key
           /\ Advance(r).client = r.client /\ Advance(r).peer = r.peer
           /\ Advance(r).topic = r.topic /\ Advance(r).row = r.row
           /\ Advance(r).count = r.count /\ Advance(r).offset = r.offset /\ Advance(r).todo = r.todo
  BY DEF Advance, ActiveCalls, Calls

(* A handler: the call, what its statement has read, and the call after.   *)
LEMMA CallStep ==
    ASSUME TypeOK, TypeOK', NEW w \in Workers, Handle(w)
    PROVE  \E m \in ActiveCalls, n \in {Idle} \cup ActiveCalls :
              /\ ReadBy(m, rpc[w]) /\ rpc' = [rpc EXCEPT ![w] = n] /\ rpc'[w] = n
              /\ n = Advance(m) \/ n = Idle \/ (n = m /\ StepOf(rpc[w]) = "SendToAll")
  <1>1. CallGoesOn(w)
    BY HandleShape
  <1>2. PICK m \in ActiveCalls :
            /\ ReadBy(m, rpc[w])
            /\ \E n \in {Idle, Advance(m)} \cup (IF StepOf(rpc[w]) = "SendToAll" THEN {m} ELSE {}) :
                  rpc' = [rpc EXCEPT ![w] = n]
    BY <1>1 DEF CallGoesOn
  <1>3. PICK n \in {Idle, Advance(m)} \cup (IF StepOf(rpc[w]) = "SendToAll" THEN {m} ELSE {}) :
                  rpc' = [rpc EXCEPT ![w] = n]
    BY <1>2
  <1>4. rpc'[w] = n /\ n \in {Idle} \cup ActiveCalls
    BY <1>2, <1>3, AdvanceOK DEF TypeOK
  <1> QED
    BY <1>2, <1>3, <1>4

(* Where the statements of the handlers below stand.                       *)
LEMMA HandlerProgram ==
    ASSUME NEW r \in ActiveCalls
    PROVE  /\ r.pc \in Nat \ {0}
           /\ r.op = "NewTopic" => /\ r.pc \in 1..6 /\ r.t \in Topics
                                   /\ r.pc = 1 <=> StepOf(r) = "FindTopic"
                                   /\ r.pc = 2 <=> StepOf(r) = "WriteTopic"
                                   /\ r.pc = 3 <=> StepOf(r) = "CountClients"
                                   /\ r.pc = 4 <=> StepOf(r) = "CommitTx"
                                   /\ r.pc = 5 <=> StepOf(r) = "SendToAll"
                                   /\ r.pc = 6 <=> StepOf(r) = "SubscribeToTopic"
           /\ r.op = "RemoveTopic" => /\ r.pc \in 1..3 /\ r.t \in Topics
                                      /\ r.pc = 1 <=> StepOf(r) = "UnsubscribeFromTopic"
                                      /\ r.pc = 2 <=> StepOf(r) = "GetTopic"
                                      /\ r.pc = 3 <=> StepOf(r) = "DeleteTopic"
           /\ r.op = "NewTopicClient" => /\ r.pc \in 1..5 /\ r.t \in Topics /\ r.c \in Names
                                         /\ r.pc = 1 <=> StepOf(r) = "GetClient"
                                         /\ r.pc = 2 <=> StepOf(r) = "GetTopic"
                                         /\ r.pc = 3 <=> StepOf(r) = "Publish"
                                         /\ r.pc = 4 <=> StepOf(r) = "LinkClientTopic"
                                         /\ r.pc = 5 <=> StepOf(r) = "Dispatch"
           /\ r.op = "NewClient" => /\ r.pc \in 1..2 /\ r.c \in Names
                                    /\ r.pc = 1 <=> StepOf(r) = "FindClient"
                                    /\ r.pc = 2 <=> StepOf(r) = "WriteClient"
           /\ r.op = "NewClientKey" => /\ r.pc \in 1..6 /\ r.c \in Names
                                       /\ r.pc = 1 <=> StepOf(r) = "GetClient"
                                       /\ r.pc = 2 <=> StepOf(r) = "Publish"
                                       /\ r.pc = 3 <=> StepOf(r) = "FindClient"
                                       /\ r.pc = 4 <=> StepOf(r) = "WriteClient"
                                       /\ r.pc = 5 <=> StepOf(r) = "CountLinked"
                                       /\ r.pc = 6 <=> StepOf(r) = "SendToAll"
  <1>1. r.op \in AllOps /\ r.pc \in 1..Len(Program(r.op)) /\ [c |-> r.c, d |-> r.d, t |-> r.t] \in Arguments(r.op)
    BY ProgramLength DEF ActiveCalls, Calls
  <1>2. /\ r.op \in ClientOps => r.c \in Names
        /\ r.op \in ClientTopicOps => r.c \in Names /\ r.t \in Topics
        /\ r.op \in TopicOps => r.t \in Topics
    BY <1>1 DEF Arguments, ClientOps, ClientTopicOps, TopicOps
  <1>3. CASE r.op = "NewTopic"
    BY <1>1, <1>2, <1>3, SMTT(20) DEF StepOf, Program, Statements, TopicOps
  <1>4. CASE r.op = "RemoveTopic"
    BY <1>1, <1>2, <1>4, SMTT(20) DEF StepOf, Program, Statements, TopicOps
  <1>5. CASE r.op = "NewTopicClient"
    BY <1>1, <1>2, <1>5, SMTT(20) DEF StepOf, Program, Statements, ClientTopicOps
  <1>6. CASE r.op = "NewClient"
    BY <1>1, <1>2, <1>6, SMTT(20) DEF StepOf, Program, Statements, ClientOps
  <1>7. CASE r.op = "NewClientKey"
    BY <1>1, <1>2, <1>7, SMTT(20) DEF StepOf, Program, Statements, ClientOps
  <1>8. r.pc \in Nat \ {0}
    BY DEF ActiveCalls, Calls
  <1> QED
    BY <1>3, <1>4, <1>5, <1>6, <1>7, <1>8

-----------------------------------------------------------------------------
(* What a command does to a device.                                        *)

LEMMA ApplyIs ==
    ASSUME NEW d \in Devices, NEW cmd \in Commands
    PROVE  /\ Apply(d, cmd).key = IF cmd.type = "SetIDKey" THEN cmd.key ELSE d.key
           /\ \A t \in Topics : Apply(d, cmd).topics[t] =
                 IF cmd.type = "SetTopicKey" /\ cmd.name = t THEN cmd.key
                 ELSE IF cmd.type = "ResetTopics" \/ (cmd.type = "RemoveTopic" /\ cmd.name = t) THEN 0
                 ELSE d.topics[t]
           /\ \A p \in Names : Apply(d, cmd).pubs[p] =
                 IF cmd.type = "SetPubKey" /\ cmd.name = p THEN cmd.key
                 ELSE IF cmd.type = "ResetPubKeys" \/ (cmd.type = "RemovePubKey" /\ cmd.name = p) THEN 0
                 ELSE d.pubs[p]
  <1>1. CASE cmd.type = "SetIDKey"
    BY <1>1 DEF Apply, Devices, Commands
  <1>2. CASE cmd.type = "SetTopicKey"
    BY <1>2 DEF Apply, Devices, Commands
  <1>3. CASE cmd.type = "RemoveTopic"
    BY <1>3 DEF Apply, Devices, Commands
  <1>4. CASE cmd.type = "ResetTopics"
    BY <1>4 DEF Apply, Devices, Commands
  <1>5. CASE cmd.type = "SetPubKey"
    BY <1>5 DEF Apply, Devices, Commands
  <1>6. CASE cmd.type = "RemovePubKey"
    BY <1>6 DEF Apply, Devices, Commands
  <1>7. CASE cmd.type = "ResetPubKeys"
    BY <1>7 DEF Apply, Devices, Commands
  <1> QED
    BY <1>1, <1>2, <1>3, <1>4, <1>5, <1>6, <1>7 DEF Commands

LEMMA ReceivedIs ==
    ASSUME TypeOK, NEW m \in Messages, NEW c \in Names
    PROVE  Received(m)[c] = IF c = m.to /\ dev[c].key = m.under THEN Apply(dev[c], m.cmd) ELSE dev[c]
  <1>1. dev \in [Names -> Devices] /\ m.to \in Names
    BY DEF TypeOK, Messages
  <1> QED
    BY <1>1 DEF Received

-----------------------------------------------------------------------------
(* What a call relies on while others go on.                               *)

(* The topic of a call: another call can only remove it, and not even that *)
(* while it is given a new key.                                            *)
LEMMA OtherTopics ==
    ASSUME TypeOK, TypeOK', RowInv, Apart, NEW v \in Workers, NEW w \in Workers, v # w, Handle(w),
           NEW r, r = rpc[v], r.t \in Topics
    PROVE  /\ topics'[r.t] \in {topics[r.t], NoRow}
           /\ r.op = "NewTopic" => /\ topics'[r.t].id = topics[r.t].id
                                   /\ ~NewRecord(topics[r.t]) => topics'[r.t] = topics[r.t]
           /\ r.t \notin subs \ flaggedTopics => r.t \notin subs' \ flaggedTopics'
  <1>1. PICK s : s = rpc[w]
    OBVIOUS
  <1>2. s \in ActiveCalls /\ Frame(w) /\ topics \in [Topics -> Row]
    BY <1>1, HandleShape DEF TypeOK, DBTypeOK
  <1>3. r.op = "NewTopic" \/ s.op = "NewTopic" => r.t # s.t
    BY <1>1, OtherCalls
  <1>4. CASE CommitTx(w)
    <2>1. StepOf(s) = "CommitTx" /\ s.op = "NewTopic"
      BY <1>1, <1>2, <1>4, AtOK, RowProgram DEF CommitTx, StepOf
    <2>2. topics'[r.t] = topics[r.t]
      BY <1>1, <1>2, <1>3, <1>4, <2>1 DEF CommitTx
    <2>3. subs' = subs /\ flaggedTopics \subseteq flaggedTopics'
      BY <1>1, <1>2, <2>1 DEF Frame
    <2> QED
      BY <2>2, <2>3
  <1>5. CASE DeleteTopic(w)
    <2>1. topics'[r.t] = IF topics[r.t].id = s.topic.id THEN NoRow ELSE topics[r.t]
      BY <1>1, <1>5 DEF DeleteTopic, DeleteTopicRow
    <2>2. r.op = "NewTopic" /\ ~NewRecord(topics[r.t]) => topics[r.t].id # s.topic.id
      BY <1>1, <1>3 DEF RowInv, HeldRows
    <2>3. subs' = subs /\ flaggedTopics \subseteq flaggedTopics'
      BY <1>2, <1>5 DEF DeleteTopic, Frame
    <2> QED
      BY <2>1, <2>2, <2>3 DEF NewRecord, NoRow
  <1>6. CASE SubscribeToTopic(w)
    <2>1. StepOf(s) = "SubscribeToTopic" /\ s.op = "NewTopic"
      BY <1>1, <1>2, <1>6, AtOK, RowProgram DEF SubscribeToTopic, StepOf
    <2>2. subs' \subseteq subs \cup {s.t} /\ topics' = topics /\ flaggedTopics \subseteq flaggedTopics'
      BY <1>1, <1>2, <1>6 DEF SubscribeToTopic, dbVars, Frame
    <2> QED
      BY <1>3, <2>1, <2>2
  <1>7. CASE UnsubscribeFromTopic(w)
    <2>1. subs' \subseteq subs /\ topics' = topics /\ flaggedTopics \subseteq flaggedTopics'
      BY <1>2, <1>7 DEF UnsubscribeFromTopic, dbVars, Frame
    <2> QED
      BY <2>1
  <1>8. CASE DBFault(w)
    <2>1. subs' = subs /\ topics' = topics /\ flaggedTopics \subseteq flaggedTopics'
      BY <1>2, <1>8 DEF DBFault, dbVars, Frame
    <2> QED
      BY <2>1
  <1>9. CASE StepOf(s) \notin {"CommitTx", "DeleteTopic", "SubscribeToTopic", "UnsubscribeFromTopic"}
    <2>1. subs' = subs /\ topics' = topics /\ flaggedTopics \subseteq flaggedTopics'
      BY <1>1, <1>2, <1>9 DEF Frame
    <2> QED
      BY <2>1
  <1> QED
    BY <1>1, <1>4, <1>5, <1>6, <1>7, <1>8, <1>9, ByStatement

(* The client that is given a new key: its row is left alone.              *)
LEMMA OtherClients ==
    ASSUME TypeOK, TypeOK', RowInv, Apart, NEW v \in Workers, NEW w \in Workers, v # w, Handle(w),
           NEW r, r = rpc[v], r.op = "NewClientKey", r.c \in Names, ~NewRecord(clients[r.c])
    PROVE  clients'[r.c] = clients[r.c]
  <1>1. PICK s : s = rpc[w]
    OBVIOUS
  <1>2. s \in ActiveCalls /\ Frame(w) /\ r.c # s.c
    BY <1>1, HandleShape, OtherCalls
  <1>3. CASE WriteClient(w)
    <2>1. \A c \in Names \ {rpc[w].c} : clients'[c] = clients[c]
      BY <1>3, WrittenClient
    <2> QED
      BY <1>1, <1>2, <2>1
  <1>4. CASE DeleteClient(w)
    <2>1. clients[r.c].id # s.client.id
      BY <1>1, <1>2 DEF RowInv, HeldRows
    <2> QED
      BY <1>1, <1>4, <2>1 DEF DeleteClient, DeleteClientRow
  <1>5. CASE DBFault(w)
    BY <1>5 DEF DBFault, dbVars
  <1>6. CASE StepOf(s) \notin {"WriteClient", "DeleteClient"}
    BY <1>1, <1>2, <1>6 DEF Frame
  <1> QED
    BY <1>1, <1>3, <1>4, <1>5, <1>6, ByStatement

(* The clients of a topic that is given a new key stay the same.           *)
LinkedTo(id) == {c \in Names : ~NewRecord(clients[c]) /\ <<clients[c].id, id>> \in ctopics}

LEMMA OtherMembers ==
    ASSUME TypeOK, TypeOK', RowInv, Apart, NEW v \in Workers, NEW w \in Workers, v # w, Handle(w),
           NEW r, r = rpc[v], r.op = "NewTopic", r.t \in Topics, ~NewRecord(r.topic),
           InTx(r) \/ topics[r.t] = r.topic
    PROVE  LinkedTo(r.topic.id)' = LinkedTo(r.topic.id)
  <1>0. nextId \in Nat \ {0} /\ \A l \in ctopics : l[1] \in 1..(nextId - 1)
    BY DEF TypeOK, DBTypeOK, RowInv, LinkIds
  <1>1. PICK s : s = rpc[w]
    OBVIOUS
  <1>2. s \in ActiveCalls /\ Frame(w) /\ r.t # s.t /\ HeldRows(s)
    BY <1>1, HandleShape, OtherCalls DEF RowInv
  <1>3. topics[r.t].id = r.topic.id \/ Unseen(v)
    BY DEF RowInv, TxInv, TxAlone
  <1>4. s.topic.id # r.topic.id
    <2>1. CASE topics[r.t].id = r.topic.id
      BY <1>2, <2>1 DEF HeldRows, NewRecord
    <2>2. CASE Unseen(v)
      BY <1>1, <2>2 DEF Unseen
    <2> QED
      BY <1>3, <2>1, <2>2
  <1>5. ASSUME s.op = "RemoveClient", NEW c \in LinkedTo(r.topic.id) PROVE clients[c].id # s.client.id
    <2>1. c \in Names /\ ~NewRecord(clients[c]) /\ <<clients[c].id, r.topic.id>> \in ctopics
      BY <1>5 DEF LinkedTo
    <2>2. topics[r.t].id = r.topic.id
      <3>1. Unseen(v) => r.topic.id # r.topic.id
        BY <2>1 DEF Unseen
      <3> QED
        BY <1>3, <3>1
    <2>3. c \in Audience(r)
      BY <2>1, <2>2 DEF Audience, ClientsForTopic
    <2>4. s.c \notin Audience(r)
      BY <1>1, <1>5, OtherCalls DEF Broadcasts
    <2> QED
      BY <1>2, <2>1, <2>3, <2>4 DEF HeldRows
  <1> SUFFICES ASSUME NEW c \in Names
               PROVE  clients'[c].id # 0 /\ <<clients'[c].id, r.topic.id>> \in ctopics'
                        <=> clients[c].id # 0 /\ <<clients[c].id, r.topic.id>> \in ctopics
    BY DEF LinkedTo, NewRecord
  <1>6. CASE WriteClient(w)
    <2>1. /\ \/ clients'[c] = clients[c]
             \/ clients'[c] = [id |-> clients[c].id, key |-> s.key]
             \/ NewRecord(clients[c]) /\ clients'[c] = [id |-> nextId, key |-> s.key]
          /\ ctopics' = ctopics
      BY <1>1, <1>6, WrittenClient, Zenon
    <2> QED
      BY <1>0, <2>1 DEF NewRecord
  <1>7. CASE DeleteClient(w)
    <2>1. StepOf(s) = "DeleteClient" /\ s.op = "RemoveClient"
      BY <1>1, <1>2, <1>7, AtOK, RowProgram DEF DeleteClient, StepOf
    <2>2. /\ clients'[c] = IF clients[c].id = s.client.id THEN NoRow ELSE clients[c]
          /\ ctopics' = {l \in ctopics : l[1] # s.client.id}
      BY <1>1, <1>7 DEF DeleteClient, DeleteClientRow
    <2>3. c \in LinkedTo(r.topic.id) => clients[c].id # s.client.id
      BY <1>5, <2>1
    <2> QED
      BY <2>2, <2>3 DEF NoRow, LinkedTo, NewRecord
  <1>8. CASE DeleteTopic(w)
    BY <1>1, <1>4, <1>8 DEF DeleteTopic, DeleteTopicRow
  <1>9. CASE LinkClientTopic(w) \/ UnlinkClientTopic(w)
    <2>1. PICK i, j : <<i, j>> = <<s.client.id, s.topic.id>>
      OBVIOUS
    <2>2. /\ clients' = clients
          /\ ctopics' \in {ctopics, ctopics \cup {<<i, j>>}, ctopics \ {<<i, j>>}}
      BY <1>1, <1>9, <2>1 DEF LinkClientTopic, LinkTopicRow, UnlinkClientTopic, UnlinkTopicRow, dbVars
    <2>3. j # r.topic.id
      BY <1>4, <2>1
    <2> QED
      BY <2>2, <2>3
  <1>10. CASE DBFault(w)
    BY <1>10 DEF DBFault, dbVars
  <1>11. CASE StepOf(s) \notin {"WriteClient", "DeleteClient", "DeleteTopic", "LinkClientTopic", "UnlinkClientTopic"}
    BY <1>1, <1>2, <1>11 DEF Frame
  <1> QED
    BY <1>1, <1>6, <1>7, <1>8, <1>9, <1>10, <1>11, ByStatement

(* So do the clients linked to one that is given a new key and sends it.   *)
LEMMA OtherLinked ==
    ASSUME TypeOK, TypeOK', RowInv, Apart, NEW v \in Workers, NEW w \in Workers, v # w, Handle(w),
           NEW r, r = rpc[v], r.op = "NewClientKey", SendPubkeys, r.c \in Names, ~NewRecord(clients[r.c])
    PROVE  LinkedClients(clients[r.c])' = LinkedClients(clients[r.c])
  <1>0. nextId \in Nat \ {0} /\ \A l \in cclients : l[1] \in 1..(nextId - 1) /\ l[2] \in 1..(nextId - 1)
    BY DEF TypeOK, DBTypeOK, RowInv, LinkIds
  <1>1. PICK s : s = rpc[w]
    OBVIOUS
  <1>2. /\ s \in ActiveCalls /\ Frame(w) /\ r.c # s.c /\ r.c # s.d /\ HeldRows(s)
        /\ s.op = "RemoveClient" => s.c \notin Audience(r)
    BY <1>1, HandleShape, OtherCalls DEF RowInv, Broadcasts
  <1>3. clients'[r.c] = clients[r.c] /\ clients[r.c].id # 0
    BY OtherClients DEF NewRecord
  <1> SUFFICES ASSUME NEW c \in Names
               PROVE  clients'[c].id # 0 /\ <<clients[r.c].id, clients'[c].id>> \in cclients'
                        <=> clients[c].id # 0 /\ <<clients[r.c].id, clients[c].id>> \in cclients
    BY <1>3 DEF LinkedClients, NewRecord
  <1>4. CASE WriteClient(w)
    <2>1. /\ \/ clients'[c] = clients[c]
             \/ clients'[c] = [id |-> clients[c].id, key |-> s.key]
             \/ NewRecord(clients[c]) /\ clients'[c] = [id |-> nextId, key |-> s.key]
          /\ cclients' = cclients
      BY <1>1, <1>4, WrittenClient, Zenon
    <2> QED
      BY <1>0, <2>1 DEF NewRecord
  <1>5. CASE DeleteClient(w)
    <2>1. StepOf(s) = "DeleteClient" /\ s.op = "RemoveClient"
      BY <1>1, <1>2, <1>5, AtOK, RowProgram DEF DeleteClient, StepOf
    <2>2. /\ clients'[c] = IF clients[c].id = s.client.id THEN NoRow ELSE clients[c]
          /\ cclients' \subseteq cclients
          /\ \A l \in cclients : l[1] # s.client.id /\ l[2] # s.client.id => l \in cclients'
      BY <1>1, <1>5 DEF DeleteClient, DeleteClientRow
    <2>3. clients[r.c].id # s.client.id
      BY <1>2, <1>3 DEF HeldRows, NewRecord
    <2>4. clients[c].id # 0 /\ <<clients[r.c].id, clients[c].id>> \in cclients => clients[c].id # s.client.id
      BY <1>2, <2>1 DEF HeldRows, NewRecord, Audience, LinkedClients
    <2> QED
      BY <2>2, <2>3, <2>4 DEF NoRow
  <1>6. CASE LinkClients(w) \/ UnlinkClients(w)
    <2>1. clients[r.c].id # s.peer.id
      BY <1>2, <1>3 DEF HeldRows, NewRecord
    <2> QED
      BY <1>1, <1>6, <2>1 DEF LinkClients, LinkClientRow, UnlinkClients, UnlinkClientRow, dbVars
  <1>7. CASE DBFault(w)
    BY <1>7 DEF DBFault, dbVars
  <1>8. CASE StepOf(s) \notin {"WriteClient", "DeleteClient", "LinkClients", "UnlinkClients"}
    BY <1>1, <1>2, <1>8 DEF Frame
  <1> QED
    BY <1>1, <1>4, <1>5, <1>6, <1>7, <1>8, ByStatement

-----------------------------------------------------------------------------
(* The topic a call works on.                                              *)

TopicStep(r) ==
    /\ r.op = "NewTopic" /\ r.pc = 2 => NewRecord(r.row) \/ r.row.id = topics[r.t].id
    /\ r.op = "NewTopic" /\ r.pc >= 3 => ~NewRecord(r.topic) /\ r.topic.key = r.key
    /\ r.op = "NewTopic" /\ r.pc >= 5 => topics[r.t] = r.topic
    /\ r.op = "RemoveTopic" /\ r.pc >= 2 => r.t \notin subs \ flaggedTopics
    /\ r.op = "NewTopicClient" /\ r.pc >= 3 => /\ topics[r.t] \in {r.topic, NoRow}
                                               /\ <<"committed", r.t, r.topic.key>> \in trail

TopicsCommitted == \A t \in Topics : ~NewRecord(topics[t]) => <<"committed", t, topics[t].key>> \in trail
MonitoredExist  == \A t \in subs \ flaggedTopics : ~NewRecord(topics[t])

ApartTopicInv ==
    /\ \A w \in Workers : TopicStep(rpc[w])
    /\ TopicsCommitted
    /\ DistributedTopicKeysWereCommitted
    /\ MonitoredExist

LEMMA IdleTopicStep == TopicStep(Idle)'
  BY DEF TopicStep, Idle

(* Statements that are not about the topic of a call.                      *)
LEMMA TopicStepKept ==
    ASSUME NEW r \in ActiveCalls, NEW m \in ActiveCalls, ReadBy(m, r), TopicStep(r),
           topics' = topics, subs' = subs, flaggedTopics \subseteq flaggedTopics', trail \subseteq trail',
           StepOf(r) \notin {"FindTopic", "WriteTopic", "CommitTx", "UnsubscribeFromTopic", "GetTopic"},
           NEW n \in {Idle, m, Advance(m)}
    PROVE  TopicStep(n)'
  <1>1. /\ m.op = r.op /\ m.pc = r.pc /\ m.t = r.t /\ m.key = r.key /\ m.topic = r.topic
        /\ m.op = "NewTopic" => m.row = r.row
        /\ StepOf(m) = StepOf(r)
    <2>1. m.op = "NewTopic" => StepOf(r) \notin {"FindClient", "FindTopic"}
      BY RowProgram DEF ReadBy, StepOf
    <2> QED
      BY <2>1 DEF ReadBy, StepOf
  <1>2. TopicStep(m)'
    BY <1>1 DEF TopicStep, NewRecord
  <1>3. CASE n = Advance(m) /\ n # Idle
    <2>1. /\ n.op = m.op /\ n.pc = m.pc + 1 /\ n.t = m.t /\ n.key = m.key /\ n.topic = m.topic /\ n.row = m.row
          /\ m.pc \in Nat \ {0}
      BY <1>3, GoesOn
    <2>2. /\ m.op = "NewTopic" => m.pc \notin {1, 2, 4}
          /\ m.op = "RemoveTopic" => m.pc # 1
          /\ m.op = "NewTopicClient" => m.pc # 2
      BY <1>1, HandlerProgram
    <2> QED
      BY <1>2, <2>1, <2>2 DEF TopicStep
  <1> QED
    BY <1>2, <1>3, IdleTopicStep

(* The statements that are.                                                *)
LEMMA TopicStepMoves ==
    ASSUME TypeOK, TypeOK', ApartTopicInv, NEW w \in Workers, Handle(w),
           StepOf(rpc[w]) \in {"FindTopic", "WriteTopic", "CommitTx", "UnsubscribeFromTopic", "GetTopic", "DeleteTopic",
                               "SubscribeToTopic"}
    PROVE  TopicStep(rpc[w])'
  <1>0. topics \in [Topics -> Row] /\ topics' \in [Topics -> Row]
    BY DEF TypeOK, DBTypeOK
  <1>1. PICK m \in ActiveCalls, n \in {Idle} \cup ActiveCalls :
            /\ ReadBy(m, rpc[w]) /\ rpc' = [rpc EXCEPT ![w] = n] /\ rpc'[w] = n
            /\ n = Advance(m) \/ n = Idle \/ (n = m /\ StepOf(rpc[w]) = "SendToAll")
    BY CallStep
  <1>2. /\ m.op = rpc[w].op /\ m.pc = rpc[w].pc /\ m.t = rpc[w].t /\ m.key = rpc[w].key
        /\ StepOf(m) = StepOf(rpc[w]) /\ TopicStep(rpc[w]) /\ rpc[w] \in ActiveCalls
    BY <1>1, HandleShape DEF ReadBy, StepOf, ApartTopicInv
  <1> SUFFICES ASSUME n # Idle PROVE TopicStep(n)'
    <2>1. TopicStep(n)' => TopicStep(rpc[w])'
      BY <1>1 DEF TopicStep
    <2> QED
      BY <2>1, IdleTopicStep
  <1>3. /\ n = Advance(m)
        /\ n.op = m.op /\ n.pc = m.pc + 1 /\ n.t = m.t /\ n.key = m.key /\ n.topic = m.topic /\ n.row = m.row
    <2>1. n = Advance(m)
      BY <1>1
    <2> QED
      BY <2>1, GoesOn
  <1>4. ~DBFault(w)
    BY <1>1, <1>3 DEF DBFault, Fail, TypeOK
  <1>5. CASE StepOf(rpc[w]) = "FindTopic"
    <2>1. FindTopic(w) /\ m.op = "NewTopic" /\ m.pc = 1 /\ m.t \in Topics
      BY <1>2, <1>4, <1>5, ByStatement, RowProgram, HandlerProgram DEF StepOf
    <2>2. PICK found \in {topics[rpc[w].t], NoRow} : Return(w, [rpc[w] EXCEPT !.row = found])
      BY <2>1 DEF FindTopic, Find
    <2>3. PICK k : k = [rpc[w] EXCEPT !.row = found]
      OBVIOUS
    <2>4. k \in ActiveCalls /\ k.row = found
      <3>1. found \in Row
        BY <1>0, <1>2, <2>1, <2>2 DEF NoRow, Row
      <3> QED
        BY <1>2, <2>3, <3>1, LocalOK DEF ActiveCalls, Calls
    <2>5. n = Advance(k)
      BY <1>1, <2>2, <2>3 DEF Return, TypeOK
    <2>6. n.row = found
      BY <2>4, <2>5, GoesOn
    <2>7. topics' = topics
      BY <2>1 DEF FindTopic, Find, dbVars
    <2> QED
      BY <1>2, <1>3, <2>1, <2>2, <2>6, <2>7 DEF TopicStep, NewRecord, NoRow
  <1>6. CASE StepOf(rpc[w]) = "WriteTopic"
    <2>1. WriteTopic(w) /\ m.op = "NewTopic" /\ m.pc = 2 /\ m.t \in Topics
      BY <1>2, <1>4, <1>6, ByStatement, RowProgram, HandlerProgram DEF StepOf
    <2>2. PICK r : r = rpc[w]
      OBVIOUS
    <2>3. PICK row : row = IF NewRecord(r.row) THEN [id |-> NewTopicId, key |-> r.key]
                           ELSE IF r.row.id = topics[r.t].id THEN [id |-> r.row.id, key |-> r.key]
                           ELSE NoRow
      OBVIOUS
    <2>4. Return(w, [r EXCEPT !.topic = row])
      BY <1>1, <2>1, <2>2, <2>3 DEF WriteTopic, Fail, TypeOK
    <2>5. PICK k : k = [r EXCEPT !.topic = row]
      OBVIOUS
    <2>6. nextId \in Nat \ {0} /\ r.key \in Nat /\ r.row.id \in Nat /\ r.t \in Topics
      BY <1>2, <2>1, <2>2 DEF TypeOK, DBTypeOK, ActiveCalls, Calls, Row
    <2>7. row \in Row /\ ~NewRecord(row) /\ row.key = r.key
      <3>1. NewRecord(r.row) \/ r.row.id = topics[r.t].id
        BY <1>2, <2>1, <2>2 DEF TopicStep
      <3> QED
        BY <2>3, <2>6, <3>1 DEF NewRecord, Row, NewTopicId
    <2>8. k \in ActiveCalls /\ k.topic = row /\ n = Advance(k)
      <3>1. k \in ActiveCalls
        BY <1>2, <2>2, <2>5, <2>7, LocalOK
      <3>2. n = Advance(k)
        BY <1>1, <2>4, <2>5 DEF Return, TypeOK
      <3> QED
        BY <1>2, <2>2, <2>5, <3>1, <3>2 DEF ActiveCalls, Calls
    <2>9. n.topic = row
      BY <2>8, GoesOn
    <2> QED
      BY <1>2, <1>3, <2>1, <2>2, <2>7, <2>9 DEF TopicStep, NewRecord
  <1>7. CASE StepOf(rpc[w]) = "CommitTx"
    <2>1. CommitTx(w) /\ m.op = "NewTopic" /\ m.pc = 4 /\ m.t \in Topics
      BY <1>2, <1>4, <1>7, ByStatement, RowProgram, HandlerProgram DEF StepOf
    <2>2. m.topic = rpc[w].topic
      BY <1>1, <1>7 DEF ReadBy
    <2>3. ~NewRecord(rpc[w].topic) /\ rpc[w].topic.key = rpc[w].key
      BY <1>2, <2>1 DEF TopicStep
    <2>4. topics' = [topics EXCEPT ![rpc[w].t] = rpc[w].topic]
      BY <2>1, <2>3 DEF CommitTx
    <2>5. topics'[m.t] = m.topic
      BY <1>0, <1>2, <2>1, <2>2, <2>4
    <2> QED
      BY <1>2, <1>3, <2>1, <2>2, <2>3, <2>5 DEF TopicStep, NewRecord
  <1>8. CASE StepOf(rpc[w]) = "UnsubscribeFromTopic"
    <2>1. UnsubscribeFromTopic(w) /\ m.op = "RemoveTopic" /\ m.pc = 1
      BY <1>2, <1>4, <1>8, ByStatement, RowProgram, HandlerProgram DEF StepOf
    <2>2. rpc[w].t \notin subs' \ flaggedTopics'
      BY <2>1 DEF UnsubscribeFromTopic
    <2> QED
      BY <1>2, <1>3, <2>1, <2>2 DEF TopicStep
  <1>9. CASE StepOf(rpc[w]) = "GetTopic"
    <2>1. GetTopic(w) /\ rpc[w].t \in Topics
      BY <1>2, <1>4, <1>9, ByStatement, StatementOps DEF StepOf
    <2>2. rpc[w].op \in {"RemoveTopic", "NewTopicClient", "RemoveTopicClient"} /\ rpc[w].pc = 2
      BY <1>2, <1>9, RowProgram, HandlerProgram DEF StepOf, ClientTopicOps
    <2>3. PICK k : k = [rpc[w] EXCEPT !.topic = topics[rpc[w].t]]
      OBVIOUS
    <2>4. k \in ActiveCalls /\ k.topic = topics[rpc[w].t]
      <3>1. topics[rpc[w].t] \in Row
        BY <1>0, <2>1
      <3> QED
        BY <1>2, <2>3, <3>1, LocalOK DEF ActiveCalls, Calls
    <2>5. n = Advance(k) /\ ~NewRecord(topics[rpc[w].t])
      BY <1>1, <2>1, <2>3 DEF GetTopic, Lookup, TypeOK
    <2>6. n.topic = topics[rpc[w].t]
      BY <2>4, <2>5, GoesOn
    <2>7. topics' = topics /\ subs' = subs /\ flaggedTopics' = flaggedTopics /\ trail' = trail
      BY <2>1 DEF GetTopic, Lookup, dbVars
    <2>8. <<"committed", rpc[w].t, topics[rpc[w].t].key>> \in trail
      BY <2>1, <2>5 DEF ApartTopicInv, TopicsCommitted
    <2> QED
      BY <1>2, <1>3, <2>2, <2>6, <2>7, <2>8 DEF TopicStep
  <1>10. CASE StepOf(rpc[w]) \in {"DeleteTopic", "SubscribeToTopic"}
    <2>1. (m.op = "RemoveTopic" /\ m.pc = 3) \/ (m.op = "NewTopic" /\ m.pc = 6)
      BY <1>2, <1>10, RowProgram, HandlerProgram DEF StepOf
    <2>2. Advance(m) = Idle
      BY <2>1 DEF Advance, Program, Statements
    <2> QED
      BY <1>3, <2>2
  <1> QED
    BY <1>5, <1>6, <1>7, <1>8, <1>9, <1>10

(* The statements of the other calls.                                      *)
LEMMA TopicStepOthers ==
    ASSUME TypeOK, TypeOK', RowInv, Apart, NEW w \in Workers, Handle(w),
           NEW v \in Workers, v # w, TopicStep(rpc[v])
    PROVE  TopicStep(rpc[v])'
  <1>1. PICK r : r = rpc[v]
    OBVIOUS
  <1>2. rpc'[v] = r /\ trail \subseteq trail'
    BY <1>1, HandleShape, OneMoves DEF Frame
  <1>3. CASE r.op \in {"NewTopic", "RemoveTopic", "NewTopicClient"}
    <2>1. r.t \in Topics
      BY <1>1, <1>3, HandlerProgram DEF TypeOK, Idle
    <2>2. /\ topics'[r.t] \in {topics[r.t], NoRow}
          /\ r.op = "NewTopic" => /\ topics'[r.t].id = topics[r.t].id
                                  /\ ~NewRecord(topics[r.t]) => topics'[r.t] = topics[r.t]
          /\ r.t \notin subs \ flaggedTopics => r.t \notin subs' \ flaggedTopics'
      BY <1>1, <2>1, OtherTopics
    <2>3. CASE r.op = "NewTopic"
      <3>1. r.pc \in 1..6
        BY <1>1, <2>3, HandlerProgram DEF TypeOK, Idle
      <3> QED
        BY <1>1, <1>2, <2>2, <2>3, <3>1 DEF TopicStep, NewRecord
    <2>4. CASE r.op \in {"RemoveTopic", "NewTopicClient"}
      BY <1>1, <1>2, <2>2, <2>4 DEF TopicStep
    <2> QED
      BY <1>3, <2>3, <2>4
  <1>4. CASE r.op \notin {"NewTopic", "RemoveTopic", "NewTopicClient"}
    BY <1>2, <1>4 DEF TopicStep
  <1> QED
    BY <1>3, <1>4

(* The topic keys that are on their way.                                   *)
LEMMA KeysSent ==
    ASSUME TypeOK, DistributedTopicKeysWereCommitted, NEW m \in Messages,
           m.cmd.type = "SetTopicKey" => <<"committed", m.cmd.name, m.cmd.key>> \in trail,
           dev' \in {dev, Received(m)}, inflight' \subseteq inflight \cup {m}, trail \subseteq trail'
    PROVE  DistributedTopicKeysWereCommitted'
  <1>1. ASSUME NEW c \in Names, NEW t \in Topics, dev'[c].topics[t] # 0
        PROVE  <<"committed", t, dev'[c].topics[t]>> \in trail
    <2>1. CASE dev'[c] = dev[c]
      BY <1>1, <2>1 DEF DistributedTopicKeysWereCommitted
    <2>2. CASE dev'[c] # dev[c]
      <3>1. dev'[c] = Apply(dev[c], m.cmd)
        BY <2>2, ReceivedIs
      <3>2. dev[c] \in Devices /\ m.cmd \in Commands
        BY DEF TypeOK, Messages
      <3>3. dev'[c].topics[t] = IF m.cmd.type = "SetTopicKey" /\ m.cmd.name = t THEN m.cmd.key
                 ELSE IF m.cmd.type = "ResetTopics" \/ (m.cmd.type = "RemoveTopic" /\ m.cmd.name = t) THEN 0
                 ELSE dev[c].topics[t]
        BY <3>1, <3>2, ApplyIs
      <3> QED
        BY <1>1, <3>3 DEF DistributedTopicKeysWereCommitted
    <2> QED
      BY <2>1, <2>2
  <1>2. \A k \in inflight' : k.cmd.type = "SetTopicKey" => <<"committed", k.cmd.name, k.cmd.key>> \in trail
    BY DEF DistributedTopicKeysWereCommitted
  <1> QED
    BY <1>1, <1>2 DEF DistributedTopicKeysWereCommitted

(* What a call publishes, and to whom.                                     *)
LEMMA PublishSends ==
    ASSUME TypeOK, NEW w \in Workers, Publish(w)
    PROVE  \E m \in Messages : /\ m = Message(Command(rpc[w]), Recipient(rpc[w]))
                              /\ dev' \in {dev, Received(m)} /\ inflight' \subseteq inflight \cup {m}
                              /\ rpc[w] \in ActiveCalls /\ StepOf(rpc[w]) = "Publish"
  <1>1. rpc[w] \in ActiveCalls /\ StepOf(rpc[w]) = "Publish"
    BY AtOK DEF Publish, StepOf
  <1>2. PICK m : m = Message(Command(rpc[w]), Recipient(rpc[w]))
    OBVIOUS
  <1>3. m \in Messages
    BY <1>1, <1>2, CommandOK DEF StepOf
  <1>4. PICK outcome : Transmit(m, outcome)
    BY <1>2, Zenon DEF Publish
  <1> QED
    BY <1>1, <1>2, <1>3, <1>4 DEF Transmit

(* One message of SendToAll.                                               *)
First(r) == CHOOSE x \in r.todo : \A y \in r.todo : x.name <= y.name

LEMMA SendSends ==
    ASSUME TypeOK, NEW w \in Workers, SendToNext(w)
    PROVE  \E m \in Messages : /\ m = Message(Broadcast(rpc[w]), First(rpc[w]))
                              /\ dev' \in {dev, Received(m)} /\ inflight' \subseteq inflight \cup {m}
                              /\ First(rpc[w]) \in rpc[w].todo /\ First(rpc[w]) \in [name : Names, row : Row]
                              /\ rpc[w] \in ActiveCalls /\ StepOf(rpc[w]) = "SendToAll"
  <1>1. rpc[w] \in ActiveCalls /\ StepOf(rpc[w]) = "SendToAll" /\ rpc[w].todo # {}
    BY AtOK DEF SendToNext, StepOf
  <1>2. PICK m : m = Message(Broadcast(rpc[w]), First(rpc[w]))
    OBVIOUS
  <1>3. First(rpc[w]) \in rpc[w].todo /\ First(rpc[w]) \in [name : Names, row : Row]
    <2>1. rpc[w].todo \in SUBSET [name : Names, row : Row]
      BY <1>1 DEF ActiveCalls, Calls
    <2> QED
      BY <1>1, <2>1, FirstOfPage DEF First
  <1>4. m \in Messages
    BY <1>1, <1>2, <1>3, BroadcastOK
  <1>5. PICK outcome : Transmit(m, outcome)
    BY <1>2, Zenon DEF SendToNext, First
  <1> QED
    BY <1>1, <1>2, <1>3, <1>4, <1>5 DEF Transmit

(* A topic key is published once it has been committed.                    *)
LEMMA SentKeysCommitted ==
    ASSUME TypeOK, RowInv, ApartTopicInv, NEW w \in Workers, Publish(w) \/ SendToNext(w)
    PROVE  DistributedTopicKeysWereCommitted'
  <1>1. DistributedTopicKeysWereCommitted /\ TopicStep(rpc[w]) /\ TopicsCommitted
    BY DEF ApartTopicInv
  <1>2. trail \subseteq trail'
    BY DEF Publish, SendToNext, Record
  <1>3. CASE Publish(w)
    <2>1. PICK m \in Messages : /\ m = Message(Command(rpc[w]), Recipient(rpc[w]))
                               /\ dev' \in {dev, Received(m)} /\ inflight' \subseteq inflight \cup {m}
                               /\ rpc[w] \in ActiveCalls /\ StepOf(rpc[w]) = "Publish"
      BY <1>3, PublishSends
    <2>2. ASSUME m.cmd.type = "SetTopicKey" PROVE <<"committed", m.cmd.name, m.cmd.key>> \in trail
      <3>1. rpc[w].op \in {"ResetClient", "NewClientKey", "ResetClientPubKeys", "NewTopicClient",
                           "RemoveTopicClient", "SendClientPubKey", "RemoveClientPubKey"}
        BY <2>1, StatementOps DEF StepOf
      <3>2. m.cmd = Command(rpc[w])
        BY <2>1 DEF Message
      <3>3. rpc[w].op = "NewTopicClient" /\ m.cmd.name = rpc[w].t /\ m.cmd.key = rpc[w].topic.key
        BY <2>2, <3>1, <3>2 DEF Command, Cmd
      <3>4. rpc[w].pc = 3 /\ rpc[w].t \in Topics
        BY <2>1, <3>3, HandlerProgram
      <3> QED
        BY <1>1, <3>3, <3>4 DEF TopicStep
    <2> QED
      BY <1>1, <1>2, <2>1, <2>2, KeysSent
  <1>4. CASE SendToNext(w)
    <2>1. PICK m \in Messages : /\ m = Message(Broadcast(rpc[w]), First(rpc[w]))
                               /\ dev' \in {dev, Received(m)} /\ inflight' \subseteq inflight \cup {m}
                               /\ rpc[w] \in ActiveCalls /\ StepOf(rpc[w]) = "SendToAll"
      BY <1>4, SendSends
    <2>2. ASSUME m.cmd.type = "SetTopicKey" PROVE <<"committed", m.cmd.name, m.cmd.key>> \in trail
      <3>1. m.cmd = Broadcast(rpc[w])
        BY <2>1 DEF Message
      <3>2. rpc[w].op = "NewTopic" /\ m.cmd.name = rpc[w].t /\ m.cmd.key = rpc[w].key
        BY <2>2, <3>1 DEF Broadcast, Cmd
      <3>3. rpc[w].pc = 5 /\ rpc[w].t \in Topics
        BY <2>1, <3>2, HandlerProgram
      <3>4. topics[rpc[w].t] = rpc[w].topic /\ ~NewRecord(rpc[w].topic) /\ rpc[w].topic.key = rpc[w].key
        BY <1>1, <3>2, <3>3 DEF TopicStep
      <3> QED
        BY <1>1, <3>2, <3>3, <3>4 DEF TopicsCommitted
    <2> QED
      BY <1>1, <1>2, <2>1, <2>2, KeysSent
  <1> QED
    BY <1>3, <1>4

(* The statements that change the rows of topics.                          *)
LEMMA CommitTopic ==
    ASSUME TypeOK, RowInv, ApartTopicInv, NEW w \in Workers, CommitTx(w) \/ DeleteTopic(w)
    PROVE  TopicsCommitted' /\ MonitoredExist'
  <1>0. topics \in [Topics -> Row]
    BY DEF TypeOK, DBTypeOK
  <1>1. PICK r : r = rpc[w]
    OBVIOUS
  <1>2. TopicStep(r) /\ TopicsCommitted /\ MonitoredExist
    BY <1>1 DEF ApartTopicInv
  <1>3. CASE CommitTx(w)
    <2>1. r \in ActiveCalls /\ StepOf(r) = "CommitTx" /\ r.op = "NewTopic" /\ r.pc = 4 /\ r.t \in Topics
      BY <1>1, <1>3, AtOK, RowProgram, HandlerProgram DEF CommitTx, StepOf
    <2>2. ~NewRecord(r.topic) /\ r.topic.key = r.key
      BY <1>2, <2>1 DEF TopicStep
    <2>3. /\ topics' = [topics EXCEPT ![r.t] = r.topic]
          /\ trail' = trail \cup {<<"committed", r.t, r.key>>}
          /\ subs' = subs /\ flaggedTopics' = flaggedTopics
      BY <1>1, <1>3, <2>2 DEF CommitTx, Record, Return
    <2>4. topics'[r.t] = r.topic /\ \A t \in Topics \ {r.t} : topics'[t] = topics[t]
      BY <1>0, <2>1, <2>3
    <2>5. TopicsCommitted'
      BY <1>2, <2>2, <2>3, <2>4 DEF TopicsCommitted, NewRecord
    <2>6. MonitoredExist'
      BY <1>2, <2>2, <2>3, <2>4 DEF MonitoredExist, NewRecord, TypeOK
    <2> QED
      BY <2>5, <2>6
  <1>4. CASE DeleteTopic(w)
    <2>1. r \in ActiveCalls /\ StepOf(r) = "DeleteTopic" /\ r.op = "RemoveTopic" /\ r.pc = 3
      BY <1>1, <1>4, AtOK, RowProgram, HandlerProgram DEF DeleteTopic, StepOf
    <2>2. /\ \A t \in Topics : topics'[t] = IF topics[t].id = r.topic.id THEN NoRow ELSE topics[t]
          /\ trail' = trail /\ subs' = subs /\ flaggedTopics' = flaggedTopics
      BY <1>1, <1>4 DEF DeleteTopic, DeleteTopicRow, Return
    <2>3. TopicsCommitted'
      BY <1>2, <2>2 DEF TopicsCommitted, NewRecord, NoRow
    <2>4. ASSUME NEW t \in subs \ flaggedTopics PROVE ~NewRecord(topics'[t])
      <3>1. t \in Topics /\ ~NewRecord(topics[t])
        BY <1>2 DEF MonitoredExist, TypeOK
      <3>2. t # r.t
        BY <1>2, <2>1, <2>4 DEF TopicStep
      <3>3. topics[t].id # r.topic.id
        BY <1>1, <3>1, <3>2 DEF RowInv, HeldRows
      <3> QED
        BY <2>2, <3>1, <3>3
    <2> QED
      BY <2>2, <2>3, <2>4 DEF MonitoredExist, NewRecord
  <1> QED
    BY <1>3, <1>4

LEMMA SubscribedExist ==
    ASSUME TypeOK, ApartTopicInv, NEW w \in Workers, SubscribeToTopic(w) \/ UnsubscribeFromTopic(w)
    PROVE  MonitoredExist'
  <1>1. MonitoredExist /\ TopicStep(rpc[w])
    BY DEF ApartTopicInv
  <1>2. CASE SubscribeToTopic(w)
    <2>1. /\ rpc[w] \in ActiveCalls /\ StepOf(rpc[w]) = "SubscribeToTopic" /\ rpc[w].op = "NewTopic" /\ rpc[w].pc = 6
      BY <1>2, AtOK, RowProgram, HandlerProgram DEF SubscribeToTopic, StepOf
    <2>2. subs' \subseteq subs \cup {rpc[w].t} /\ flaggedTopics \subseteq flaggedTopics' /\ topics' = topics
      BY <1>2 DEF SubscribeToTopic, Return, Fail, dbVars
    <2>3. ~NewRecord(topics[rpc[w].t])
      BY <1>1, <2>1 DEF TopicStep
    <2> QED
      BY <1>1, <2>2, <2>3 DEF MonitoredExist, NewRecord
  <1>3. CASE UnsubscribeFromTopic(w)
    <2>1. subs' \subseteq subs /\ flaggedTopics \subseteq flaggedTopics' /\ topics' = topics
      BY <1>3 DEF UnsubscribeFromTopic, dbVars
    <2> QED
      BY <1>1, <2>1 DEF MonitoredExist, NewRecord
  <1> QED
    BY <1>2, <1>3

LEMMA NextApartTopicInv ==
    Apart /\ TypeOK /\ TypeOK' /\ RowInv /\ ApartTopicInv /\ [Next]_vars => ApartTopicInv'
  <1> SUFFICES ASSUME Apart, TypeOK, TypeOK', RowInv, ApartTopicInv, [Next]_vars PROVE ApartTopicInv'
    OBVIOUS
  <1>0. TopicsCommitted /\ DistributedTopicKeysWereCommitted /\ MonitoredExist
    BY DEF ApartTopicInv
  <1>a. ASSUME topics' = topics, trail \subseteq trail' PROVE TopicsCommitted'
    BY <1>0, <1>a DEF TopicsCommitted, NewRecord
  <1>b. ASSUME dev' = dev, inflight' = inflight, trail \subseteq trail' PROVE DistributedTopicKeysWereCommitted'
    BY <1>0, <1>b DEF DistributedTopicKeysWereCommitted
  <1>c. ASSUME topics' = topics, subs' = subs, flaggedTopics \subseteq flaggedTopics' PROVE MonitoredExist'
    BY <1>0, <1>c DEF MonitoredExist, NewRecord
  <1>1. ASSUME NEW w \in Workers, Handle(w) PROVE ApartTopicInv'
    <2>1. Frame(w) /\ rpc[w] \in ActiveCalls
      BY <1>1, HandleShape
    <2>2. TopicStep(rpc[w])'
      <3>1. CASE StepOf(rpc[w]) \in {"FindTopic", "WriteTopic", "CommitTx", "UnsubscribeFromTopic", "GetTopic",
                                     "DeleteTopic", "SubscribeToTopic"}
        BY <1>1, <3>1, TopicStepMoves
      <3>2. CASE StepOf(rpc[w]) \notin {"FindTopic", "WriteTopic", "CommitTx", "UnsubscribeFromTopic", "GetTopic",
                                        "DeleteTopic", "SubscribeToTopic"}
        <4>1. topics' = topics /\ subs' = subs /\ flaggedTopics \subseteq flaggedTopics' /\ trail \subseteq trail'
          BY <2>1, <3>2 DEF Frame
        <4>2. PICK m \in ActiveCalls, n \in {Idle} \cup ActiveCalls :
                  /\ ReadBy(m, rpc[w]) /\ rpc' = [rpc EXCEPT ![w] = n] /\ rpc'[w] = n
                  /\ n = Advance(m) \/ n = Idle \/ (n = m /\ StepOf(rpc[w]) = "SendToAll")
          BY <1>1, CallStep
        <4>3. TopicStep(rpc[w])
          BY DEF ApartTopicInv
        <4>4. TopicStep(n)'
          BY <2>1, <3>2, <4>1, <4>2, <4>3, TopicStepKept
        <4> QED
          BY <4>2, <4>4 DEF TopicStep
      <3> QED
        BY <3>1, <3>2
    <2>3. \A v \in Workers : TopicStep(rpc[v])'
      BY <1>1, <2>2, TopicStepOthers DEF ApartTopicInv
    <2>4. CASE DBFault(w)
      <3>1. topics' = topics /\ subs' = subs /\ trail' = trail /\ dev' = dev /\ inflight' = inflight
            /\ flaggedTopics \subseteq flaggedTopics'
        BY <2>4 DEF DBFault, Fail, dbVars
      <3> QED
        BY <1>a, <1>b, <1>c, <2>3, <3>1 DEF ApartTopicInv
    <2>5. CASE CommitTx(w) \/ DeleteTopic(w)
      <3>1. dev' = dev /\ inflight' = inflight /\ trail \subseteq trail'
        BY <2>5 DEF CommitTx, DeleteTopic, Record
      <3> QED
        BY <1>b, <2>3, <2>5, <3>1, CommitTopic DEF ApartTopicInv
    <2>6. CASE SubscribeToTopic(w) \/ UnsubscribeFromTopic(w)
      <3>1. dev' = dev /\ inflight' = inflight /\ trail' = trail /\ topics' = topics
        BY <2>6 DEF SubscribeToTopic, UnsubscribeFromTopic, dbVars
      <3> QED
        BY <1>a, <1>b, <2>3, <2>6, <3>1, SubscribedExist DEF ApartTopicInv
    <2>7. CASE Publish(w) \/ SendToNext(w)
      <3>1. topics' = topics /\ subs' = subs /\ flaggedTopics' = flaggedTopics /\ trail \subseteq trail'
        BY <2>7 DEF Publish, SendToNext, Return, Record, dbVars
      <3> QED
        BY <1>a, <1>c, <2>3, <2>7, <3>1, SentKeysCommitted DEF ApartTopicInv
    <2>8. CASE ReadPage(w) \/ EndOfPages(w)
      <3>1. dev' = dev /\ inflight' = inflight /\ trail' = trail /\ topics' = topics /\ subs' = subs
        BY <2>8 DEF ReadPage, EndOfPages, dbVars
      <3>2. flaggedTopics \subseteq flaggedTopics'
        BY <2>1 DEF Frame
      <3> QED
        BY <1>a, <1>b, <1>c, <2>3, <3>1, <3>2 DEF ApartTopicInv
    <2>9. CASE StepOf(rpc[w]) \notin {"CommitTx", "DeleteTopic", "SubscribeToTopic", "UnsubscribeFromTopic",
                                      "Publish", "SendToAll"}
      <3>1. dev' = dev /\ inflight' = inflight /\ trail \subseteq trail' /\ topics' = topics /\ subs' = subs
            /\ flaggedTopics \subseteq flaggedTopics'
        BY <2>1, <2>9 DEF Frame
      <3> QED
        BY <1>a, <1>b, <1>c, <2>3, <3>1 DEF ApartTopicInv
    <2> QED
      BY <1>1, <2>4, <2>5, <2>6, <2>7, <2>8, <2>9, ByStatement
  <1>2. ASSUME NEW w \in Workers, Call(w) PROVE ApartTopicInv'
    <2>1. PICK n : rpc' = [rpc EXCEPT ![w] = n] /\ n.pc = 1
      BY <1>2, CallStarts
    <2>2. topics' = topics /\ subs' = subs /\ flaggedTopics' = flaggedTopics /\ trail' = trail /\ dev' = dev
          /\ inflight' = inflight
      BY <1>2 DEF Call, dbVars
    <2>3. \A v \in Workers : TopicStep(rpc[v])'
      <3>1. rpc'[w].pc = 1 /\ \A v \in Workers \ {w} : rpc'[v] = rpc[v]
        BY <2>1, OthersStay
      <3> QED
        BY <2>2, <3>1 DEF ApartTopicInv, TopicStep, NewRecord
    <2> QED
      BY <1>a, <1>b, <1>c, <2>2, <2>3 DEF ApartTopicInv
  <1>3. CASE Arrive
    <2>1. PICK m \in inflight : dev' \in {Received(m), dev} /\ inflight' = inflight \ {m}
      BY <1>3 DEF Arrive
    <2>2. topics' = topics /\ subs' = subs /\ flaggedTopics' = flaggedTopics /\ trail' = trail /\ rpc' = rpc
      BY <1>3 DEF Arrive, dbVars
    <2>3. m \in Messages /\ (m.cmd.type = "SetTopicKey" => <<"committed", m.cmd.name, m.cmd.key>> \in trail)
      BY <1>0 DEF TypeOK, DistributedTopicKeysWereCommitted
    <2>4. DistributedTopicKeysWereCommitted'
      BY <1>0, <2>1, <2>2, <2>3, KeysSent
    <2>5. \A v \in Workers : TopicStep(rpc[v])'
      BY <2>2 DEF ApartTopicInv, TopicStep, NewRecord
    <2> QED
      BY <1>a, <1>c, <2>2, <2>4, <2>5 DEF ApartTopicInv
  <1>4. CASE UNCHANGED vars
    <2>1. topics' = topics /\ subs' = subs /\ flaggedTopics' = flaggedTopics /\ trail' = trail /\ rpc' = rpc
          /\ dev' = dev /\ inflight' = inflight
      BY <1>4 DEF vars
    <2>2. \A v \in Workers : TopicStep(rpc[v])'
      BY <2>1 DEF ApartTopicInv, TopicStep, NewRecord
    <2> QED
      BY <1>a, <1>b, <1>c, <2>1, <2>2 DEF ApartTopicInv
  <1>5. CASE Restart
    <2>1. topics' = topics /\ trail' = trail /\ dev' = dev /\ inflight' = inflight
          /\ subs' = {t \in Topics : ~NewRecord(topics[t])} /\ \A v \in Workers : rpc'[v] = Idle
      BY <1>5 DEF Restart, dbVars
    <2>2. \A v \in Workers : TopicStep(rpc[v])'
      BY <2>1, IdleTopicStep DEF TopicStep
    <2>3. MonitoredExist'
      BY <2>1 DEF MonitoredExist, NewRecord
    <2> QED
      BY <1>a, <1>b, <2>1, <2>2, <2>3 DEF ApartTopicInv
  <1> QED
    BY <1>1, <1>2, <1>3, <1>4, <1>5 DEF Next, Finished

LEMMA InitApartTopicInv == Init => ApartTopicInv
  <1> SUFFICES ASSUME Init PROVE ApartTopicInv
    OBVIOUS
  <1>1. \A w \in Workers : TopicStep(rpc[w])
    BY DEF Init, TopicStep, Idle
  <1>2. ASSUME NEW t \in Topics, ~NewRecord(topics[t]) PROVE <<"committed", t, topics[t].key>> \in trail
    BY <1>2 DEF Init, DBInit, NewRecord, NoRow
  <1>3. DistributedTopicKeysWereCommitted
    BY DEF Init, DistributedTopicKeysWereCommitted
  <1>4. ASSUME NEW t \in subs PROVE ~NewRecord(topics[t])
    <2>1. t \in Topics /\ t # 0 /\ topics[t].id = t
      BY <1>4 DEF Init, DBInit, Topics
    <2> QED
      BY <2>1 DEF NewRecord
  <1> QED
    BY <1>1, <1>2, <1>3, <1>4 DEF ApartTopicInv, TopicsCommitted, MonitoredExist

LEMMA ApartTopics == ApartSpec => []ApartTopicInv
  <1>1. Apart /\ TypeOK /\ TypeOK' /\ RowInv /\ ApartTopicInv /\ [Next]_vars => ApartTopicInv'
    BY NextApartTopicInv
  <1> QED
    BY <1>1, ApartKept, TypeCorrect, RowsKeepTheirNames, InitApartTopicInv, PTL DEF Spec

(* While calls are kept apart, no device holds, and no late message        *)
(* brings, a topic key that the database has not committed.                *)
THEOREM DistributedKeysWereCommitted == ApartSpec => []DistributedTopicKeysWereCommitted
  <1>1. ApartTopicInv => DistributedTopicKeysWereCommitted
    BY DEF ApartTopicInv
  <1> QED
    BY <1>1, ApartTopics, PTL

(* While calls are kept apart, the monitor is subscribed to the topics     *)
(* that exist and to no others, unless a call about the topic reported an  *)
(* error.                                                                  *)
THEOREM MonitoringIsExact == ApartSpec => []MonitoringMatchesTopics
  <1>1. ApartTopicInv /\ ExistingTopicsAreMonitored => MonitoringMatchesTopics
    BY DEF ApartTopicInv, MonitoredExist, ExistingTopicsAreMonitored, MonitoringMatchesTopics
  <1> QED
    BY <1>1, ApartTopics, ApartKept, TopicsAreMonitored, PTL

-----------------------------------------------------------------------------
(* The key of the client a call works on.                                  *)

(* The device has the new key of NewClientKey, the database not yet.       *)
Rekeying(r, c) == r.op = "NewClientKey" /\ r.c = c /\ r.pc \in {3, 4}

ClientStep(r) ==
    /\ r.op = "NewTopicClient" /\ r.pc >= 2 => r.c \in flaggedClients \/ r.client.key = dev[r.c].key
    /\ r.op = "NewClientKey" /\ r.pc \in 2..4 => r.client = clients[r.c] /\ ~NewRecord(clients[r.c])
    /\ r.op = "NewClientKey" /\ r.pc = 4 => NewRecord(r.row) \/ r.row.id = clients[r.c].id
    /\ \/ r.op = "NewClient"
       \/ r.op = "NewClientKey" /\ r.pc >= 3
       => r.c \in flaggedClients \/ r.key = dev[r.c].key
    /\ r.op = "NewClientKey" /\ r.pc >= 5 => ~NewRecord(clients[r.c]) /\ clients[r.c].key = r.key

LateAreFlagged == \A m \in inflight : m.to \in flaggedClients

KeysAgree ==
    \A c \in Names \ flaggedClients : ~NewRecord(clients[c]) =>
        clients[c].key = dev[c].key \/ \E w \in Workers : Rekeying(rpc[w], c)

ApartClientInv ==
    /\ \A w \in Workers : ClientStep(rpc[w])
    /\ LateAreFlagged
    /\ KeysAgree

LEMMA IdleClientStep == ClientStep(Idle)'
  BY DEF ClientStep, Idle

(* A device changes its key only by SetIDKey.                              *)
LEMMA KeyStays ==
    ASSUME TypeOK, NEW m \in Messages, dev' \in {dev, Received(m)}, NEW c \in Names
    PROVE  dev'[c].key = dev[c].key \/ (m.cmd.type = "SetIDKey" /\ c = m.to)
  <1>1. CASE dev'[c] = dev[c]
    BY <1>1
  <1>2. CASE dev'[c] # dev[c]
    <2>1. dev'[c] = Apply(dev[c], m.cmd) /\ c = m.to
      BY <1>2, ReceivedIs
    <2>2. dev[c] \in Devices /\ m.cmd \in Commands
      BY DEF TypeOK, Messages
    <2> QED
      BY <2>1, <2>2, ApplyIs
  <1> QED
    BY <1>1, <1>2

(* Only NewClientKey sends one, and only to the client it is about.        *)
LEMMA KeysStay ==
    ASSUME TypeOK, TypeOK', NEW w \in Workers, Handle(w), NEW c \in Names
    PROVE  dev'[c].key = dev[c].key \/ (rpc[w].op = "NewClientKey" /\ rpc[w].pc = 2 /\ c = rpc[w].c)
  <1>1. CASE Publish(w)
    <2>1. PICK m \in Messages : /\ m = Message(Command(rpc[w]), Recipient(rpc[w]))
                               /\ dev' \in {dev, Received(m)}
                               /\ rpc[w] \in ActiveCalls /\ StepOf(rpc[w]) = "Publish"
      BY <1>1, PublishSends
    <2>2. rpc[w].op \in {"ResetClient", "NewClientKey", "ResetClientPubKeys", "NewTopicClient",
                         "RemoveTopicClient", "SendClientPubKey", "RemoveClientPubKey"}
      BY <2>1, StatementOps DEF StepOf
    <2>3. ASSUME m.cmd.type = "SetIDKey" PROVE rpc[w].op = "NewClientKey" /\ rpc[w].pc = 2 /\ m.to = rpc[w].c
      <3>1. m.cmd = Command(rpc[w]) /\ m.to = Recipient(rpc[w]).name
        BY <2>1 DEF Message
      <3>2. rpc[w].op = "NewClientKey"
        BY <2>2, <2>3, <3>1 DEF Command, Cmd
      <3>3. m.to = rpc[w].c
        BY <3>1, <3>2 DEF Recipient, PeerOps
      <3> QED
        BY <2>1, <3>2, <3>3, HandlerProgram
    <2> QED
      BY <2>1, <2>3, KeyStays
  <1>2. CASE SendToNext(w)
    <2>1. PICK m \in Messages : m = Message(Broadcast(rpc[w]), First(rpc[w])) /\ dev' \in {dev, Received(m)}
      BY <1>2, SendSends
    <2>2. m.cmd.type # "SetIDKey"
      BY <2>1 DEF Message, Broadcast, Cmd
    <2> QED
      BY <2>1, <2>2, KeyStays
  <1>3. CASE ReadPage(w) \/ EndOfPages(w) \/ DBFault(w)
    BY <1>3 DEF ReadPage, EndOfPages, DBFault
  <1>4. CASE StepOf(rpc[w]) \notin {"Publish", "SendToAll"}
    BY <1>4, HandleShape DEF Frame
  <1> QED
    BY <1>1, <1>2, <1>3, <1>4, ByStatement

(* Statements that are not about the key of a client.                      *)
LEMMA ClientStepKept ==
    ASSUME NEW r \in ActiveCalls, NEW m \in ActiveCalls, ReadBy(m, r), ClientStep(r),
           r.op \in {"NewTopicClient", "NewClient", "NewClientKey"} => clients' = clients,
           flaggedClients \subseteq flaggedClients',
           \A c \in Names : dev'[c].key = dev[c].key \/ c \in flaggedClients',
           StepOf(r) \notin {"GetClient", "FindClient", "WriteClient"},
           r.op = "NewClientKey" => r.pc # 2,
           NEW n \in {Idle, m, Advance(m)}
    PROVE  ClientStep(n)'
  <1>1. /\ m.op = r.op /\ m.pc = r.pc /\ m.c = r.c /\ m.key = r.key /\ m.client = r.client
        /\ m.op # "NewTopic" => m.row = r.row
        /\ StepOf(m) = StepOf(r)
    <2>1. r.op # "NewTopic" => StepOf(r) # "FindTopic"
      BY RowProgram DEF StepOf
    <2> QED
      BY <2>1 DEF ReadBy, StepOf
  <1>2. ClientStep(m)'
    <2>1. m.op \in {"NewTopicClient", "NewClient", "NewClientKey"} => m.c \in Names
      BY HandlerProgram
    <2>2. CASE m.op \in {"NewTopicClient", "NewClient", "NewClientKey"}
      BY <1>1, <2>1, <2>2 DEF ClientStep, NewRecord
    <2>3. CASE m.op \notin {"NewTopicClient", "NewClient", "NewClientKey"}
      BY <2>3 DEF ClientStep
    <2> QED
      BY <2>2, <2>3
  <1>3. CASE n = Advance(m) /\ n # Idle
    <2>1. /\ n.op = m.op /\ n.pc = m.pc + 1 /\ n.c = m.c /\ n.key = m.key /\ n.client = m.client /\ n.row = m.row
          /\ m.pc \in Nat \ {0}
      BY <1>3, GoesOn
    <2>2. /\ m.op = "NewTopicClient" => m.pc # 1
          /\ m.op = "NewClient" => m.pc \notin {1, 2}
          /\ m.op = "NewClientKey" => m.pc \notin {1, 2, 3, 4}
      BY <1>1, HandlerProgram
    <2> QED
      BY <1>2, <2>1, <2>2 DEF ClientStep
  <1> QED
    BY <1>2, <1>3, IdleClientStep

(* What InsertClient writes.  NewClient writes nothing when the row it has *)
(* found is gone; nobody removes the client of a NewClientKey.             *)
LEMMA WrittenAlone ==
    ASSUME TypeOK, RowInv, ApartClientInv, NEW w \in Workers, WriteClient(w), NEW r, r = rpc[w]
    PROVE  /\ r \in ActiveCalls /\ r.c \in Names /\ r.op \in {"NewClient", "NewClientKey"}
           /\ r.op = "NewClient" => r.pc = 2
           /\ r.op = "NewClientKey" => r.pc = 4
           /\ \/ Fail(w) /\ \A c \in Names : clients'[c] = clients[c]
              \/ Return(w, r) /\ r.op = "NewClient" /\ \A c \in Names : clients'[c] = clients[c]
              \/ /\ Return(w, r)
                 /\ \A c \in Names \ {r.c} : clients'[c] = clients[c]
                 /\ clients'[r.c].key = r.key /\ clients'[r.c].id # 0
                 /\ \/ clients'[r.c].id = clients[r.c].id
                    \/ NewRecord(clients[r.c]) /\ clients'[r.c].id = nextId
  <1>0. clients \in [Names -> Row] /\ nextId \in Nat \ {0}
    BY DEF TypeOK, DBTypeOK
  <1>1. r \in ActiveCalls /\ StepOf(r) = "WriteClient" /\ r.c \in Names
    BY AtOK, StatementOps DEF WriteClient, StepOf
  <1>2. /\ r.op \in {"NewClient", "NewClientKey"}
        /\ r.op = "NewClient" => r.pc = 2
        /\ r.op = "NewClientKey" => r.pc = 4
    BY <1>1, RowProgram, HandlerProgram DEF StepOf
  <1>3. r.op = "NewClient" \/ NewRecord(r.row) \/ r.row.id = clients[r.c].id
    BY <1>2 DEF ApartClientInv, ClientStep
  <1>4. CASE NewRecord(r.row) /\ ~NewRecord(clients[r.c])
    BY <1>1, <1>2, <1>4 DEF WriteClient, dbVars
  <1>5. CASE NewRecord(r.row) /\ NewRecord(clients[r.c])
    <2>1. CreateClient(r.c, r.key) /\ Return(w, r)
      BY <1>5 DEF WriteClient
    <2> QED
      BY <1>0, <1>1, <1>2, <1>5, <2>1 DEF CreateClient, NewClientId
  <1>6. CASE ~NewRecord(r.row)
    <2>1. UpdateClient(r.row, r.key) /\ Return(w, r)
      BY <1>6 DEF WriteClient
    <2>2. \A c \in Names : clients[c].id = r.row.id => c = r.c
      BY <1>2, <1>6 DEF RowInv, HeldRows, NewRecord, ClientOps
    <2>3. \A c \in Names : clients'[c] = IF clients[c].id = r.row.id
                                         THEN [id |-> r.row.id, key |-> r.key] ELSE clients[c]
      BY <2>1 DEF UpdateClient
    <2> QED
      BY <1>0, <1>1, <1>2, <1>3, <1>6, <2>1, <2>2, <2>3 DEF NewRecord
  <1> QED
    BY <1>4, <1>5, <1>6

(* Nobody else gives the clients of a call a new key.                      *)
LEMMA NotRekeyed ==
    ASSUME Apart, NEW v \in Workers, NEW w \in Workers, v # w
    PROVE  ~Rekeying(rpc[v], rpc[w].c) /\ ~Rekeying(rpc[v], rpc[w].d)
  BY OtherCalls DEF Rekeying

(* The statements that are about it.                                       *)
LEMMA ClientStepMoves ==
    ASSUME TypeOK, TypeOK', Apart, RowInv, ApartClientInv, NEW w \in Workers, Handle(w),
           \/ StepOf(rpc[w]) \in {"GetClient", "FindClient", "WriteClient"}
           \/ rpc[w].op = "NewClientKey" /\ rpc[w].pc = 2
    PROVE  ClientStep(rpc[w])'
  <1>0. clients \in [Names -> Row]
    BY DEF TypeOK, DBTypeOK
  <1>1. PICK m \in ActiveCalls, n \in {Idle} \cup ActiveCalls :
            /\ ReadBy(m, rpc[w]) /\ rpc' = [rpc EXCEPT ![w] = n] /\ rpc'[w] = n
            /\ n = Advance(m) \/ n = Idle \/ (n = m /\ StepOf(rpc[w]) = "SendToAll")
    BY CallStep
  <1>2. /\ m.op = rpc[w].op /\ m.pc = rpc[w].pc /\ m.c = rpc[w].c /\ m.key = rpc[w].key
        /\ StepOf(m) = StepOf(rpc[w]) /\ ClientStep(rpc[w]) /\ rpc[w] \in ActiveCalls
    BY <1>1, HandleShape DEF ReadBy, StepOf, ApartClientInv
  <1> SUFFICES ASSUME n # Idle PROVE ClientStep(n)'
    <2>1. ClientStep(n)' => ClientStep(rpc[w])'
      BY <1>1 DEF ClientStep
    <2> QED
      BY <2>1, IdleClientStep
  <1>3. /\ n = Advance(m)
        /\ n.op = m.op /\ n.pc = m.pc + 1 /\ n.c = m.c /\ n.key = m.key /\ n.client = m.client /\ n.row = m.row
    <2>1. StepOf(rpc[w]) # "SendToAll"
      BY <1>2, HandlerProgram
    <2>2. n = Advance(m)
      BY <1>1, <2>1
    <2> QED
      BY <2>2, GoesOn
  <1>4. ~DBFault(w) /\ ~Fail(w)
    BY <1>1, <1>3 DEF DBFault, Fail, TypeOK
  <1>5. CASE StepOf(rpc[w]) = "GetClient"
    <2>1. GetClient(w) /\ rpc[w].c \in Names
      BY <1>2, <1>4, <1>5, ByStatement, StatementOps DEF StepOf
    <2>2. CASE rpc[w].op \in {"NewTopicClient", "NewClientKey"}
      <3>0. ~NewRecord(clients[rpc[w].c]) => rpc[w].c \in flaggedClients \/ clients[rpc[w].c].key = dev[rpc[w].c].key
        <4>1. \A v \in Workers : ~Rekeying(rpc[v], rpc[w].c)
          <5>1. ~Rekeying(rpc[w], rpc[w].c)
            BY <1>2, <1>5, HandlerProgram DEF Rekeying
          <5> QED
            BY <5>1, NotRekeyed
        <4> QED
          BY <2>1, <4>1 DEF ApartClientInv, KeysAgree
      <3>1. rpc[w].pc = 1
        BY <1>2, <1>5, <2>2, HandlerProgram
      <3>2. PICK k : k = [rpc[w] EXCEPT !.client = clients[rpc[w].c]]
        OBVIOUS
      <3>3. k \in ActiveCalls /\ k.client = clients[rpc[w].c]
        <4>1. clients[rpc[w].c] \in Row
          BY <1>0, <2>1
        <4> QED
          BY <1>2, <3>2, <4>1, LocalOK DEF ActiveCalls, Calls
      <3>4. n = Advance(k) /\ ~NewRecord(clients[rpc[w].c])
        BY <1>1, <2>1, <3>2 DEF GetClient, Lookup, TypeOK
      <3>5. n.client = clients[rpc[w].c]
        BY <3>3, <3>4, GoesOn
      <3>6. clients' = clients /\ dev' = dev /\ flaggedClients' = flaggedClients
        BY <2>1 DEF GetClient, Lookup, dbVars
      <3> QED
        BY <1>2, <1>3, <2>2, <3>0, <3>1, <3>4, <3>5, <3>6 DEF ClientStep, NewRecord
    <2>3. CASE rpc[w].op \notin {"NewTopicClient", "NewClientKey"}
      <3>1. rpc[w].op # "NewClient"
        BY <1>2, <1>5, HandlerProgram
      <3> QED
        BY <1>2, <1>3, <2>3, <3>1 DEF ClientStep
    <2> QED
      BY <2>2, <2>3
  <1>6. CASE StepOf(rpc[w]) = "FindClient"
    <2>1. FindClient(w) /\ rpc[w].c \in Names /\ rpc[w].op \in {"NewClient", "NewClientKey"}
      BY <1>2, <1>4, <1>6, ByStatement, StatementOps, RowProgram DEF StepOf
    <2>2. /\ rpc[w].op = "NewClient" => rpc[w].pc = 1
          /\ rpc[w].op = "NewClientKey" => rpc[w].pc = 3
      BY <1>2, <1>6, HandlerProgram
    <2>3. PICK found \in {clients[rpc[w].c], NoRow} : Return(w, [rpc[w] EXCEPT !.row = found])
      BY <2>1 DEF FindClient, Find
    <2>4. PICK k : k = [rpc[w] EXCEPT !.row = found]
      OBVIOUS
    <2>5. k \in ActiveCalls /\ k.row = found
      <3>1. found \in Row
        BY <1>0, <2>1, <2>3 DEF NoRow, Row
      <3> QED
        BY <1>2, <2>4, <3>1, LocalOK DEF ActiveCalls, Calls
    <2>6. n = Advance(k)
      BY <1>1, <2>3, <2>4 DEF Return, TypeOK
    <2>7. n.row = found
      BY <2>5, <2>6, GoesOn
    <2>8. clients' = clients /\ dev' = dev /\ flaggedClients' = flaggedClients
      BY <2>1, <2>3 DEF FindClient, Find, Return, dbVars
    <2>9. m.client = rpc[w].client
      BY <1>1, <1>6 DEF ReadBy
    <2>10. NewRecord(n.row) \/ n.row.id = clients[n.c].id
      BY <1>2, <1>3, <2>3, <2>7 DEF NewRecord, NoRow
    <2> QED
      BY <1>2, <1>3, <2>1, <2>2, <2>8, <2>9, <2>10 DEF ClientStep, NewRecord
  <1>7. CASE StepOf(rpc[w]) = "WriteClient"
    <2>1. WriteClient(w)
      BY <1>4, <1>7, ByStatement
    <2>2. PICK r : r = rpc[w]
      OBVIOUS
    <2>3. /\ r.op \in {"NewClient", "NewClientKey"}
          /\ r.op = "NewClient" => r.pc = 2
          /\ r.op = "NewClientKey" => r.pc = 4
          /\ r.c \in Names
          /\ r.op = "NewClientKey" => clients'[r.c].key = r.key /\ clients'[r.c].id # 0
      BY <1>4, <2>1, <2>2, WrittenAlone
    <2>4. dev' = dev /\ flaggedClients \subseteq flaggedClients'
      BY <2>1, HandleShape DEF WriteClient, Frame
    <2>5. CASE r.op = "NewClientKey"
      <3>1. n.pc = 5
        BY <1>2, <1>3, <2>2, <2>3, <2>5
      <3> QED
        BY <1>2, <1>3, <2>2, <2>3, <2>4, <2>5, <3>1 DEF ClientStep, NewRecord
    <2>6. CASE r.op = "NewClient"
      <3>1. Advance(m) = Idle
        BY <1>2, <2>2, <2>3, <2>6 DEF Advance, Program, Statements
      <3> QED
        BY <1>3, <3>1
    <2> QED
      BY <2>3, <2>5, <2>6
  <1>8. CASE rpc[w].op = "NewClientKey" /\ rpc[w].pc = 2
    <2>1. StepOf(rpc[w]) = "Publish"
      BY <1>2, <1>8, HandlerProgram
    <2>2. Publish(w) /\ rpc[w].c \in Names
      BY <1>2, <1>4, <1>8, <2>1, ByStatement, HandlerProgram
    <2>3. PICK outcome \in Outcomes :
             /\ Transmit(Message(Command(rpc[w]), Recipient(rpc[w])), outcome)
             /\ outcome # "ok" => rpc' = [rpc EXCEPT ![w] = Idle]
      BY <2>2, Zenon DEF Publish
    <2>4. outcome = "ok"
      BY <1>1, <2>3 DEF TypeOK
    <2>5. PICK k : k = Message(Command(rpc[w]), Recipient(rpc[w]))
      OBVIOUS
    <2>6. k \in Messages /\ dev' = Received(k)
      <3>1. k \in Messages
        BY <1>2, <2>1, <2>5, CommandOK DEF StepOf
      <3> QED
        BY <2>3, <2>4, <2>5, <3>1 DEF Transmit
    <2>7. /\ k.to = rpc[w].c /\ k.under = rpc[w].client.key
          /\ k.cmd.type = "SetIDKey" /\ k.cmd.key = rpc[w].key /\ k.cmd \in Commands
      BY <1>8, <2>5, <2>6 DEF Message, Command, Recipient, PeerOps, Cmd, Messages
    <2>8. rpc[w].client = clients[rpc[w].c] /\ ~NewRecord(clients[rpc[w].c])
      BY <1>2, <1>8 DEF ClientStep
    <2>9. rpc[w].c \in flaggedClients \/ clients[rpc[w].c].key = dev[rpc[w].c].key
      <3>1. \A v \in Workers : ~Rekeying(rpc[v], rpc[w].c)
        <4>1. ~Rekeying(rpc[w], rpc[w].c)
          BY <1>8 DEF Rekeying
        <4> QED
          BY <4>1, NotRekeyed
      <3> QED
        BY <2>2, <2>8, <3>1 DEF ApartClientInv, KeysAgree
    <2>10. rpc[w].c \in flaggedClients \/ dev'[rpc[w].c].key = rpc[w].key
      <3>1. dev[rpc[w].c] \in Devices
        BY <2>2 DEF TypeOK
      <3> QED
        BY <2>2, <2>6, <2>7, <2>8, <2>9, <3>1, ReceivedIs, ApplyIs
    <2>11. clients' = clients /\ flaggedClients \subseteq flaggedClients' /\ m.client = rpc[w].client
      BY <1>1, <2>1, HandleShape DEF Frame, ReadBy
    <2> QED
      BY <1>2, <1>3, <1>8, <2>8, <2>10, <2>11 DEF ClientStep, NewRecord
  <1> QED
    BY <1>5, <1>6, <1>7, <1>8

(* The statements of the other calls.                                      *)
LEMMA ClientStepOthers ==
    ASSUME TypeOK, TypeOK', RowInv, Apart, NEW w \in Workers, Handle(w),
           NEW v \in Workers, v # w, ClientStep(rpc[v])
    PROVE  ClientStep(rpc[v])'
  <1>1. PICK r : r = rpc[v]
    OBVIOUS
  <1>2. rpc'[v] = r /\ flaggedClients \subseteq flaggedClients'
    BY <1>1, HandleShape, OneMoves DEF Frame
  <1>3. CASE r.op \in {"NewTopicClient", "NewClient", "NewClientKey"}
    <2>1. r.c \in Names /\ r.pc \in 1..6
      BY <1>1, <1>3, HandlerProgram DEF TypeOK, Idle
    <2>2. dev'[r.c].key = dev[r.c].key
      BY <1>1, <2>1, KeysStay, OtherCalls
    <2>3. r.op = "NewClientKey" /\ ~NewRecord(clients[r.c]) => clients'[r.c] = clients[r.c]
      BY <1>1, <2>1, OtherClients
    <2> QED
      BY <1>1, <1>2, <1>3, <2>1, <2>2, <2>3 DEF ClientStep, NewRecord
  <1>4. CASE r.op \notin {"NewTopicClient", "NewClient", "NewClientKey"}
    BY <1>2, <1>4 DEF ClientStep
  <1> QED
    BY <1>3, <1>4

(* A publication that may arrive late is reported.                         *)
LEMMA LateFlagged ==
    ASSUME TypeOK, LateAreFlagged, NEW w \in Workers, Publish(w) \/ SendToNext(w)
    PROVE  LateAreFlagged'
  <1>1. CASE Publish(w)
    <2>1. PICK m : m = Message(Command(rpc[w]), Recipient(rpc[w]))
      OBVIOUS
    <2>2. PICK outcome \in Outcomes :
             /\ Transmit(m, outcome)
             /\ outcome # "ok" => flaggedClients' = flaggedClients \cup
                                      (IF outcome = "late" THEN {Recipient(rpc[w]).name} ELSE {})
             /\ outcome = "ok" => Return(w, rpc[w])
      BY <1>1, <2>1, Zenon DEF Publish
    <2>3. flaggedClients \subseteq flaggedClients'
      BY <2>2 DEF Return
    <2>4. m.to = Recipient(rpc[w]).name
      BY <2>1 DEF Message
    <2>5. CASE outcome = "late"
      BY <2>2, <2>3, <2>4, <2>5 DEF LateAreFlagged, Transmit
    <2>6. CASE outcome # "late"
      BY <2>2, <2>3, <2>6 DEF LateAreFlagged, Transmit
    <2> QED
      BY <2>5, <2>6
  <1>2. CASE SendToNext(w)
    <2>1. PICK m : m = Message(Broadcast(rpc[w]), First(rpc[w]))
      OBVIOUS
    <2>2. PICK outcome \in Outcomes :
             /\ Transmit(m, outcome)
             /\ flaggedClients' = IF outcome = "ok" THEN flaggedClients ELSE flaggedClients \cup {First(rpc[w]).name}
      BY <1>2, <2>1, Zenon DEF SendToNext, First
    <2>3. m.to = First(rpc[w]).name
      BY <2>1 DEF Message
    <2>4. CASE outcome = "late"
      BY <2>2, <2>3, <2>4 DEF LateAreFlagged, Transmit
    <2>5. CASE outcome # "late"
      BY <2>2, <2>5 DEF LateAreFlagged, Transmit
    <2> QED
      BY <2>4, <2>5
  <1> QED
    BY <1>1, <1>2

(* A call that fails when its device has the new key is reported.          *)
LEMMA RekeyFails ==
    ASSUME TypeOK, NEW w \in Workers, Fail(w), NEW c \in Names, Rekeying(rpc[w], c)
    PROVE  c \in flaggedClients'
  <1>1. c # 0
    BY DEF Names
  <1>2. Touched(rpc[w])
    BY DEF Rekeying, Touched, Program, Statements
  <1> QED
    BY <1>1, <1>2 DEF Fail, Rekeying

(* A statement that writes no client and sends no SetIDKey.                *)
LEMMA KeysStillAgree ==
    ASSUME TypeOK, KeysAgree, flaggedClients \subseteq flaggedClients',
           \A c \in Names : clients'[c] = clients[c] \/ clients'[c] = NoRow,
           \A c \in Names : c \in flaggedClients' \/ dev'[c].key = dev[c].key,
           \A w \in Workers : \A c \in Names : Rekeying(rpc[w], c) => c \in flaggedClients' \/ Rekeying(rpc'[w], c)
    PROVE  KeysAgree'
  <1> SUFFICES ASSUME NEW c \in Names, c \notin flaggedClients', ~NewRecord(clients'[c])
               PROVE  clients'[c].key = dev'[c].key \/ \E w \in Workers : Rekeying(rpc'[w], c)
    BY DEF KeysAgree, NewRecord, Rekeying
  <1>1. clients'[c] = clients[c] /\ dev'[c].key = dev[c].key
    BY DEF NewRecord, NoRow
  <1>2. clients[c].key = dev[c].key \/ \E w \in Workers : Rekeying(rpc[w], c)
    BY <1>1 DEF KeysAgree, NewRecord
  <1> QED
    BY <1>1, <1>2

(* The key is written.                                                     *)
LEMMA WrittenAgree ==
    ASSUME TypeOK, TypeOK', Apart, RowInv, ApartClientInv, NEW w \in Workers, WriteClient(w)
    PROVE  KeysAgree'
  <1>1. PICK r : r = rpc[w]
    OBVIOUS
  <1>2. /\ r \in ActiveCalls /\ r.c \in Names /\ r.op \in {"NewClient", "NewClientKey"}
        /\ r.op = "NewClient" => r.pc = 2
        /\ r.op = "NewClientKey" => r.pc = 4
        /\ \/ Fail(w) /\ \A c \in Names : clients'[c] = clients[c]
           \/ Return(w, r) /\ r.op = "NewClient" /\ \A c \in Names : clients'[c] = clients[c]
           \/ /\ Return(w, r)
              /\ \A c \in Names \ {r.c} : clients'[c] = clients[c]
              /\ clients'[r.c].key = r.key
    BY <1>1, WrittenAlone
  <1>3. /\ dev' = dev /\ flaggedClients \subseteq flaggedClients'
        /\ \A v \in Workers \ {w} : rpc'[v] = rpc[v]
    <2>1. Handle(w)
      BY DEF Handle
    <2>2. dev' = dev
      BY DEF WriteClient
    <2>3. flaggedClients \subseteq flaggedClients'
      BY <2>1, HandleShape DEF Frame
    <2> QED
      BY <2>1, <2>2, <2>3, OneMoves
  <1>4. KeysAgree /\ ClientStep(r)
    BY <1>1 DEF ApartClientInv
  <1>5. CASE Fail(w) /\ \A c \in Names : clients'[c] = clients[c]
    <2>1. \A c \in Names : Rekeying(rpc[w], c) => c \in flaggedClients'
      BY <1>5, RekeyFails
    <2> QED
      BY <1>3, <1>4, <1>5, <2>1, KeysStillAgree
  <1>6. CASE r.op = "NewClient" /\ \A c \in Names : clients'[c] = clients[c]
    <2>1. \A c \in Names : ~Rekeying(rpc[w], c)
      BY <1>1, <1>6 DEF Rekeying
    <2> QED
      BY <1>3, <1>4, <1>6, <2>1, KeysStillAgree
  <1>7. CASE /\ \A c \in Names \ {r.c} : clients'[c] = clients[c]
             /\ clients'[r.c].key = r.key
    <2> SUFFICES ASSUME NEW c \in Names, c \notin flaggedClients', ~NewRecord(clients'[c])
                 PROVE  clients'[c].key = dev'[c].key \/ \E v \in Workers : Rekeying(rpc'[v], c)
      BY DEF KeysAgree, NewRecord, Rekeying
    <2>1. CASE c = r.c
      <3>1. r.key = dev[r.c].key
        BY <1>2, <1>3, <1>4, <2>1 DEF ClientStep
      <3> QED
        BY <1>3, <1>7, <2>1, <3>1
    <2>2. CASE c # r.c
      <3>1. clients'[c] = clients[c] /\ c \notin flaggedClients
        BY <1>3, <1>7, <2>2
      <3>2. clients[c].key = dev[c].key \/ \E v \in Workers : Rekeying(rpc[v], c)
        BY <1>4, <3>1 DEF KeysAgree, NewRecord
      <3>3. ~Rekeying(rpc[w], c)
        BY <1>1, <2>2 DEF Rekeying
      <3> QED
        BY <1>3, <3>1, <3>2, <3>3
    <2> QED
      BY <2>1, <2>2
  <1> QED
    BY <1>2, <1>5, <1>6, <1>7

(* The key is sent.                                                        *)
LEMMA SentAgree ==
    ASSUME TypeOK, TypeOK', Apart, ApartClientInv, NEW w \in Workers, Publish(w),
           rpc[w].op = "NewClientKey", rpc[w].pc = 2
    PROVE  KeysAgree'
  <1>1. PICK r : r = rpc[w]
    OBVIOUS
  <1>2. r \in ActiveCalls /\ r.c \in Names
    BY <1>1, PublishSends, HandlerProgram
  <1>3. /\ clients' = clients /\ flaggedClients \subseteq flaggedClients' /\ KeysAgree
        /\ \A c \in Names \ {r.c} : dev'[c].key = dev[c].key
        /\ \A v \in Workers \ {w} : rpc'[v] = rpc[v]
    <2>1. Handle(w)
      BY DEF Handle
    <2>2. \A c \in Names \ {r.c} : dev'[c].key = dev[c].key
      BY <1>1, <2>1, KeysStay
    <2>3. clients' = clients
      BY DEF Publish, dbVars
    <2>4. flaggedClients \subseteq flaggedClients'
      BY DEF Publish, Return
    <2> QED
      BY <2>1, <2>2, <2>3, <2>4, OneMoves DEF ApartClientInv
  <1>4. PICK outcome \in Outcomes :
             /\ Transmit(Message(Command(r), Recipient(r)), outcome)
             /\ outcome = "ok" => Return(w, r)
             /\ outcome # "ok" => flaggedClients' = flaggedClients \cup
                                      (IF outcome = "late" THEN {Recipient(r).name} ELSE {})
    BY <1>1, Zenon DEF Publish
  <1>5. \A c \in Names : ~Rekeying(rpc[w], c)
    BY <1>1 DEF Rekeying
  <1>6. CASE outcome = "ok"
    <2>1. Rekeying(rpc'[w], r.c)
      <3>1. Advance(r) = [r EXCEPT !.pc = 3]
        BY <1>1 DEF Advance, Program, Statements
      <3>2. rpc'[w] = Advance(r)
        BY <1>4, <1>6 DEF Return, TypeOK
      <3> QED
        BY <1>1, <1>2, <3>1, <3>2 DEF Rekeying, ActiveCalls, Calls
    <2>2. ASSUME NEW c \in Names \ {r.c}, c \notin flaggedClients', ~NewRecord(clients'[c])
          PROVE  clients'[c].key = dev'[c].key \/ \E v \in Workers : Rekeying(rpc'[v], c)
      <3>1. clients[c].key = dev[c].key \/ \E v \in Workers : Rekeying(rpc[v], c)
        BY <1>3, <2>2 DEF KeysAgree, NewRecord
      <3> QED
        BY <1>3, <1>5, <3>1
    <2> QED
      BY <2>1, <2>2 DEF KeysAgree, NewRecord, Rekeying
  <1>7. CASE outcome # "ok"
    <2>1. dev' = dev
      BY <1>4, <1>7 DEF Transmit
    <2> QED
      BY <1>3, <1>5, <2>1, KeysStillAgree
  <1> QED
    BY <1>6, <1>7

LEMMA HandleAgree ==
    ASSUME TypeOK, TypeOK', Apart, RowInv, ApartClientInv, NEW w \in Workers, Handle(w)
    PROVE  KeysAgree'
  <1>1. KeysAgree /\ Frame(w) /\ rpc[w] \in ActiveCalls /\ flaggedClients \subseteq flaggedClients'
    BY HandleShape DEF ApartClientInv, Frame
  <1>o. \A v \in Workers \ {w} : rpc'[v] = rpc[v]
    BY OneMoves
  <1>2. CASE DBFault(w)
    <2>1. Fail(w) /\ clients' = clients /\ dev' = dev
      BY <1>2 DEF DBFault, dbVars
    <2>2. \A c \in Names : Rekeying(rpc[w], c) => c \in flaggedClients'
      BY <2>1, RekeyFails
    <2> QED
      BY <1>1, <1>o, <2>1, <2>2, KeysStillAgree
  <1>3. CASE WriteClient(w)
    BY <1>3, WrittenAgree
  <1>4. CASE Publish(w) /\ rpc[w].op = "NewClientKey"
    <2>1. rpc[w].pc = 2
      BY <1>4, PublishSends, HandlerProgram
    <2> QED
      BY <1>4, <2>1, SentAgree
  <1>5. CASE FindClient(w)
    <2>1. StepOf(rpc[w]) = "FindClient"
      BY <1>5, AtOK DEF FindClient, Find, StepOf
    <2>2. PICK found : Return(w, [rpc[w] EXCEPT !.row = found])
      BY <1>5, Zenon DEF FindClient, Find
    <2>3. PICK k : k = [rpc[w] EXCEPT !.row = found]
      OBVIOUS
    <2>4. rpc'[w] = Advance(k) /\ clients' = clients /\ dev' = dev
      BY <1>5, <2>2, <2>3 DEF Return, TypeOK, FindClient, Find, dbVars
    <2>5. ASSUME NEW c \in Names, Rekeying(rpc[w], c) PROVE Rekeying(rpc'[w], c)
      <3>1. rpc[w].op = "NewClientKey" /\ rpc[w].pc = 3 /\ rpc[w].c = c
        BY <1>1, <2>1, <2>5, HandlerProgram DEF Rekeying
      <3>2. k.op = "NewClientKey" /\ k.pc = 3 /\ k.c = c
        BY <1>1, <2>3, <3>1 DEF ActiveCalls, Calls
      <3>3. Advance(k) = [k EXCEPT !.pc = 4]
        BY <3>2 DEF Advance, Program, Statements
      <3>4. [k EXCEPT !.pc = 4].op = "NewClientKey" /\ [k EXCEPT !.pc = 4].pc = 4 /\ [k EXCEPT !.pc = 4].c = c
        BY <1>1, <2>3, <3>1 DEF ActiveCalls, Calls
      <3> QED
        BY <2>4, <3>3, <3>4 DEF Rekeying
    <2> QED
      BY <1>1, <1>o, <2>4, <2>5, KeysStillAgree
  <1>6. CASE DeleteClient(w)
    <2>1. StepOf(rpc[w]) = "DeleteClient"
      BY <1>6, AtOK DEF DeleteClient, StepOf
    <2>2. \A c \in Names : clients'[c] = clients[c] \/ clients'[c] = NoRow
      BY <1>6 DEF DeleteClient, DeleteClientRow
    <2>3. \A c \in Names : ~Rekeying(rpc[w], c)
      BY <1>1, <2>1, HandlerProgram DEF Rekeying
    <2>4. dev' = dev
      BY <1>6 DEF DeleteClient
    <2> QED
      BY <1>1, <1>o, <2>2, <2>3, <2>4, KeysStillAgree
  <1>7. CASE /\ StepOf(rpc[w]) \notin {"WriteClient", "DeleteClient", "FindClient"}
             /\ ~(Publish(w) /\ rpc[w].op = "NewClientKey") /\ ~DBFault(w)
    <2>1. clients' = clients
      BY <1>1, <1>7 DEF Frame
    <2>2. \A c \in Names : ~Rekeying(rpc[w], c)
      BY <1>1, <1>7, HandlerProgram DEF Rekeying
    <2>3. \A c \in Names : dev'[c].key = dev[c].key
      <3>1. ~(rpc[w].op = "NewClientKey" /\ rpc[w].pc = 2)
        <4>1. rpc[w].op = "NewClientKey" /\ rpc[w].pc = 2 => StepOf(rpc[w]) = "Publish"
          BY <1>1, HandlerProgram
        <4> QED
          BY <1>7, <4>1, ByStatement
      <3> QED
        BY <3>1, KeysStay
    <2> QED
      BY <1>1, <1>o, <2>1, <2>2, <2>3, KeysStillAgree
  <1> QED
    BY <1>2, <1>3, <1>4, <1>5, <1>6, <1>7, ByStatement

LEMMA NextApartClientInv ==
    Apart /\ TypeOK /\ TypeOK' /\ RowInv /\ ApartClientInv /\ [Next]_vars => ApartClientInv'
  <1> SUFFICES ASSUME Apart, TypeOK, TypeOK', RowInv, ApartClientInv, [Next]_vars PROVE ApartClientInv'
    OBVIOUS
  <1>0. KeysAgree /\ LateAreFlagged /\ \A w \in Workers : ClientStep(rpc[w])
    BY DEF ApartClientInv
  <1>1. ASSUME NEW w \in Workers, Handle(w) PROVE ApartClientInv'
    <2>1. Frame(w) /\ rpc[w] \in ActiveCalls
      BY <1>1, HandleShape
    <2>2. ClientStep(rpc[w])'
      <3>1. CASE \/ StepOf(rpc[w]) \in {"GetClient", "FindClient", "WriteClient"}
                 \/ rpc[w].op = "NewClientKey" /\ rpc[w].pc = 2
        BY <1>1, <3>1, ClientStepMoves
      <3>2. CASE /\ StepOf(rpc[w]) \notin {"GetClient", "FindClient", "WriteClient"}
                 /\ ~(rpc[w].op = "NewClientKey" /\ rpc[w].pc = 2)
        <4>1. rpc[w].op \in {"NewTopicClient", "NewClient", "NewClientKey"} => clients' = clients
          <5>1. StepOf(rpc[w]) = "DeleteClient" => rpc[w].op = "RemoveClient"
            BY <2>1, RowProgram DEF StepOf
          <5> QED
            BY <2>1, <3>2, <5>1 DEF Frame
        <4>2. \A c \in Names : dev'[c].key = dev[c].key
          BY <1>1, <3>2, KeysStay
        <4>3. flaggedClients \subseteq flaggedClients'
          BY <2>1 DEF Frame
        <4>4. PICK m \in ActiveCalls, n \in {Idle} \cup ActiveCalls :
                  /\ ReadBy(m, rpc[w]) /\ rpc' = [rpc EXCEPT ![w] = n] /\ rpc'[w] = n
                  /\ n = Advance(m) \/ n = Idle \/ (n = m /\ StepOf(rpc[w]) = "SendToAll")
          BY <1>1, CallStep
        <4>5. ClientStep(n)'
          BY <1>0, <2>1, <3>2, <4>1, <4>2, <4>3, <4>4, ClientStepKept
        <4> QED
          BY <4>4, <4>5 DEF ClientStep
      <3> QED
        BY <3>1, <3>2
    <2>3. \A v \in Workers : ClientStep(rpc[v])'
      BY <1>0, <1>1, <2>2, ClientStepOthers
    <2>4. LateAreFlagged'
      <3>1. CASE Publish(w) \/ SendToNext(w)
        BY <1>0, <3>1, LateFlagged
      <3>2. CASE inflight' = inflight
        BY <1>0, <2>1, <3>2 DEF LateAreFlagged, Frame
      <3>3. StepOf(rpc[w]) \notin {"Publish", "SendToAll"} => inflight' = inflight
        BY <2>1 DEF Frame
      <3>4. ReadPage(w) \/ EndOfPages(w) \/ DBFault(w) => inflight' = inflight
        BY DEF ReadPage, EndOfPages, DBFault
      <3> QED
        BY <1>1, <3>1, <3>2, <3>3, <3>4, ByStatement
    <2> QED
      BY <1>1, <2>3, <2>4, HandleAgree DEF ApartClientInv
  <1>2. ASSUME NEW w \in Workers, Call(w) PROVE ApartClientInv'
    <2>1. clients' = clients /\ dev' = dev /\ flaggedClients' = flaggedClients /\ inflight' = inflight /\ rpc[w] = Idle
      BY <1>2 DEF Call, dbVars
    <2>2. PICK op \in Ops : \E a \in Arguments(op) :
             rpc' = [rpc EXCEPT ![w] = [Idle EXCEPT !.op = op, !.pc = 1, !.c = a.c, !.d = a.d, !.t = a.t,
                                                    !.key = CallKey(op, a.c)]]
      BY <1>2 DEF Call
    <2>3. PICK a \in Arguments(op) :
             rpc' = [rpc EXCEPT ![w] = [Idle EXCEPT !.op = op, !.pc = 1, !.c = a.c, !.d = a.d, !.t = a.t,
                                                    !.key = CallKey(op, a.c)]]
      BY <2>2
    <2>4. PICK n : n = [Idle EXCEPT !.op = op, !.pc = 1, !.c = a.c, !.d = a.d, !.t = a.t, !.key = CallKey(op, a.c)]
      OBVIOUS
    <2>5. n.op = op /\ n.pc = 1 /\ n.c = a.c /\ n.key = CallKey(op, a.c)
      BY <2>4 DEF Idle
    <2>6. ClientStep(n)'
      BY <2>1, <2>5 DEF ClientStep, CallKey
    <2>7. rpc'[w] = n /\ \A v \in Workers \ {w} : rpc'[v] = rpc[v]
      BY <2>3, <2>4, OthersStay
    <2>11. \A v \in Workers : ClientStep(rpc[v])'
      BY <1>0, <2>1, <2>6, <2>7 DEF ClientStep, NewRecord
    <2>8. LateAreFlagged'
      BY <1>0, <2>1 DEF LateAreFlagged
    <2>9. \A c \in Names : ~Rekeying(rpc[w], c)
      BY <2>1 DEF Rekeying, Idle
    <2>10. KeysAgree'
      BY <1>0, <2>1, <2>7, <2>9, KeysStillAgree
    <2> QED
      BY <2>8, <2>10, <2>11 DEF ApartClientInv
  <1>3. CASE Arrive
    <2>1. PICK m \in inflight : dev' \in {Received(m), dev} /\ inflight' = inflight \ {m}
      BY <1>3 DEF Arrive
    <2>2. clients' = clients /\ flaggedClients' = flaggedClients /\ rpc' = rpc
      BY <1>3 DEF Arrive, dbVars
    <2>3. m \in Messages /\ m.to \in flaggedClients
      BY <1>0 DEF TypeOK, LateAreFlagged
    <2>4. \A c \in Names : c \in flaggedClients \/ dev'[c].key = dev[c].key
      BY <2>1, <2>3, KeyStays
    <2>5. \A v \in Workers : ClientStep(rpc[v])'
      <3> SUFFICES ASSUME NEW v \in Workers PROVE ClientStep(rpc[v])'
        OBVIOUS
      <3>1. ClientStep(rpc[v]) /\ rpc[v] \in {Idle} \cup ActiveCalls
        BY <1>0 DEF TypeOK
      <3>2. rpc[v].op \in {"NewTopicClient", "NewClient", "NewClientKey"} => rpc[v].c \in Names
        BY <3>1, HandlerProgram DEF Idle
      <3> QED
        BY <2>2, <2>4, <3>1, <3>2 DEF ClientStep, NewRecord
    <2>6. KeysAgree'
      BY <1>0, <2>2, <2>4, KeysStillAgree
    <2>7. LateAreFlagged'
      BY <1>0, <2>1, <2>2 DEF LateAreFlagged
    <2> QED
      BY <2>5, <2>6, <2>7 DEF ApartClientInv
  <1>4. CASE UNCHANGED vars
    <2>1. clients' = clients /\ flaggedClients' = flaggedClients /\ rpc' = rpc /\ dev' = dev /\ inflight' = inflight
      BY <1>4 DEF vars
    <2> QED
      BY <1>0, <2>1 DEF ApartClientInv, KeysAgree, LateAreFlagged, ClientStep, NewRecord, Rekeying
  <1>5. CASE Restart
    <2>1. clients' = clients /\ dev' = dev /\ inflight' = inflight
          /\ flaggedClients' = flaggedClients \cup ({rpc[w].c : w \in Workers} \ {0})
          /\ \A v \in Workers : rpc'[v] = Idle
      BY <1>5 DEF Restart, dbVars
    <2>2. \A v \in Workers : ClientStep(rpc[v])'
      BY <2>1, IdleClientStep DEF ClientStep
    <2>3. \A v \in Workers, c \in Names : Rekeying(rpc[v], c) => c \in flaggedClients'
      BY <2>1 DEF Rekeying, Names
    <2>4. KeysAgree'
      BY <1>0, <2>1, <2>3, KeysStillAgree
    <2>5. LateAreFlagged'
      BY <1>0, <2>1 DEF LateAreFlagged
    <2> QED
      BY <2>2, <2>4, <2>5 DEF ApartClientInv
  <1> QED
    BY <1>1, <1>2, <1>3, <1>4, <1>5 DEF Next, Finished

LEMMA InitApartClientInv == Init => ApartClientInv
  <1> SUFFICES ASSUME Init PROVE ApartClientInv
    OBVIOUS
  <1>1. \A w \in Workers : ClientStep(rpc[w])
    BY DEF Init, ClientStep, Idle
  <1>2. LateAreFlagged
    BY DEF Init, LateAreFlagged
  <1>3. ASSUME NEW c \in Names, ~NewRecord(clients[c]) PROVE clients[c].key = dev[c].key
    BY <1>3 DEF Init, DBInit, NewRecord, NoRow
  <1> QED
    BY <1>1, <1>2, <1>3 DEF ApartClientInv, KeysAgree

LEMMA ApartClients == ApartSpec => []ApartClientInv
  <1>1. Apart /\ TypeOK /\ TypeOK' /\ RowInv /\ ApartClientInv /\ [Next]_vars => ApartClientInv'
    BY NextApartClientInv
  <1> QED
    BY <1>1, ApartKept, TypeCorrect, RowsKeepTheirNames, InitApartClientInv, PTL DEF Spec

(* While calls are kept apart, the key stored for a client is the one its  *)
(* device holds, unless a call about it has reported an error after its    *)
(* publication, or the broker may still deliver it late.                   *)
THEOREM NoDeviceIsLostSilently == ApartSpec => []NoSilentKeyDivergence
  <1>1. ApartClientInv => NoSilentKeyDivergence
    BY DEF ApartClientInv, KeysAgree, NoSilentKeyDivergence, AllIdle, Rekeying, Idle
  <1> QED
    BY <1>1, ApartClients, PTL

-----------------------------------------------------------------------------
(* Pages of clients.                                                       *)

(* Of the set S that a call sends to, those of later pages, and what is    *)
(* left of this one.                                                       *)
Rank(S, c) == Cardinality({b \in S : b <= c})
Awaiting(S, r) == {c \in S : r.offset < Rank(S, c) \/ \E x \in r.todo : x.name = c}

LEMMA RankOK ==
    ASSUME NEW S \in SUBSET Names, NEW c \in S
    PROVE  Rank(S, c) \in Nat /\ 0 < Rank(S, c) /\ Rank(S, c) <= Cardinality(S) /\ Cardinality(S) \in Nat
  <1> DEFINE T == {b \in S : b <= c}
  <1>0. c \in Nat /\ c <= c
    BY NumClientsAssumption, SMT DEF Names
  <1>1. T \in SUBSET Names /\ T \subseteq S /\ c \in T
    BY <1>0
  <1> HIDE DEF T
  <1>2. IsFiniteSet(T) /\ Cardinality(T) \in Nat /\ IsFiniteSet(S) /\ Cardinality(S) \in Nat
    BY <1>1, SubsetCard
  <1>3. Cardinality(T) # 0
    BY <1>1, <1>2, FS_EmptySet
  <1>4. Cardinality(T) <= Cardinality(S)
    BY <1>1, <1>2, FS_Subset
  <1>5. Rank(S, c) = Cardinality(T)
    BY DEF Rank, T
  <1> QED
    BY <1>2, <1>3, <1>4, <1>5

(* Before the first page everyone is waiting, after the last nobody.       *)
LEMMA AllAwait ==
    ASSUME NEW S \in SUBSET Names, NEW r, r.offset = 0
    PROVE  Awaiting(S, r) = S
  BY RankOK DEF Awaiting

LEMMA NoneAwait ==
    ASSUME NEW S \in SUBSET Names, NEW r, r.offset \in Nat, r.todo = {}, Cardinality(S) <= r.offset
    PROVE  Awaiting(S, r) = {}
  <1>1. \A c \in S : ~(r.offset < Rank(S, c))
    BY RankOK
  <1> QED
    BY <1>1 DEF Awaiting

(* Reading a page forgets nobody.                                          *)
LEMMA PageAwaits ==
    ASSUME NEW S \in SUBSET Names, NEW r, r.offset \in Nat, r.todo = {},
           NEW n, n.offset = r.offset + BatchSize,
           \A c \in Page(S, r.offset, BatchSize) : \E x \in n.todo : x.name = c
    PROVE  Awaiting(S, r) \subseteq Awaiting(S, n)
  <1> SUFFICES ASSUME NEW c \in S, r.offset < Rank(S, c) PROVE c \in Awaiting(S, n)
    BY DEF Awaiting
  <1>1. Rank(S, c) \in Nat /\ BatchSize \in Nat
    BY RankOK, BatchSizeAssumption
  <1>2. CASE Rank(S, c) <= r.offset + BatchSize
    <2>1. c \in Page(S, r.offset, BatchSize)
      BY <1>2 DEF Page, Rank
    <2> QED
      BY <2>1 DEF Awaiting
  <1>3. CASE ~(Rank(S, c) <= r.offset + BatchSize)
    BY <1>1, <1>3 DEF Awaiting
  <1> QED
    BY <1>2, <1>3

(* Sending to one leaves the others.                                       *)
LEMMA OneLessAwaits ==
    ASSUME NEW S, NEW r, NEW n, NEW to, n.offset = r.offset, n.todo = r.todo \ {to}
    PROVE  Awaiting(S, r) \subseteq Awaiting(S, n) \cup {to.name}
  BY DEF Awaiting

-----------------------------------------------------------------------------
(* The clients a call has still to send to.                                *)

(* SendToAll and what follows it.                                          *)
Sending(r) == \/ r.op = "NewTopic" /\ r.pc >= 5
              \/ r.op = "NewClientKey" /\ r.pc = 6

PageStep(r) ==
    /\ ~Sending(r) => r.offset = 0 /\ r.todo = {}
    /\ \A x \in r.todo : /\ x.name \in Audience(r)
                         /\ x.name \in flaggedClients \/ x.row.key = dev[x.name].key
    /\ r.op = "NewTopicClient" /\ r.pc >= 4 =>
           \/ NewRecord(topics[r.t]) \/ r.c \in flaggedClients
           \/ dev[r.c].topics[r.t] \in {topics[r.t].key, 0}
    /\ r.op = "NewTopic" /\ r.pc >= 4 =>
           r.count = Cardinality(LinkedTo(r.topic.id)) \/ Uncounted(r.t, r.key)

Distributing(r, t, c) ==
    r.op = "NewTopic" /\ r.t = t /\ r.pc = 5 /\ c \in Awaiting(ClientsForTopic(t), r)

TopicKeysAgree ==
    \A t \in Topics \ flaggedTopics : \A c \in ClientsForTopic(t) \ flaggedClients :
        \/ dev[c].topics[t] \in {topics[t].key, 0}
        \/ Uncounted(t, topics[t].key)
        \/ \E w \in Workers : Distributing(rpc[w], t, c)

ApartPageInv == TopicKeysAgree /\ \A w \in Workers : PageStep(rpc[w])

LEMMA IdlePageStep == PageStep(Idle)'
  BY DEF PageStep, Idle

(* A device changes a topic key by the command for that topic, or loses it.*)
LEMMA TopicKeyStays ==
    ASSUME TypeOK, NEW m \in Messages, dev' \in {dev, Received(m)}, NEW c \in Names, NEW t \in Topics
    PROVE  \/ dev'[c].topics[t] \in {dev[c].topics[t], 0}
           \/ /\ m.cmd.type = "SetTopicKey" /\ m.cmd.name = t /\ c = m.to
              /\ dev'[c].topics[t] = m.cmd.key
  <1>1. CASE dev'[c] = dev[c]
    BY <1>1
  <1>2. CASE dev'[c] # dev[c]
    <2>1. dev'[c] = Apply(dev[c], m.cmd) /\ c = m.to
      BY <1>2, ReceivedIs
    <2>2. dev[c] \in Devices /\ m.cmd \in Commands
      BY DEF TypeOK, Messages
    <2> QED
      BY <2>1, <2>2, ApplyIs
  <1> QED
    BY <1>1, <1>2

LEMMA TopicClients ==
    /\ \A t \in Topics : ClientsForTopic(t) = LinkedTo(topics[t].id) /\ ClientsForTopic(t) \in SUBSET Names
    /\ \A t \in Topics, c \in Names :
          /\ c \in ClientsForTopic(t) <=> clients[c].id # 0 /\ <<clients[c].id, topics[t].id>> \in ctopics
          /\ c \in ClientsForTopic(t)' <=> clients'[c].id # 0 /\ <<clients'[c].id, topics'[t].id>> \in ctopics'
  BY DEF ClientsForTopic, LinkedTo, NewRecord

(* A key of a topic that exists is only ever given out while it is current.*)
LEMMA TopicKeyGiven ==
    ASSUME TypeOK, TypeOK', ApartTopicInv, NEW w \in Workers, Handle(w), NEW c \in Names, NEW t \in Topics
    PROVE  \/ dev'[c].topics[t] \in {dev[c].topics[t], 0} \/ NewRecord(topics[t])
           \/ dev'[c].topics[t] = topics[t].key
  <1>1. PICK r : r = rpc[w]
    OBVIOUS
  <1>2. TopicStep(r)
    BY <1>1 DEF ApartTopicInv
  <1>3. CASE Publish(w)
    <2>1. PICK m \in Messages : /\ m = Message(Command(r), Recipient(r)) /\ dev' \in {dev, Received(m)}
                               /\ r \in ActiveCalls /\ StepOf(r) = "Publish"
      BY <1>1, <1>3, PublishSends
    <2>2. ASSUME m.cmd.type = "SetTopicKey", m.cmd.name = t PROVE NewRecord(topics[t]) \/ m.cmd.key = topics[t].key
      <3>1. r.op \in {"ResetClient", "NewClientKey", "ResetClientPubKeys", "NewTopicClient",
                      "RemoveTopicClient", "SendClientPubKey", "RemoveClientPubKey"}
        BY <2>1, StatementOps DEF StepOf
      <3>2. m.cmd = Command(r)
        BY <2>1 DEF Message
      <3>3. r.op = "NewTopicClient" /\ m.cmd.key = r.topic.key /\ r.t = t
        BY <2>2, <3>1, <3>2 DEF Command, Cmd
      <3>4. r.pc = 3
        BY <2>1, <3>3, HandlerProgram
      <3> QED
        BY <1>2, <3>3, <3>4 DEF TopicStep, NewRecord, NoRow
    <2> QED
      BY <2>1, <2>2, TopicKeyStays
  <1>4. CASE SendToNext(w)
    <2>1. PICK m \in Messages : /\ m = Message(Broadcast(r), First(r)) /\ dev' \in {dev, Received(m)}
                               /\ r \in ActiveCalls /\ StepOf(r) = "SendToAll"
      BY <1>1, <1>4, SendSends
    <2>2. ASSUME m.cmd.type = "SetTopicKey", m.cmd.name = t PROVE m.cmd.key = topics[t].key
      <3>1. m.cmd = Broadcast(r)
        BY <2>1 DEF Message
      <3>2. r.op = "NewTopic" /\ m.cmd.key = r.key /\ r.t = t
        BY <2>2, <3>1 DEF Broadcast, Cmd
      <3>3. r.pc = 5
        BY <2>1, <3>2, HandlerProgram
      <3> QED
        BY <1>2, <3>2, <3>3 DEF TopicStep
    <2> QED
      BY <2>1, <2>2, TopicKeyStays
  <1>5. CASE dev' = dev
    BY <1>5
  <1>6. ReadPage(w) \/ EndOfPages(w) \/ DBFault(w) => dev' = dev
    BY DEF ReadPage, EndOfPages, DBFault
  <1>7. StepOf(rpc[w]) \notin {"Publish", "SendToAll"} => dev' = dev
    BY HandleShape DEF Frame
  <1> QED
    BY <1>3, <1>4, <1>5, <1>6, <1>7, ByStatement

(* NewClientKey sends the key on only when it is configured to.            *)
LEMMA SendsPubkeys ==
    ASSUME NEW r \in ActiveCalls, r.op = "NewClientKey", Sending(r)
    PROVE  SendPubkeys /\ r.pc = 6
  <1>1. r.pc = 6 /\ 6 <= Len(Program("NewClientKey"))
    BY DEF Sending, ActiveCalls
  <1> QED
    BY <1>1 DEF Program, Statements

(* Those a call sends to are not changed by the others.                    *)
LEMMA OtherAudience ==
    ASSUME TypeOK, TypeOK', RowInv, Apart, ApartTopicInv, ApartClientInv, NEW w \in Workers, Handle(w),
           NEW v \in Workers, v # w, NEW r, r = rpc[v], Sending(r)
    PROVE  /\ Audience(r)' = Audience(r) /\ Audience(r) \subseteq Names
           /\ \A c \in Audience(r) : dev'[c].key = dev[c].key
           /\ r.op = "NewTopic" => /\ r.t \in Topics /\ topics[r.t] = r.topic /\ topics'[r.t] = r.topic
                                   /\ ~NewRecord(r.topic) /\ r.topic.key = r.key
                                   /\ LinkedTo(r.topic.id)' = LinkedTo(r.topic.id)
           /\ r.op = "NewClientKey" => /\ r.c \in Names /\ clients'[r.c] = clients[r.c]
                                       /\ ~NewRecord(clients[r.c]) /\ SendPubkeys
  <1>1. PICK s : s = rpc[w]
    OBVIOUS
  <1>2. r \in ActiveCalls /\ r.op \in {"NewTopic", "NewClientKey"} /\ TopicStep(r) /\ ClientStep(r)
    BY DEF Sending, TypeOK, Idle, ApartTopicInv, ApartClientInv
  <1>3. CASE r.op = "NewTopic"
    <2>1. r.t \in Topics /\ r.pc \in {5, 6}
      BY <1>2, <1>3, HandlerProgram DEF Sending
    <2>2. topics[r.t] = r.topic /\ ~NewRecord(r.topic) /\ r.topic.key = r.key
      BY <1>2, <1>3, <2>1 DEF TopicStep
    <2>3. topics'[r.t] = r.topic
      BY <1>3, <2>1, <2>2, OtherTopics
    <2>4. LinkedTo(r.topic.id)' = LinkedTo(r.topic.id)
      BY <1>3, <2>1, <2>2, OtherMembers
    <2>5. Audience(r)' = Audience(r) /\ Audience(r) \subseteq Names
      BY <1>3, <2>2, <2>3, <2>4 DEF Audience, ClientsForTopic, LinkedTo
    <2>6. ASSUME s.op = "NewClientKey" PROVE s.c \notin Audience(r)
      BY <1>1, <1>3, <2>6, OtherCalls DEF Broadcasts
    <2> QED
      BY <1>1, <1>3, <2>1, <2>2, <2>3, <2>4, <2>5, <2>6, KeysStay
  <1>4. CASE r.op = "NewClientKey"
    <2>1. r.c \in Names /\ r.pc = 6
      BY <1>2, <1>4, HandlerProgram DEF Sending
    <2>2. SendPubkeys
      BY <1>2, <1>4, SendsPubkeys
    <2>3. ~NewRecord(clients[r.c])
      BY <1>2, <1>4, <2>1 DEF ClientStep
    <2>4. clients'[r.c] = clients[r.c]
      BY <1>4, <2>1, <2>3, OtherClients
    <2>5. Audience(r)' = Audience(r) /\ Audience(r) \subseteq Names
      <3>1. LinkedClients(clients[r.c])' = LinkedClients(clients[r.c])
        BY <1>4, <2>1, <2>2, <2>3, OtherLinked
      <3> QED
        BY <1>4, <3>1 DEF Audience, LinkedClients
    <2>6. ASSUME s.op = "NewClientKey" PROVE s.c \notin Audience(r)
      BY <1>1, <1>4, <2>2, <2>6, OtherCalls DEF Broadcasts
    <2> QED
      BY <1>1, <1>4, <2>1, <2>2, <2>3, <2>4, <2>5, <2>6, KeysStay
  <1> QED
    BY <1>2, <1>3, <1>4

LEMMA OthersDistribute ==
    ASSUME TypeOK, TypeOK', RowInv, Apart, ApartTopicInv, ApartClientInv, NEW w \in Workers, Handle(w),
           NEW v \in Workers \ {w}, NEW t \in Topics, NEW c \in Names, Distributing(rpc[v], t, c)
    PROVE  Distributing(rpc[v], t, c)'
  <1>1. PICK r : r = rpc[v]
    OBVIOUS
  <1>2. r.op = "NewTopic" /\ r.t = t /\ r.pc = 5 /\ c \in Awaiting(ClientsForTopic(t), r)
    BY <1>1 DEF Distributing
  <1>3. rpc'[v] = r
    BY <1>1, OneMoves
  <1>4. Audience(r)' = Audience(r)
    BY <1>1, <1>2, OtherAudience DEF Sending
  <1>5. ClientsForTopic(t)' = ClientsForTopic(t)
    BY <1>2, <1>4 DEF Audience
  <1> QED
    BY <1>2, <1>3, <1>5 DEF Distributing, Awaiting

(* A step that links nobody and gives out no key but the current one.      *)
LEMMA TopicsStillAgree ==
    ASSUME TypeOK, TopicKeysAgree,
           flaggedClients \subseteq flaggedClients', flaggedTopics \subseteq flaggedTopics', trail \subseteq trail',
           \A t \in Topics, c \in Names : c \in ClientsForTopic(t)' =>
               c \in ClientsForTopic(t) /\ topics'[t] = topics[t],
           \A t \in Topics, c \in Names : c \in ClientsForTopic(t) =>
               c \in flaggedClients' \/ dev'[c].topics[t] \in {dev[c].topics[t], 0, topics[t].key},
           NEW w \in Workers,
           \A v \in Workers \ {w}, t \in Topics, c \in Names :
               Distributing(rpc[v], t, c) => Distributing(rpc[v], t, c)',
           \A t \in Topics, c \in Names : Distributing(rpc[w], t, c) =>
               \/ t \in flaggedTopics' \/ c \in flaggedClients'
               \/ Distributing(rpc[w], t, c)'
               \/ dev'[c].topics[t] \in {topics[t].key, 0}
               \/ Uncounted(t, topics[t].key)
    PROVE  TopicKeysAgree'
  <1>1. \A t \in Topics : ClientsForTopic(t)' \subseteq Names
    BY DEF ClientsForTopic
  <1> SUFFICES ASSUME NEW t \in Topics, t \notin flaggedTopics', NEW c \in Names, c \in ClientsForTopic(t)',
                      c \notin flaggedClients'
               PROVE  \/ dev'[c].topics[t] \in {topics'[t].key, 0}
                      \/ Uncounted(t, topics[t].key)'
                      \/ \E v \in Workers : Distributing(rpc[v], t, c)'
    BY <1>1 DEF TopicKeysAgree
  <1>2. c \in ClientsForTopic(t) /\ topics'[t] = topics[t] /\ c \notin flaggedClients /\ t \notin flaggedTopics
    OBVIOUS
  <1>3. \/ dev[c].topics[t] \in {topics[t].key, 0} \/ Uncounted(t, topics[t].key)
        \/ \E v \in Workers : Distributing(rpc[v], t, c)
    BY <1>2 DEF TopicKeysAgree
  <1>4. CASE Uncounted(t, topics[t].key)
    BY <1>2, <1>4 DEF Uncounted
  <1>5. CASE ~Uncounted(t, topics[t].key)
    BY <1>2, <1>3, <1>5
  <1> QED
    BY <1>4, <1>5

(* What a statement of a call that sends does to it.                       *)
LEMMA PageRead ==
    ASSUME TypeOK, NEW w \in Workers, ReadPage(w), NEW r, r = rpc[w]
    PROVE  \E n : /\ rpc' = [rpc EXCEPT ![w] = n] /\ rpc'[w] = n
                  /\ n.op = r.op /\ n.pc = r.pc /\ n.c = r.c /\ n.t = r.t /\ n.key = r.key
                  /\ n.count = r.count /\ n.topic = r.topic
                  /\ r \in ActiveCalls /\ StepOf(r) = "SendToAll"
                  /\ r.todo = {} /\ r.offset \in Nat /\ n.offset = r.offset + BatchSize
                  /\ \/ /\ n.todo = {[name |-> c, row |-> clients[c]] : c \in Page(Audience(r), r.offset, BatchSize)}
                        /\ flaggedClients' = flaggedClients /\ flaggedTopics' = flaggedTopics
                     \/ /\ n.todo = {}
                        /\ flaggedClients' = flaggedClients \cup ({r.c} \ {0})
                        /\ flaggedTopics' = flaggedTopics \cup ({r.t} \ {0})
  <1>1. r \in ActiveCalls /\ StepOf(r) = "SendToAll" /\ r.todo = {} /\ rpc \in [Workers -> {Idle} \cup ActiveCalls]
    BY AtOK DEF ReadPage, StepOf, TypeOK
  <1>2. PICK todo : todo = {[name |-> c, row |-> clients[c]] : c \in Page(Audience(r), r.offset, BatchSize)}
    OBVIOUS
  <1>3. PICK n : /\ n = NextPage(r) \/ n = [NextPage(r) EXCEPT !.todo = todo]
                 /\ rpc' = [rpc EXCEPT ![w] = n]
                 /\ \/ /\ n = [NextPage(r) EXCEPT !.todo = todo]
                       /\ flaggedClients' = flaggedClients /\ flaggedTopics' = flaggedTopics
                    \/ /\ n = NextPage(r)
                       /\ flaggedClients' = flaggedClients \cup ({r.c} \ {0})
                       /\ flaggedTopics' = flaggedTopics \cup ({r.t} \ {0})
    BY <1>2 DEF ReadPage
  <1>4. /\ n.op = r.op /\ n.pc = r.pc /\ n.c = r.c /\ n.t = r.t /\ n.key = r.key
        /\ n.count = r.count /\ n.topic = r.topic /\ n.offset = r.offset + BatchSize /\ r.offset \in Nat
        /\ n = NextPage(r) => n.todo = {}
        /\ n = [NextPage(r) EXCEPT !.todo = todo] => n.todo = todo
    BY <1>1, <1>3 DEF NextPage, ActiveCalls, Calls
  <1>5. rpc'[w] = n
    BY <1>1, <1>3
  <1> QED
    BY <1>1, <1>2, <1>3, <1>4, <1>5

LEMMA OneSent ==
    ASSUME TypeOK, NEW w \in Workers, SendToNext(w), NEW r, r = rpc[w]
    PROVE  \E n : /\ rpc' = [rpc EXCEPT ![w] = n] /\ rpc'[w] = n
                  /\ n.op = r.op /\ n.pc = r.pc /\ n.c = r.c /\ n.t = r.t /\ n.key = r.key
                  /\ n.count = r.count /\ n.topic = r.topic
                  /\ r \in ActiveCalls /\ StepOf(r) = "SendToAll"
                  /\ n.offset = r.offset /\ n.todo = r.todo \ {First(r)}
  <1>1. r \in ActiveCalls /\ StepOf(r) = "SendToAll" /\ rpc \in [Workers -> {Idle} \cup ActiveCalls]
    BY AtOK DEF SendToNext, StepOf, TypeOK
  <1>2. PICK n : n = [r EXCEPT !.todo = r.todo \ {First(r)}]
    OBVIOUS
  <1>3. rpc' = [rpc EXCEPT ![w] = n]
    BY <1>2 DEF SendToNext, First
  <1>4. /\ n.op = r.op /\ n.pc = r.pc /\ n.c = r.c /\ n.t = r.t /\ n.key = r.key
        /\ n.count = r.count /\ n.topic = r.topic /\ n.offset = r.offset /\ n.todo = r.todo \ {First(r)}
    BY <1>1, <1>2 DEF ActiveCalls, Calls
  <1>5. rpc'[w] = n
    BY <1>1, <1>3
  <1> QED
    BY <1>1, <1>3, <1>4, <1>5

LEMMA PagesEnd ==
    ASSUME TypeOK, NEW w \in Workers, EndOfPages(w), NEW r, r = rpc[w]
    PROVE  /\ r \in ActiveCalls /\ StepOf(r) = "SendToAll" /\ r.todo = {}
           /\ r.offset \in Nat /\ r.count \in Nat /\ r.count <= r.offset
           /\ rpc' = [rpc EXCEPT ![w] = Advance(r)] /\ rpc'[w] = Advance(r)
  <1>1. r \in ActiveCalls /\ StepOf(r) = "SendToAll" /\ r.todo = {}
    BY AtOK DEF EndOfPages, StepOf
  <1>2. r.offset \in Nat /\ r.count \in Nat /\ ~(r.offset < r.count)
    BY <1>1 DEF ActiveCalls, Calls, EndOfPages, MorePages
  <1> QED
    BY <1>1, <1>2 DEF EndOfPages, Return, TypeOK

(* Statements that neither count nor send.                                 *)
LEMMA PageStepKept ==
    ASSUME NEW r \in ActiveCalls, NEW m \in ActiveCalls, ReadBy(m, r), PageStep(r),
           r.op = "NewTopic" => clients' = clients /\ ctopics' = ctopics,
           r.op = "NewTopicClient" /\ r.pc >= 4 => dev' = dev /\ topics' = topics,
           flaggedClients \subseteq flaggedClients', trail \subseteq trail',
           StepOf(r) \notin {"CountClients", "SendToAll"},
           ~(r.op = "NewTopicClient" /\ r.pc = 3),
           NEW n \in {Idle, Advance(m)}
    PROVE  PageStep(n)'
  <1> SUFFICES ASSUME n # Idle PROVE PageStep(n)'
    BY IdlePageStep
  <1>1. /\ n.op = m.op /\ n.pc = m.pc + 1 /\ n.c = m.c /\ n.t = m.t /\ n.topic = m.topic /\ n.key = m.key
        /\ n.count = m.count /\ n.offset = m.offset /\ n.todo = m.todo /\ m.pc \in Nat \ {0} /\ n = Advance(m)
    BY GoesOn
  <1>2. /\ StepOf(r) # "CountLinked" => m.count = r.count
        /\ m.op = r.op /\ m.pc = r.pc /\ m.c = r.c /\ m.t = r.t /\ m.key = r.key
        /\ m.offset = r.offset /\ m.todo = r.todo
        /\ StepOf(r) \notin {"GetTopic", "WriteTopic"} => m.topic = r.topic
    BY DEF ReadBy
  <1>3. ~Sending(r)
    <2>1. ~(r.op = "NewTopic" /\ r.pc = 5) /\ ~(r.op = "NewClientKey" /\ r.pc = 6)
      BY HandlerProgram
    <2>2. ~(r.op = "NewTopic" /\ r.pc = 6)
      BY <1>1, <1>2 DEF Advance, Program, Statements
    <2>3. r.op = "NewTopic" => r.pc \in 1..6
      BY HandlerProgram
    <2> QED
      BY <2>1, <2>2, <2>3 DEF Sending
  <1>4. n.offset = 0 /\ n.todo = {}
    BY <1>1, <1>2, <1>3 DEF PageStep
  <1>5. CASE n.op = "NewTopicClient" /\ n.pc >= 4
    <2>1. r.op = "NewTopicClient" /\ r.pc >= 4 /\ r.pc \in 1..5
      BY <1>1, <1>2, <1>5, HandlerProgram
    <2>2. StepOf(r) \notin {"GetTopic", "WriteTopic"}
      <3>1. StepOf(r) \in {"LinkClientTopic", "Dispatch"}
        BY <2>1, HandlerProgram
      <3> QED
        BY <3>1
    <2> QED
      BY <1>1, <1>2, <1>4, <1>5, <2>1, <2>2 DEF PageStep, NewRecord
  <1>6. CASE n.op = "NewTopic" /\ n.pc >= 4
    <2>1. r.op = "NewTopic" /\ r.pc >= 4 /\ r.pc \in 1..6
      <3>1. r.op = "NewTopic" /\ r.pc # 3 /\ r.pc \in 1..6
        BY <1>1, <1>2, <1>6, HandlerProgram
      <3> QED
        BY <1>1, <1>2, <1>6, <3>1
    <2>2. StepOf(r) \notin {"GetTopic", "WriteTopic", "CountLinked"}
      <3>1. StepOf(r) \in {"CommitTx", "SendToAll", "SubscribeToTopic"}
        BY <2>1, HandlerProgram
      <3> QED
        BY <3>1
    <2>3. n.topic = r.topic /\ n.count = r.count /\ n.t = r.t /\ n.key = r.key
      BY <1>1, <1>2, <2>2
    <2>4. n.count = Cardinality(LinkedTo(n.topic.id)) \/ Uncounted(n.t, n.key)
      BY <2>1, <2>3 DEF PageStep
    <2>5. (n.count = Cardinality(LinkedTo(n.topic.id)) \/ Uncounted(n.t, n.key))'
      BY <2>1, <2>4 DEF LinkedTo, NewRecord, Uncounted
    <2> QED
      BY <1>4, <1>6, <2>5 DEF PageStep
  <1>7. CASE ~(n.op = "NewTopicClient" /\ n.pc >= 4) /\ ~(n.op = "NewTopic" /\ n.pc >= 4)
    BY <1>4, <1>7 DEF PageStep
  <1> QED
    BY <1>5, <1>6, <1>7

(* The count is taken when nobody can change it, unless it fails.          *)
LEMMA PageStepCounts ==
    ASSUME TypeOK, ApartTopicInv, ApartPageInv, NEW w \in Workers, CountClients(w)
    PROVE  PageStep(rpc[w])'
  <1>1. PICK r : r = rpc[w]
    OBVIOUS
  <1>2. /\ r \in ActiveCalls /\ StepOf(r) = "CountClients" /\ r.op = "NewTopic" /\ r.pc = 3
        /\ PageStep(r) /\ TopicStep(r) /\ rpc \in [Workers -> {Idle} \cup ActiveCalls]
    BY <1>1, AtOK, RowProgram, HandlerProgram DEF CountClients, StepOf, ApartPageInv, ApartTopicInv, TypeOK
  <1>3. r.topic.id # 0 /\ r.offset = 0 /\ r.todo = {}
    BY <1>2 DEF TopicStep, PageStep, Sending, NewRecord
  <1> DEFINE S == LinkedTo(r.topic.id)
  <1>4. PICK k \in Nat : /\ Return(w, [r EXCEPT !.count = k])
                         /\ k = Cardinality(S) \/ <<"uncounted", r.t, r.key>> \in trail'
    <2>1. S \in SUBSET Names
      BY DEF LinkedTo
    <2>2. Counted(w, r.t, S, Unnoticed(TRUE))
      BY <1>1, <1>3 DEF CountClients, LinkedTo, NewRecord
    <2> HIDE DEF S
    <2> QED
      BY <1>1, <2>1, <2>2, CountedIs
  <1>5. PICK n : n = [[r EXCEPT !.count = k] EXCEPT !.pc = 4]
    OBVIOUS
  <1>6. /\ n.op = "NewTopic" /\ n.pc = 4 /\ n.t = r.t /\ n.key = r.key /\ n.topic = r.topic
        /\ n.offset = 0 /\ n.todo = {} /\ n.count = k
    BY <1>2, <1>3, <1>5 DEF ActiveCalls, Calls
  <1>7. rpc'[w] = n
    <2>1. PICK m : m = [r EXCEPT !.count = k]
      OBVIOUS
    <2>2. m.op = "NewTopic" /\ m.pc = 3
      BY <1>2, <2>1 DEF ActiveCalls, Calls
    <2>3. Advance(m) = [m EXCEPT !.pc = 4]
      BY <2>2 DEF Advance, Program, Statements
    <2> QED
      BY <1>2, <1>4, <1>5, <2>1, <2>3 DEF Return
  <1>8. clients' = clients /\ ctopics' = ctopics
    BY DEF CountClients, dbVars
  <1> QED
    BY <1>4, <1>6, <1>7, <1>8 DEF PageStep, LinkedTo, NewRecord, Uncounted

(* The key of the topic is sent to the client that joins it.               *)
LEMMA PageStepJoins ==
    ASSUME TypeOK, ApartTopicInv, ApartClientInv, ApartPageInv, NEW w \in Workers, Publish(w),
           rpc[w].op = "NewTopicClient"
    PROVE  PageStep(rpc[w])'
  <1>1. PICK r : r = rpc[w]
    OBVIOUS
  <1>2. /\ r \in ActiveCalls /\ StepOf(r) = "Publish" /\ r.op = "NewTopicClient" /\ r.pc = 3
        /\ r.c \in Names /\ r.t \in Topics
        /\ PageStep(r) /\ ClientStep(r) /\ TopicStep(r) /\ rpc \in [Workers -> {Idle} \cup ActiveCalls]
    BY <1>1, AtOK, HandlerProgram DEF Publish, StepOf, ApartPageInv, ApartClientInv, ApartTopicInv, TypeOK
  <1>3. PICK k : k = Message(Command(r), Recipient(r))
    OBVIOUS
  <1>4. PICK outcome \in Outcomes :
           /\ Transmit(k, outcome)
           /\ outcome = "ok" => Return(w, r)
           /\ outcome # "ok" => rpc' = [rpc EXCEPT ![w] = Idle]
    BY <1>1, <1>3, Zenon DEF Publish
  <1>5. CASE outcome # "ok"
    <2>1. rpc'[w] = Idle
      BY <1>2, <1>4, <1>5
    <2> QED
      BY <2>1, IdlePageStep DEF PageStep
  <1>6. CASE outcome = "ok"
    <2>1. k \in Messages /\ dev' = Received(k)
      <3>1. k \in Messages
        BY <1>1, <1>2, <1>3, CommandOK DEF StepOf
      <3> QED
        BY <1>4, <1>6, <3>1 DEF Transmit
    <2>2. /\ k.to = r.c /\ k.under = r.client.key
          /\ k.cmd.type = "SetTopicKey" /\ k.cmd.name = r.t /\ k.cmd.key = r.topic.key /\ k.cmd \in Commands
      BY <1>2, <1>3, <2>1 DEF Message, Command, Recipient, PeerOps, Cmd, Messages
    <2>3. r.c \in flaggedClients \/ r.client.key = dev[r.c].key
      BY <1>2 DEF ClientStep
    <2>4. r.c \in flaggedClients \/ dev'[r.c].topics[r.t] = r.topic.key
      <3>1. dev[r.c] \in Devices
        BY <1>2 DEF TypeOK
      <3> QED
        BY <1>2, <2>1, <2>2, <2>3, <3>1, ReceivedIs, ApplyIs
    <2>5. Advance(r) = [r EXCEPT !.pc = 4]
      BY <1>2 DEF Advance, Program, Statements
    <2>6. PICK n : n = [r EXCEPT !.pc = 4]
      OBVIOUS
    <2>7. /\ n.op = "NewTopicClient" /\ n.c = r.c /\ n.t = r.t /\ n.topic = r.topic /\ n.offset = r.offset
          /\ n.todo = r.todo
      BY <1>2, <2>6 DEF ActiveCalls, Calls
    <2>8. rpc'[w] = n /\ flaggedClients' = flaggedClients /\ topics' = topics
      BY <1>2, <1>4, <1>6, <2>5, <2>6 DEF Return, Publish, dbVars
    <2>9. r.offset = 0 /\ r.todo = {}
      BY <1>2 DEF PageStep, Sending
    <2>10. topics[r.t].id = 0 \/ topics[r.t] = r.topic
      BY <1>2 DEF TopicStep, NoRow
    <2> QED
      BY <2>4, <2>7, <2>8, <2>9, <2>10 DEF PageStep, NewRecord
  <1> QED
    BY <1>5, <1>6

(* A page is sent, for the keys the clients have.                          *)
LEMMA PageStepSends ==
    ASSUME TypeOK, TypeOK', Apart, ApartClientInv, ApartPageInv, NEW w \in Workers, ReadPage(w) \/ SendToNext(w) \/ EndOfPages(w)
    PROVE  PageStep(rpc[w])'
  <1>1. PICK r : r = rpc[w]
    OBVIOUS
  <1>2. /\ r \in ActiveCalls /\ r.op \in {"NewTopic", "NewClientKey"} /\ PageStep(r) /\ Sending(r)
        /\ r.op = "NewTopic" => r.pc = 5
    <2>1. At(w, "SendToAll")
      BY DEF ReadPage, SendToNext, EndOfPages
    <2> QED
      BY <1>1, <2>1, AtOK, StatementOps, HandlerProgram DEF StepOf, ApartPageInv, Sending
  <1>3. /\ clients' = clients /\ topics' = topics /\ ctopics' = ctopics /\ cclients' = cclients
        /\ flaggedClients \subseteq flaggedClients' /\ \A c \in Names : dev'[c].key = dev[c].key
        /\ trail' = trail
    <2>1. Handle(w)
      BY DEF Handle
    <2>2. /\ clients' = clients /\ topics' = topics /\ ctopics' = ctopics /\ cclients' = cclients
          /\ trail' = trail
      BY DEF ReadPage, SendToNext, EndOfPages, dbVars
    <2>3. ~(r.op = "NewClientKey" /\ r.pc = 2)
      BY <1>2 DEF Sending
    <2> QED
      BY <1>1, <2>1, <2>2, <2>3, HandleShape, KeysStay DEF Frame
  <1>4. ASSUME NEW n, rpc'[w] = n, n.op = r.op, n.c = r.c, n.t = r.t, n.key = r.key,
               Sending(n), n.count = r.count, n.topic = r.topic,
               \A x \in n.todo : /\ x.name \in Audience(r)
                                 /\ x.name \in flaggedClients \/ x.row.key = dev[x.name].key
        PROVE  PageStep(rpc[w])'
    <2>1. n.op = "NewTopic" => n.count = Cardinality(LinkedTo(n.topic.id)) \/ Uncounted(n.t, n.key)
      BY <1>2, <1>4 DEF PageStep
    <2>2. n.op = "NewTopic" => (n.count = Cardinality(LinkedTo(n.topic.id)) \/ Uncounted(n.t, n.key))'
      BY <1>3, <2>1 DEF LinkedTo, NewRecord, Uncounted
    <2>3. Audience(n)' = Audience(r) /\ Audience(r) \subseteq Names
      BY <1>3, <1>4 DEF Audience, ClientsForTopic, LinkedClients, NewRecord
    <2>4. \A x \in n.todo : x.name \in Audience(n)' /\ (x.name \in flaggedClients' \/ x.row.key = dev'[x.name].key)
      BY <1>3, <1>4, <2>3
    <2>5. PageStep(n)'
      BY <1>2, <1>4, <2>2, <2>4 DEF PageStep, Sending
    <2> QED
      BY <1>4, <2>5 DEF PageStep
  <1>5. CASE ReadPage(w)
    <2>1. PICK n : /\ rpc'[w] = n
                   /\ n.op = r.op /\ n.pc = r.pc /\ n.c = r.c /\ n.t = r.t /\ n.key = r.key
                   /\ n.count = r.count /\ n.topic = r.topic
                   /\ \/ n.todo = {[name |-> c, row |-> clients[c]] : c \in Page(Audience(r), r.offset, BatchSize)}
                      \/ n.todo = {}
      BY <1>1, <1>5, PageRead
    <2>2. ASSUME NEW c \in Page(Audience(r), r.offset, BatchSize)
          PROVE  c \in Audience(r) /\ (c \in flaggedClients \/ clients[c].key = dev[c].key)
      <3>1. c \in Audience(r)
        BY DEF Page
      <3>2. c \in Names /\ ~NewRecord(clients[c])
        BY <3>1 DEF Audience, ClientsForTopic, LinkedClients
      <3>3. Broadcasts(r)
        BY <1>2, SendsPubkeys DEF Broadcasts
      <3>4. ~Rekeying(r, c)
        BY <1>2 DEF Rekeying, Sending
      <3>5. ASSUME NEW v \in Workers, v # w PROVE ~Rekeying(rpc[v], c)
        BY <1>1, <3>1, <3>3, <3>5, OtherCalls DEF Rekeying
      <3> QED
        BY <1>1, <3>1, <3>2, <3>4, <3>5 DEF ApartClientInv, KeysAgree
    <2>3. \A x \in n.todo : /\ x.name \in Audience(r)
                            /\ x.name \in flaggedClients \/ x.row.key = dev[x.name].key
      BY <2>1, <2>2
    <2>4. Sending(n)
      BY <1>2, <2>1 DEF Sending
    <2> QED
      BY <1>4, <2>1, <2>3, <2>4
  <1>6. CASE SendToNext(w)
    <2>1. PICK n : /\ rpc'[w] = n
                   /\ n.op = r.op /\ n.pc = r.pc /\ n.c = r.c /\ n.t = r.t /\ n.key = r.key
                   /\ n.count = r.count /\ n.topic = r.topic
                   /\ n.todo = r.todo \ {First(r)}
      BY <1>1, <1>6, OneSent
    <2>2. Sending(n)
      BY <1>2, <2>1 DEF Sending
    <2> QED
      BY <1>2, <1>4, <2>1, <2>2 DEF PageStep
  <1>7. CASE EndOfPages(w)
    <2>1. rpc'[w] = Advance(r) /\ r.todo = {}
      BY <1>1, <1>7, PagesEnd
    <2>2. CASE Advance(r) = Idle
      BY <2>1, <2>2, IdlePageStep DEF PageStep
    <2>3. CASE Advance(r) # Idle
      <3>1. /\ Advance(r).op = r.op /\ Advance(r).pc = r.pc + 1 /\ Advance(r).count = r.count
            /\ Advance(r).c = r.c /\ Advance(r).t = r.t /\ Advance(r).key = r.key
            /\ Advance(r).topic = r.topic /\ Advance(r).todo = r.todo
        BY <1>2, <2>3, GoesOn
      <3>2. r.op = "NewTopic"
        <4>2. ASSUME r.op = "NewClientKey" PROVE FALSE
          <5>1. Len(Program(r.op)) = 6 /\ r.pc = 6
            BY <1>2, <4>2, SendsPubkeys DEF Sending, Program, Statements
          <5> QED
            BY <2>3, <5>1 DEF Advance
        <4> QED
          BY <1>2, <4>2
      <3> QED
        BY <1>2, <1>4, <2>1, <3>1, <3>2 DEF Sending
    <2> QED
      BY <2>2, <2>3
  <1> QED
    BY <1>5, <1>6, <1>7

LEMMA PageStepMoves ==
    ASSUME TypeOK, TypeOK', Apart, ApartTopicInv, ApartClientInv, ApartPageInv, NEW w \in Workers, Handle(w)
    PROVE  PageStep(rpc[w])'
  <1>1. Frame(w) /\ rpc[w] \in ActiveCalls /\ PageStep(rpc[w])
    BY HandleShape DEF ApartPageInv
  <1>2. PICK m \in ActiveCalls, n \in {Idle} \cup ActiveCalls :
            /\ ReadBy(m, rpc[w]) /\ rpc' = [rpc EXCEPT ![w] = n] /\ rpc'[w] = n
            /\ n = Advance(m) \/ n = Idle \/ (n = m /\ StepOf(rpc[w]) = "SendToAll")
    BY CallStep
  <1>3. CASE n = Idle
    BY <1>2, <1>3, IdlePageStep DEF PageStep
  <1>4. CASE n # Idle /\ StepOf(rpc[w]) \notin {"CountClients", "SendToAll"} /\ ~(rpc[w].op = "NewTopicClient" /\ rpc[w].pc = 3)
    <2>1. rpc[w].op = "NewTopic" => clients' = clients /\ ctopics' = ctopics
      <3>1. rpc[w].op = "NewTopic" =>
                StepOf(rpc[w]) \in {"FindTopic", "WriteTopic", "CountClients", "CommitTx", "SendToAll", "SubscribeToTopic"}
        <4>1. rpc[w].op = "NewTopic" => rpc[w].pc \in {1, 2, 3, 4, 5, 6}
          BY <1>1, HandlerProgram
        <4> QED
          BY <1>1, <4>1, HandlerProgram
      <3> QED
        BY <1>1, <3>1 DEF Frame
    <2>2. rpc[w].op = "NewTopicClient" /\ rpc[w].pc >= 4 => dev' = dev /\ topics' = topics
      <3>1. rpc[w].op = "NewTopicClient" /\ rpc[w].pc >= 4 => StepOf(rpc[w]) \in {"LinkClientTopic", "Dispatch"}
        <4>1. rpc[w].op = "NewTopicClient" /\ rpc[w].pc >= 4 => rpc[w].pc \in {4, 5}
          BY <1>1, HandlerProgram
        <4> QED
          BY <1>1, <4>1, HandlerProgram
      <3> QED
        BY <1>1, <3>1 DEF Frame
    <2>3. flaggedClients \subseteq flaggedClients' /\ trail \subseteq trail' /\ n \in {Idle, Advance(m)}
      BY <1>1, <1>2, <1>4 DEF Frame
    <2>4. PageStep(n)'
      BY <1>1, <1>2, <1>4, <2>1, <2>2, <2>3, PageStepKept
    <2> QED
      BY <1>2, <2>4 DEF PageStep
  <1>5. ~DBFault(w) \/ n = Idle
    BY <1>2 DEF DBFault, Fail, TypeOK
  <1>6. CASE n # Idle /\ StepOf(rpc[w]) = "CountClients"
    BY <1>5, <1>6, ByStatement, PageStepCounts
  <1>7. CASE n # Idle /\ StepOf(rpc[w]) = "SendToAll"
    BY <1>5, <1>7, ByStatement, PageStepSends
  <1>8. CASE n # Idle /\ rpc[w].op = "NewTopicClient" /\ rpc[w].pc = 3
    <2>1. StepOf(rpc[w]) = "Publish"
      BY <1>1, <1>8, HandlerProgram
    <2> QED
      BY <1>5, <1>8, <2>1, ByStatement, PageStepJoins
  <1> QED
    BY <1>3, <1>4, <1>6, <1>7, <1>8

(* The statements of the other calls.                                      *)
LEMMA PageStepOthers ==
    ASSUME TypeOK, TypeOK', RowInv, Apart, ApartTopicInv, ApartClientInv, NEW w \in Workers, Handle(w),
           NEW v \in Workers, v # w, PageStep(rpc[v])
    PROVE  PageStep(rpc[v])'
  <1>1. PICK r : r = rpc[v]
    OBVIOUS
  <1>2. /\ rpc'[v] = r /\ flaggedClients \subseteq flaggedClients' /\ trail \subseteq trail'
        /\ r \in {Idle} \cup ActiveCalls
    BY <1>1, HandleShape, OneMoves DEF Frame, TypeOK
  <1>3. \A x \in r.todo : x.name \in Audience(r)' /\ (x.name \in flaggedClients' \/ x.row.key = dev'[x.name].key)
    <2>1. CASE Sending(r)
      <3>1. Audience(r)' = Audience(r) /\ \A c \in Audience(r) : dev'[c].key = dev[c].key
        BY <1>1, <2>1, OtherAudience
      <3> QED
        BY <1>1, <1>2, <3>1 DEF PageStep
    <2>2. CASE ~Sending(r)
      BY <1>1, <2>2 DEF PageStep
    <2> QED
      BY <2>1, <2>2
  <1>4. ASSUME r.op = "NewTopicClient", r.pc >= 4
        PROVE  \/ topics'[r.t].id = 0 \/ r.c \in flaggedClients'
               \/ dev'[r.c].topics[r.t] \in {topics'[r.t].key, 0}
    <2>1. r.c \in Names /\ r.t \in Topics
      BY <1>2, <1>4, HandlerProgram DEF Idle
    <2>2. topics'[r.t] \in {topics[r.t], NoRow}
      BY <1>1, <2>1, OtherTopics
    <2>3. \/ dev'[r.c].topics[r.t] \in {dev[r.c].topics[r.t], 0} \/ topics[r.t].id = 0
          \/ dev'[r.c].topics[r.t] = topics[r.t].key
      BY <2>1, TopicKeyGiven DEF NewRecord
    <2>4. \/ topics[r.t].id = 0 \/ r.c \in flaggedClients
          \/ dev[r.c].topics[r.t] \in {topics[r.t].key, 0}
      BY <1>1, <1>4 DEF PageStep, NewRecord
    <2> QED
      BY <1>2, <2>2, <2>3, <2>4 DEF NoRow
  <1>5. ASSUME r.op = "NewTopic", r.pc >= 4 PROVE LinkedTo(r.topic.id)' = LinkedTo(r.topic.id)
    <2>1. r.pc \in 1..6 /\ r.t \in Topics
      BY <1>2, <1>5, HandlerProgram DEF Idle
    <2>2. CASE r.pc = 4
      <3>1. TopicStep(r)
        BY <1>1 DEF ApartTopicInv
      <3>2. ~NewRecord(r.topic)
        BY <1>5, <2>2, <3>1 DEF TopicStep
      <3>3. InTx(r)
        BY <1>5, <2>2, <3>2 DEF InTx
      <3> QED
        BY <1>1, <1>5, <2>1, <3>2, <3>3, OtherMembers
    <2>3. CASE r.pc >= 5
      <3>1. Sending(r)
        BY <1>5, <2>3 DEF Sending
      <3> QED
        BY <1>1, <1>5, <3>1, OtherAudience
    <2> QED
      BY <1>5, <2>1, <2>2, <2>3
  <1>6. r.op = "NewTopic" /\ r.pc >= 4 => r.count = Cardinality(LinkedTo(r.topic.id)') \/ Uncounted(r.t, r.key)'
    BY <1>1, <1>2, <1>5 DEF PageStep, Uncounted
  <1> QED
    BY <1>1, <1>2, <1>3, <1>4, <1>6 DEF PageStep, Sending, NewRecord

(* No call is sending a topic key at another statement.                    *)
LEMMA NotDistributing ==
    ASSUME TypeOK, NEW w \in Workers, rpc[w] = Idle \/ StepOf(rpc[w]) # "SendToAll"
    PROVE  \A t \in Topics, c \in Names : ~Distributing(rpc[w], t, c)
  <1> SUFFICES ASSUME rpc[w].op = "NewTopic", rpc[w].pc = 5 PROVE FALSE
    BY DEF Distributing
  <1>1. rpc[w] \in ActiveCalls
    BY DEF TypeOK, Idle
  <1> QED
    BY <1>1, HandlerProgram DEF Idle

(* A row written, removed or unlinked joins no client to a topic.          *)
LEMMA StoreAgrees ==
    ASSUME TypeOK, TypeOK', Apart, RowInv, ApartTopicInv, ApartClientInv, TopicKeysAgree, NEW w \in Workers,
           \/ WriteClient(w) \/ DeleteClient(w) \/ DeleteTopic(w) \/ UnlinkClientTopic(w)
    PROVE  TopicKeysAgree'
  <1>1. Handle(w)
    BY DEF Handle
  <1>2. Frame(w) /\ dev' = dev
    BY <1>1, HandleShape DEF WriteClient, DeleteClient, DeleteTopic, UnlinkClientTopic
  <1>3. \A l \in ctopics : l[1] \in 1..(nextId - 1) /\ l[2] \in 1..(nextId - 1)
    BY DEF RowInv, LinkIds
  <1>4. nextId \in Nat \ {0} /\ clients \in [Names -> Row] /\ topics \in [Topics -> Row]
    BY DEF TypeOK, DBTypeOK
  <1>5. \A c \in Names : clients'[c].id \in {clients[c].id, 0, nextId}
    <2>1. CASE WriteClient(w)
      <3>1. PICK r : r = rpc[w]
        OBVIOUS
      <3>2. /\ r.c \in Names
            /\ \/ \A c \in Names : clients'[c] = clients[c]
               \/ /\ \A c \in Names \ {r.c} : clients'[c] = clients[c]
                  /\ clients'[r.c].id \in {clients[r.c].id, nextId}
        BY <2>1, <3>1, WrittenAlone
      <3> QED
        BY <3>2
    <2>2. CASE DeleteClient(w)
      BY <2>2 DEF DeleteClient, DeleteClientRow, NoRow
    <2>3. CASE DeleteTopic(w) \/ UnlinkClientTopic(w)
      BY <2>3 DEF DeleteTopic, DeleteTopicRow, UnlinkClientTopic, UnlinkTopicRow, dbVars
    <2> QED
      BY <2>1, <2>2, <2>3
  <1>6. \A t \in Topics : topics'[t] \in {topics[t], NoRow}
    BY DEF WriteClient, CreateClient, UpdateClient, DeleteClient, DeleteClientRow, DeleteTopic, DeleteTopicRow,
           UnlinkClientTopic, UnlinkTopicRow, dbVars
  <1>7. ctopics' \subseteq ctopics
    BY DEF WriteClient, CreateClient, UpdateClient, DeleteClient, DeleteClientRow, DeleteTopic, DeleteTopicRow,
           UnlinkClientTopic, UnlinkTopicRow, dbVars
  <1>8. ASSUME NEW t \in Topics, NEW c \in Names, c \in ClientsForTopic(t)'
        PROVE  c \in ClientsForTopic(t) /\ topics'[t] = topics[t]
    <2>1. clients'[c].id # 0 /\ <<clients'[c].id, topics'[t].id>> \in ctopics
      BY <1>7, <1>8, TopicClients
    <2>2. clients'[c].id \in 1..(nextId - 1) /\ topics'[t].id \in 1..(nextId - 1)
      BY <1>3, <2>1
    <2>3. clients'[c].id # nextId /\ topics'[t].id # 0
      BY <1>4, <2>2
    <2>4. clients'[c].id = clients[c].id /\ topics'[t] = topics[t]
      BY <1>5, <1>6, <2>1, <2>3 DEF NoRow
    <2> QED
      BY <2>1, <2>4, TopicClients
  <1>9. \A t \in Topics, c \in Names : ~Distributing(rpc[w], t, c)
    <2>1. At(w, "WriteClient") \/ At(w, "DeleteClient") \/ At(w, "DeleteTopic") \/ At(w, "UnlinkClientTopic")
      BY Zenon DEF WriteClient, DeleteClient, DeleteTopic, UnlinkClientTopic
    <2>2. StepOf(rpc[w]) # "SendToAll"
      BY <2>1, AtOK DEF StepOf
    <2> QED
      BY <2>2, NotDistributing
  <1>10. /\ flaggedClients \subseteq flaggedClients' /\ flaggedTopics \subseteq flaggedTopics'
         /\ trail \subseteq trail'
    BY <1>2 DEF Frame
  <1>11. \A v \in Workers \ {w}, t \in Topics, c \in Names :
             Distributing(rpc[v], t, c) => Distributing(rpc[v], t, c)'
    BY <1>1, OthersDistribute
  <1> QED
    BY <1>2, <1>8, <1>9, <1>10, <1>11, TopicsStillAgree

(* The key committed is about to be sent to every client of the topic.     *)
LEMMA CommitAgrees ==
    ASSUME TypeOK, TypeOK', Apart, RowInv, ApartTopicInv, ApartClientInv, ApartPageInv, NEW w \in Workers, CommitTx(w)
    PROVE  TopicKeysAgree'
  <1>1. PICK r : r = rpc[w]
    OBVIOUS
  <1>2. /\ r \in ActiveCalls /\ StepOf(r) = "CommitTx" /\ r.op = "NewTopic" /\ r.pc = 4
        /\ r.t \in Topics /\ PageStep(r) /\ TopicStep(r) /\ rpc \in [Workers -> {Idle} \cup ActiveCalls]
    BY <1>1, AtOK, RowProgram, HandlerProgram DEF CommitTx, StepOf, ApartPageInv, ApartTopicInv, TypeOK
  <1>3. PICK n : n = [r EXCEPT !.pc = 5]
    OBVIOUS
  <1>4. n.op = "NewTopic" /\ n.pc = 5 /\ n.t = r.t /\ n.offset = 0
    BY <1>2, <1>3 DEF ActiveCalls, Calls, PageStep, Sending
  <1>5. rpc'[w] = n
    <2>1. Advance(r) = n
      BY <1>2, <1>3 DEF Advance, Program, Statements
    <2> QED
      BY <1>1, <1>2, <2>1 DEF CommitTx, Return
  <1>6. /\ clients' = clients /\ ctopics' = ctopics /\ dev' = dev
        /\ flaggedClients' = flaggedClients /\ flaggedTopics' = flaggedTopics
        /\ \A t \in Topics \ {r.t} : topics'[t] = topics[t]
        /\ trail \subseteq trail'
    <2>1. topics \in [Topics -> Row]
      BY DEF TypeOK, DBTypeOK
    <2> QED
      BY <1>1, <2>1 DEF CommitTx, Return, Record
  <1>7. \A t \in Topics : ClientsForTopic(t)' \in SUBSET Names
    BY DEF ClientsForTopic
  <1> SUFFICES ASSUME NEW t \in Topics, t \notin flaggedTopics', NEW c \in Names, c \in ClientsForTopic(t)',
                      c \notin flaggedClients'
               PROVE  \/ dev'[c].topics[t] \in {topics'[t].key, 0}
                      \/ Uncounted(t, topics[t].key)'
                      \/ \E v \in Workers : Distributing(rpc[v], t, c)'
    BY <1>7 DEF TopicKeysAgree
  <1>8. CASE t = r.t
    <2>1. Awaiting(ClientsForTopic(t)', n) = ClientsForTopic(t)'
      BY <1>4, <1>7, AllAwait
    <2>2. Distributing(rpc[w], t, c)'
      BY <1>4, <1>5, <1>8, <2>1 DEF Distributing, Awaiting
    <2> QED
      BY <2>2
  <1>9. CASE t # r.t
    <2>1. topics'[t] = topics[t] /\ c \in ClientsForTopic(t)
      BY <1>6, <1>9 DEF ClientsForTopic, NewRecord
    <2>2. ~Distributing(rpc[w], t, c)
      BY <1>1, <1>9 DEF Distributing
    <2>3. \/ dev[c].topics[t] \in {topics[t].key, 0} \/ Uncounted(t, topics[t].key)
          \/ \E v \in Workers : Distributing(rpc[v], t, c)
      BY <1>6, <2>1 DEF ApartPageInv, TopicKeysAgree
    <2>4. \A v \in Workers \ {w} : Distributing(rpc[v], t, c) => Distributing(rpc[v], t, c)'
      <3>1. Handle(w)
        BY DEF Handle
      <3> QED
        BY <3>1, OthersDistribute
    <2> QED
      BY <1>6, <2>1, <2>2, <2>3, <2>4 DEF Uncounted
  <1> QED
    BY <1>8, <1>9

(* The client that joins has had the key.                                  *)
LEMMA LinkAgrees ==
    ASSUME TypeOK, TypeOK', Apart, RowInv, ApartTopicInv, ApartClientInv, ApartPageInv,
           NEW w \in Workers, LinkClientTopic(w)
    PROVE  TopicKeysAgree'
  <1>1. PICK r : r = rpc[w]
    OBVIOUS
  <1>2. /\ r \in ActiveCalls /\ StepOf(r) = "LinkClientTopic" /\ r.op = "NewTopicClient" /\ r.pc = 4
        /\ r.c \in Names /\ r.t \in Topics /\ PageStep(r)
    <2>1. r \in ActiveCalls /\ StepOf(r) = "LinkClientTopic"
      BY <1>1, AtOK DEF LinkClientTopic, StepOf
    <2>2. r.op = "NewTopicClient"
      <3>1. r.op \in {"NewTopicClient", "RemoveTopicClient"}
        BY <2>1, RowProgram DEF StepOf, ClientTopicOps
      <3>2. r.pc \in 1..Len(Program(r.op))
        BY <2>1, ProgramLength DEF ActiveCalls, Calls
      <3> QED
        BY <2>1, <3>1, <3>2 DEF StepOf, Program, Statements
    <2> QED
      BY <1>1, <2>1, <2>2, HandlerProgram DEF ApartPageInv
  <1>3. HeldRows(r) /\ r.client.id # 0 /\ r.topic.id # 0
    <2>1. HeldRows(r) /\ RowsFound(r)
      BY <1>1 DEF RowInv
    <2> QED
      BY <1>2, <2>1 DEF RowsFound, ClientTopicOps, NewRecord
  <1>4. topics[r.t].id = 0 \/ r.c \in flaggedClients \/ dev[r.c].topics[r.t] \in {topics[r.t].key, 0}
    BY <1>2 DEF PageStep, NewRecord
  <1>5. /\ clients' = clients /\ topics' = topics /\ dev' = dev
        /\ ctopics' \subseteq ctopics \cup {<<r.client.id, r.topic.id>>}
    BY <1>1 DEF LinkClientTopic, LinkTopicRow, dbVars
  <1>6. flaggedClients \subseteq flaggedClients' /\ flaggedTopics \subseteq flaggedTopics' /\ trail \subseteq trail'
    BY DEF LinkClientTopic, Return, Fail, Record
  <1>7. /\ \A t \in Topics, c \in Names : ~Distributing(rpc[w], t, c)
        /\ \A v \in Workers \ {w}, t \in Topics, c \in Names :
               Distributing(rpc[v], t, c) => Distributing(rpc[v], t, c)'
    <2>1. Handle(w)
      BY DEF Handle
    <2>2. \A t \in Topics, c \in Names : ~Distributing(rpc[w], t, c)
      BY <1>1, <1>2 DEF Distributing
    <2> QED
      BY <2>1, <2>2, OthersDistribute
  <1>8. \A t \in Topics : ClientsForTopic(t)' \in SUBSET Names
    BY DEF ClientsForTopic
  <1> SUFFICES ASSUME NEW t \in Topics, t \notin flaggedTopics', NEW c \in Names, c \in ClientsForTopic(t)',
                      c \notin flaggedClients'
               PROVE  \/ dev'[c].topics[t] \in {topics'[t].key, 0}
                      \/ Uncounted(t, topics[t].key)'
                      \/ \E v \in Workers : Distributing(rpc[v], t, c)'
    BY <1>8 DEF TopicKeysAgree
  <1>9. CASE c \in ClientsForTopic(t)
    <2>1. \/ dev[c].topics[t] \in {topics[t].key, 0} \/ Uncounted(t, topics[t].key)
          \/ \E v \in Workers : Distributing(rpc[v], t, c)
      BY <1>6, <1>9 DEF ApartPageInv, TopicKeysAgree
    <2> QED
      BY <1>5, <1>6, <1>7, <2>1 DEF Uncounted
  <1>10. CASE c \notin ClientsForTopic(t)
    <2>1. clients[c].id = r.client.id /\ topics[t].id = r.topic.id
      BY <1>5, <1>10, TopicClients
    <2>2. c = r.c /\ t = r.t
      BY <1>3, <2>1 DEF HeldRows, NewRecord
    <2> QED
      BY <1>3, <1>4, <1>5, <1>6, <2>1, <2>2
  <1> QED
    BY <1>9, <1>10

(* The topics that have clients exist.                                     *)
LEMMA LinkedTopicsExist ==
    ASSUME TypeOK, RowInv, NEW t \in Topics, NEW c \in ClientsForTopic(t)
    PROVE  ~NewRecord(topics[t])
  BY DEF RowInv, LinkIds, ClientsForTopic, NewRecord, TypeOK, DBTypeOK

(* A key is sent to a client.                                              *)
LEMMA PublishAgrees ==
    ASSUME TypeOK, TypeOK', Apart, RowInv, ApartTopicInv, ApartClientInv, ApartPageInv, NEW w \in Workers, Publish(w)
    PROVE  TopicKeysAgree'
  <1>1. Handle(w)
    BY DEF Handle
  <1>2. rpc[w] \in ActiveCalls /\ StepOf(rpc[w]) = "Publish"
    BY PublishSends
  <1>3. Frame(w)
    BY <1>1, HandleShape
  <1>4. /\ clients' = clients /\ topics' = topics /\ ctopics' = ctopics
        /\ flaggedClients \subseteq flaggedClients' /\ flaggedTopics \subseteq flaggedTopics'
        /\ trail \subseteq trail'
    BY <1>2, <1>3 DEF Frame
  <1>5. \A t \in Topics, c \in Names : ~Distributing(rpc[w], t, c)
    BY <1>2, NotDistributing
  <1>6. \A v \in Workers \ {w}, t \in Topics, c \in Names :
            Distributing(rpc[v], t, c) => Distributing(rpc[v], t, c)'
    BY <1>1, OthersDistribute
  <1>7. \A t \in Topics, c \in Names : c \in ClientsForTopic(t) =>
            dev'[c].topics[t] \in {dev[c].topics[t], 0, topics[t].key}
    BY <1>1, TopicKeyGiven, LinkedTopicsExist
  <1>8. \A t \in Topics, c \in Names : c \in ClientsForTopic(t)' => c \in ClientsForTopic(t) /\ topics'[t] = topics[t]
    BY <1>4, TopicClients
  <1> QED
    BY <1>4, <1>5, <1>6, <1>7, <1>8, TopicsStillAgree DEF ApartPageInv

(* The key of the topic reaches the next client of the page.               *)
LEMMA SendAgrees ==
    ASSUME TypeOK, TypeOK', Apart, RowInv, ApartTopicInv, ApartClientInv, ApartPageInv, NEW w \in Workers,
           SendToNext(w)
    PROVE  TopicKeysAgree'
  <1>1. PICK r : r = rpc[w]
    OBVIOUS
  <1>2. PICK n : /\ rpc'[w] = n
                 /\ n.op = r.op /\ n.pc = r.pc /\ n.t = r.t
                 /\ r \in ActiveCalls /\ StepOf(r) = "SendToAll"
                 /\ n.offset = r.offset /\ n.todo = r.todo \ {First(r)}
    BY <1>1, OneSent
  <1>3. PICK m \in Messages : /\ m = Message(Broadcast(r), First(r)) /\ dev' \in {dev, Received(m)}
                             /\ First(r) \in r.todo /\ First(r) \in [name : Names, row : Row]
    BY <1>1, SendSends
  <1>4. PICK outcome \in Outcomes :
           /\ Transmit(m, outcome)
           /\ flaggedClients' = IF outcome = "ok" THEN flaggedClients ELSE flaggedClients \cup {First(r).name}
    BY <1>1, <1>3, Zenon DEF SendToNext, First
  <1>5. /\ clients' = clients /\ topics' = topics /\ ctopics' = ctopics /\ flaggedTopics' = flaggedTopics
        /\ flaggedClients \subseteq flaggedClients' /\ trail' = trail
    <2>1. /\ clients' = clients /\ topics' = topics /\ ctopics' = ctopics
          /\ flaggedTopics' = flaggedTopics /\ trail' = trail
      BY DEF SendToNext, dbVars
    <2> QED
      BY <1>4, <2>1
  <1>6. PageStep(r) /\ TopicStep(r)
    BY <1>1 DEF ApartPageInv, ApartTopicInv
  <1>7. r.op = "NewTopic" => r.pc = 5 /\ topics[r.t] = r.topic /\ r.topic.key = r.key
    BY <1>2, <1>6, HandlerProgram DEF TopicStep
  <1>8. /\ m.to = First(r).name /\ m.cmd = Broadcast(r)
        /\ m.to \in flaggedClients \/ m.under = dev[m.to].key
    BY <1>3, <1>6 DEF Message, PageStep
  <1>9. Handle(w)
    BY DEF Handle
  <1>10. \A t \in Topics, c \in Names : c \in ClientsForTopic(t) =>
            dev'[c].topics[t] \in {dev[c].topics[t], 0, topics[t].key}
    BY <1>9, TopicKeyGiven, LinkedTopicsExist
  <1>11. ASSUME NEW t \in Topics, NEW c \in Names, Distributing(r, t, c)
         PROVE  \/ c \in flaggedClients'
                \/ Distributing(rpc[w], t, c)'
                \/ dev'[c].topics[t] \in {topics[t].key, 0}
    <2>1. c \in ClientsForTopic(t) /\ c \in Awaiting(ClientsForTopic(t), r) /\ r.op = "NewTopic" /\ r.t = t /\ r.pc = 5
      BY <1>11 DEF Distributing, Awaiting
    <2>2. c \in Awaiting(ClientsForTopic(t), n) \/ c = First(r).name
      BY <1>2, <2>1, OneLessAwaits
    <2>3. CASE c \in Awaiting(ClientsForTopic(t), n)
      <3>1. ClientsForTopic(t)' = ClientsForTopic(t)
        BY <1>5 DEF ClientsForTopic, NewRecord
      <3> QED
        BY <1>2, <2>1, <2>3, <3>1 DEF Distributing, Awaiting
    <2>4. CASE c = First(r).name /\ outcome # "ok"
      BY <1>4, <2>4
    <2>5. CASE c = First(r).name /\ outcome = "ok" /\ c \notin flaggedClients
      <3>2. dev'[c] = Apply(dev[c], m.cmd)
        BY <1>4, <1>8, <2>5, ReceivedIs DEF Transmit
      <3>3. /\ m.cmd.type = "SetTopicKey" /\ m.cmd.name = t /\ m.cmd.key = topics[t].key
            /\ m.cmd \in Commands /\ dev[c] \in Devices
        BY <1>7, <1>8, <2>1 DEF Broadcast, Cmd, Messages, TypeOK
      <3> QED
        BY <3>2, <3>3, ApplyIs
    <2> QED
      BY <1>5, <2>2, <2>3, <2>4, <2>5
  <1>12. \A t \in Topics, c \in Names : c \in ClientsForTopic(t)' => c \in ClientsForTopic(t) /\ topics'[t] = topics[t]
    BY <1>5, TopicClients
  <1>13. \A v \in Workers \ {w}, t \in Topics, c \in Names :
             Distributing(rpc[v], t, c) => Distributing(rpc[v], t, c)'
    BY <1>9, OthersDistribute
  <1> QED
    BY <1>1, <1>5, <1>10, <1>11, <1>12, <1>13, TopicsStillAgree DEF ApartPageInv

(* The next page is read, or there is none left.                           *)
LEMMA PageAgrees ==
    ASSUME TypeOK, TypeOK', Apart, RowInv, ApartTopicInv, ApartClientInv, ApartPageInv, NEW w \in Workers,
           ReadPage(w) \/ EndOfPages(w)
    PROVE  TopicKeysAgree'
  <1>1. PICK r : r = rpc[w]
    OBVIOUS
  <1>2. /\ clients' = clients /\ topics' = topics /\ ctopics' = ctopics /\ dev' = dev
        /\ flaggedClients \subseteq flaggedClients' /\ flaggedTopics \subseteq flaggedTopics' /\ trail \subseteq trail'
    <2>1. Handle(w)
      BY DEF Handle
    <2>2. clients' = clients /\ topics' = topics /\ ctopics' = ctopics /\ dev' = dev
      BY DEF ReadPage, EndOfPages, dbVars
    <2> QED
      BY <2>1, <2>2, HandleShape DEF Frame
  <1>3. \A t \in Topics : ClientsForTopic(t)' = ClientsForTopic(t) /\ ClientsForTopic(t) \in SUBSET Names
    BY <1>2 DEF ClientsForTopic, NewRecord
  <1>4. ASSUME NEW t \in Topics, NEW c \in Names, Distributing(r, t, c)
        PROVE  t \in flaggedTopics' \/ Distributing(rpc[w], t, c)' \/ Uncounted(t, topics[t].key)
    <2>1. c \in Awaiting(ClientsForTopic(t), r) /\ r.op = "NewTopic" /\ r.t = t /\ r.pc = 5 /\ t # 0
      BY <1>4 DEF Distributing, Topics
    <2>2. CASE ReadPage(w)
      <3>1. PICK n : /\ rpc'[w] = n
                     /\ n.op = r.op /\ n.pc = r.pc /\ n.t = r.t
                     /\ r.todo = {} /\ r.offset \in Nat /\ n.offset = r.offset + BatchSize
                     /\ \/ n.todo = {[name |-> b, row |-> clients[b]] : b \in Page(Audience(r), r.offset, BatchSize)}
                        \/ flaggedTopics' = flaggedTopics \cup ({r.t} \ {0})
        BY <1>1, <2>2, PageRead
      <3>2. CASE n.todo = {[name |-> b, row |-> clients[b]] : b \in Page(Audience(r), r.offset, BatchSize)}
        <4>1. Audience(r) = ClientsForTopic(t)
          BY <2>1 DEF Audience
        <4>2. \A b \in Page(ClientsForTopic(t), r.offset, BatchSize) : \E x \in n.todo : x.name = b
          <5> SUFFICES ASSUME NEW b \in Page(ClientsForTopic(t), r.offset, BatchSize)
                       PROVE  \E x \in n.todo : x.name = b
            OBVIOUS
          <5>1. [name |-> b, row |-> clients[b]] \in n.todo
            BY <3>2, <4>1
          <5> QED
            BY <5>1
        <4>3. c \in Awaiting(ClientsForTopic(t), n)
          BY <1>3, <2>1, <3>1, <4>2, PageAwaits
        <4> QED
          BY <1>3, <2>1, <3>1, <4>3 DEF Distributing, Awaiting
      <3>3. CASE flaggedTopics' = flaggedTopics \cup ({r.t} \ {0})
        BY <2>1, <3>3
      <3> QED
        BY <3>1, <3>2, <3>3
    <2>3. CASE EndOfPages(w)
      <3>1. r.todo = {} /\ r.offset \in Nat /\ r.count \in Nat /\ r.count <= r.offset
        BY <1>1, <2>3, PagesEnd
      <3>2. r.count = Cardinality(ClientsForTopic(t)) \/ Uncounted(t, topics[t].key)
        <4>0. PageStep(r) /\ TopicStep(r)
          BY <1>1 DEF ApartPageInv, ApartTopicInv
        <4>1. /\ r.count = Cardinality(LinkedTo(r.topic.id)) \/ Uncounted(r.t, r.key)
              /\ topics[r.t] = r.topic /\ r.topic.key = r.key
          BY <2>1, <4>0 DEF PageStep, TopicStep
        <4> QED
          BY <2>1, <4>1, TopicClients
      <3>3. r.count = Cardinality(ClientsForTopic(t)) => Awaiting(ClientsForTopic(t), r) = {}
        BY <1>3, <3>1, NoneAwait
      <3> QED
        BY <2>1, <3>2, <3>3
    <2> QED
      BY <2>2, <2>3
  <1>5. \A t \in Topics, c \in Names : c \in ClientsForTopic(t)' => c \in ClientsForTopic(t) /\ topics'[t] = topics[t]
    BY <1>2, <1>3
  <1>6. \A v \in Workers \ {w}, t \in Topics, c \in Names :
            Distributing(rpc[v], t, c) => Distributing(rpc[v], t, c)'
    <2>1. Handle(w)
      BY DEF Handle
    <2> QED
      BY <2>1, OthersDistribute
  <1> QED
    BY <1>1, <1>2, <1>4, <1>5, <1>6, TopicsStillAgree DEF ApartPageInv

LEMMA TopicsQuiet ==
    ASSUME TypeOK, TopicKeysAgree, NEW w \in Workers, rpc[w] = Idle \/ StepOf(rpc[w]) # "SendToAll",
           \A v \in Workers \ {w} : rpc'[v] = rpc[v],
           clients' = clients, topics' = topics, ctopics' = ctopics,
           \A c \in Names : dev'[c] = dev[c] \/ c \in flaggedClients',
           flaggedClients \subseteq flaggedClients', flaggedTopics \subseteq flaggedTopics', trail \subseteq trail'
    PROVE  TopicKeysAgree'
  <1>1. \A t \in Topics, c \in Names : ~Distributing(rpc[w], t, c)
    BY NotDistributing
  <1>2. \A t \in Topics, c \in Names : c \in ClientsForTopic(t)' => c \in ClientsForTopic(t) /\ topics'[t] = topics[t]
    BY TopicClients
  <1>3. \A t \in Topics : ClientsForTopic(t)' = ClientsForTopic(t)
    BY DEF ClientsForTopic, NewRecord
  <1>4. \A v \in Workers \ {w}, t \in Topics, c \in Names :
            Distributing(rpc[v], t, c) => Distributing(rpc[v], t, c)'
    BY <1>3 DEF Distributing, Awaiting
  <1> QED
    BY <1>1, <1>2, <1>4, TopicsStillAgree

LEMMA HandleTopicKeys ==
    ASSUME TypeOK, TypeOK', Apart, RowInv, ApartTopicInv, ApartClientInv, ApartPageInv,
           NEW w \in Workers, Handle(w)
    PROVE  TopicKeysAgree'
  <1>1. Frame(w) /\ rpc[w] \in ActiveCalls /\ TopicKeysAgree /\ \A v \in Workers \ {w} : rpc'[v] = rpc[v]
    BY HandleShape, OneMoves DEF ApartPageInv
  <1>2. CASE WriteClient(w) \/ DeleteClient(w) \/ DeleteTopic(w) \/ UnlinkClientTopic(w)
    BY <1>1, <1>2, StoreAgrees
  <1>3. CASE CommitTx(w)
    BY <1>3, CommitAgrees
  <1>4. CASE LinkClientTopic(w)
    BY <1>4, LinkAgrees
  <1>5. CASE Publish(w)
    BY <1>5, PublishAgrees
  <1>6. CASE SendToNext(w)
    BY <1>6, SendAgrees
  <1>7. CASE ReadPage(w) \/ EndOfPages(w)
    BY <1>7, PageAgrees
  <1>8. CASE DBFault(w)
    <2>1. clients' = clients /\ topics' = topics /\ ctopics' = ctopics /\ dev' = dev
      BY <1>8 DEF DBFault, dbVars
    <2>2. StepOf(rpc[w]) # "SendToAll"
      BY <1>8, AtOK DEF DBFault, DBSteps, StepOf
    <2> QED
      BY <1>1, <2>1, <2>2, TopicsQuiet DEF Frame
  <1>9. CASE StepOf(rpc[w]) \notin {"WriteClient", "DeleteClient", "DeleteTopic", "UnlinkClientTopic", "CommitTx",
                                    "LinkClientTopic", "Publish", "SendToAll"}
    BY <1>1, <1>9, TopicsQuiet DEF Frame
  <1> QED
    BY <1>2, <1>3, <1>4, <1>5, <1>6, <1>7, <1>8, <1>9, ByStatement

(* A step that changes no table, and devices only of flagged clients.      *)
LEMMA PageStepStays ==
    ASSUME TypeOK, NEW v \in Workers, PageStep(rpc[v]), rpc'[v] = rpc[v],
           clients' = clients, topics' = topics, ctopics' = ctopics, cclients' = cclients,
           flaggedClients' = flaggedClients, trail' = trail, \A c \in Names : dev'[c] = dev[c] \/ c \in flaggedClients
    PROVE  PageStep(rpc[v])'
  <1>1. PICK r : r = rpc[v]
    OBVIOUS
  <1>2. PageStep(r) /\ r \in {Idle} \cup ActiveCalls
    BY <1>1 DEF TypeOK
  <1>3. Audience(r)' = Audience(r) /\ Audience(r) \subseteq Names /\ LinkedTo(r.topic.id)' = LinkedTo(r.topic.id)
    BY DEF Audience, ClientsForTopic, LinkedClients, LinkedTo, NewRecord
  <1>4. r.op = "NewTopicClient" => r.c \in Names
    BY <1>2, HandlerProgram DEF Idle
  <1>5. r.op = "NewTopic" /\ r.pc >= 4 => r.count = Cardinality(LinkedTo(r.topic.id)') \/ Uncounted(r.t, r.key)'
    BY <1>2, <1>3 DEF PageStep, Uncounted
  <1> QED
    BY <1>1, <1>2, <1>3, <1>4, <1>5 DEF PageStep, Sending, NewRecord

LEMMA NextApartPageInv ==
    Apart /\ TypeOK /\ TypeOK' /\ RowInv /\ ApartTopicInv /\ ApartClientInv /\ ApartPageInv /\ [Next]_vars
      => ApartPageInv'
  <1> SUFFICES ASSUME Apart, TypeOK, TypeOK', RowInv, ApartTopicInv, ApartClientInv, ApartPageInv,
                      [Next]_vars
               PROVE  ApartPageInv'
    OBVIOUS
  <1>0. TopicKeysAgree /\ \A w \in Workers : PageStep(rpc[w])
    BY DEF ApartPageInv
  <1>1. ASSUME NEW w \in Workers, Handle(w) PROVE ApartPageInv'
    <2>1. PageStep(rpc[w])'
      BY <1>1, PageStepMoves
    <2>2. \A v \in Workers : PageStep(rpc[v])'
      BY <1>0, <1>1, <2>1, PageStepOthers
    <2> QED
      BY <1>1, <2>2, HandleTopicKeys DEF ApartPageInv
  <1>2. ASSUME NEW w \in Workers, Call(w) PROVE ApartPageInv'
    <2>1. /\ clients' = clients /\ topics' = topics /\ ctopics' = ctopics /\ cclients' = cclients
          /\ dev' = dev /\ rpc[w] = Idle
          /\ flaggedClients' = flaggedClients /\ flaggedTopics' = flaggedTopics /\ trail' = trail
      BY <1>2 DEF Call, dbVars
    <2>2. PICK op \in Ops : \E a \in Arguments(op) :
             rpc' = [rpc EXCEPT ![w] = [Idle EXCEPT !.op = op, !.pc = 1, !.c = a.c, !.d = a.d, !.t = a.t,
                                                    !.key = CallKey(op, a.c)]]
      BY <1>2 DEF Call
    <2>3. PICK a \in Arguments(op) :
             rpc' = [rpc EXCEPT ![w] = [Idle EXCEPT !.op = op, !.pc = 1, !.c = a.c, !.d = a.d, !.t = a.t,
                                                    !.key = CallKey(op, a.c)]]
      BY <2>2
    <2>4. PICK n : n = [Idle EXCEPT !.op = op, !.pc = 1, !.c = a.c, !.d = a.d, !.t = a.t, !.key = CallKey(op, a.c)]
      OBVIOUS
    <2>5. n.pc = 1 /\ n.offset = 0 /\ n.todo = {}
      BY <2>4 DEF Idle
    <2>6. PageStep(n)'
      BY <2>5 DEF PageStep
    <2>7. rpc'[w] = n /\ \A v \in Workers \ {w} : rpc'[v] = rpc[v]
      BY <2>3, <2>4, OthersStay
    <2>9. \A v \in Workers : PageStep(rpc[v])'
      <3>1. ASSUME NEW v \in Workers, v # w PROVE PageStep(rpc[v])'
        BY <1>0, <2>1, <2>7, <3>1, PageStepStays
      <3> QED
        BY <2>6, <2>7, <3>1 DEF PageStep
    <2>8. TopicKeysAgree'
      BY <1>0, <2>1, <2>7, TopicsQuiet
    <2> QED
      BY <2>8, <2>9 DEF ApartPageInv
  <1>3. CASE Arrive
    <2>1. PICK m \in inflight : dev' \in {Received(m), dev}
      BY <1>3 DEF Arrive
    <2>2. /\ clients' = clients /\ topics' = topics /\ ctopics' = ctopics /\ cclients' = cclients /\ rpc' = rpc
          /\ flaggedClients' = flaggedClients /\ flaggedTopics' = flaggedTopics /\ trail' = trail
      BY <1>3 DEF Arrive, dbVars
    <2>3. m \in Messages /\ m.to \in flaggedClients
      BY DEF TypeOK, ApartClientInv, LateAreFlagged
    <2>4. \A c \in Names : dev'[c] = dev[c] \/ c \in flaggedClients
      BY <2>1, <2>3, ReceivedIs
    <2>5. \A v \in Workers : PageStep(rpc[v])'
      BY <1>0, <2>2, <2>4, PageStepStays
    <2>6. TopicKeysAgree'
      <3>1. \A t \in Topics : ClientsForTopic(t)' = ClientsForTopic(t) /\ ClientsForTopic(t) \subseteq Names
        BY <2>2 DEF ClientsForTopic, NewRecord
      <3>2. \A v \in Workers, t \in Topics, c \in Names : Distributing(rpc[v], t, c) => Distributing(rpc[v], t, c)'
        BY <2>2, <3>1 DEF Distributing, Awaiting
      <3> SUFFICES ASSUME NEW t \in Topics \ flaggedTopics, NEW c \in Names, c \in ClientsForTopic(t),
                          c \notin flaggedClients
                   PROVE  \/ dev'[c].topics[t] \in {topics[t].key, 0}
                          \/ Uncounted(t, topics[t].key)
                          \/ \E v \in Workers : Distributing(rpc[v], t, c)
        BY <2>2, <3>1, <3>2 DEF TopicKeysAgree, Uncounted
      <3> QED
        BY <1>0, <2>4 DEF TopicKeysAgree
    <2> QED
      BY <2>5, <2>6 DEF ApartPageInv
  <1>4. CASE UNCHANGED vars
    <2>1. /\ clients' = clients /\ topics' = topics /\ ctopics' = ctopics /\ cclients' = cclients
          /\ dev' = dev /\ rpc' = rpc
          /\ flaggedClients' = flaggedClients /\ flaggedTopics' = flaggedTopics /\ trail' = trail
      BY <1>4 DEF vars, dbVars
    <2>2. \A v \in Workers : PageStep(rpc[v])'
      BY <1>0, <2>1, PageStepStays
    <2>3. TopicKeysAgree'
      <3>1. \A t \in Topics : ClientsForTopic(t)' = ClientsForTopic(t)
        BY <2>1 DEF ClientsForTopic, NewRecord
      <3>2. \A v \in Workers, t \in Topics, c \in Names : Distributing(rpc[v], t, c) => Distributing(rpc[v], t, c)'
        BY <2>1, <3>1 DEF Distributing, Awaiting
      <3> SUFFICES ASSUME NEW t \in Topics \ flaggedTopics, NEW c \in Names, c \in ClientsForTopic(t),
                          c \notin flaggedClients
                   PROVE  \/ dev[c].topics[t] \in {topics[t].key, 0}
                          \/ Uncounted(t, topics[t].key)
                          \/ \E v \in Workers : Distributing(rpc[v], t, c)
        BY <2>1, <3>1, <3>2 DEF TopicKeysAgree, ClientsForTopic, Uncounted
      <3> QED
        BY <1>0 DEF TopicKeysAgree
    <2> QED
      BY <2>2, <2>3 DEF ApartPageInv
  <1>5. CASE Restart
    <2>1. /\ clients' = clients /\ topics' = topics /\ ctopics' = ctopics /\ dev' = dev
          /\ flaggedClients \subseteq flaggedClients' /\ trail' = trail
          /\ flaggedTopics' = flaggedTopics \cup ({rpc[w].t : w \in Workers} \ {0})
          /\ \A v \in Workers : rpc'[v] = Idle
      BY <1>5 DEF Restart, dbVars
    <2>2. \A v \in Workers : PageStep(rpc[v])'
      BY <2>1, IdlePageStep DEF PageStep
    <2>3. TopicKeysAgree'
      <3> SUFFICES ASSUME NEW t \in Topics, t \notin flaggedTopics', NEW c \in Names, c \in ClientsForTopic(t),
                          c \notin flaggedClients
                   PROVE  dev[c].topics[t] \in {topics[t].key, 0} \/ Uncounted(t, topics[t].key)
        BY <2>1 DEF TopicKeysAgree, ClientsForTopic, NewRecord, Uncounted
      <3>1. \A v \in Workers : ~Distributing(rpc[v], t, c)
        BY <2>1 DEF Distributing, Topics
      <3> QED
        BY <1>0, <2>1, <3>1 DEF TopicKeysAgree
    <2> QED
      BY <2>2, <2>3 DEF ApartPageInv
  <1> QED
    BY <1>1, <1>2, <1>3, <1>4, <1>5 DEF Next, Finished

LEMMA InitApartPageInv == Init => ApartPageInv
  <1> SUFFICES ASSUME Init PROVE ApartPageInv
    OBVIOUS
  <1>1. \A w \in Workers : PageStep(rpc[w])
    BY DEF Init, PageStep, Idle
  <1>2. ASSUME NEW t \in Topics, NEW c \in ClientsForTopic(t) PROVE dev[c].topics[t] \in {topics[t].key, 0}
    BY <1>2 DEF Init, DBInit, ClientsForTopic
  <1> QED
    BY <1>1, <1>2 DEF ApartPageInv, TopicKeysAgree

LEMMA ApartPages == ApartSpec => []ApartPageInv
  <1>1. /\ Apart /\ TypeOK /\ TypeOK' /\ RowInv /\ ApartTopicInv /\ ApartClientInv /\ ApartPageInv /\ [Next]_vars
        => ApartPageInv'
    BY NextApartPageInv
  <1> QED
    BY <1>1, ApartKept, TypeCorrect, RowsKeepTheirNames, ApartTopics, ApartClients, InitApartPageInv, PTL DEF Spec

(* While calls are kept apart, a client linked to a topic holds its        *)
(* current key or none, never an old one, unless an error of a call about  *)
(* the client or the topic says so, or the NewTopic that made the key took *)
(* a count that failed for a topic without clients.                        *)
THEOREM NoTopicKeyIsLostSilently == ApartSpec => []NoSilentStaleTopicKey
  <1>1. ApartPageInv => NoSilentStaleTopicKey
    BY DEF ApartPageInv, TopicKeysAgree, NoSilentStaleTopicKey, AllIdle, Distributing, Idle
  <1> QED
    BY <1>1, ApartPages, PTL

-----------------------------------------------------------------------------
(* The clients linked to one that is rekeyed.                              *)

RekeyStep(r) ==
    r.op = "NewClientKey" /\ r.pc = 6 =>
        /\ r.count = Cardinality(LinkedClients(clients[r.c])) \/ Uncounted(r.c, r.key)
        /\ \A p \in LinkedClients(clients[r.c]) \ Awaiting(LinkedClients(clients[r.c]), r) :
               r.c \in flaggedClients \/ p \in flaggedClients \/ dev[p].pubs[r.c] = r.key

ApartRekeyInv == \A w \in Workers : RekeyStep(rpc[w])

LEMMA IdleRekeyStep == RekeyStep(Idle)'
  BY DEF RekeyStep, Idle

LEMMA LinkedAre == \A row : LinkedClients(row) \in SUBSET Names
  BY DEF LinkedClients

(* The linked clients are counted: all are waiting.                        *)
LEMMA RekeyCounts ==
    ASSUME TypeOK, ApartPageInv, NEW w \in Workers, CountLinked(w)
    PROVE  RekeyStep(rpc[w])'
  <1>1. PICK r : r = rpc[w]
    OBVIOUS
  <1>2. /\ r \in ActiveCalls /\ StepOf(r) = "CountLinked" /\ r.op = "NewClientKey" /\ r.pc = 5 /\ r.c \in Names
        /\ PageStep(r) /\ rpc \in [Workers -> {Idle} \cup ActiveCalls]
    BY <1>1, AtOK, RowProgram, HandlerProgram DEF CountLinked, StepOf, ApartPageInv, TypeOK
  <1>3. PICK count \in Nat :
            /\ count = Cardinality(LinkedClients(clients[r.c])) \/ <<"uncounted", r.c, r.key>> \in trail'
            /\ \/ rpc' = [rpc EXCEPT ![w] = Idle]
               \/ Return(w, [r EXCEPT !.count = count])
    <2>1. CASE NewRecord(clients[r.c])
      <3>1. Cardinality(LinkedClients(clients[r.c])) \in Nat
        BY SubsetCard, LinkedAre
      <3> QED
        BY <1>1, <2>1, <3>1 DEF CountLinked, Fail
    <2>2. CASE ~NewRecord(clients[r.c])
      <3>1. Counted(w, r.c, LinkedClients(clients[r.c]), Unnoticed(FALSE))
        BY <1>1, <2>2 DEF CountLinked
      <3> QED
        BY <1>1, <3>1, CountedIs, LinkedAre
    <2> QED
      BY <2>1, <2>2
  <1>4. PICK k : k = [r EXCEPT !.count = count]
    OBVIOUS
  <1>5. k.op = r.op /\ k.pc = r.pc
    BY <1>2, <1>4 DEF ActiveCalls, Calls
  <1>6. CASE rpc' = [rpc EXCEPT ![w] = Idle]
    BY <1>2, <1>6, IdleRekeyStep DEF RekeyStep
  <1>7. CASE rpc' = [rpc EXCEPT ![w] = Advance(k)]
    <2>1. Advance(k) \in {Idle, [k EXCEPT !.pc = 6]}
      BY <1>2, <1>5 DEF Advance
    <2>2. CASE Advance(k) = Idle
      BY <1>2, <1>7, <2>2, IdleRekeyStep DEF RekeyStep
    <2>3. CASE Advance(k) = [k EXCEPT !.pc = 6]
      <3>1. PICK n : n = [k EXCEPT !.pc = 6]
        OBVIOUS
      <3>2. n.c = r.c /\ n.key = r.key /\ n.offset = 0 /\ n.count = count
        BY <1>2, <1>4, <3>1 DEF ActiveCalls, Calls, PageStep, Sending
      <3>3. rpc'[w] = n
        BY <1>2, <1>7, <2>3, <3>1
      <3>4. clients' = clients /\ cclients' = cclients
        BY DEF CountLinked, dbVars
      <3>5. LinkedClients(clients[r.c])' = LinkedClients(clients[r.c])
        BY <3>4 DEF LinkedClients, NewRecord
      <3>6. Awaiting(LinkedClients(clients[r.c]), n) = LinkedClients(clients[r.c])
        BY <3>2, AllAwait, LinkedAre
      <3> QED
        BY <1>3, <3>2, <3>3, <3>4, <3>5, <3>6 DEF RekeyStep, Awaiting, Uncounted
    <2> QED
      BY <2>1, <2>2, <2>3
  <1> QED
    BY <1>3, <1>4, <1>6, <1>7 DEF Return

(* A device changes a public key only when told to.                        *)
LEMMA PubKeyStays ==
    ASSUME TypeOK, NEW m \in Messages, dev' \in {dev, Received(m)}, NEW p \in Names, NEW c \in Names
    PROVE  \/ dev'[p].pubs[c] = dev[p].pubs[c]
           \/ m.cmd.type \in {"SetPubKey", "RemovePubKey"} /\ m.cmd.name = c
           \/ m.cmd.type = "ResetPubKeys" /\ p = m.to
  <1>1. CASE dev'[p] = dev[p]
    BY <1>1
  <1>2. CASE dev'[p] # dev[p]
    <2>1. dev'[p] = Apply(dev[p], m.cmd) /\ p = m.to
      BY <1>2, ReceivedIs
    <2>2. dev[p] \in Devices /\ m.cmd \in Commands
      BY DEF TypeOK, Messages
    <2> QED
      BY <2>1, <2>2, ApplyIs
  <1> QED
    BY <1>1, <1>2

(* The public key of a client that is given a new one is sent to nobody by *)
(* the others, and forgotten by none of those it is sent to.               *)
LEMMA OtherPubKeys ==
    ASSUME TypeOK, TypeOK', Apart, NEW w \in Workers, Handle(w), NEW v \in Workers, v # w,
           NEW r, r = rpc[v], r.op = "NewClientKey", SendPubkeys, r.c \in Names,
           NEW p \in Names, p \in Audience(r)
    PROVE  dev'[p].pubs[r.c] = dev[p].pubs[r.c]
  <1>1. PICK s : s = rpc[w]
    OBVIOUS
  <1>2. r.c # s.c /\ (s.op = "ResetClientPubKeys" => p # s.c)
    BY <1>1, OtherCalls DEF Broadcasts
  <1>3. CASE Publish(w)
    <2>1. PICK m \in Messages : /\ m = Message(Command(s), Recipient(s)) /\ dev' \in {dev, Received(m)}
                               /\ s \in ActiveCalls /\ StepOf(s) = "Publish"
      BY <1>1, <1>3, PublishSends
    <2>2. m.cmd = Command(s) /\ m.to = Recipient(s).name
      BY <2>1 DEF Message
    <2>3. s.op \in {"ResetClient", "NewClientKey", "ResetClientPubKeys", "NewTopicClient",
                    "RemoveTopicClient", "SendClientPubKey", "RemoveClientPubKey"}
      BY <2>1, StatementOps DEF StepOf
    <2>4. ~(m.cmd.type \in {"SetPubKey", "RemovePubKey"} /\ m.cmd.name = r.c)
      BY <1>2, <2>2, <2>3 DEF Command, Cmd
    <2>5. ~(m.cmd.type = "ResetPubKeys" /\ p = m.to)
      <3> SUFFICES ASSUME m.cmd.type = "ResetPubKeys" PROVE p # m.to
        OBVIOUS
      <3>1. s.op = "ResetClientPubKeys"
        BY <2>2, <2>3 DEF Command, Cmd
      <3>2. m.to = s.c
        BY <2>2, <3>1 DEF Recipient, PeerOps
      <3> QED
        BY <1>2, <3>1, <3>2
    <2> QED
      BY <2>1, <2>4, <2>5, PubKeyStays
  <1>4. CASE SendToNext(w)
    <2>1. PICK m \in Messages : m = Message(Broadcast(s), First(s)) /\ dev' \in {dev, Received(m)}
      BY <1>1, <1>4, SendSends
    <2>2. ~(m.cmd.type \in {"SetPubKey", "RemovePubKey"} /\ m.cmd.name = r.c) /\ m.cmd.type # "ResetPubKeys"
      BY <1>2, <2>1 DEF Message, Broadcast, Cmd
    <2> QED
      BY <2>1, <2>2, PubKeyStays
  <1>5. CASE ReadPage(w) \/ EndOfPages(w) \/ DBFault(w)
    BY <1>5 DEF ReadPage, EndOfPages, DBFault
  <1>6. CASE StepOf(rpc[w]) \notin {"Publish", "SendToAll"}
    BY <1>6, HandleShape DEF Frame
  <1> QED
    BY <1>3, <1>4, <1>5, <1>6, ByStatement

(* So a call that sends a new public key is not undone by the others.      *)
LEMMA RekeyStepOthers ==
    ASSUME TypeOK, TypeOK', RowInv, Apart, ApartTopicInv, ApartClientInv,
           NEW w \in Workers, Handle(w), NEW v \in Workers, v # w, RekeyStep(rpc[v])
    PROVE  RekeyStep(rpc[v])'
  <1>1. PICK r : r = rpc[v]
    OBVIOUS
  <1>2. rpc'[v] = r
    BY <1>1, OneMoves
  <1> SUFFICES ASSUME r.op = "NewClientKey", r.pc = 6 PROVE RekeyStep(rpc[v])'
    BY <1>2 DEF RekeyStep
  <1>3. Sending(r) /\ r \in ActiveCalls
    BY <1>1 DEF Sending, TypeOK, Idle
  <1>4. /\ Audience(r)' = Audience(r) /\ Audience(r) \subseteq Names
        /\ r.c \in Names /\ clients'[r.c] = clients[r.c] /\ SendPubkeys
    BY <1>1, <1>3, OtherAudience
  <1> DEFINE S == LinkedClients(clients[r.c])
  <1>5. S = Audience(r) /\ S' = S
    BY <1>4 DEF Audience
  <1>6. \A p \in S : dev'[p].pubs[r.c] = dev[p].pubs[r.c]
    BY <1>1, <1>4, <1>5, OtherPubKeys
  <1>7. flaggedClients \subseteq flaggedClients' /\ trail \subseteq trail'
    BY HandleShape DEF Frame
  <1>8. /\ r.count = Cardinality(S) \/ Uncounted(r.c, r.key)
        /\ \A p \in S \ Awaiting(S, r) : r.c \in flaggedClients \/ p \in flaggedClients \/ dev[p].pubs[r.c] = r.key
    BY <1>1 DEF RekeyStep
  <1>9. /\ r.count = Cardinality(S') \/ Uncounted(r.c, r.key)'
        /\ \A p \in S' \ Awaiting(S', r) : r.c \in flaggedClients' \/ p \in flaggedClients' \/ dev'[p].pubs[r.c] = r.key
    <2> HIDE DEF S
    <2> QED
      BY <1>5, <1>6, <1>7, <1>8 DEF Uncounted
  <1> QED
    BY <1>2, <1>9 DEF RekeyStep, Awaiting

(* A step of the sending leaves those who are not waiting with the key.    *)
LEMMA RekeySends ==
    ASSUME TypeOK, ApartClientInv, ApartPageInv, ApartRekeyInv, NEW w \in Workers,
           ReadPage(w) \/ SendToNext(w) \/ EndOfPages(w)
    PROVE  RekeyStep(rpc[w])'
  <1>1. PICK r : r = rpc[w]
    OBVIOUS
  <1>2. r \in ActiveCalls /\ StepOf(r) = "SendToAll" /\ PageStep(r) /\ RekeyStep(r)
    <2>1. At(w, "SendToAll")
      BY DEF ReadPage, SendToNext, EndOfPages
    <2> QED
      BY <1>1, <2>1, AtOK DEF StepOf, ApartPageInv, ApartRekeyInv
  <1>3. clients' = clients /\ cclients' = cclients /\ trail' = trail
    BY DEF ReadPage, SendToNext, EndOfPages, dbVars
  <1> DEFINE S == LinkedClients(clients[r.c])
  <1>4. S' = S /\ S \in SUBSET Names
    BY <1>3, LinkedAre DEF LinkedClients, NewRecord
  <1>5. ASSUME NEW n, rpc'[w] = n, n.op = r.op, n.pc = r.pc, n.c = r.c, n.key = r.key, n.count = r.count,
               r.op = "NewClientKey" /\ r.pc = 6 => \A p \in S \ Awaiting(S, n) :
                   r.c \in flaggedClients' \/ p \in flaggedClients' \/ dev'[p].pubs[r.c] = r.key
        PROVE  RekeyStep(rpc[w])'
    BY <1>2, <1>3, <1>4, <1>5 DEF RekeyStep, Awaiting, Uncounted
  <1>6. ASSUME NEW p \in S, p \notin Awaiting(S, r), r.op = "NewClientKey", r.pc = 6
        PROVE  r.c \in flaggedClients \/ p \in flaggedClients \/ dev[p].pubs[r.c] = r.key
    BY <1>2, <1>6 DEF RekeyStep
  <1> HIDE DEF S
  <1>7. CASE ReadPage(w)
    <2>1. PICK n : /\ rpc'[w] = n
                   /\ n.op = r.op /\ n.pc = r.pc /\ n.c = r.c /\ n.key = r.key /\ n.count = r.count
                   /\ r.todo = {} /\ r.offset \in Nat /\ n.offset = r.offset + BatchSize
                   /\ \/ /\ n.todo = {[name |-> b, row |-> clients[b]] : b \in Page(Audience(r), r.offset, BatchSize)}
                         /\ flaggedClients' = flaggedClients
                      \/ flaggedClients' = flaggedClients \cup ({r.c} \ {0})
      BY <1>1, <1>7, PageRead
    <2>2. dev' = dev
      BY <1>7 DEF ReadPage
    <2>3. ASSUME r.op = "NewClientKey", r.pc = 6, NEW p \in S, p \notin Awaiting(S, n)
          PROVE  r.c \in flaggedClients' \/ p \in flaggedClients' \/ dev'[p].pubs[r.c] = r.key
      <3>1. CASE flaggedClients' = flaggedClients \cup ({r.c} \ {0})
        <4>1. r.c # 0
          BY <1>2, <2>3, HandlerProgram DEF Names
        <4> QED
          BY <3>1, <4>1
      <3>2. CASE /\ n.todo = {[name |-> b, row |-> clients[b]] : b \in Page(Audience(r), r.offset, BatchSize)}
                 /\ flaggedClients' = flaggedClients
        <4>1. Audience(r) = S
          BY <2>3 DEF Audience, S
        <4>2. \A b \in Page(S, r.offset, BatchSize) : \E x \in n.todo : x.name = b
          <5> SUFFICES ASSUME NEW b \in Page(S, r.offset, BatchSize) PROVE \E x \in n.todo : x.name = b
            OBVIOUS
          <5>1. [name |-> b, row |-> clients[b]] \in n.todo
            BY <3>2, <4>1
          <5> QED
            BY <5>1
        <4>3. p \notin Awaiting(S, r)
          BY <1>4, <2>1, <2>3, <4>2, PageAwaits
        <4> QED
          BY <1>6, <2>2, <2>3, <3>2, <4>3
      <3> QED
        BY <2>1, <3>1, <3>2
    <2> QED
      BY <1>5, <2>1, <2>3
  <1>8. CASE SendToNext(w)
    <2>1. PICK n : /\ rpc'[w] = n
                   /\ n.op = r.op /\ n.pc = r.pc /\ n.c = r.c /\ n.key = r.key /\ n.count = r.count
                   /\ n.offset = r.offset /\ n.todo = r.todo \ {First(r)}
      BY <1>1, <1>8, OneSent
    <2>2. PICK m \in Messages : /\ m = Message(Broadcast(r), First(r)) /\ dev' \in {dev, Received(m)}
                               /\ First(r) \in r.todo /\ First(r) \in [name : Names, row : Row]
      BY <1>1, <1>8, SendSends
    <2>3. PICK outcome \in Outcomes :
             /\ Transmit(m, outcome)
             /\ flaggedClients' = IF outcome = "ok" THEN flaggedClients ELSE flaggedClients \cup {First(r).name}
      BY <1>1, <1>8, <2>2, Zenon DEF SendToNext, First
    <2>4. /\ m.to = First(r).name /\ m.cmd = Broadcast(r) /\ m.cmd \in Commands
          /\ m.to \in flaggedClients \/ m.under = dev[m.to].key
      BY <1>2, <2>2 DEF Message, PageStep, Messages
    <2>5. ASSUME r.op = "NewClientKey", r.pc = 6, NEW p \in S, p \notin Awaiting(S, n)
          PROVE  r.c \in flaggedClients' \/ p \in flaggedClients' \/ dev'[p].pubs[r.c] = r.key
      <3>1. m.cmd.type = "SetPubKey" /\ m.cmd.name = r.c /\ m.cmd.key = r.key /\ r.c \in Names /\ p \in Names
        BY <1>2, <1>4, <2>4, <2>5, HandlerProgram DEF Broadcast, Cmd
      <3>2. dev[p] \in Devices
        BY <3>1 DEF TypeOK
      <3>3. dev'[p] = dev[p] \/ dev'[p].pubs[r.c] = r.key
        BY <2>2, <2>4, <3>1, <3>2, ReceivedIs, ApplyIs
      <3>4. CASE p \notin Awaiting(S, r)
        BY <1>6, <2>3, <2>5, <3>3, <3>4
      <3>5. CASE p \in Awaiting(S, r)
        <4>1. p = First(r).name
          BY <2>1, <2>5, <3>5, OneLessAwaits
        <4>2. CASE outcome # "ok"
          BY <2>3, <4>1, <4>2
        <4>3. CASE outcome = "ok" /\ p \notin flaggedClients
          <5>1. dev'[p] = Apply(dev[p], m.cmd)
            BY <2>3, <2>4, <3>1, <4>1, <4>3, ReceivedIs DEF Transmit
          <5> QED
            BY <2>4, <3>1, <3>2, <5>1, ApplyIs
        <4> QED
          BY <2>3, <4>2, <4>3
      <3> QED
        BY <3>4, <3>5
    <2> QED
      BY <1>5, <2>1, <2>5
  <1>9. CASE EndOfPages(w)
    <2>1. rpc'[w] = Advance(r)
      BY <1>1, <1>9, PagesEnd
    <2>2. CASE Advance(r) = Idle
      BY <2>1, <2>2, IdleRekeyStep DEF RekeyStep
    <2>3. CASE Advance(r) # Idle
      <3>1. Advance(r).op = r.op /\ Advance(r).pc = r.pc + 1 /\ r.pc \in Nat
        BY <1>2, <2>3, GoesOn
      <3>2. ~(r.op = "NewClientKey" /\ r.pc + 1 = 6)
        BY <1>2, HandlerProgram
      <3> QED
        BY <2>1, <3>1, <3>2 DEF RekeyStep
    <2> QED
      BY <2>2, <2>3
  <1> QED
    BY <1>7, <1>8, <1>9

(* A step that leaves the tables alone, and the devices that are well.     *)
LEMMA RekeyStepStays ==
    ASSUME NEW v \in Workers, RekeyStep(rpc[v]), rpc'[v] = rpc[v],
           clients' = clients, cclients' = cclients, flaggedClients' = flaggedClients, trail' = trail,
           \A c \in Names : dev'[c] = dev[c] \/ c \in flaggedClients
    PROVE  RekeyStep(rpc[v])'
  <1>1. \A row : LinkedClients(row)' = LinkedClients(row) /\ LinkedClients(row) \subseteq Names
    BY DEF LinkedClients, NewRecord
  <1> QED
    BY <1>1 DEF RekeyStep, Awaiting, LinkedClients, NewRecord, Uncounted

LEMMA NextApartRekeyInv ==
    /\ Apart /\ TypeOK /\ TypeOK' /\ RowInv /\ ApartTopicInv
    /\ ApartClientInv /\ ApartPageInv /\ ApartRekeyInv /\ [Next]_vars
    => ApartRekeyInv'
  <1> SUFFICES ASSUME Apart, TypeOK, TypeOK', RowInv, ApartTopicInv, ApartClientInv, ApartPageInv,
                      ApartRekeyInv, [Next]_vars
               PROVE  ApartRekeyInv'
    OBVIOUS
  <1>0. \A v \in Workers : RekeyStep(rpc[v])
    BY DEF ApartRekeyInv
  <1>1. ASSUME NEW w \in Workers, Handle(w) PROVE ApartRekeyInv'
    <2>0. \A v \in Workers \ {w} : RekeyStep(rpc[v])'
      BY <1>0, <1>1, RekeyStepOthers
    <2> SUFFICES RekeyStep(rpc[w])'
      BY <2>0 DEF ApartRekeyInv
    <2>1. rpc[w] \in ActiveCalls
      BY <1>1, HandleShape
    <2>2. PICK m \in ActiveCalls, n \in {Idle} \cup ActiveCalls :
              /\ ReadBy(m, rpc[w]) /\ rpc' = [rpc EXCEPT ![w] = n] /\ rpc'[w] = n
              /\ n = Advance(m) \/ n = Idle \/ (n = m /\ StepOf(rpc[w]) = "SendToAll")
      BY <1>1, CallStep
    <2>3. CASE n = Idle
      BY <2>2, <2>3, IdleRekeyStep DEF RekeyStep
    <2>4. ~DBFault(w) \/ n = Idle
      BY <2>2 DEF DBFault, Fail, TypeOK
    <2>5. CASE StepOf(rpc[w]) = "CountLinked" /\ n # Idle
      BY <1>1, <2>4, <2>5, ByStatement, RekeyCounts
    <2>6. CASE StepOf(rpc[w]) = "SendToAll" /\ n # Idle
      BY <1>1, <2>4, <2>6, ByStatement, RekeySends
    <2>7. CASE n # Idle /\ StepOf(rpc[w]) \notin {"CountLinked", "SendToAll"}
      <3>1. n = Advance(m) /\ m.op = rpc[w].op /\ m.pc = rpc[w].pc
        BY <2>2, <2>7 DEF ReadBy
      <3>2. n.op = m.op /\ n.pc = m.pc + 1 /\ m.pc \in Nat \ {0}
        BY <2>7, <3>1, GoesOn
      <3>3. ~(rpc[w].op = "NewClientKey" /\ rpc[w].pc = 5)
        BY <2>1, <2>7, HandlerProgram
      <3>4. ~(n.op = "NewClientKey" /\ n.pc = 6)
        BY <3>1, <3>2, <3>3
      <3> QED
        BY <2>2, <3>4 DEF RekeyStep
    <2> QED
      BY <2>3, <2>5, <2>6, <2>7
  <1>2. ASSUME NEW w \in Workers, Call(w) PROVE ApartRekeyInv'
    <2>1. PICK n : rpc' = [rpc EXCEPT ![w] = n] /\ n.pc = 1
      BY <1>2, CallStarts
    <2>2. rpc'[w] = n /\ \A v \in Workers \ {w} : rpc'[v] = rpc[v]
      BY <2>1, OthersStay
    <2>3. /\ clients' = clients /\ cclients' = cclients /\ dev' = dev /\ trail' = trail
          /\ flaggedClients' = flaggedClients
      BY <1>2 DEF Call, dbVars
    <2>4. RekeyStep(rpc[w])'
      BY <2>1, <2>2 DEF RekeyStep
    <2>5. \A v \in Workers \ {w} : RekeyStep(rpc[v])'
      BY <1>0, <2>2, <2>3, RekeyStepStays
    <2> QED
      BY <2>4, <2>5 DEF ApartRekeyInv
  <1>3. CASE Arrive
    <2>1. PICK m \in inflight : dev' \in {Received(m), dev}
      BY <1>3 DEF Arrive
    <2>2. /\ clients' = clients /\ cclients' = cclients /\ rpc' = rpc /\ trail' = trail
          /\ flaggedClients' = flaggedClients
      BY <1>3 DEF Arrive, dbVars
    <2>3. m \in Messages /\ m.to \in flaggedClients
      BY DEF TypeOK, ApartClientInv, LateAreFlagged
    <2>4. \A c \in Names : dev'[c] = dev[c] \/ c \in flaggedClients
      BY <2>1, <2>3, ReceivedIs
    <2>5. \A v \in Workers : RekeyStep(rpc[v])'
      BY <1>0, <2>2, <2>4, RekeyStepStays
    <2> QED
      BY <2>5 DEF ApartRekeyInv
  <1>4. CASE UNCHANGED vars
    <2>1. /\ clients' = clients /\ cclients' = cclients /\ rpc' = rpc /\ dev' = dev /\ trail' = trail
          /\ flaggedClients' = flaggedClients
      BY <1>4 DEF vars, dbVars
    <2>2. \A v \in Workers : RekeyStep(rpc[v])'
      BY <1>0, <2>1, RekeyStepStays
    <2> QED
      BY <2>2 DEF ApartRekeyInv
  <1>5. CASE Restart
    <2>1. \A v \in Workers : rpc'[v] = Idle
      BY <1>5 DEF Restart
    <2> QED
      BY <2>1 DEF ApartRekeyInv, RekeyStep, Idle
  <1> QED
    BY <1>1, <1>2, <1>3, <1>4, <1>5 DEF Next, Finished

LEMMA ApartRekeys == ApartSpec => []ApartRekeyInv
  <1>1. /\ Apart /\ TypeOK /\ TypeOK' /\ RowInv /\ ApartTopicInv
        /\ ApartClientInv /\ ApartPageInv /\ ApartRekeyInv /\ [Next]_vars
        => ApartRekeyInv'
    BY NextApartRekeyInv
  <1>2. Init => ApartRekeyInv
    BY DEF Init, ApartRekeyInv, RekeyStep, Idle
  <1> QED
    BY <1>1, <1>2, ApartKept, TypeCorrect, RowsKeepTheirNames, ApartTopics, ApartClients, ApartPages, PTL DEF Spec

(* While calls are kept apart, a NewClientKey that runs to its end leaves  *)
(* every client linked to the one it rekeyed with the new key, unless an   *)
(* error about either says so, or its count of them failed.                *)
THEOREM RekeyingReachesLinkedClients == ApartSpec => RekeyReachesLinkedClients
  <1>1. ASSUME TypeOK, ApartClientInv, ApartRekeyInv, NEW w \in Workers,
               NEW r, r = rpc[w], r.op = "NewClientKey", EndOfPages(w), r.c \notin flaggedClients,
               ~Uncounted(r.c, r.key),
               NEW p \in LinkedClients(clients[r.c]) \ flaggedClients
        PROVE  dev[p].pubs[r.c] = clients[r.c].key
    <2>1. /\ r \in ActiveCalls /\ StepOf(r) = "SendToAll" /\ r.todo = {}
          /\ r.offset \in Nat /\ r.count \in Nat /\ r.count <= r.offset
      BY <1>1, PagesEnd
    <2>2. r.pc = 6
      BY <1>1, <2>1, HandlerProgram
    <2>3. RekeyStep(r) /\ ClientStep(r)
      BY <1>1 DEF ApartRekeyInv, ApartClientInv
    <2>4. r.count = Cardinality(LinkedClients(clients[r.c])) /\ clients[r.c].key = r.key
      BY <1>1, <2>2, <2>3 DEF RekeyStep, ClientStep
    <2>5. Awaiting(LinkedClients(clients[r.c]), r) = {}
      BY <2>1, <2>4, NoneAwait, LinkedAre
    <2> QED
      BY <1>1, <2>2, <2>3, <2>4, <2>5 DEF RekeyStep
  <1>2. TypeOK /\ ApartClientInv /\ ApartRekeyInv =>
            [\A w \in Workers : LET r == rpc[w] IN
               (r.op = "NewClientKey" /\ EndOfPages(w) /\ r.c \notin flaggedClients /\ ~Uncounted(r.c, r.key)) =>
                  \A p \in LinkedClients(clients[r.c]) \ flaggedClients : dev[p].pubs[r.c] = clients[r.c].key]_vars
    BY <1>1
  <1> QED
    BY <1>2, ApartKept, TypeCorrect, ApartClients, ApartRekeys, PTL DEF RekeyReachesLinkedClients
=============================================================================
