----------------------------- MODULE RowProofs ------------------------------
(***************************************************************************)
(* The rows of E4Service: RowInv, which says what a call, a link or an     *)
(* open transaction still names, is an invariant, for every number of      *)
(* clients, topics, workers and calls, both databases and both crypto      *)
(* modes.  Nothing in it is about messages, so the proof goes statement by *)
(* statement of the handlers, by what each does to the tables.             *)
(***************************************************************************)
EXTENDS E4ServiceProofs

-----------------------------------------------------------------------------
(* What every statement of a handler does to its call, and which of them   *)
(* change what.                                                            *)

StepOf(r) == Program(r.op)[r.pc]

(* m is the call r with what its statement has just read.                  *)
ReadBy(m, r) ==
    /\ m.op = r.op /\ m.pc = r.pc /\ m.c = r.c /\ m.d = r.d /\ m.t = r.t /\ m.key = r.key
    /\ StepOf(r) # "GetClient" => m.client = r.client
    /\ StepOf(r) # "GetPeer" => m.peer = r.peer
    /\ StepOf(r) \notin {"GetTopic", "WriteTopic"} => m.topic = r.topic
    /\ StepOf(r) \notin {"FindClient", "FindTopic"} => m.row = r.row
    /\ StepOf(r) \notin {"CountClients", "CountLinked"} => m.count = r.count
    /\ StepOf(r) # "SendToAll" => m.offset = r.offset /\ m.todo = r.todo

CallGoesOn(w) ==
    \E m \in ActiveCalls :
        /\ ReadBy(m, rpc[w])
        /\ \E n \in {Idle, Advance(m)} \cup (IF StepOf(rpc[w]) = "SendToAll" THEN {m} ELSE {}) :
               rpc' = [rpc EXCEPT ![w] = n]

Frame(w) ==
    LET step == StepOf(rpc[w]) IN
    /\ trail \subseteq trail' /\ flaggedClients \subseteq flaggedClients' /\ flaggedTopics \subseteq flaggedTopics'
    /\ step \notin {"WriteClient", "DeleteClient"} => clients' = clients
    /\ step \notin {"CommitTx", "DeleteTopic"} => topics' = topics
    /\ step \notin {"LinkClientTopic", "UnlinkClientTopic", "DeleteClient", "DeleteTopic"} => ctopics' = ctopics
    /\ step \notin {"LinkClients", "UnlinkClients", "DeleteClient"} => cclients' = cclients
    /\ step \notin {"WriteClient", "WriteTopic"} => nextId' = nextId
    /\ step \notin {"SubscribeToTopic", "UnsubscribeFromTopic"} => subs' = subs
    /\ step \notin {"Publish", "SendToAll"} => dev' = dev /\ inflight' = inflight

LEMMA ReturnGoes ==
    ASSUME NEW w \in Workers, NEW m \in ActiveCalls, ReadBy(m, rpc[w]), Return(w, m)
    PROVE  CallGoesOn(w)
  BY DEF Return, CallGoesOn

LEMMA SameGoes ==
    ASSUME NEW w \in Workers, rpc[w] \in ActiveCalls,
           \/ Return(w, rpc[w])
           \/ Fail(w)
           \/ rpc' = [rpc EXCEPT ![w] = Idle]
           \/ rpc' = [rpc EXCEPT ![w] = Advance(rpc[w])]
    PROVE  CallGoesOn(w)
  <1>1. ReadBy(rpc[w], rpc[w])
    BY DEF ReadBy
  <1> QED
    BY <1>1 DEF Return, Fail, CallGoesOn

LEMMA HandleShape ==
    ASSUME TypeOK, TypeOK', NEW w \in Workers, Handle(w)
    PROVE  rpc[w] \in ActiveCalls /\ CallGoesOn(w) /\ Frame(w)
  <1> DEFINE Goal == rpc[w] \in ActiveCalls /\ CallGoesOn(w) /\ Frame(w)
  <1>f. ASSUME NEW step, At(w, step)
        PROVE  rpc[w] \in ActiveCalls /\ StepOf(rpc[w]) = step
    BY <1>f, AtOK DEF StepOf
  <1>t. clients \in [Names -> Row] /\ topics \in [Topics -> Row]
    BY DEF TypeOK, DBTypeOK
  <1>1. ASSUME NEW step \in {"GetClient", "GetPeer", "GetTopic"}, NEW field, NEW row, row \in Row,
               Lookup(w, step, field, row),
               <<step, field>> \in {<<"GetClient", "client">>, <<"GetPeer", "peer">>, <<"GetTopic", "topic">>}
        PROVE  Goal
    <2>1. rpc[w] \in ActiveCalls /\ StepOf(rpc[w]) = step
      BY <1>1, <1>f DEF Lookup
    <2>2. Frame(w)
      BY <1>1, <2>1 DEF Lookup, Frame, dbVars
    <2>3. CASE NewRecord(row)
      BY <1>1, <2>1, <2>2, <2>3, SameGoes DEF Lookup
    <2>4. CASE ~NewRecord(row)
      <3>1. PICK m : m = [rpc[w] EXCEPT ![field] = row]
        OBVIOUS
      <3>2. m \in ActiveCalls
        BY <1>1, <2>1, <3>1, LocalOK
      <3>3. ReadBy(m, rpc[w])
        BY <1>1, <2>1, <3>1 DEF ReadBy, ActiveCalls, Calls
      <3>4. Return(w, m)
        BY <1>1, <2>4, <3>1 DEF Lookup, Return
      <3> QED
        BY <2>1, <2>2, <3>2, <3>3, <3>4, ReturnGoes
    <2> QED
      BY <2>3, <2>4
  <1>2. CASE GetClient(w)
    <2>1. PICK row : row = clients[rpc[w].c]
      OBVIOUS
    <2>2. row \in Row
      BY <1>2, <1>t, <2>1, AtOK, StatementOps DEF GetClient, Lookup
    <2> QED
      BY <1>1, <1>2, <2>1, <2>2 DEF GetClient
  <1>3. CASE GetPeer(w)
    <2>1. PICK row : row = clients[rpc[w].d]
      OBVIOUS
    <2>2. row \in Row
      BY <1>3, <1>t, <2>1, AtOK, StatementOps DEF GetPeer, Lookup
    <2> QED
      BY <1>1, <1>3, <2>1, <2>2 DEF GetPeer
  <1>4. CASE GetTopic(w)
    <2>1. PICK row : row = topics[rpc[w].t]
      OBVIOUS
    <2>2. row \in Row
      BY <1>4, <1>t, <2>1, AtOK, StatementOps DEF GetTopic, Lookup
    <2> QED
      BY <1>1, <1>4, <2>1, <2>2 DEF GetTopic
  <1>5. ASSUME NEW step \in {"FindClient", "FindTopic"}, NEW row, row \in Row, NEW failures,
               Find(w, step, row, failures)
        PROVE  Goal
    <2>1. rpc[w] \in ActiveCalls /\ StepOf(rpc[w]) = step
      BY <1>5, <1>f DEF Find
    <2>2. PICK found \in {row, NoRow} : Return(w, [rpc[w] EXCEPT !.row = found])
      BY <1>5 DEF Find
    <2>3. found \in Row
      BY <1>5, <2>2 DEF NoRow, Row
    <2>4. PICK m : m = [rpc[w] EXCEPT !.row = found]
      OBVIOUS
    <2>5. m \in ActiveCalls
      BY <2>1, <2>3, <2>4, LocalOK
    <2>6. ReadBy(m, rpc[w])
      BY <2>1, <2>4 DEF ReadBy, ActiveCalls, Calls
    <2>7. Frame(w)
      BY <1>5, <2>1, <2>2 DEF Find, Return, Frame, dbVars
    <2> QED
      BY <2>1, <2>2, <2>4, <2>5, <2>6, <2>7, ReturnGoes
  <1>6. CASE FindClient(w)
    <2>1. clients[rpc[w].c] \in Row
      BY <1>6, <1>t, AtOK, StatementOps DEF FindClient, Find
    <2> QED
      BY <1>5, <1>6, <2>1 DEF FindClient
  <1>7. CASE FindTopic(w)
    <2>1. topics[rpc[w].t] \in Row
      BY <1>7, <1>t, AtOK, StatementOps DEF FindTopic, Find
    <2> QED
      BY <1>5, <1>7, <2>1 DEF FindTopic
  <1>8. CASE WriteClient(w)
    <2>1. rpc[w] \in ActiveCalls /\ StepOf(rpc[w]) = "WriteClient"
      BY <1>8, <1>f DEF WriteClient
    <2>2. Frame(w)
      BY <1>8, <2>1 DEF WriteClient, CreateClient, UpdateClient, Fail, Return, Record, Frame, dbVars
    <2> QED
      BY <1>8, <2>1, <2>2, SameGoes DEF WriteClient
  <1>9. CASE DeleteClient(w)
    <2>1. rpc[w] \in ActiveCalls /\ StepOf(rpc[w]) = "DeleteClient"
      BY <1>9, <1>f DEF DeleteClient
    <2>2. Frame(w)
      BY <1>9, <2>1 DEF DeleteClient, DeleteClientRow, Return, Frame
    <2> QED
      BY <1>9, <2>1, <2>2, SameGoes DEF DeleteClient
  <1>10. CASE Publish(w)
    <2>1. rpc[w] \in ActiveCalls /\ StepOf(rpc[w]) = "Publish"
      BY <1>10, <1>f DEF Publish
    <2>2. Frame(w)
      BY <1>10, <2>1 DEF Publish, Return, Record, Frame, dbVars
    <2>3. Return(w, rpc[w]) \/ rpc' = [rpc EXCEPT ![w] = Idle]
      BY <1>10 DEF Publish
    <2> QED
      BY <2>1, <2>2, <2>3, SameGoes
  <1>11. CASE LinkClients(w)
    <2>1. rpc[w] \in ActiveCalls /\ StepOf(rpc[w]) = "LinkClients"
      BY <1>11, <1>f DEF LinkClients
    <2>2. Frame(w)
      BY <1>11, <2>1 DEF LinkClients, LinkClientRow, Fail, Return, Frame, dbVars
    <2> QED
      BY <1>11, <2>1, <2>2, SameGoes DEF LinkClients
  <1>12. CASE UnlinkClients(w)
    <2>1. rpc[w] \in ActiveCalls /\ StepOf(rpc[w]) = "UnlinkClients"
      BY <1>12, <1>f DEF UnlinkClients
    <2>2. Frame(w)
      BY <1>12, <2>1 DEF UnlinkClients, UnlinkClientRow, Return, Frame
    <2> QED
      BY <1>12, <2>1, <2>2, SameGoes DEF UnlinkClients
  <1>13. CASE LinkClientTopic(w)
    <2>1. rpc[w] \in ActiveCalls /\ StepOf(rpc[w]) = "LinkClientTopic"
      BY <1>13, <1>f DEF LinkClientTopic
    <2>2. Frame(w)
      BY <1>13, <2>1 DEF LinkClientTopic, LinkTopicRow, Fail, Return, Record, Frame, dbVars
    <2> QED
      BY <1>13, <2>1, <2>2, SameGoes DEF LinkClientTopic
  <1>14. CASE UnlinkClientTopic(w)
    <2>1. rpc[w] \in ActiveCalls /\ StepOf(rpc[w]) = "UnlinkClientTopic"
      BY <1>14, <1>f DEF UnlinkClientTopic
    <2>2. Frame(w)
      BY <1>14, <2>1 DEF UnlinkClientTopic, UnlinkTopicRow, Fail, Return, Record, Frame, dbVars
    <2> QED
      BY <1>14, <2>1, <2>2, SameGoes DEF UnlinkClientTopic
  <1>15. CASE Dispatch(w)
    <2>1. rpc[w] \in ActiveCalls /\ StepOf(rpc[w]) = "Dispatch"
      BY <1>15, <1>f DEF Dispatch
    <2>2. Frame(w)
      BY <1>15, <2>1 DEF Dispatch, Return, Record, Frame, dbVars
    <2> QED
      BY <1>15, <2>1, <2>2, SameGoes DEF Dispatch
  <1>16. CASE WriteTopic(w)
    <2>1. rpc[w] \in ActiveCalls /\ StepOf(rpc[w]) = "WriteTopic" /\ rpc[w].t \in Topics
      BY <1>16, <1>f, StatementOps DEF WriteTopic, StepOf
    <2>2. Frame(w)
      BY <1>16, <2>1 DEF WriteTopic, Fail, Return, Frame
    <2>3. PICK row : row = IF NewRecord(rpc[w].row) THEN [id |-> NewTopicId, key |-> rpc[w].key]
                           ELSE IF rpc[w].row.id = topics[rpc[w].t].id THEN [id |-> rpc[w].row.id, key |-> rpc[w].key]
                           ELSE NoRow
      OBVIOUS
    <2>4. Fail(w) \/ Return(w, [rpc[w] EXCEPT !.topic = row])
      BY <1>16, <2>3 DEF WriteTopic
    <2>5. row \in Row
      <3>1. rpc[w].key \in Nat /\ rpc[w].row \in Row /\ nextId \in Nat
        BY <2>1 DEF ActiveCalls, Calls, TypeOK, DBTypeOK
      <3> QED
        BY <2>3, <3>1 DEF NewTopicId, Row, NoRow
    <2>6. PICK m : m = [rpc[w] EXCEPT !.topic = row]
      OBVIOUS
    <2>7. m \in ActiveCalls /\ ReadBy(m, rpc[w])
      <3>1. m \in ActiveCalls
        BY <2>1, <2>5, <2>6, LocalOK
      <3> QED
        BY <2>1, <2>6, <3>1 DEF ReadBy, ActiveCalls, Calls
    <2> QED
      BY <2>1, <2>2, <2>4, <2>6, <2>7, ReturnGoes, SameGoes
  <1>17. ASSUME NEW step \in {"CountClients", "CountLinked"}, At(w, step), NEW name, NEW S \in SUBSET Names,
                NEW failures, Counted(w, name, S, failures), UNCHANGED <<dbVars, dev, inflight, subs>>
         PROVE  Goal
    <2>1. rpc[w] \in ActiveCalls /\ StepOf(rpc[w]) = step
      BY <1>17, <1>f
    <2>2. PICK n \in Nat : /\ Return(w, [rpc[w] EXCEPT !.count = n])
                          /\ trail \subseteq trail'
      BY <1>17, CountedIs
    <2>3. PICK m : m = [rpc[w] EXCEPT !.count = n]
      OBVIOUS
    <2>4. m \in ActiveCalls
      BY <2>1, <2>3, PagingOK
    <2>5. ReadBy(m, rpc[w])
      BY <1>17, <2>1, <2>3 DEF ReadBy, ActiveCalls, Calls
    <2>6. Frame(w)
      BY <1>17, <2>1, <2>2 DEF Return, Frame, dbVars
    <2> QED
      BY <2>1, <2>2, <2>3, <2>4, <2>5, <2>6, ReturnGoes
  <1>18. ASSUME NEW step, At(w, step), Fail(w) \/ Return(w, rpc[w]), UNCHANGED <<dbVars, dev, inflight, subs, trail, calls>>
         PROVE  Goal
    <2>1. rpc[w] \in ActiveCalls
      BY <1>18, <1>f
    <2>2. Frame(w)
      BY <1>18, <2>1 DEF Fail, Return, Frame, dbVars
    <2> QED
      BY <1>18, <2>1, <2>2, SameGoes
  <1>19. CASE CountClients(w)
    <2> DEFINE id == IF NewRecord(rpc[w].topic) THEN topics[rpc[w].t].id ELSE rpc[w].topic.id
               S == {c \in Names : ~NewRecord(clients[c]) /\ <<clients[c].id, id>> \in ctopics}
    <2>1. /\ At(w, "CountClients") /\ UNCHANGED <<dbVars, dev, inflight, subs, calls>>
          /\ (Fail(w) /\ UNCHANGED trail) \/ Counted(w, rpc[w].t, S, Unnoticed(TRUE))
      BY <1>19 DEF CountClients
    <2> QED
      BY <1>17, <1>18, <2>1
  <1>20. CASE CountLinked(w)
    <2>1. LinkedClients(clients[rpc[w].c]) \in SUBSET Names
      BY DEF LinkedClients
    <2>2. /\ At(w, "CountLinked") /\ UNCHANGED <<dbVars, dev, inflight, subs, calls>>
          /\ \/ Fail(w) /\ UNCHANGED trail
             \/ Counted(w, rpc[w].c, LinkedClients(clients[rpc[w].c]), Unnoticed(FALSE))
      BY <1>20 DEF CountLinked
    <2> QED
      BY <1>17, <1>18, <2>1, <2>2
  <1>21. CASE EndOfPages(w) \/ DBFault(w)
    <2>1. \E step : At(w, step)
      BY <1>21 DEF EndOfPages, DBFault
    <2>2. (Fail(w) \/ Return(w, rpc[w])) /\ UNCHANGED <<dbVars, dev, inflight, subs, trail, calls>>
      BY <1>21 DEF EndOfPages, DBFault
    <2> QED
      BY <1>18, <2>1, <2>2
  <1>22. CASE CommitTx(w)
    <2>1. rpc[w] \in ActiveCalls /\ StepOf(rpc[w]) = "CommitTx"
      BY <1>22, <1>f DEF CommitTx
    <2>2. Frame(w)
      BY <1>22, <2>1 DEF CommitTx, Return, Record, Frame
    <2> QED
      BY <1>22, <2>1, <2>2, SameGoes DEF CommitTx
  <1>23. CASE SubscribeToTopic(w)
    <2>1. rpc[w] \in ActiveCalls /\ StepOf(rpc[w]) = "SubscribeToTopic"
      BY <1>23, <1>f DEF SubscribeToTopic
    <2>2. Frame(w)
      BY <1>23, <2>1 DEF SubscribeToTopic, Fail, Return, Frame, dbVars
    <2> QED
      BY <1>23, <2>1, <2>2, SameGoes DEF SubscribeToTopic
  <1>24. CASE UnsubscribeFromTopic(w)
    <2>1. rpc[w] \in ActiveCalls /\ StepOf(rpc[w]) = "UnsubscribeFromTopic"
      BY <1>24, <1>f DEF UnsubscribeFromTopic
    <2>2. Frame(w)
      BY <1>24, <2>1 DEF UnsubscribeFromTopic, Frame, dbVars
    <2> QED
      BY <1>24, <2>1, <2>2, SameGoes DEF UnsubscribeFromTopic
  <1>25. CASE DeleteTopic(w)
    <2>1. rpc[w] \in ActiveCalls /\ StepOf(rpc[w]) = "DeleteTopic"
      BY <1>25, <1>f DEF DeleteTopic
    <2>2. Frame(w)
      BY <1>25, <2>1 DEF DeleteTopic, DeleteTopicRow, Return, Frame
    <2> QED
      BY <1>25, <2>1, <2>2, SameGoes DEF DeleteTopic
  <1>26. CASE ReadPage(w) \/ SendToNext(w)
    <2>1. rpc[w] \in ActiveCalls /\ StepOf(rpc[w]) = "SendToAll" /\ rpc[w].op # "none"
      <3>1. At(w, "SendToAll")
        BY <1>26 DEF ReadPage, SendToNext
      <3> QED
        BY <1>f, <3>1 DEF At
    <2>2. Frame(w)
      BY <1>26, <2>1 DEF ReadPage, SendToNext, Frame, dbVars
    <2>3. PICK m : m = rpc'[w]
      OBVIOUS
    <2>4. /\ rpc' = [rpc EXCEPT ![w] = m]
          /\ \/ m = NextPage(rpc[w])
             \/ \E todo : m = [NextPage(rpc[w]) EXCEPT !.todo = todo]
             \/ \E todo : m = [rpc[w] EXCEPT !.todo = todo]
      <3>1. CASE ReadPage(w)
        <4> DEFINE read == {[name |-> c, row |-> clients[c]] : c \in Page(Audience(rpc[w]), rpc[w].offset, BatchSize)}
        <4>1. \/ rpc' = [rpc EXCEPT ![w] = NextPage(rpc[w])]
              \/ rpc' = [rpc EXCEPT ![w] = [NextPage(rpc[w]) EXCEPT !.todo = read]]
          BY <3>1 DEF ReadPage
        <4> HIDE DEF read
        <4> QED
          BY <2>3, <4>1 DEF TypeOK
      <3>2. CASE SendToNext(w)
        <4> DEFINE left == rpc[w].todo \ {CHOOSE x \in rpc[w].todo : \A y \in rpc[w].todo : x.name <= y.name}
        <4>1. rpc' = [rpc EXCEPT ![w] = [rpc[w] EXCEPT !.todo = left]]
          BY <3>2 DEF SendToNext, TypeOK
        <4> HIDE DEF left
        <4> QED
          BY <2>3, <4>1 DEF TypeOK
      <3> QED
        BY <1>26, <3>1, <3>2
    <2>5. ReadBy(m, rpc[w])
      BY <2>1, <2>4 DEF NextPage, ReadBy, ActiveCalls, Calls
    <2>6. m \in ActiveCalls
      <3>1. m \in {Idle} \cup ActiveCalls
        BY <2>3 DEF TypeOK
      <3>2. m.op # "none"
        BY <2>1, <2>5 DEF ReadBy
      <3> QED
        BY <3>1, <3>2 DEF Idle
    <2> QED
      BY <2>1, <2>2, <2>4, <2>5, <2>6 DEF CallGoesOn
  <1> QED
    BY <1>2, <1>3, <1>4, <1>6, <1>7, <1>8, <1>9, <1>10, <1>11, <1>12, <1>13, <1>14, <1>15, <1>16,
       <1>19, <1>20, <1>21, <1>22, <1>23, <1>24, <1>25, <1>26 DEF Handle

-----------------------------------------------------------------------------
(* How a step keeps the parts of the invariant.                            *)

(* What a call holds stays named as long as rows are only deleted, or      *)
(* created with the next primary key.                                      *)
LEMMA HeldKept ==
    ASSUME TypeOK, NEW r \in {Idle} \cup ActiveCalls, HeldRows(r),
           nextId <= nextId', nextId' \in Nat,
           \A c \in Names : clients'[c].id \in {clients[c].id, 0, nextId},
           \A t \in Topics : topics'[t].id \in {topics[t].id, 0} \/ topics'[t].id # r.topic.id \/ t = r.t
    PROVE  HeldRows(r)'
  <1>1. r.client.id \in Nat /\ r.peer.id \in Nat /\ r.topic.id \in Nat /\ r.row.id \in Nat /\ nextId \in Nat
    <2>1. r.client \in Row /\ r.peer \in Row /\ r.topic \in Row /\ r.row \in Row
      BY DEF ActiveCalls, Calls, Idle, NoRow, Row
    <2> QED
      BY <2>1 DEF Row, TypeOK, DBTypeOK
  <1>2. r.client.id < nextId' /\ r.peer.id < nextId' /\ r.topic.id < nextId' /\ r.row.id < nextId'
    BY <1>1 DEF HeldRows
  <1>3. ASSUME NEW c \in Names, ~NewRecord(clients[c])'
        PROVE  /\ clients'[c].id = r.client.id => c = r.c
               /\ clients'[c].id = r.peer.id => c = r.d
               /\ r.op \in ClientOps /\ clients'[c].id = r.row.id => c = r.c
    <2>1. clients'[c].id = nextId \/ clients'[c].id = clients[c].id
      BY <1>3 DEF NewRecord
    <2>2. CASE clients'[c].id = nextId
      BY <1>1, <2>2 DEF HeldRows
    <2>3. CASE clients'[c].id = clients[c].id
      BY <1>3, <2>3 DEF HeldRows, NewRecord
    <2> QED
      BY <2>1, <2>2, <2>3
  <1>4. ASSUME NEW t \in Topics, ~NewRecord(topics[t])', topics'[t].id = r.topic.id
        PROVE  t = r.t
    BY <1>4 DEF HeldRows, NewRecord
  <1> QED
    BY <1>2, <1>3, <1>4 DEF HeldRows

(* A call that holds rows and takes its next statement still holds them.   *)
LEMMA HeldAdvance ==
    ASSUME TypeOK, NEW r \in ActiveCalls, HeldRows(r), nextId # 0
    PROVE  HeldRows(Advance(r)) /\ HeldRows(Idle)
  <1>1. nextId \in Nat
    BY DEF TypeOK, DBTypeOK
  <1>2. HeldRows(Idle)
    BY <1>1 DEF HeldRows, Idle, NoRow, NewRecord
  <1>3. CASE r.pc = Len(Program(r.op))
    BY <1>2, <1>3 DEF Advance
  <1>4. CASE r.pc # Len(Program(r.op))
    <2>1. PICK n : n = Advance(r)
      OBVIOUS
    <2>2. /\ n.op = r.op /\ n.c = r.c /\ n.d = r.d /\ n.t = r.t
          /\ n.client = r.client /\ n.peer = r.peer /\ n.topic = r.topic /\ n.row = r.row
      BY <1>4, <2>1 DEF Advance, ActiveCalls, Calls
    <2>3. HeldRows(n)
      BY <2>2 DEF HeldRows
    <2> QED
      BY <1>2, <2>1, <2>3
  <1> QED
    BY <1>3, <1>4

(* The call w leaves for n: the other calls hold what they held.           *)
LEMMA HeldStep ==
    ASSUME TypeOK, TypeOK', RowInv, NEW w \in Workers, NEW n, rpc' = [rpc EXCEPT ![w] = n],
           HeldRows(n)', RowsFound(n), nextId <= nextId',
           \A c \in Names : clients'[c].id \in {clients[c].id, 0, nextId},
           \A t \in Topics : \/ topics'[t].id \in {topics[t].id, 0}
                             \/ \A v \in Workers \ {w} : rpc[v].topic.id # topics'[t].id
    PROVE  \A v \in Workers : HeldRows(rpc[v])' /\ RowsFound(rpc[v])'
  <1> SUFFICES ASSUME NEW v \in Workers PROVE HeldRows(rpc[v])' /\ RowsFound(rpc[v])'
    OBVIOUS
  <1>1. CASE v = w
    <2>1. rpc'[v] = n
      BY <1>1 DEF TypeOK
    <2> QED
      BY <2>1 DEF HeldRows, RowsFound
  <1>2. CASE v # w
    <2>1. PICK r \in {Idle} \cup ActiveCalls : r = rpc[v]
      BY DEF TypeOK
    <2>2. HeldRows(r) /\ RowsFound(r)
      BY <2>1 DEF RowInv
    <2>3. \A t \in Topics : topics'[t].id \in {topics[t].id, 0} \/ topics'[t].id # r.topic.id \/ t = r.t
      BY <1>2, <2>1
    <2>4. nextId' \in Nat
      BY DEF TypeOK, DBTypeOK
    <2>5. HeldRows(r)'
      BY <2>2, <2>3, <2>4, HeldKept
    <2>6. rpc'[v] = r
      BY <1>2, <2>1 DEF TypeOK
    <2> QED
      BY <2>2, <2>5, <2>6 DEF HeldRows, RowsFound
  <1> QED
    BY <1>1, <1>2

(* The open transactions of the other calls are not disturbed by a call    *)
(* that reads rows, writes rows of topics they have not locked, or links   *)
(* rows they have not written.                                             *)
LEMMA TxOthers ==
    ASSUME TypeOK, RowInv, NEW w \in Workers, NEW n, rpc' = [rpc EXCEPT ![w] = n],
           \A v \in Workers \ {w} : InTx(rpc[v]) => ~(InTx(n) /\ n.t = rpc[v].t),
           \/ n.topic.id \in {rpc[w].topic.id, 0, nextId}
           \/ \E t \in Topics : n.topic.id = topics[t].id,
           \A t \in Topics, v \in Workers \ {w} :
               \/ topics'[t].id = topics[t].id
               \/ InTx(rpc[v]) => rpc[v].t # t /\ topics'[t].id # rpc[v].topic.id,
           \A l \in ctopics', v \in Workers \ {w} :
               InTx(rpc[v]) => l \in ctopics \/ l[2] = rpc[w].topic.id
    PROVE  \A v \in Workers \ {w} : InTx(rpc[v])' => TxAlone(v)'
  <1> SUFFICES ASSUME NEW v \in Workers \ {w}, InTx(rpc[v])' PROVE TxAlone(v)'
    OBVIOUS
  <1>1. rpc'[v] = rpc[v] /\ rpc'[w] = n
    BY DEF TypeOK
  <1>2. InTx(rpc[v]) /\ TxAlone(v)
    BY <1>1 DEF InTx, NewRecord, RowInv, TxInv
  <1>3. rpc[v].topic.id \in Nat /\ rpc[v].topic.id # 0 /\ rpc[v].topic.id < nextId /\ rpc[v].t \in Topics
        /\ nextId \in Nat
    <2>1. rpc[v].topic.id < nextId /\ rpc[v].topic.id # 0 /\ rpc[v].op = "NewTopic"
      BY <1>2 DEF InTx, NewRecord, RowInv, HeldRows
    <2>2. rpc[v] \in ActiveCalls
      BY <2>1 DEF TypeOK, Idle
    <2>3. rpc[v].topic \in Row /\ rpc[v].t \in Topics
      BY <2>1, <2>2 DEF ActiveCalls, Calls, Arguments, TopicOps, ClientOps
    <2> QED
      BY <2>1, <2>3 DEF Row, TypeOK, DBTypeOK
  <1>4. ASSUME NEW u \in Workers \ {v} PROVE ~(InTx(rpc'[u]) /\ rpc'[u].t = rpc'[v].t)
    <2>1. CASE u = w
      BY <1>1, <1>2, <2>1
    <2>2. CASE u # w
      <3>1. rpc'[u] = rpc[u]
        BY <2>2 DEF TypeOK
      <3> QED
        BY <1>1, <1>2, <3>1 DEF TxAlone
    <2> QED
      BY <2>1, <2>2
  <1>5. CASE topics[rpc[v].t].id = rpc[v].topic.id
    <2>1. topics'[rpc[v].t].id = topics[rpc[v].t].id
      BY <1>2, <1>3
    <2> QED
      BY <1>1, <1>4, <1>5, <2>1 DEF TxAlone, InTx, NewRecord
  <1>6. CASE NewRecord(topics[rpc[v].t]) /\ Unseen(v)
    <2>1. topics'[rpc[v].t].id = topics[rpc[v].t].id
      BY <1>2, <1>3
    <2>2. ASSUME NEW t \in Topics PROVE topics'[t].id # rpc[v].topic.id
      BY <1>2, <1>6 DEF Unseen
    <2>3. ASSUME NEW u \in Workers \ {v} PROVE rpc'[u].topic.id # rpc[v].topic.id
      <3>1. CASE u = w
        <4>1. rpc[w].topic.id # rpc[v].topic.id /\ \A t \in Topics : topics[t].id # rpc[v].topic.id
          BY <1>6 DEF Unseen
        <4>2. n.topic.id # rpc[v].topic.id
          BY <1>3, <4>1
        <4> QED
          BY <1>1, <3>1, <4>2
      <3>2. CASE u # w
        <4>1. rpc'[u] = rpc[u]
          BY <3>2 DEF TypeOK
        <4> QED
          BY <1>6, <4>1 DEF Unseen
      <3> QED
        BY <3>1, <3>2
    <2>4. ASSUME NEW l \in ctopics' PROVE l[2] # rpc[v].topic.id
      <3>1. l \in ctopics \/ l[2] = rpc[w].topic.id
        BY <1>2
      <3> QED
        BY <1>6, <3>1 DEF Unseen
    <2>5. Unseen(v)'
      BY <1>1, <2>2, <2>3, <2>4 DEF Unseen
    <2> QED
      BY <1>1, <1>4, <1>6, <2>1, <2>5 DEF TxAlone, InTx, NewRecord
  <1> QED
    BY <1>2, <1>5, <1>6 DEF TxAlone

(* Where a statement stands in the handlers whose calls hold rows.         *)
LEMMA RowProgram ==
    ASSUME NEW r \in ActiveCalls
    PROVE  LET step == Program(r.op)[r.pc] IN
           /\ r.op \in ClientTopicOps \cup PeerOps => (r.pc = 1 <=> step = "GetClient")
           /\ r.op \in ClientTopicOps => (r.pc = 2 <=> step = "GetTopic")
           /\ r.op \in PeerOps => (r.pc = 2 <=> step = "GetPeer")
           /\ r.op = "NewTopic" => /\ r.pc = 1 <=> step = "FindTopic"
                                   /\ r.pc = 2 <=> step = "WriteTopic"
                                   /\ r.pc = 3 <=> step = "CountClients"
                                   /\ r.pc = 4 <=> step = "CommitTx"
                                   /\ step \notin {"GetClient", "GetTopic", "GetPeer"}
           /\ step \in {"FindTopic", "WriteTopic", "CountClients", "CommitTx", "SubscribeToTopic"} =>
                  r.op = "NewTopic"
           /\ step \in {"UnsubscribeFromTopic", "DeleteTopic"} => r.op = "RemoveTopic"
           /\ step = "GetTopic" => r.op \in ClientTopicOps \cup {"RemoveTopic"}
           /\ step = "DeleteClient" => r.op = "RemoveClient"
           /\ step \in {"FindClient", "WriteClient"} => r.op \in {"NewClient", "NewClientKey"}
           /\ step \in {"GetPeer", "LinkClients", "UnlinkClients"} => r.op \in PeerOps
           /\ step \in {"LinkClientTopic", "UnlinkClientTopic", "Dispatch"} => r.op \in ClientTopicOps
           /\ step = "CountLinked" => r.op = "NewClientKey"
           /\ step = "SendToAll" => r.op \in {"NewTopic", "NewClientKey"}
  <1>1. r.op \in AllOps /\ r.pc \in 1..Len(Program(r.op))
    BY ProgramLength DEF ActiveCalls, Calls
  <1>2. /\ r.op \in ClientTopicOps => (r.pc = 1 <=> Program(r.op)[r.pc] = "GetClient")
        /\ r.op \in PeerOps => (r.pc = 1 <=> Program(r.op)[r.pc] = "GetClient")
        /\ r.op \in ClientTopicOps => (r.pc = 2 <=> Program(r.op)[r.pc] = "GetTopic")
        /\ r.op \in PeerOps => (r.pc = 2 <=> Program(r.op)[r.pc] = "GetPeer")
    BY <1>1 DEF Program, Statements, ClientTopicOps, PeerOps
  <1>3. r.op = "NewTopic" => /\ r.pc = 1 <=> Program(r.op)[r.pc] = "FindTopic"
                             /\ r.pc = 2 <=> Program(r.op)[r.pc] = "WriteTopic"
                             /\ r.pc = 3 <=> Program(r.op)[r.pc] = "CountClients"
                             /\ r.pc = 4 <=> Program(r.op)[r.pc] = "CommitTx"
                             /\ Program(r.op)[r.pc] \notin {"GetClient", "GetTopic", "GetPeer"}
    BY <1>1 DEF Program, Statements
  <1>4. /\ Program(r.op)[r.pc] \in {"FindTopic", "WriteTopic", "CountClients", "CommitTx", "SubscribeToTopic"} =>
                  r.op = "NewTopic"
        /\ Program(r.op)[r.pc] \in {"UnsubscribeFromTopic", "DeleteTopic"} => r.op = "RemoveTopic"
        /\ Program(r.op)[r.pc] = "GetTopic" => r.op \in ClientTopicOps \cup {"RemoveTopic"}
        /\ Program(r.op)[r.pc] = "DeleteClient" => r.op = "RemoveClient"
        /\ Program(r.op)[r.pc] \in {"FindClient", "WriteClient"} => r.op \in {"NewClient", "NewClientKey"}
    BY <1>1 DEF Program, Statements, AllOps, ClientOps, TopicOps, ClientTopicOps, PeerOps
  <1>5. /\ Program(r.op)[r.pc] \in {"GetPeer", "LinkClients", "UnlinkClients"} => r.op \in PeerOps
        /\ Program(r.op)[r.pc] \in {"LinkClientTopic", "UnlinkClientTopic", "Dispatch"} => r.op \in ClientTopicOps
        /\ Program(r.op)[r.pc] = "CountLinked" => r.op = "NewClientKey"
        /\ Program(r.op)[r.pc] = "SendToAll" => r.op \in {"NewTopic", "NewClientKey"}
    BY <1>1 DEF Program, Statements, AllOps, ClientOps, TopicOps, ClientTopicOps, PeerOps
  <1> QED
    BY <1>2, <1>3, <1>4, <1>5

(* The next statement of a call.                                           *)
LEMMA NextStatement ==
    ASSUME NEW r \in ActiveCalls
    PROVE  \/ Advance(r) = Idle
           \/ /\ Advance(r) = [r EXCEPT !.pc = r.pc + 1]
              /\ Advance(r).op = r.op /\ Advance(r).pc = r.pc + 1 /\ r.pc \in Nat \ {0}
              /\ Advance(r).c = r.c /\ Advance(r).d = r.d /\ Advance(r).t = r.t
              /\ Advance(r).client = r.client /\ Advance(r).peer = r.peer
              /\ Advance(r).topic = r.topic /\ Advance(r).row = r.row /\ Advance(r).key = r.key
  BY DEF Advance, ActiveCalls, Calls

(* The lookups that a statement after them relies on have been made.       *)
LookedUp(r) ==
    /\ r.op \in ClientTopicOps \cup PeerOps => ~NewRecord(r.client)
    /\ r.op \in ClientTopicOps /\ r.pc >= 2 => ~NewRecord(r.topic)
    /\ r.op \in PeerOps /\ r.pc >= 2 => ~NewRecord(r.peer)

LEMMA FoundAdvance ==
    ASSUME NEW r \in ActiveCalls, RowsFound(r), LookedUp(r)
    PROVE  RowsFound(Advance(r)) /\ RowsFound(Idle)
  <1>1. RowsFound(Idle)
    BY DEF RowsFound, Idle, ClientTopicOps, PeerOps
  <1> QED
    BY <1>1, NextStatement DEF RowsFound, LookedUp

(* A statement that is not a lookup of a handler whose calls hold rows.    *)
LEMMA NoLookup ==
    ASSUME NEW r \in ActiveCalls, RowsFound(r), Program(r.op)[r.pc] \notin {"GetClient", "GetTopic", "GetPeer"}
    PROVE  LookedUp(r)
  <1>1. r.pc \in Nat \ {0}
    BY DEF ActiveCalls, Calls
  <1> QED
    BY <1>1, RowProgram DEF RowsFound, LookedUp

(* The step of a call m that holds rows named for it: it returns, fails or *)
(* goes on, and the primary keys of the topics stay as they are.           *)
LEMMA RowReturn ==
    ASSUME TypeOK, TypeOK', RowInv, NEW w \in Workers, NEW m \in ActiveCalls,
           NEW n, n \in {Idle, m, Advance(m)}, rpc' = [rpc EXCEPT ![w] = n],
           m.op = rpc[w].op, m.pc = rpc[w].pc, m.t = rpc[w].t,
           HeldRows(m), RowsFound(m), LookedUp(m),
           m.op = "NewTopic" => m.topic = rpc[w].topic /\ m.pc # 2,
           m.topic.id = rpc[w].topic.id \/ \E t \in Topics : m.topic.id = topics[t].id,
           UniqueIds', LinkIds', nextId <= nextId',
           \A c \in Names : clients'[c].id \in {clients[c].id, 0, nextId},
           \A t \in Topics : topics'[t].id = topics[t].id,
           \A l \in ctopics' : l \in ctopics \/ (l[2] = rpc[w].topic.id /\ m.op # "NewTopic")
    PROVE  RowInv'
  <1>0. nextId \in Nat /\ nextId # 0 /\ nextId' \in Nat
    BY DEF TypeOK, DBTypeOK
  <1>1. n \in {Idle} \cup ActiveCalls
    BY AdvanceOK
  <1>2. HeldRows(n) /\ RowsFound(n)
    BY <1>0, HeldAdvance, FoundAdvance
  <1>3. HeldRows(n)'
    BY <1>0, <1>1, <1>2, HeldKept
  <1>4. \A v \in Workers : HeldRows(rpc[v])' /\ RowsFound(rpc[v])'
    BY <1>2, <1>3, HeldStep
  <1>5. InTx(n) => InTx(rpc[w]) /\ n.t = rpc[w].t /\ n.topic = rpc[w].topic
    <2>1. CASE n = Idle
      BY <2>1 DEF InTx, Idle
    <2>2. CASE n = m
      BY <2>2 DEF InTx, NewRecord
    <2>3. CASE n = Advance(m) /\ n # Idle
      BY <2>3, NextStatement DEF InTx, NewRecord
    <2> QED
      BY <2>1, <2>2, <2>3
  <1>6. n.topic.id \in {rpc[w].topic.id, 0} \/ \E t \in Topics : n.topic.id = topics[t].id
    <2>1. n = Idle \/ n.topic = m.topic
      BY NextStatement
    <2> QED
      BY <2>1 DEF Idle, NoRow
  <1>7. ASSUME NEW v \in Workers \ {w}, InTx(rpc[v]), InTx(n)
        PROVE  n.t # rpc[v].t
    BY <1>5, <1>7 DEF RowInv, TxInv, TxAlone
  <1>8. \A v \in Workers \ {w} : InTx(rpc[v])' => TxAlone(v)'
    <2>1. \A v \in Workers \ {w} : InTx(rpc[v]) => ~(InTx(n) /\ n.t = rpc[v].t)
      BY <1>7
    <2>2. \/ n.topic.id \in {rpc[w].topic.id, 0, nextId}
          \/ \E t \in Topics : n.topic.id = topics[t].id
      BY <1>6
    <2>3. \A t \in Topics, v \in Workers \ {w} :
               \/ topics'[t].id = topics[t].id
               \/ InTx(rpc[v]) => rpc[v].t # t /\ topics'[t].id # rpc[v].topic.id
      OBVIOUS
    <2>4. \A l \in ctopics', v \in Workers \ {w} : InTx(rpc[v]) => l \in ctopics \/ l[2] = rpc[w].topic.id
      OBVIOUS
    <2>5. TypeOK /\ RowInv /\ rpc' = [rpc EXCEPT ![w] = n] /\ w \in Workers
      OBVIOUS
    <2> QED
      BY ONLY <2>1, <2>2, <2>3, <2>4, <2>5, TxOthers
  <1>9. ASSUME InTx(rpc[w])' PROVE TxAlone(w)'
    <2>1. rpc'[w] = n
      BY DEF TypeOK
    <2>2. InTx(n)
      BY <1>9, <2>1 DEF InTx, NewRecord
    <2>3. TxAlone(w) /\ n.t = rpc[w].t /\ n.topic = rpc[w].topic /\ n.t \in Topics
          /\ m.op = "NewTopic"
      <3>1. n.op = "NewTopic"
        BY <2>2 DEF InTx
      <3>2. n.t \in Topics
        BY <1>1, <3>1 DEF ActiveCalls, Calls, Arguments, TopicOps, ClientOps, Idle
      <3>3. InTx(rpc[w]) /\ n.t = rpc[w].t /\ n.topic = rpc[w].topic
        BY <1>5, <2>2
      <3>4. TxAlone(w)
        BY <3>3 DEF RowInv, TxInv
      <3>5. m.op = "NewTopic"
        BY <3>3 DEF InTx
      <3> QED
        BY <3>2, <3>3, <3>4, <3>5
    <2>4. ASSUME NEW v \in Workers \ {w} PROVE rpc'[v] = rpc[v]
      BY DEF TypeOK
    <2>5. \A v \in Workers \ {w} : ~(InTx(rpc'[v]) /\ rpc'[v].t = n.t)
      BY <2>3, <2>4 DEF TxAlone
    <2>6. CASE topics[n.t].id = n.topic.id
      BY <2>1, <2>3, <2>5, <2>6 DEF TxAlone, InTx, NewRecord
    <2>7. CASE NewRecord(topics[n.t]) /\ Unseen(w)
      BY <2>1, <2>3, <2>4, <2>5, <2>7 DEF TxAlone, InTx, NewRecord, Unseen
    <2> QED
      BY <2>3, <2>6, <2>7 DEF TxAlone
  <1> QED
    BY <1>4, <1>8, <1>9 DEF RowInv, TxInv

-----------------------------------------------------------------------------
(* Calls that leave the tables alone.                                      *)

LEMMA QuietTables ==
    ASSUME TypeOK, RowInv, UNCHANGED dbVars
    PROVE  /\ UniqueIds' /\ LinkIds' /\ nextId <= nextId'
           /\ \A c \in Names : clients'[c].id \in {clients[c].id, 0, nextId}
           /\ \A t \in Topics : topics'[t].id = topics[t].id
           /\ ctopics' = ctopics
  <1>1. UniqueIds /\ LinkIds /\ nextId \in Nat
    BY DEF RowInv, TypeOK, DBTypeOK
  <1>2. clients' = clients /\ topics' = topics /\ ctopics' = ctopics /\ cclients' = cclients /\ nextId' = nextId
    BY DEF dbVars
  <1>3. UniqueIds'
    BY <1>1, <1>2 DEF UniqueIds, NewRecord
  <1>4. LinkIds'
    BY <1>1, <1>2 DEF LinkIds
  <1> QED
    BY <1>1, <1>2, <1>3, <1>4

(* A call that ends.                                                       *)
LEMMA EndRow ==
    ASSUME TypeOK, TypeOK', RowInv, NEW w \in Workers, rpc[w] \in ActiveCalls,
           rpc' = [rpc EXCEPT ![w] = Idle], UNCHANGED dbVars
    PROVE  RowInv'
  <1>0. nextId \in Nat /\ nextId # 0
    BY DEF TypeOK, DBTypeOK
  <1>1. PICK n : n = Idle
    OBVIOUS
  <1>2. HeldRows(n) /\ RowsFound(n) /\ n \in {Idle} \cup ActiveCalls
    <2>1. HeldRows(rpc[w])
      BY DEF RowInv
    <2>2. HeldRows(Idle)
      BY <1>0, <2>1, HeldAdvance
    <2> QED
      BY <1>1, <2>2 DEF RowsFound, Idle, ClientTopicOps, PeerOps
  <1>3. HeldRows(n)'
    BY <1>0, <1>2, QuietTables, HeldKept DEF dbVars
  <1>4. \A v \in Workers : HeldRows(rpc[v])' /\ RowsFound(rpc[v])'
    BY <1>1, <1>2, <1>3, QuietTables, HeldStep
  <1>5. ~InTx(n) /\ n.topic.id = 0
    BY <1>1 DEF InTx, Idle, NoRow
  <1>6. \A v \in Workers \ {w} : InTx(rpc[v])' => TxAlone(v)'
    BY <1>1, <1>5, QuietTables, TxOthers
  <1>7. ~InTx(rpc[w])'
    <2>1. rpc'[w] = n
      BY <1>1 DEF TypeOK
    <2> QED
      BY <1>5, <2>1 DEF InTx, NewRecord
  <1> QED
    BY <1>4, <1>6, <1>7, QuietTables DEF RowInv, TxInv

(* A call that goes on with what it holds; n is what becomes of it.        *)
LEMMA QuietRow ==
    ASSUME TypeOK, TypeOK', RowInv, NEW w \in Workers, NEW m \in ActiveCalls,
           NEW n, n \in {Idle, m, Advance(m)}, rpc' = [rpc EXCEPT ![w] = n], UNCHANGED dbVars,
           Program(rpc[w].op)[rpc[w].pc] \notin {"GetClient", "GetTopic", "GetPeer", "WriteTopic"},
           rpc[w] \in ActiveCalls,
           m.op = rpc[w].op, m.pc = rpc[w].pc, m.c = rpc[w].c, m.d = rpc[w].d, m.t = rpc[w].t,
           m.client = rpc[w].client, m.peer = rpc[w].peer, m.topic = rpc[w].topic, m.row = rpc[w].row
    PROVE  RowInv'
  <1>1. HeldRows(rpc[w]) /\ RowsFound(rpc[w])
    BY DEF RowInv
  <1>2. HeldRows(m) /\ RowsFound(m)
    BY <1>1 DEF HeldRows, RowsFound
  <1>3. LookedUp(m)
    BY <1>2, NoLookup
  <1>4. m.op = "NewTopic" => m.pc # 2
    BY RowProgram
  <1> QED
    BY <1>2, <1>3, <1>4, QuietTables, RowReturn

(* Fail, and the return of a call that reads no row.                       *)
LEMMA FailRow ==
    ASSUME TypeOK, TypeOK', RowInv, NEW w \in Workers, rpc[w] \in ActiveCalls, Fail(w), UNCHANGED dbVars
    PROVE  RowInv'
  BY EndRow DEF Fail

LEMMA ReturnRow ==
    ASSUME TypeOK, TypeOK', RowInv, NEW w \in Workers, rpc[w] \in ActiveCalls,
           Program(rpc[w].op)[rpc[w].pc] \notin {"GetClient", "GetTopic", "GetPeer", "WriteTopic"},
           rpc' = [rpc EXCEPT ![w] = Advance(rpc[w])], UNCHANGED dbVars
    PROVE  RowInv'
  <1>1. PICK m \in ActiveCalls : m = rpc[w]
    OBVIOUS
  <1>2. PICK n : n = Advance(m)
    OBVIOUS
  <1>3. rpc' = [rpc EXCEPT ![w] = n]
    BY <1>1, <1>2
  <1> QED
    BY <1>1, <1>2, <1>3, QuietRow

(* A lookup finds the row of the name it was given.                        *)
LEMMA LookupRow ==
    ASSUME TypeOK, TypeOK', RowInv, NEW w \in Workers
    PROVE  GetClient(w) \/ GetPeer(w) \/ GetTopic(w) => RowInv'
  <1>0. nextId \in Nat /\ nextId # 0 /\ UniqueIds
    BY DEF TypeOK, DBTypeOK, RowInv
  <1>1. ASSUME NEW step \in {"GetClient", "GetPeer", "GetTopic"}, NEW field, NEW row, row \in Row,
               Lookup(w, step, field, row),
               \/ step = "GetClient" /\ field = "client" /\ row = clients[rpc[w].c]
               \/ step = "GetPeer" /\ field = "peer" /\ row = clients[rpc[w].d]
               \/ step = "GetTopic" /\ field = "topic" /\ row = topics[rpc[w].t]
        PROVE  RowInv'
    <2>1. rpc[w] \in ActiveCalls /\ Program(rpc[w].op)[rpc[w].pc] = step
      BY <1>1, AtOK DEF Lookup
    <2>2. UNCHANGED dbVars
      BY <1>1 DEF Lookup
    <2>3. CASE NewRecord(row)
      BY <1>1, <2>1, <2>2, <2>3, EndRow DEF Lookup
    <2>4. CASE ~NewRecord(row)
      <3>1. PICK m : m = [rpc[w] EXCEPT ![field] = row]
        OBVIOUS
      <3>2. m \in ActiveCalls
        BY <1>1, <2>1, <3>1, LocalOK
      <3>3. PICK n : n = Advance(m)
        OBVIOUS
      <3>4. rpc' = [rpc EXCEPT ![w] = n]
        BY <1>1, <2>4, <3>1, <3>3 DEF Lookup
      <3>5. /\ m.op = rpc[w].op /\ m.pc = rpc[w].pc /\ m.c = rpc[w].c /\ m.d = rpc[w].d /\ m.t = rpc[w].t
            /\ m.row = rpc[w].row /\ m.pc \in Nat \ {0}
            /\ m.client = IF step = "GetClient" THEN row ELSE rpc[w].client
            /\ m.peer = IF step = "GetPeer" THEN row ELSE rpc[w].peer
            /\ m.topic = IF step = "GetTopic" THEN row ELSE rpc[w].topic
        BY <1>1, <2>1, <3>1 DEF ActiveCalls, Calls
      <3>6. HeldRows(rpc[w]) /\ RowsFound(rpc[w])
        BY DEF RowInv
      <3>7. /\ rpc[w].c \in Names \/ step # "GetClient"
            /\ rpc[w].d \in Names \/ step # "GetPeer"
            /\ rpc[w].t \in Topics \/ step # "GetTopic"
        BY <2>1, StatementOps
      <3>8. HeldRows(m)
        <4>1. CASE step = "GetClient"
          BY <1>0, <1>1, <2>4, <3>5, <3>6, <3>7, <4>1 DEF HeldRows, UniqueIds, NewRecord
        <4>2. CASE step = "GetPeer"
          BY <1>0, <1>1, <2>4, <3>5, <3>6, <3>7, <4>2 DEF HeldRows, UniqueIds, NewRecord
        <4>3. CASE step = "GetTopic"
          BY <1>0, <1>1, <2>4, <3>5, <3>6, <3>7, <4>3 DEF HeldRows, UniqueIds, NewRecord
        <4> QED
          BY <1>1, <4>1, <4>2, <4>3
      <3>9. RowsFound(m) /\ LookedUp(m)
        <4>1. m.op \in ClientTopicOps => m.op \notin PeerOps
          BY DEF ClientTopicOps, PeerOps
        <4>2. m.op \in ClientTopicOps => \/ m.pc = 1 /\ step = "GetClient"
                                         \/ m.pc = 2 /\ step = "GetTopic"
          BY <1>1, <2>1, <3>5, <4>1, RowProgram
        <4>3. m.op \in PeerOps => \/ m.pc = 1 /\ step = "GetClient"
                                  \/ m.pc = 2 /\ step = "GetPeer"
          <5>1. m.op \in PeerOps => m.op \notin ClientTopicOps \cup {"RemoveTopic"}
            BY DEF ClientTopicOps, PeerOps
          <5> QED
            BY <1>1, <2>1, <3>5, <5>1, RowProgram
        <4>4. CASE m.op \in ClientTopicOps /\ m.pc = 1
          BY <2>4, <3>5, <4>1, <4>2, <4>4 DEF RowsFound, LookedUp
        <4>5. CASE m.op \in ClientTopicOps /\ m.pc = 2
          BY <2>4, <3>5, <3>6, <4>1, <4>2, <4>5 DEF RowsFound, LookedUp
        <4>6. CASE m.op \in PeerOps /\ m.pc = 1
          BY <2>4, <3>5, <4>1, <4>3, <4>6 DEF RowsFound, LookedUp
        <4>7. CASE m.op \in PeerOps /\ m.pc = 2
          BY <2>4, <3>5, <3>6, <4>1, <4>3, <4>7 DEF RowsFound, LookedUp
        <4>8. CASE m.op \notin ClientTopicOps \cup PeerOps
          BY <4>8 DEF RowsFound, LookedUp
        <4> QED
          BY <4>2, <4>3, <4>4, <4>5, <4>6, <4>7, <4>8
      <3>10. m.op # "NewTopic"
        BY <1>1, <2>1, <3>5, RowProgram
      <3>11. m.topic.id = rpc[w].topic.id \/ \E t \in Topics : m.topic.id = topics[t].id
        BY <1>1, <3>5, <3>7
      <3> QED
        BY <2>2, <3>2, <3>3, <3>4, <3>5, <3>8, <3>9, <3>10, <3>11, QuietTables, RowReturn
    <2> QED
      BY <2>3, <2>4
  <1>2. ASSUME GetClient(w) PROVE RowInv'
    <2>1. clients[rpc[w].c] \in Row
      BY <1>2, AtOK, StatementOps DEF GetClient, Lookup, TypeOK, DBTypeOK
    <2>2. PICK row : row = clients[rpc[w].c]
      OBVIOUS
    <2> QED
      BY <1>1, <1>2, <2>1, <2>2 DEF GetClient
  <1>3. ASSUME GetPeer(w) PROVE RowInv'
    <2>1. clients[rpc[w].d] \in Row
      BY <1>3, AtOK, StatementOps DEF GetPeer, Lookup, TypeOK, DBTypeOK
    <2>2. PICK row : row = clients[rpc[w].d]
      OBVIOUS
    <2> QED
      BY <1>1, <1>3, <2>1, <2>2 DEF GetPeer
  <1>4. ASSUME GetTopic(w) PROVE RowInv'
    <2>1. topics[rpc[w].t] \in Row
      BY <1>4, AtOK, StatementOps DEF GetTopic, Lookup, TypeOK, DBTypeOK
    <2>2. PICK row : row = topics[rpc[w].t]
      OBVIOUS
    <2> QED
      BY <1>1, <1>4, <2>1, <2>2 DEF GetTopic
  <1> QED
    BY <1>2, <1>3, <1>4

(* The row InsertClient finds is the row of its client.                    *)
LEMMA FindRow ==
    ASSUME TypeOK, TypeOK', RowInv, NEW w \in Workers
    PROVE  FindClient(w) \/ FindTopic(w) => RowInv'
  <1>0. nextId \in Nat /\ nextId # 0 /\ UniqueIds
    BY DEF TypeOK, DBTypeOK, RowInv
  <1>1. ASSUME NEW step \in {"FindClient", "FindTopic"}, NEW row, row \in Row, NEW failures,
               Find(w, step, row, failures),
               \/ step = "FindClient" /\ row = clients[rpc[w].c]
               \/ step = "FindTopic" /\ row = topics[rpc[w].t]
        PROVE  RowInv'
    <2>1. rpc[w] \in ActiveCalls /\ Program(rpc[w].op)[rpc[w].pc] = step
      BY <1>1, AtOK DEF Find
    <2>2. UNCHANGED dbVars
      BY <1>1 DEF Find
    <2>3. PICK found \in {row, NoRow} : Return(w, [rpc[w] EXCEPT !.row = found])
      BY <1>1 DEF Find
    <2>4. found \in Row
      BY <1>1, <2>3 DEF NoRow, Row
    <2>5. PICK m : m = [rpc[w] EXCEPT !.row = found]
      OBVIOUS
    <2>6. m \in ActiveCalls
      BY <2>1, <2>4, <2>5, LocalOK
    <2>7. PICK n : n = Advance(m)
      OBVIOUS
    <2>8. rpc' = [rpc EXCEPT ![w] = n]
      BY <2>3, <2>5, <2>7 DEF Return
    <2>9. /\ m.op = rpc[w].op /\ m.pc = rpc[w].pc /\ m.c = rpc[w].c /\ m.d = rpc[w].d /\ m.t = rpc[w].t
          /\ m.row = found /\ m.client = rpc[w].client /\ m.peer = rpc[w].peer /\ m.topic = rpc[w].topic
      BY <2>1, <2>5 DEF ActiveCalls, Calls
    <2>10. HeldRows(rpc[w]) /\ RowsFound(rpc[w])
      BY DEF RowInv
    <2>11. /\ step = "FindClient" => rpc[w].c \in Names /\ rpc[w].op \in ClientOps
           /\ step = "FindTopic" => rpc[w].t \in Topics /\ rpc[w].op \notin ClientOps /\ rpc[w].pc = 1
      <3>1. /\ step = "FindClient" => rpc[w].c \in Names
            /\ step = "FindTopic" => rpc[w].t \in Topics
        BY <2>1, StatementOps
      <3>2. /\ step = "FindClient" => rpc[w].op \in {"NewClient", "NewClientKey"}
            /\ step = "FindTopic" => rpc[w].op = "NewTopic" /\ rpc[w].pc = 1
        BY <2>1, RowProgram
      <3> QED
        BY <3>1, <3>2 DEF ClientOps
    <2>12. HeldRows(m)
      <3>1. m.row.id < nextId
        BY <1>0, <1>1, <2>3, <2>9, <2>11 DEF UniqueIds, NoRow
      <3>2. ASSUME NEW c \in Names, ~NewRecord(clients[c]), m.op \in ClientOps, clients[c].id = m.row.id
            PROVE  c = m.c
        BY <1>0, <1>1, <2>3, <2>9, <2>11, <3>2 DEF UniqueIds, NewRecord, NoRow
      <3> QED
        BY <2>9, <2>10, <3>1, <3>2 DEF HeldRows
    <2>13. RowsFound(m)
      BY <2>9, <2>10 DEF RowsFound
    <2>14. LookedUp(m)
      BY <2>1, <2>6, <2>9, <2>13, NoLookup
    <2>15. m.op = "NewTopic" => m.pc # 2
      BY <2>1, <2>9, <2>11 DEF ClientOps
    <2> QED
      BY <2>2, <2>6, <2>7, <2>8, <2>9, <2>12, <2>13, <2>14, <2>15, QuietTables, RowReturn
  <1>2. ASSUME FindClient(w) PROVE RowInv'
    <2>1. clients[rpc[w].c] \in Row
      BY <1>2, AtOK, StatementOps DEF FindClient, Find, TypeOK, DBTypeOK
    <2>2. PICK row : row = clients[rpc[w].c]
      OBVIOUS
    <2> QED
      BY <1>1, <1>2, <2>1, <2>2 DEF FindClient
  <1>3. ASSUME FindTopic(w) PROVE RowInv'
    <2>1. topics[rpc[w].t] \in Row
      BY <1>3, AtOK, StatementOps DEF FindTopic, Find, TypeOK, DBTypeOK
    <2>2. PICK row : row = topics[rpc[w].t]
      OBVIOUS
    <2> QED
      BY <1>1, <1>3, <2>1, <2>2 DEF FindTopic
  <1> QED
    BY <1>2, <1>3

(* Publications, subscriptions, counts and pages leave the rows alone.     *)
LEMMA SendRow ==
    ASSUME TypeOK, TypeOK', RowInv, NEW w \in Workers, Handle(w),
           StepOf(rpc[w]) \in {"Publish", "Dispatch", "SubscribeToTopic", "UnsubscribeFromTopic",
                               "CountClients", "CountLinked", "SendToAll"}
    PROVE  RowInv'
  <1>1. rpc[w] \in ActiveCalls /\ CallGoesOn(w) /\ Frame(w)
    BY HandleShape
  <1>2. UNCHANGED dbVars
    BY <1>1 DEF Frame, dbVars
  <1>3. PICK m \in ActiveCalls :
            /\ ReadBy(m, rpc[w])
            /\ \E n \in {Idle, Advance(m), m} : rpc' = [rpc EXCEPT ![w] = n]
    BY <1>1 DEF CallGoesOn
  <1>4. PICK n \in {Idle, Advance(m), m} : rpc' = [rpc EXCEPT ![w] = n]
    BY <1>3
  <1>5. /\ m.op = rpc[w].op /\ m.pc = rpc[w].pc /\ m.c = rpc[w].c /\ m.d = rpc[w].d /\ m.t = rpc[w].t
        /\ m.client = rpc[w].client /\ m.peer = rpc[w].peer /\ m.topic = rpc[w].topic /\ m.row = rpc[w].row
    BY <1>3 DEF ReadBy
  <1>6. Program(rpc[w].op)[rpc[w].pc] \notin {"GetClient", "GetTopic", "GetPeer", "WriteTopic"}
    BY DEF StepOf
  <1> QED
    BY <1>1, <1>2, <1>4, <1>5, <1>6, QuietRow

LEMMA FaultRow ==
    ASSUME TypeOK, TypeOK', RowInv, NEW w \in Workers, DBFault(w)
    PROVE  RowInv'
  <1>1. rpc[w] \in ActiveCalls /\ UNCHANGED dbVars /\ Fail(w)
    BY AtOK DEF DBFault
  <1> QED
    BY <1>1, FailRow

-----------------------------------------------------------------------------
(* Statements on rows.                                                     *)

(* What the statements on clients do to the primary keys.                  *)
LEMMA ClientStatementIds ==
    ASSUME DBTypeOK, UniqueIds, LinkIds, NEW c \in Names, NEW k, NEW row
    PROVE  /\ CreateClient(c, k) =>
                  /\ UniqueIds' /\ LinkIds' /\ nextId <= nextId'
                  /\ \A b \in Names : clients'[b].id = IF b = c THEN nextId ELSE clients[b].id
           /\ UpdateClient(row, k) =>
                  /\ UniqueIds' /\ LinkIds' /\ nextId <= nextId'
                  /\ \A b \in Names : clients'[b].id = clients[b].id
           /\ DeleteClientRow(row) =>
                  /\ UniqueIds' /\ LinkIds' /\ nextId <= nextId'
                  /\ \A b \in Names : clients'[b].id = IF clients[b].id = row.id THEN 0 ELSE clients[b].id
                  /\ ctopics' \subseteq ctopics
  <1>1. /\ nextId \in Nat /\ nextId # 0 /\ clients \in [Names -> Row] /\ topics \in [Topics -> Row]
        /\ \A b \in Names : clients[b].id \in Nat
        /\ \A t \in Topics : topics[t].id \in Nat
    BY DEF DBTypeOK, Row
  <1>2. ASSUME CreateClient(c, k)
        PROVE  /\ UniqueIds' /\ LinkIds' /\ nextId <= nextId'
               /\ \A b \in Names : clients'[b].id = IF b = c THEN nextId ELSE clients[b].id
    <2>1. \A b \in Names : clients'[b].id = IF b = c THEN nextId ELSE clients[b].id
      BY <1>1, <1>2 DEF CreateClient, NewClientId
    <2>2. nextId' = nextId + 1 /\ topics' = topics /\ ctopics' = ctopics /\ cclients' = cclients
      BY <1>2 DEF CreateClient
    <2>3. UniqueIds'
      BY <1>1, <2>1, <2>2 DEF UniqueIds, NewRecord
    <2>4. LinkIds'
      BY <1>1, <2>2 DEF LinkIds
    <2> QED
      BY <1>1, <2>1, <2>2, <2>3, <2>4
  <1>3. ASSUME UpdateClient(row, k)
        PROVE  /\ UniqueIds' /\ LinkIds' /\ nextId <= nextId'
               /\ \A b \in Names : clients'[b].id = clients[b].id
    <2>1. \A b \in Names : clients'[b].id = clients[b].id
      BY <1>1, <1>3 DEF UpdateClient
    <2>2. nextId' = nextId /\ topics' = topics /\ ctopics' = ctopics /\ cclients' = cclients
      BY <1>3 DEF UpdateClient
    <2>3. UniqueIds'
      BY <1>1, <2>1, <2>2 DEF UniqueIds, NewRecord
    <2>4. LinkIds'
      BY <1>1, <2>2 DEF LinkIds
    <2> QED
      BY <1>1, <2>1, <2>2, <2>3, <2>4
  <1>4. ASSUME DeleteClientRow(row)
        PROVE  /\ UniqueIds' /\ LinkIds' /\ nextId <= nextId'
               /\ \A b \in Names : clients'[b].id = IF clients[b].id = row.id THEN 0 ELSE clients[b].id
               /\ ctopics' \subseteq ctopics
    <2>1. \A b \in Names : clients'[b].id = IF clients[b].id = row.id THEN 0 ELSE clients[b].id
      BY <1>1, <1>4 DEF DeleteClientRow, NoRow
    <2>2. nextId' = nextId /\ topics' = topics /\ ctopics' \subseteq ctopics /\ cclients' \subseteq cclients
      BY <1>4 DEF DeleteClientRow
    <2>3. UniqueIds'
      BY <1>1, <2>1, <2>2 DEF UniqueIds, NewRecord
    <2>4. LinkIds'
      BY <1>1, <2>2 DEF LinkIds
    <2> QED
      BY <1>1, <2>1, <2>2, <2>3, <2>4
  <1> QED
    BY <1>2, <1>3, <1>4

(* Linking rows that have a primary key; unlinking any.                    *)
LEMMA LinkStatementIds ==
    ASSUME DBTypeOK, UniqueIds, LinkIds, NEW a \in Row, NEW b \in Row
    PROVE  /\ LinkTopicRow(a, b) /\ a.id \in 1..(nextId - 1) /\ b.id \in 1..(nextId - 1) => LinkIds'
           /\ LinkClientRow(a, b) /\ a.id \in 1..(nextId - 1) /\ b.id \in 1..(nextId - 1) => LinkIds'
           /\ UnlinkTopicRow(a, b) \/ UnlinkClientRow(a, b) => LinkIds'
           /\ LinkTopicRow(a, b) \/ LinkClientRow(a, b) \/ UnlinkTopicRow(a, b) \/ UnlinkClientRow(a, b) =>
                  /\ UniqueIds' /\ nextId <= nextId' /\ clients' = clients /\ topics' = topics
                  /\ \A l \in ctopics' : l \in ctopics \/ l = <<a.id, b.id>>
  <1>1. nextId \in Nat /\ nextId # 0
    BY DEF DBTypeOK
  <1>2. ASSUME LinkTopicRow(a, b), a.id \in 1..(nextId - 1), b.id \in 1..(nextId - 1) PROVE LinkIds'
    BY <1>2 DEF LinkTopicRow, LinkIds
  <1>3. ASSUME LinkClientRow(a, b), a.id \in 1..(nextId - 1), b.id \in 1..(nextId - 1) PROVE LinkIds'
    BY <1>3 DEF LinkClientRow, LinkIds
  <1>4. ASSUME UnlinkTopicRow(a, b) \/ UnlinkClientRow(a, b) PROVE LinkIds'
    BY <1>4 DEF UnlinkTopicRow, UnlinkClientRow, LinkIds
  <1>5. ASSUME LinkTopicRow(a, b) \/ LinkClientRow(a, b) \/ UnlinkTopicRow(a, b) \/ UnlinkClientRow(a, b)
        PROVE  /\ UniqueIds' /\ nextId <= nextId' /\ clients' = clients /\ topics' = topics
               /\ \A l \in ctopics' : l \in ctopics \/ l = <<a.id, b.id>>
    <2>1. /\ clients' = clients /\ topics' = topics /\ nextId' = nextId
          /\ \A l \in ctopics' : l \in ctopics \/ l = <<a.id, b.id>>
      BY <1>5 DEF LinkTopicRow, LinkClientRow, UnlinkTopicRow, UnlinkClientRow
    <2>2. UniqueIds'
      BY <2>1 DEF UniqueIds, NewRecord
    <2> QED
      BY <1>1, <2>1, <2>2
  <1> QED
    BY <1>2, <1>3, <1>4, <1>5

(* InsertClient and DeleteClientByID.                                      *)
LEMMA ClientRow ==
    ASSUME TypeOK, TypeOK', RowInv, NEW w \in Workers
    PROVE  WriteClient(w) \/ DeleteClient(w) => RowInv'
  <1>0. DBTypeOK /\ UniqueIds /\ LinkIds /\ nextId \in Nat
    BY DEF TypeOK, DBTypeOK, RowInv
  <1>1. ASSUME WriteClient(w) PROVE RowInv'
    <2>1. rpc[w] \in ActiveCalls /\ Program(rpc[w].op)[rpc[w].pc] = "WriteClient" /\ rpc[w].c \in Names
      BY <1>1, AtOK, StatementOps DEF WriteClient
    <2>2. CASE Fail(w) /\ UNCHANGED dbVars
      BY <2>1, <2>2, FailRow
    <2>3. CASE /\ CreateClient(rpc[w].c, rpc[w].key) \/ UpdateClient(rpc[w].row, rpc[w].key)
               /\ Return(w, rpc[w])
      <3>1. PICK m \in ActiveCalls : m = rpc[w]
        BY <2>1
      <3>2. PICK n : n = Advance(m)
        OBVIOUS
      <3>3. rpc' = [rpc EXCEPT ![w] = n]
        BY <2>3, <3>1, <3>2 DEF Return
      <3>4. /\ UniqueIds' /\ LinkIds' /\ nextId <= nextId'
            /\ \A c \in Names : clients'[c].id \in {clients[c].id, 0, nextId}
        <4>1. m.c \in Names
          BY <2>1, <3>1
        <4>2. CreateClient(m.c, m.key) \/ UpdateClient(m.row, m.key)
          BY <2>3, <3>1
        <4> QED
          BY <1>0, <4>1, <4>2, ClientStatementIds
      <3>5. topics' = topics /\ ctopics' = ctopics
        BY <2>3 DEF CreateClient, UpdateClient
      <3>6. HeldRows(m) /\ RowsFound(m) /\ LookedUp(m)
        BY <2>1, <3>1, NoLookup DEF RowInv
      <3>7. m.op # "NewTopic"
        BY <2>1, <3>1, RowProgram
      <3> QED
        BY <3>1, <3>2, <3>3, <3>4, <3>5, <3>6, <3>7, RowReturn
    <2> QED
      BY <1>1, <2>2, <2>3 DEF WriteClient
  <1>2. ASSUME DeleteClient(w) PROVE RowInv'
    <2>1. rpc[w] \in ActiveCalls /\ Program(rpc[w].op)[rpc[w].pc] = "DeleteClient"
      BY <1>2, AtOK DEF DeleteClient
    <2>2. PICK m \in ActiveCalls : m = rpc[w]
      BY <2>1
    <2>3. PICK n : n = Advance(m)
      OBVIOUS
    <2>4. rpc' = [rpc EXCEPT ![w] = n] /\ DeleteClientRow(m.client)
      BY <1>2, <2>2, <2>3 DEF DeleteClient, Return
    <2>5. /\ UniqueIds' /\ LinkIds' /\ nextId <= nextId' /\ ctopics' \subseteq ctopics
          /\ \A c \in Names : clients'[c].id \in {clients[c].id, 0, nextId}
      <3>1. PICK c \in Names : TRUE
        <4>1. 1 \in Names
          BY NumClientsAssumption DEF Names
        <4> QED
          BY <4>1
      <3> QED
        BY <1>0, <2>4, <3>1, ClientStatementIds
    <2>6. topics' = topics
      BY <2>4 DEF DeleteClientRow
    <2>7. HeldRows(m) /\ RowsFound(m) /\ LookedUp(m)
      BY <2>1, <2>2, NoLookup DEF RowInv
    <2>8. m.op # "NewTopic"
      BY <2>1, <2>2, RowProgram
    <2> QED
      BY <2>2, <2>3, <2>4, <2>5, <2>6, <2>7, <2>8, RowReturn
  <1> QED
    BY <1>1, <1>2

(* The statements on links.                                                *)
LEMMA LinkRow ==
    ASSUME TypeOK, TypeOK', RowInv, NEW w \in Workers
    PROVE  LinkClients(w) \/ UnlinkClients(w) \/ LinkClientTopic(w) \/ UnlinkClientTopic(w) => RowInv'
  <1> SUFFICES ASSUME LinkClients(w) \/ UnlinkClients(w) \/ LinkClientTopic(w) \/ UnlinkClientTopic(w)
               PROVE  RowInv'
    OBVIOUS
  <1>0. DBTypeOK /\ UniqueIds /\ LinkIds /\ nextId \in Nat
    BY DEF TypeOK, DBTypeOK, RowInv
  <1>1. PICK step \in {"LinkClients", "UnlinkClients", "LinkClientTopic", "UnlinkClientTopic"} : At(w, step)
    BY DEF LinkClients, UnlinkClients, LinkClientTopic, UnlinkClientTopic
  <1>2. rpc[w] \in ActiveCalls /\ Program(rpc[w].op)[rpc[w].pc] = step
    BY <1>1, AtOK
  <1>3. PICK m \in ActiveCalls : m = rpc[w]
    BY <1>2
  <1>4. \/ Fail(w) /\ UNCHANGED dbVars
        \/ /\ Return(w, m)
           /\ \/ step \in {"LinkClients", "UnlinkClients"} /\ (LinkClientRow(m.client, m.peer) \/ UnlinkClientRow(m.client, m.peer))
              \/ step \in {"LinkClientTopic", "UnlinkClientTopic"} /\ (LinkTopicRow(m.client, m.topic) \/ UnlinkTopicRow(m.client, m.topic))
    <2>1. CASE LinkClients(w)
      <3>1. step = "LinkClients"
        BY <1>2, <2>1, AtOK DEF LinkClients
      <3> QED
        BY <1>3, <2>1, <3>1 DEF LinkClients
    <2>2. CASE UnlinkClients(w)
      <3>1. step = "UnlinkClients"
        BY <1>2, <2>2, AtOK DEF UnlinkClients
      <3> QED
        BY <1>3, <2>2, <3>1 DEF UnlinkClients
    <2>3. CASE LinkClientTopic(w)
      <3>1. step = "LinkClientTopic"
        BY <1>2, <2>3, AtOK DEF LinkClientTopic
      <3> QED
        BY <1>3, <2>3, <3>1 DEF LinkClientTopic
    <2>4. CASE UnlinkClientTopic(w)
      <3>1. step = "UnlinkClientTopic"
        BY <1>2, <2>4, AtOK DEF UnlinkClientTopic
      <3> QED
        BY <1>3, <2>4, <3>1 DEF UnlinkClientTopic
    <2> QED
      BY <2>1, <2>2, <2>3, <2>4
  <1>5. CASE Fail(w) /\ UNCHANGED dbVars
    BY <1>2, <1>5, FailRow
  <1>6. HeldRows(m) /\ RowsFound(m) /\ LookedUp(m)
    BY <1>1, <1>2, <1>3, NoLookup DEF RowInv
  <1>7. m.client \in Row /\ m.peer \in Row /\ m.topic \in Row /\ m.pc \in Nat \ {0}
    BY DEF ActiveCalls, Calls
  <1>8. m.op # "NewTopic"
    <2>1. m.op \in PeerOps \cup ClientTopicOps
      BY <1>1, <1>2, <1>3, RowProgram
    <2> QED
      BY <2>1 DEF PeerOps, ClientTopicOps
  <1>9. PICK n : n = Advance(m)
    OBVIOUS
  <1>10. ASSUME step \in {"LinkClients", "UnlinkClients"}, Return(w, m),
                LinkClientRow(m.client, m.peer) \/ UnlinkClientRow(m.client, m.peer)
         PROVE  RowInv'
    <2>1. m.op \in PeerOps /\ m.pc # 1
      BY <1>2, <1>3, <1>10, RowProgram
    <2>2. m.client.id \in 1..(nextId - 1) /\ m.peer.id \in 1..(nextId - 1)
      BY <1>0, <1>6, <1>7, <2>1 DEF LookedUp, HeldRows, NewRecord, Row
    <2>3. /\ UniqueIds' /\ LinkIds' /\ nextId <= nextId' /\ clients' = clients /\ topics' = topics
      BY <1>0, <1>7, <1>10, <2>2, LinkStatementIds
    <2>4. ctopics' = ctopics
      BY <1>10 DEF LinkClientRow, UnlinkClientRow
    <2>5. rpc' = [rpc EXCEPT ![w] = n]
      BY <1>9, <1>10 DEF Return
    <2> QED
      BY <1>3, <1>6, <1>8, <1>9, <2>3, <2>4, <2>5, RowReturn
  <1>11. ASSUME step \in {"LinkClientTopic", "UnlinkClientTopic"}, Return(w, m),
                LinkTopicRow(m.client, m.topic) \/ UnlinkTopicRow(m.client, m.topic)
         PROVE  RowInv'
    <2>1. m.op \in ClientTopicOps /\ m.pc # 1
      BY <1>2, <1>3, <1>11, RowProgram
    <2>2. m.client.id \in 1..(nextId - 1) /\ m.topic.id \in 1..(nextId - 1)
      BY <1>0, <1>6, <1>7, <2>1 DEF LookedUp, HeldRows, NewRecord, Row
    <2>3. /\ UniqueIds' /\ LinkIds' /\ nextId <= nextId' /\ clients' = clients /\ topics' = topics
          /\ \A l \in ctopics' : l \in ctopics \/ l = <<m.client.id, m.topic.id>>
      BY <1>0, <1>7, <1>11, <2>2, LinkStatementIds
    <2>4. \A l \in ctopics' : l \in ctopics \/ l[2] = m.topic.id
      BY <2>3
    <2>5. rpc' = [rpc EXCEPT ![w] = n]
      BY <1>9, <1>11 DEF Return
    <2> QED
      BY <1>3, <1>6, <1>8, <1>9, <2>3, <2>4, <2>5, RowReturn
  <1> QED
    BY <1>4, <1>5, <1>10, <1>11

(* A statement that would write a row waits for the transaction open on    *)
(* its topic.                                                              *)
LEMMA TxLocks ==
    ASSUME TypeOK, NEW w \in Workers, NEW t, ~TopicLocked(w, t)
    PROVE  \A v \in Workers \ {w} : InTx(rpc[v]) => rpc[v].t # t
  <1> SUFFICES ASSUME NEW v \in Workers \ {w}, InTx(rpc[v]), rpc[v].t = t PROVE FALSE
    OBVIOUS
  <1>1. rpc[v].op = "NewTopic" /\ rpc[v].pc \in {3, 4} /\ ~NewRecord(rpc[v].topic)
    BY DEF InTx
  <1>2. rpc[v] \in ActiveCalls
    BY <1>1 DEF TypeOK, Idle
  <1>3. Program(rpc[v].op)[rpc[v].pc] \in {"CountClients", "CommitTx"}
    BY <1>1, <1>2, RowProgram
  <1>4. At(v, "CountClients") \/ At(v, "CommitTx")
    BY <1>1, <1>3 DEF At
  <1> QED
    BY <1>1, <1>4 DEF TopicLocked

(* The call of a step that returns from m, for a call of topics.           *)
LEMMA TopicReturn ==
    ASSUME TypeOK, RowInv, NEW m \in ActiveCalls, m.op \in TopicOps
    PROVE  /\ RowsFound(Advance(m)) /\ m.t \in Topics
           /\ Advance(m) = Idle \/ (Advance(m).t = m.t /\ Advance(m).topic = m.topic /\ Advance(m).op = m.op
                                    /\ Advance(m).pc = m.pc + 1)
  <1>1. m.op \notin ClientTopicOps \cup PeerOps /\ m.op \notin ClientOps
    BY DEF TopicOps, ClientTopicOps, PeerOps, ClientOps
  <1>2. m.t \in Topics
    BY <1>1 DEF ActiveCalls, Arguments
  <1>3. RowsFound(m) /\ LookedUp(m)
    BY <1>1 DEF RowsFound, LookedUp
  <1> QED
    BY <1>2, <1>3, FoundAdvance, NextStatement

LEMMA WriteTopicRow ==
    ASSUME TypeOK, TypeOK', RowInv, NEW w \in Workers, WriteTopic(w)
    PROVE  RowInv'
  <1>0. /\ UniqueIds /\ LinkIds /\ nextId \in Nat /\ nextId # 0
        /\ \A t \in Topics : topics[t].id \in Nat
        /\ \A c \in Names : clients[c].id \in Nat
    BY DEF TypeOK, DBTypeOK, RowInv, Row
  <1>1. rpc[w] \in ActiveCalls /\ Program(rpc[w].op)[rpc[w].pc] = "WriteTopic"
    BY AtOK DEF WriteTopic
  <1>2. rpc[w].op = "NewTopic" /\ rpc[w].pc = 2 /\ rpc[w].t \in Topics
    BY <1>1, RowProgram, StatementOps
  <1>3. PICK r \in ActiveCalls : r = rpc[w]
    BY <1>1
  <1>4. PICK row : row = IF NewRecord(r.row) THEN [id |-> NewTopicId, key |-> r.key]
                         ELSE IF r.row.id = topics[r.t].id THEN [id |-> r.row.id, key |-> r.key]
                         ELSE NoRow
    OBVIOUS
  <1>5. /\ clients' = clients /\ topics' = topics /\ ctopics' = ctopics /\ cclients' = cclients
        /\ nextId' = IF NewRecord(r.row) THEN nextId + 1 ELSE nextId
        /\ ~TopicLocked(w, r.t)
        /\ IF NewRecord(r.row) /\ ~NewRecord(topics[r.t]) THEN Fail(w)
           ELSE Return(w, [r EXCEPT !.topic = row])
    BY <1>3, <1>4 DEF WriteTopic
  <1>6. nextId <= nextId' /\ nextId' \in Nat
    BY <1>0, <1>5
  <1>7. UniqueIds' /\ LinkIds'
    <2>1. UniqueIds'
      BY <1>0, <1>5, <1>6 DEF UniqueIds, NewRecord
    <2>2. LinkIds'
      BY <1>0, <1>5, <1>6 DEF LinkIds
    <2> QED
      BY <2>1, <2>2
  <1>8. CASE NewRecord(r.row) /\ ~NewRecord(topics[r.t])
    <2>1. PICK n : n = Idle
      OBVIOUS
    <2>2. rpc' = [rpc EXCEPT ![w] = n]
      BY <1>5, <1>8, <2>1 DEF Fail
    <2>3. HeldRows(n) /\ RowsFound(n)
      <3>1. HeldRows(r)
        BY <1>3 DEF RowInv
      <3> QED
        BY <1>0, <2>1, <3>1, HeldAdvance DEF RowsFound, Idle, ClientTopicOps, PeerOps
    <2>4. HeldRows(n)'
      BY <1>5, <1>6, <2>1, <2>3, HeldKept
    <2>5. \A v \in Workers : HeldRows(rpc[v])' /\ RowsFound(rpc[v])'
      BY <1>5, <1>6, <2>2, <2>3, <2>4, HeldStep
    <2>6. ~InTx(n) /\ n.topic.id = 0
      BY <2>1 DEF InTx, Idle, NoRow
    <2>7. \A v \in Workers \ {w} : InTx(rpc[v])' => TxAlone(v)'
      BY <1>5, <2>2, <2>6, TxOthers
    <2>8. ~InTx(rpc[w])'
      <3>1. rpc'[w] = n
        BY <2>2 DEF TypeOK
      <3> QED
        BY <2>6, <3>1 DEF InTx, NewRecord
    <2> QED
      BY <1>7, <2>5, <2>7, <2>8 DEF RowInv, TxInv
  <1>9. CASE ~(NewRecord(r.row) /\ ~NewRecord(topics[r.t]))
    <2>1. PICK m : m = [r EXCEPT !.topic = row]
      OBVIOUS
    <2>2. row \in Row
      <3>1. r.key \in Nat /\ r.row \in Row
        BY DEF ActiveCalls, Calls
      <3> QED
        BY <1>0, <1>4, <3>1 DEF NewTopicId, Row, NoRow
    <2>3. m \in ActiveCalls
      BY <2>1, <2>2, LocalOK
    <2>4. PICK n : n = Advance(m)
      OBVIOUS
    <2>5. rpc' = [rpc EXCEPT ![w] = n]
      BY <1>5, <1>9, <2>1, <2>4 DEF Return
    <2>6. /\ m.op = "NewTopic" /\ m.pc = 2 /\ m.t = r.t /\ m.topic = row /\ m.c = r.c /\ m.d = r.d
          /\ m.client = r.client /\ m.peer = r.peer /\ m.row = r.row
      BY <1>2, <1>3, <2>1 DEF ActiveCalls, Calls
    <2>7. \/ NewRecord(r.row) /\ row.id = nextId /\ NewRecord(topics[r.t]) /\ nextId' = nextId + 1
          \/ row.id = topics[r.t].id /\ ~NewRecord(r.row)
          \/ row.id = 0
      BY <1>4, <1>5, <1>9 DEF NewTopicId, NoRow
    <2>8. r.t \in Topics
      BY <1>2, <1>3
    <2>9. HeldRows(m)'
      <3>1. HeldRows(r)
        BY <1>3 DEF RowInv
      <3>2. HeldRows(r)'
        BY <1>5, <1>6, <3>1, HeldKept
      <3>3. row.id < nextId'
        BY <1>0, <1>6, <2>7, <2>8 DEF UniqueIds
      <3>4. ASSUME NEW t \in Topics, ~NewRecord(topics[t]), topics[t].id = row.id PROVE t = r.t
        BY <1>0, <2>7, <2>8, <3>4 DEF UniqueIds, NewRecord
      <3>5. r.client.id < nextId' /\ r.peer.id < nextId' /\ r.row.id < nextId'
        BY <3>2 DEF HeldRows
      <3>6. \A c \in Names : ~NewRecord(clients[c])' =>
                /\ clients'[c].id = m.client.id => c = m.c
                /\ clients'[c].id = m.peer.id => c = m.d
                /\ m.op \in ClientOps /\ clients'[c].id = m.row.id => c = m.c
        BY <1>2, <1>3, <2>6, <3>2 DEF HeldRows
      <3>7. \A t \in Topics : ~NewRecord(topics[t])' => (topics'[t].id = m.topic.id => t = m.t)
        BY <1>5, <2>6, <3>4 DEF NewRecord
      <3> QED
        BY <2>6, <3>3, <3>5, <3>6, <3>7 DEF HeldRows
    <2>10. RowsFound(n) /\ (n = Idle \/ (n.t = r.t /\ n.topic = row /\ n.pc = 3 /\ n.op = "NewTopic"))
      BY <2>3, <2>4, <2>6, TopicReturn DEF TopicOps
    <2>11. HeldRows(n)'
      <3>1. CASE n = Idle
        BY <1>0, <1>6, <3>1 DEF HeldRows, Idle, NoRow, NewRecord
      <3>2. CASE n # Idle
        <4>1. /\ n.op = m.op /\ n.c = m.c /\ n.d = m.d /\ n.t = m.t
              /\ n.client = m.client /\ n.peer = m.peer /\ n.topic = m.topic /\ n.row = m.row
          BY <2>3, <2>4, <3>2, NextStatement
        <4> QED
          BY <2>9, <4>1 DEF HeldRows
      <3> QED
        BY <3>1, <3>2
    <2>12. \A v \in Workers : HeldRows(rpc[v])' /\ RowsFound(rpc[v])'
      BY <1>5, <1>6, <2>5, <2>10, <2>11, HeldStep
    <2>13. \A v \in Workers \ {w} : InTx(rpc[v]) => rpc[v].t # r.t
      BY <1>5, TxLocks
    <2>14. n.topic.id \in {0, nextId} \/ \E t \in Topics : n.topic.id = topics[t].id
      BY <2>7, <2>8, <2>10 DEF Idle, NoRow
    <2>15. \A v \in Workers \ {w} : InTx(rpc[v]) => ~(InTx(n) /\ n.t = rpc[v].t)
      BY <2>10, <2>13 DEF InTx, Idle
    <2>16. \A v \in Workers \ {w} : InTx(rpc[v])' => TxAlone(v)'
      BY <1>5, <2>5, <2>14, <2>15, TxOthers
    <2>17. ASSUME InTx(rpc[w])' PROVE TxAlone(w)'
      <3>1. rpc'[w] = n /\ \A v \in Workers \ {w} : rpc'[v] = rpc[v]
        BY <2>5 DEF TypeOK
      <3>2. n.t = r.t /\ n.topic = row /\ row.id # 0
        BY <2>10, <2>17, <3>1 DEF InTx, Idle, NewRecord
      <3>3. \A v \in Workers \ {w} : ~(InTx(rpc'[v]) /\ rpc'[v].t = n.t)
        BY <2>13, <3>1, <3>2
      <3>4. CASE row.id = topics[r.t].id
        BY <1>5, <3>1, <3>2, <3>3, <3>4 DEF TxAlone, InTx, NewRecord
      <3>5. CASE row.id = nextId /\ NewRecord(topics[r.t])
        <4>1. \A l \in ctopics : l[2] # row.id
          BY <1>0, <3>5 DEF LinkIds
        <4>2. \A t \in Topics : topics[t].id # row.id
          BY <1>0, <3>5 DEF UniqueIds
        <4>3. \A v \in Workers \ {w} : rpc[v].topic.id # row.id
          <5> SUFFICES ASSUME NEW v \in Workers PROVE rpc[v].topic.id # nextId
            BY <3>5
          <5>1. rpc[v].topic.id < nextId
            BY DEF RowInv, HeldRows
          <5> QED
            BY <1>0, <5>1
        <4>4. Unseen(w)'
          BY <1>5, <3>1, <3>2, <4>1, <4>2, <4>3 DEF Unseen
        <4> QED
          BY <1>5, <3>1, <3>2, <3>3, <3>5, <4>4 DEF TxAlone, InTx, NewRecord
      <3> QED
        BY <2>7, <3>2, <3>4, <3>5
    <2> QED
      BY <1>7, <2>12, <2>16, <2>17 DEF RowInv, TxInv
  <1> QED
    BY <1>8, <1>9

(* The commit publishes the row of the transaction.                        *)
LEMMA CommitRow ==
    ASSUME TypeOK, TypeOK', RowInv, NEW w \in Workers, CommitTx(w)
    PROVE  RowInv'
  <1>0. /\ UniqueIds /\ LinkIds /\ nextId \in Nat /\ nextId # 0
        /\ topics \in [Topics -> Row]
        /\ \A t \in Topics : topics[t].id \in Nat
    BY DEF TypeOK, DBTypeOK, RowInv, Row
  <1>1. rpc[w] \in ActiveCalls /\ Program(rpc[w].op)[rpc[w].pc] = "CommitTx"
    BY AtOK DEF CommitTx
  <1>2. rpc[w].op = "NewTopic" /\ rpc[w].pc = 4 /\ rpc[w].t \in Topics
    BY <1>1, RowProgram, StatementOps
  <1>3. PICK m \in ActiveCalls : m = rpc[w]
    BY <1>1
  <1>4. /\ topics' = IF NewRecord(m.topic) THEN topics ELSE [topics EXCEPT ![m.t] = m.topic]
        /\ rpc' = [rpc EXCEPT ![w] = Advance(m)]
        /\ UNCHANGED <<clients, ctopics, cclients, nextId>>
    BY <1>3 DEF CommitTx, Return
  <1>5. CASE NewRecord(m.topic)
    <2>1. UNCHANGED dbVars
      BY <1>4, <1>5 DEF dbVars
    <2> QED
      BY <1>1, <1>3, <1>4, <2>1, ReturnRow
  <1>6. CASE ~NewRecord(m.topic)
    <2>1. TxAlone(w) /\ InTx(rpc[w])
      <3>1. InTx(rpc[w])
        BY <1>2, <1>3, <1>6 DEF InTx
      <3> QED
        BY <3>1 DEF RowInv, TxInv
    <2>2. HeldRows(m) /\ m.t \in Topics /\ m.topic.id < nextId /\ m.topic.id # 0
      BY <1>2, <1>3, <1>6 DEF RowInv, HeldRows, NewRecord
    <2>3. \A t \in Topics : topics'[t].id = IF t = m.t THEN m.topic.id ELSE topics[t].id
      BY <1>0, <1>4, <1>6, <2>2
    <2>4. \/ topics[m.t].id = m.topic.id
          \/ topics[m.t].id = 0 /\ Unseen(w)
      BY <1>3, <2>1 DEF TxAlone, NewRecord
    <2>5. \A s \in Topics : s # m.t => topics[s].id # m.topic.id
      BY <1>0, <1>3, <2>2, <2>4 DEF UniqueIds, Unseen, NewRecord
    <2>6. UniqueIds' /\ LinkIds'
      <3>1. UniqueIds'
        <4>1. \A c \in Names : clients'[c].id < nextId'
          BY <1>0, <1>4 DEF UniqueIds
        <4>2. \A t \in Topics : topics'[t].id < nextId'
          BY <1>0, <1>4, <2>2, <2>3 DEF UniqueIds
        <4>3. \A c, d \in Names : clients'[c].id = clients'[d].id => c = d \/ NewRecord(clients[c])'
          BY <1>0, <1>4 DEF UniqueIds, NewRecord
        <4>4. \A s, t \in Topics : topics'[s].id = topics'[t].id => s = t \/ NewRecord(topics[s])'
          BY <1>0, <2>2, <2>3, <2>5 DEF UniqueIds, NewRecord
        <4> QED
          BY <4>1, <4>2, <4>3, <4>4 DEF UniqueIds
      <3>2. LinkIds'
        BY <1>0, <1>4 DEF LinkIds
      <3> QED
        BY <3>1, <3>2
    <2>7. PICK n : n = Advance(m)
      OBVIOUS
    <2>8. rpc' = [rpc EXCEPT ![w] = n]
      BY <1>4, <2>7
    <2>9. RowsFound(n) /\ (n = Idle \/ (n.t = m.t /\ n.topic = m.topic /\ n.pc = 5 /\ n.op = "NewTopic"))
      BY <1>2, <1>3, <2>7, TopicReturn DEF TopicOps
    <2>10. HeldRows(n) /\ n \in {Idle} \cup ActiveCalls
      BY <1>0, <2>2, <2>7, HeldAdvance, AdvanceOK
    <2>11. HeldRows(n)'
      <3>1. \A t \in Topics : topics'[t].id \in {topics[t].id, 0} \/ topics'[t].id # n.topic.id \/ t = n.t
        <4>1. CASE n = Idle
          BY <1>0, <2>2, <2>3, <4>1 DEF Idle, NoRow
        <4>2. CASE n # Idle
          BY <2>3, <2>9, <4>2
        <4> QED
          BY <4>1, <4>2
      <3> QED
        BY <1>0, <1>4, <2>10, <3>1, HeldKept
    <2>12. \A v \in Workers \ {w} : topics[m.t].id = m.topic.id \/ rpc[v].topic.id # m.topic.id
      BY <1>3, <2>4 DEF Unseen
    <2>13. \A v \in Workers : HeldRows(rpc[v])' /\ RowsFound(rpc[v])'
      <3>1. \A t \in Topics : \/ topics'[t].id \in {topics[t].id, 0}
                              \/ \A v \in Workers \ {w} : rpc[v].topic.id # topics'[t].id
        BY <2>3, <2>4, <1>3 DEF Unseen
      <3>2. nextId <= nextId' /\ \A c \in Names : clients'[c].id \in {clients[c].id, 0, nextId}
        BY <1>0, <1>4
      <3>3. RowsFound(n)
        BY <2>9
      <3> QED
        BY <2>8, <2>11, <3>1, <3>2, <3>3, HeldStep
    <2>14. ~InTx(n)
      BY <2>9 DEF InTx, Idle
    <2>15. n.topic.id \in {rpc[w].topic.id, 0}
      BY <1>3, <2>9 DEF Idle, NoRow
    <2>16. \A t \in Topics, v \in Workers \ {w} :
               \/ topics'[t].id = topics[t].id
               \/ InTx(rpc[v]) => rpc[v].t # t /\ topics'[t].id # rpc[v].topic.id
      <3> SUFFICES ASSUME NEW t \in Topics, NEW v \in Workers \ {w}, topics'[t].id # topics[t].id, InTx(rpc[v])
                   PROVE  rpc[v].t # t /\ topics'[t].id # rpc[v].topic.id
        OBVIOUS
      <3>1. t = m.t /\ topics'[t].id = m.topic.id
        BY <2>3
      <3>2. rpc[v].topic.id # m.topic.id
        BY <2>12, <3>1
      <3>3. rpc[v].t # m.t
        BY <1>3, <2>1 DEF TxAlone
      <3> QED
        BY <3>1, <3>2, <3>3
    <2>17. \A v \in Workers \ {w} : InTx(rpc[v])' => TxAlone(v)'
      BY <1>4, <2>8, <2>14, <2>15, <2>16, TxOthers
    <2>18. ~InTx(rpc[w])'
      <3>1. rpc'[w] = n
        BY <2>8 DEF TypeOK
      <3> QED
        BY <2>14, <3>1 DEF InTx, NewRecord
    <2> QED
      BY <2>6, <2>13, <2>17, <2>18 DEF RowInv, TxInv
  <1> QED
    BY <1>5, <1>6

(* The row is deleted under its lock.                                      *)
LEMMA DeleteTopicRowInv ==
    ASSUME TypeOK, TypeOK', RowInv, NEW w \in Workers, DeleteTopic(w)
    PROVE  RowInv'
  <1>0. /\ UniqueIds /\ LinkIds /\ nextId \in Nat /\ nextId # 0
        /\ topics \in [Topics -> Row]
        /\ \A t \in Topics : topics[t].id \in Nat
    BY DEF TypeOK, DBTypeOK, RowInv, Row
  <1>1. rpc[w] \in ActiveCalls /\ Program(rpc[w].op)[rpc[w].pc] = "DeleteTopic"
    BY AtOK DEF DeleteTopic
  <1>2. rpc[w].op = "RemoveTopic" /\ rpc[w].t \in Topics
    BY <1>1, RowProgram, StatementOps
  <1>3. PICK m \in ActiveCalls : m = rpc[w]
    BY <1>1
  <1>4. /\ DeleteTopicRow(m.topic) /\ ~TopicLocked(w, m.t)
        /\ rpc' = [rpc EXCEPT ![w] = Advance(m)]
    BY <1>3 DEF DeleteTopic, Return
  <1>5. /\ \A t \in Topics : topics'[t].id = IF topics[t].id = m.topic.id THEN 0 ELSE topics[t].id
        /\ clients' = clients /\ cclients' = cclients /\ nextId' = nextId /\ ctopics' \subseteq ctopics
    BY <1>0, <1>4 DEF DeleteTopicRow, NoRow
  <1>6. HeldRows(m)
    BY <1>3 DEF RowInv
  <1>7. \A t \in Topics : topics'[t].id # topics[t].id => t = m.t /\ topics'[t].id = 0
    BY <1>5, <1>6 DEF HeldRows, NewRecord
  <1>8. UniqueIds' /\ LinkIds'
    <2>1. UniqueIds'
      BY <1>0, <1>5 DEF UniqueIds, NewRecord
    <2>2. LinkIds'
      BY <1>0, <1>5 DEF LinkIds
    <2> QED
      BY <2>1, <2>2
  <1>9. PICK n : n = Advance(m)
    OBVIOUS
  <1>10. rpc' = [rpc EXCEPT ![w] = n]
    BY <1>4, <1>9
  <1>11. RowsFound(n) /\ (n = Idle \/ (n.topic = m.topic /\ n.op = "RemoveTopic"))
    BY <1>2, <1>3, <1>9, TopicReturn DEF TopicOps
  <1>12. HeldRows(n)'
    <2>1. HeldRows(n) /\ n \in {Idle} \cup ActiveCalls
      BY <1>0, <1>6, <1>9, HeldAdvance, AdvanceOK
    <2> QED
      BY <1>0, <1>5, <2>1, HeldKept
  <1>13. \A v \in Workers : HeldRows(rpc[v])' /\ RowsFound(rpc[v])'
    <2>1. nextId <= nextId' /\ \A c \in Names : clients'[c].id \in {clients[c].id, 0, nextId}
      BY <1>0, <1>5
    <2>2. \A t \in Topics : topics'[t].id \in {topics[t].id, 0}
      BY <1>7
    <2>3. RowsFound(n)
      BY <1>11
    <2> QED
      BY <1>10, <1>12, <2>1, <2>2, <2>3, HeldStep
  <1>14. ~InTx(n)
    BY <1>11 DEF InTx, Idle
  <1>15. n.topic.id \in {rpc[w].topic.id, 0}
    BY <1>3, <1>11 DEF Idle, NoRow
  <1>16. \A t \in Topics, v \in Workers \ {w} :
             \/ topics'[t].id = topics[t].id
             \/ InTx(rpc[v]) => rpc[v].t # t /\ topics'[t].id # rpc[v].topic.id
    BY <1>4, <1>7, TxLocks DEF InTx, NewRecord
  <1>17. \A v \in Workers \ {w} : InTx(rpc[v])' => TxAlone(v)'
    BY <1>5, <1>10, <1>14, <1>15, <1>16, TxOthers
  <1>18. ~InTx(rpc[w])'
    <2>1. rpc'[w] = n
      BY <1>10 DEF TypeOK
    <2> QED
      BY <1>14, <2>1 DEF InTx, NewRecord
  <1> QED
    BY <1>8, <1>13, <1>17, <1>18 DEF RowInv, TxInv

(* A call that starts holds no row.                                        *)
LEMMA CallRow ==
    ASSUME TypeOK, TypeOK', RowInv, NEW w \in Workers, Call(w)
    PROVE  RowInv'
  <1>0. nextId \in Nat /\ nextId # 0
    BY DEF TypeOK, DBTypeOK
  <1>1. PICK op \in Ops : \E a \in Arguments(op) :
           rpc' = [rpc EXCEPT ![w] = [Idle EXCEPT !.op = op, !.pc = 1, !.c = a.c, !.d = a.d, !.t = a.t,
                                                  !.key = CallKey(op, a.c)]]
    BY DEF Call
  <1>2. PICK a \in Arguments(op) :
           rpc' = [rpc EXCEPT ![w] = [Idle EXCEPT !.op = op, !.pc = 1, !.c = a.c, !.d = a.d, !.t = a.t,
                                                  !.key = CallKey(op, a.c)]]
    BY <1>1
  <1>3. PICK n : n = [Idle EXCEPT !.op = op, !.pc = 1, !.c = a.c, !.d = a.d, !.t = a.t,
                                  !.key = CallKey(op, a.c)]
    OBVIOUS
  <1>4. rpc' = [rpc EXCEPT ![w] = n] /\ UNCHANGED dbVars
    BY <1>2, <1>3 DEF Call
  <1>5. n.pc = 1 /\ n.client.id = 0 /\ n.peer.id = 0 /\ n.topic.id = 0 /\ n.row.id = 0
    BY <1>3 DEF Idle, NoRow
  <1>6. HeldRows(n)' /\ RowsFound(n)
    BY <1>0, <1>4, <1>5 DEF HeldRows, RowsFound, NewRecord, dbVars
  <1>7. \A v \in Workers : HeldRows(rpc[v])' /\ RowsFound(rpc[v])'
    BY <1>4, <1>6, QuietTables, HeldStep
  <1>8. ~InTx(n)
    BY <1>5 DEF InTx
  <1>9. \A v \in Workers \ {w} : InTx(rpc[v])' => TxAlone(v)'
    BY <1>4, <1>5, <1>8, QuietTables, TxOthers
  <1>10. ~InTx(rpc[w])'
    <2>1. rpc'[w] = n
      BY <1>4 DEF TypeOK
    <2> QED
      BY <1>8, <2>1 DEF InTx, NewRecord
  <1> QED
    BY <1>4, <1>7, <1>9, <1>10, QuietTables DEF RowInv, TxInv

LEMMA NextRowInv == TypeOK /\ TypeOK' /\ RowInv /\ [Next]_vars => RowInv'
  <1> SUFFICES ASSUME TypeOK, TypeOK', RowInv, [Next]_vars PROVE RowInv'
    OBVIOUS
  <1>1. ASSUME NEW w \in Workers, Call(w) PROVE RowInv'
    BY <1>1, CallRow
  <1>2. ASSUME NEW w \in Workers, Handle(w) PROVE RowInv'
    <2>1. CASE GetClient(w) \/ GetPeer(w) \/ GetTopic(w)
      BY <2>1, LookupRow
    <2>2. CASE FindClient(w) \/ FindTopic(w)
      BY <2>2, FindRow
    <2>3. CASE Publish(w) \/ Dispatch(w) \/ SubscribeToTopic(w) \/ UnsubscribeFromTopic(w)
      <3>1. StepOf(rpc[w]) \in {"Publish", "Dispatch", "SubscribeToTopic", "UnsubscribeFromTopic"}
        BY <2>3, AtOK DEF StepOf, Publish, Dispatch, SubscribeToTopic, UnsubscribeFromTopic
      <3> QED
        BY <1>2, <3>1, SendRow
    <2>4. CASE CountClients(w) \/ CountLinked(w) \/ EndOfPages(w) \/ ReadPage(w) \/ SendToNext(w)
      <3>1. StepOf(rpc[w]) \in {"CountClients", "CountLinked", "SendToAll"}
        BY <2>4, AtOK DEF StepOf, CountClients, CountLinked, EndOfPages, ReadPage, SendToNext
      <3> QED
        BY <1>2, <3>1, SendRow
    <2>5. CASE DBFault(w)
      BY <2>5, FaultRow
    <2>6. CASE WriteClient(w) \/ DeleteClient(w)
      BY <2>6, ClientRow
    <2>7. CASE LinkClients(w) \/ UnlinkClients(w) \/ LinkClientTopic(w) \/ UnlinkClientTopic(w)
      BY <2>7, LinkRow
    <2>8. CASE WriteTopic(w)
      BY <2>8, WriteTopicRow
    <2>9. CASE CommitTx(w)
      BY <2>9, CommitRow
    <2>10. CASE DeleteTopic(w)
      BY <2>10, DeleteTopicRowInv
    <2> QED
      BY <1>2, <2>1, <2>2, <2>3, <2>4, <2>5, <2>6, <2>7, <2>8, <2>9, <2>10 DEF Handle
  <1>3. CASE Arrive \/ UNCHANGED vars
    <2>1. UNCHANGED dbVars /\ rpc' = rpc
      BY <1>3 DEF Arrive, vars, dbVars
    <2>2. UniqueIds' /\ LinkIds'
      BY <2>1, QuietTables
    <2>3. \A v \in Workers : HeldRows(rpc[v])' /\ RowsFound(rpc[v])'
      BY <2>1 DEF RowInv, HeldRows, RowsFound, NewRecord, dbVars
    <2>4. TxInv'
      BY <2>1 DEF RowInv, TxInv, InTx, TxAlone, Unseen, NewRecord, dbVars
    <2> QED
      BY <2>2, <2>3, <2>4 DEF RowInv
  <1>4. CASE Restart
    <2>1. UNCHANGED dbVars /\ \A v \in Workers : rpc'[v] = Idle
      BY <1>4 DEF Restart
    <2>2. UniqueIds' /\ LinkIds'
      BY <2>1, QuietTables
    <2>3. nextId' \in Nat /\ nextId' # 0
      BY DEF TypeOK, DBTypeOK
    <2>4. \A v \in Workers : HeldRows(rpc[v])' /\ RowsFound(rpc[v])'
      BY <2>1, <2>3 DEF HeldRows, RowsFound, Idle, NoRow, NewRecord, ClientTopicOps, PeerOps
    <2>5. TxInv'
      BY <2>1 DEF TxInv, InTx, Idle
    <2> QED
      BY <2>2, <2>4, <2>5 DEF RowInv
  <1> QED
    BY <1>1, <1>2, <1>3, <1>4 DEF Next, Finished

LEMMA InitRowInv == Init => RowInv
  <1> SUFFICES ASSUME Init PROVE RowInv
    OBVIOUS
  <1>1. NumClients \in Nat /\ NumTopics \in Nat
    BY NumClientsAssumption, NumTopicsAssumption
  <1>2. /\ \A c \in Names : clients[c].id = IF Populated THEN c ELSE 0
        /\ \A t \in Topics : topics[t].id = IF Populated THEN t ELSE 0
        /\ nextId = NumClients + NumTopics + 1
        /\ ctopics \subseteq Names \X Topics /\ cclients \subseteq Names \X Names
        /\ \A w \in Workers : rpc[w] = Idle
    BY DEF Init, DBInit, NoRow
  <1>3. /\ \A c \in Names : c \in 1..(nextId - 1) /\ c # 0
        /\ \A t \in Topics : t \in 1..(nextId - 1) /\ t # 0
    BY <1>1, <1>2 DEF Names, Topics
  <1>4. UniqueIds
    BY <1>1, <1>2, <1>3 DEF UniqueIds, NewRecord
  <1>5. LinkIds
    BY <1>2, <1>3 DEF LinkIds
  <1>6. \A w \in Workers : HeldRows(rpc[w]) /\ RowsFound(rpc[w])
    BY <1>1, <1>2 DEF HeldRows, RowsFound, Idle, NoRow, NewRecord, ClientTopicOps, PeerOps
  <1>7. TxInv
    BY <1>2 DEF TxInv, InTx, Idle
  <1> QED
    BY <1>4, <1>5, <1>6, <1>7 DEF RowInv

(* What a call, a link or an open transaction names is never taken for     *)
(* another row, whatever is deleted and created meanwhile.                 *)
THEOREM RowsKeepTheirNames == Spec => []RowInv
  BY TypeCorrect, InitRowInv, NextRowInv, PTL DEF Spec
=============================================================================
