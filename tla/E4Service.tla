----------------------------- MODULE E4Service ------------------------------
(***************************************************************************)
(* The E4 service (internal/services/e4.go): the handlers behind the C2    *)
(* API that register clients and topics, link them, and push keys to the   *)
(* devices.  Every API call runs its handler in a goroutine of its own;    *)
(* handlers share nothing but the database and the broker, and take no     *)
(* lock, so they interleave at every database statement and publication.   *)
(*                                                                         *)
(* A handler is a program, the tuple of the statements it executes in      *)
(* order; each statement is an action, and an error ends the call.         *)
(*                                                                         *)
(* Keys are numbers, never reused.  What a command does to a device is     *)
(* that of the e4 client library, as far as the server relies on it.       *)
(***************************************************************************)
EXTENDS Database, Sequences

CONSTANTS
    Workers,     \* goroutines serving API calls
    Ops,         \* the API calls of the instance
    MaxCalls,    \* bound: API calls and restarts in a behaviour
    BatchSize,   \* NewTopicBatchSize, GetLinkedClientsBatchSize (500 in the code)
    Outcomes,    \* outcomes of a broker request: "ok", "fail", "late"
    DBFaults,    \* TRUE: a database statement may fail
    Restarts,    \* TRUE: the server may crash and start again
    PubKeyMode,  \* TRUE: public-key mode
    SendPubkeys, \* TRUE: public-key mode with cfg.NewClientKeySendPubkey
    Populated    \* TRUE: start with every client and topic created and linked

ClientOps      == {"NewClient", "RemoveClient", "ResetClient", "NewClientKey", "ResetClientPubKeys"}
TopicOps       == {"NewTopic", "RemoveTopic"}
ClientTopicOps == {"NewTopicClient", "RemoveTopicClient"}
PeerOps        == {"LinkClient", "UnlinkClient", "SendClientPubKey", "RemoveClientPubKey"}
PubKeyOps      == {"SendClientPubKey", "RemoveClientPubKey", "ResetClientPubKeys"}
AllOps         == ClientOps \cup TopicOps \cup ClientTopicOps \cup PeerOps

ASSUME OpsAssumption       == Ops \subseteq AllOps
ASSUME MaxCallsAssumption  == MaxCalls \in Nat
ASSUME BatchSizeAssumption == BatchSize \in Nat \ {0}
ASSUME OutcomesAssumption  == Outcomes \subseteq {"ok", "fail", "late"}
ASSUME FlagsAssumption     == /\ {DBFaults, Restarts, PubKeyMode, SendPubkeys, Populated} \subseteq BOOLEAN
                              /\ SendPubkeys => PubKeyMode
                              /\ PubKeyOps \cap Ops # {} => PubKeyMode

VARIABLES
    rpc,      \* rpc[w]: the call worker w serves
    dev,      \* dev[c]: what device c holds
    inflight, \* messages whose publication timed out and that may still arrive
    subs,     \* topics the monitor is subscribed to
    flaggedClients, flaggedTopics,  \* subjects of a call that reported or logged an error
                                    \* after it had an effect
    trail,    \* what has been accepted by the broker, committed and announced so far,
              \* and which calls were told 0 by a count that failed
    calls     \* API calls made, for the bound and the fresh keys

vars == <<clients, topics, ctopics, cclients, nextId, rpc, dev, inflight, subs,
          flaggedClients, flaggedTopics, trail, calls>>

-----------------------------------------------------------------------------
(* Handlers.                                                               *)

Statements(op) ==
    CASE op = "NewClient"          -> <<"FindClient", "WriteClient">>
      [] op = "RemoveClient"       -> <<"GetClient", "DeleteClient">>
      [] op = "ResetClient"        -> <<"GetClient", "Publish">>
      [] op = "NewClientKey"       -> IF SendPubkeys
                                      THEN <<"GetClient", "Publish", "FindClient", "WriteClient",
                                             "CountLinked", "SendToAll">>
                                      ELSE <<"GetClient", "Publish", "FindClient", "WriteClient">>
      [] op = "ResetClientPubKeys" -> <<"GetClient", "Publish">>
      [] op = "NewTopic"           -> <<"FindTopic", "WriteTopic", "CountClients", "CommitTx",
                                        "SendToAll", "SubscribeToTopic">>
      [] op = "RemoveTopic"        -> <<"UnsubscribeFromTopic", "GetTopic", "DeleteTopic">>
      [] op = "NewTopicClient"     -> <<"GetClient", "GetTopic", "Publish", "LinkClientTopic", "Dispatch">>
      [] op = "RemoveTopicClient"  -> <<"GetClient", "GetTopic", "Publish", "UnlinkClientTopic", "Dispatch">>
      [] op = "LinkClient"         -> <<"GetClient", "GetPeer", "LinkClients">>
      [] op = "UnlinkClient"       -> <<"GetClient", "GetPeer", "UnlinkClients">>
      [] op = "SendClientPubKey"   -> <<"GetClient", "GetPeer", "Publish">>
      [] op = "RemoveClientPubKey" -> <<"GetClient", "GetPeer", "Publish">>

(* Orders the handlers do not have, each with one statement moved or       *)
(* missing; no specification below uses them.                              *)
Program_SaveFirst(op) ==
    IF op = "NewTopicClient"
    THEN <<"GetClient", "GetTopic", "LinkClientTopic", "Publish", "Dispatch">> ELSE Statements(op)
Program_AnnounceFirst(op) ==
    IF op = "NewTopicClient"
    THEN <<"GetClient", "GetTopic", "Publish", "Dispatch", "LinkClientTopic">> ELSE Statements(op)
Program_StoreFirst(op) ==
    IF op = "NewClientKey"
    THEN <<"GetClient", "FindClient", "WriteClient", "Publish">> ELSE Statements(op)
Program_SendFirst(op) ==
    IF op = "NewTopic"
    THEN <<"FindTopic", "WriteTopic", "CountClients", "SendToAll", "CommitTx", "SubscribeToTopic">>
    ELSE Statements(op)
Program_UnsubscribeLast(op) ==
    IF op = "RemoveTopic" THEN <<"GetTopic", "DeleteTopic", "UnsubscribeFromTopic">> ELSE Statements(op)
Program_NoUnsubscribe(op) ==
    IF op = "RemoveTopic" THEN <<"GetTopic", "DeleteTopic">> ELSE Statements(op)

(* The statements of each handler, in order.                               *)
Program(op) == Statements(op)

(* c, d, t: the arguments (c the source and d the target of a pair); key:  *)
(* the key given or drawn; client, peer, topic: the rows read; row: the    *)
(* row InsertClient or InsertTopicKey found; count, offset, todo: the      *)
(* paging of SendToAll.                                                    *)
Idle == [op |-> "none", pc |-> 0, c |-> 0, d |-> 0, t |-> 0, key |-> 0,
         client |-> NoRow, peer |-> NoRow, topic |-> NoRow, row |-> NoRow,
         count |-> 0, offset |-> 0, todo |-> {}]

At(w, step) == rpc[w].op # "none" /\ Program(rpc[w].op)[rpc[w].pc] = step
AllIdle == \A w \in Workers : rpc[w] = Idle

(* The call's next statement, or its return.                               *)
Advance(r) == IF r.pc = Len(Program(r.op)) THEN Idle ELSE [r EXCEPT !.pc = @ + 1]

(* An error ends the call; its subjects are flagged when a device or the   *)
(* broker has already seen part of it.                                     *)
Touched(r) == \E i \in 1..(r.pc - 1) : Program(r.op)[i] \in {"Publish", "UnsubscribeFromTopic", "CommitTx"}
Fail_KeepsState(w) ==
    /\ rpc' = [rpc EXCEPT ![w].op = "none"]
    /\ UNCHANGED <<flaggedClients, flaggedTopics>>
Fail(w) ==
    /\ rpc' = [rpc EXCEPT ![w] = Idle]
    /\ flaggedClients' = flaggedClients \cup (IF Touched(rpc[w]) THEN {rpc[w].c} \ {0} ELSE {})
    /\ flaggedTopics' = flaggedTopics \cup (IF Touched(rpc[w]) THEN {rpc[w].t} \ {0} ELSE {})

Return(w, r) ==
    /\ rpc' = [rpc EXCEPT ![w] = Advance(r)]
    /\ UNCHANGED <<flaggedClients, flaggedTopics>>

Arguments(op) ==
    IF      op \in ClientOps      THEN [c : Names, d : {0}, t : {0}]
    ELSE IF op \in TopicOps       THEN [c : {0}, d : {0}, t : Topics]
    ELSE IF op \in ClientTopicOps THEN [c : Names, d : {0}, t : Topics]
    ELSE                               [c : Names, d : Names, t : {0}]

(* A key no one has: devices leave the factory with their name's number.   *)
FreshKey == NumClients + NumTopics + 1 + calls
CallKey(op, c) == IF op = "NewClient" THEN dev[c].key
                  ELSE IF op \in {"NewClientKey", "NewTopic"} THEN FreshKey ELSE 0

Call(w) ==
    /\ calls < MaxCalls
    /\ rpc[w] = Idle
    /\ \E op \in Ops : \E a \in Arguments(op) :
         rpc' = [rpc EXCEPT ![w] = [Idle EXCEPT !.op = op, !.pc = 1, !.c = a.c, !.d = a.d, !.t = a.t,
                                                !.key = CallKey(op, a.c)]]
    /\ calls' = calls + 1
    /\ UNCHANGED <<dbVars, dev, inflight, subs, flaggedClients, flaggedTopics, trail>>

-----------------------------------------------------------------------------
(* Commands, messages and devices.                                         *)

Cmd(type, name, key) == [type |-> type, name |-> name, key |-> key]

(* The command a handler publishes to one device, and to whom: the pair    *)
(* operations send the source's key to the target.                         *)
Command(r) ==
    CASE r.op = "NewTopicClient"     -> Cmd("SetTopicKey", r.t, r.topic.key)
      [] r.op = "RemoveTopicClient"  -> Cmd("RemoveTopic", r.t, 0)
      [] r.op = "ResetClient"        -> Cmd("ResetTopics", 0, 0)
      [] r.op = "NewClientKey"       -> Cmd("SetIDKey", 0, r.key)
      [] r.op = "SendClientPubKey"   -> Cmd("SetPubKey", r.c, r.client.key)
      [] r.op = "RemoveClientPubKey" -> Cmd("RemovePubKey", r.c, 0)
      [] r.op = "ResetClientPubKeys" -> Cmd("ResetPubKeys", 0, 0)

Recipient(r) == IF r.op \in PeerOps THEN [name |-> r.d, row |-> r.peer]
                                    ELSE [name |-> r.c, row |-> r.client]

(* The command a handler sends to a page of clients after another.         *)
Broadcast_OldKey(r) == IF r.op = "NewTopic" THEN Cmd("SetTopicKey", r.t, r.key)
                                            ELSE Cmd("SetPubKey", r.c, r.client.key)
Broadcast(r) == IF r.op = "NewTopic" THEN Cmd("SetTopicKey", r.t, r.key)
                                     ELSE Cmd("SetPubKey", r.c, r.key)

Audience(r) == IF r.op = "NewTopic" THEN ClientsForTopic(r.t) ELSE LinkedClients(clients[r.c])

(* sendCommandToClient protects the command for the key of the row it was  *)
(* given; a device that holds another key cannot open it.                  *)
Message(cmd, to) == [to |-> to.name, under |-> to.row.key, cmd |-> cmd]

Apply(d, cmd) ==
    CASE cmd.type = "SetIDKey"     -> [d EXCEPT !.key = cmd.key]
      [] cmd.type = "SetTopicKey"  -> [d EXCEPT !.topics[cmd.name] = cmd.key]
      [] cmd.type = "RemoveTopic"  -> [d EXCEPT !.topics[cmd.name] = 0]
      [] cmd.type = "ResetTopics"  -> [d EXCEPT !.topics = [t \in Topics |-> 0]]
      [] cmd.type = "SetPubKey"    -> [d EXCEPT !.pubs[cmd.name] = cmd.key]
      [] cmd.type = "RemovePubKey" -> [d EXCEPT !.pubs[cmd.name] = 0]
      [] cmd.type = "ResetPubKeys" -> [d EXCEPT !.pubs = [c \in Names |-> 0]]

Received(m) == IF dev[m.to].key = m.under THEN [dev EXCEPT ![m.to] = Apply(@, m.cmd)] ELSE dev

(* Publish waits for the broker.  "ok": acknowledged, the device has it;   *)
(* "fail": refused; "late": the wait timed out, the message may still      *)
(* arrive, at any later time.                                              *)
Transmit(m, outcome) ==
    /\ dev' = IF outcome = "ok" THEN Received(m) ELSE dev
    /\ inflight' = IF outcome = "late" THEN inflight \cup {m} ELSE inflight

Record(facts) == trail' = trail \cup facts

-----------------------------------------------------------------------------
(* Lookups.  What is not found ends the call with ErrClientNotFound or     *)
(* ErrTopicNotFound.                                                       *)

Lookup(w, step, field, row) ==
    /\ At(w, step)
    /\ rpc' = [rpc EXCEPT ![w] = IF NewRecord(row) THEN Idle
                                 ELSE Advance([rpc[w] EXCEPT ![field] = row])]
    /\ UNCHANGED <<flaggedClients, flaggedTopics>>
    /\ UNCHANGED <<dbVars, dev, inflight, subs, trail, calls>>

GetClient(w) == Lookup(w, "GetClient", "client", clients[rpc[w].c])
GetPeer(w)   == Lookup(w, "GetPeer", "peer", clients[rpc[w].d])
GetTopic(w)  == Lookup(w, "GetTopic", "topic", topics[rpc[w].t])

(* Where the code drops the error of a statement, TRUE is the statement    *)
(* that fails and lets the call go on.  In a transaction of postgres the   *)
(* failure spoils what follows, commit included: that is DBFault.          *)
Unnoticed(inTx) == IF DBFaults /\ ~(inTx /\ Postgres) THEN BOOLEAN ELSE {FALSE}

(* InsertClient and InsertTopicKey ignore the error of their lookup: a     *)
(* failing one looks like a row that does not exist.                       *)
Find(w, step, row, failures) ==
    /\ At(w, step)
    /\ \E failed \in failures : Return(w, [rpc[w] EXCEPT !.row = IF failed THEN NoRow ELSE row])
    /\ UNCHANGED <<dbVars, dev, inflight, subs, trail, calls>>

FindClient(w) == Find(w, "FindClient", clients[rpc[w].c], Unnoticed(FALSE))
FindTopic(w)  == Find(w, "FindTopic", topics[rpc[w].t], Unnoticed(TRUE))

-----------------------------------------------------------------------------
(* Clients.                                                                *)

(* The second half of InsertClient; the unique index refuses a Create.     *)
WriteClient(w) ==
    LET r == rpc[w] IN
    /\ At(w, "WriteClient")
    /\ IF NewRecord(r.row) /\ ~NewRecord(clients[r.c])
       THEN Fail(w) /\ UNCHANGED <<dbVars, trail>>
       ELSE /\ IF NewRecord(r.row) THEN CreateClient(r.c, r.key) ELSE UpdateClient(r.row, r.key)
            /\ Return(w, r)
            /\ Record(IF r.op = "NewClient" THEN {<<"registered", r.c, r.key>>} ELSE {})
    /\ UNCHANGED <<dev, inflight, subs, calls>>

DeleteClient(w) ==
    /\ At(w, "DeleteClient")
    /\ DeleteClientRow(rpc[w].client)
    /\ Return(w, rpc[w])
    /\ UNCHANGED <<dev, inflight, subs, trail, calls>>

(* sendCommandToClient, for the handlers with one recipient.               *)
Accepted(r) ==
    IF      r.op = "NewTopicClient" THEN {<<"SetTopicKey", r.client.id, r.topic.id>>}
    ELSE IF r.op = "NewClientKey"   THEN {<<"SetIDKey", r.c, r.key>>}
    ELSE                                 {}

Publish(w) ==
    LET r == rpc[w] IN
    /\ At(w, "Publish")
    /\ \E outcome \in Outcomes :
         /\ Transmit(Message(Command(r), Recipient(r)), outcome)
         /\ IF outcome = "ok"
            THEN Return(w, r) /\ Record(Accepted(r))
            ELSE /\ rpc' = [rpc EXCEPT ![w] = Idle]
                 /\ flaggedClients' = flaggedClients \cup
                                        (IF outcome = "late" THEN {Recipient(r).name} ELSE {})
                 /\ UNCHANGED <<flaggedTopics, trail>>
    /\ UNCHANGED <<dbVars, subs, calls>>

LinkClients(w) ==
    LET r == rpc[w] IN
    /\ At(w, "LinkClients")
    /\ IF CanLinkClients(r.client, r.peer)
       THEN LinkClientRow(r.client, r.peer) /\ Return(w, r)
       ELSE UNCHANGED dbVars /\ Fail(w)
    /\ UNCHANGED <<dev, inflight, subs, trail, calls>>

UnlinkClients(w) ==
    /\ At(w, "UnlinkClients")
    /\ UnlinkClientRow(rpc[w].client, rpc[w].peer)
    /\ Return(w, rpc[w])
    /\ UNCHANGED <<dev, inflight, subs, trail, calls>>

-----------------------------------------------------------------------------
(* Clients of topics.                                                      *)

LinkClientTopic(w) ==
    LET r == rpc[w] IN
    /\ At(w, "LinkClientTopic")
    /\ IF CanLinkTopic(r.client)
       THEN /\ LinkTopicRow(r.client, r.topic)
            /\ Return(w, r)
            /\ Record({<<"linked", r.client.id, r.topic.id>>})
       ELSE Fail(w) /\ UNCHANGED <<dbVars, trail>>
    /\ UNCHANGED <<dev, inflight, subs, calls>>

(* Deletes the join row, then rolls back if the client or the topic has    *)
(* been deleted; only the lookup of the topic has its error returned.      *)
UnlinkClientTopic(w) ==
    LET r == rpc[w] IN
    /\ At(w, "UnlinkClientTopic")
    /\ \E failed \in Unnoticed(TRUE) :
         IF (failed \/ ClientExists(r.client.id)) /\ TopicExists(r.topic.id)
         THEN /\ UnlinkTopicRow(r.client, r.topic)
              /\ Return(w, r)
              /\ Record({<<"unlinked", r.client.id, r.topic.id>>})
         ELSE Fail(w) /\ UNCHANGED <<dbVars, trail>>
    /\ UNCHANGED <<dev, inflight, subs, calls>>

(* The event the listeners of the API are sent once the link is changed.   *)
Dispatch(w) ==
    LET r == rpc[w]
        type == IF r.op = "NewTopicClient" THEN "subscribed" ELSE "unsubscribed"
    IN  /\ At(w, "Dispatch")
        /\ Record({<<type, r.client.id, r.topic.id>>})
        /\ Return(w, r)
        /\ UNCHANGED <<dbVars, dev, inflight, subs, calls>>

-----------------------------------------------------------------------------
(* Topics.  NewTopic writes the key in a transaction: others see it once   *)
(* it commits, and those who would write the same row wait until then.     *)

TopicLocked(w, t) ==
    \E v \in Workers \ {w} :
        /\ rpc[v].t = t
        /\ At(v, "CountClients") \/ At(v, "CommitTx")
        /\ ~NewRecord(rpc[v].topic)

(* The second half of InsertTopicKey.  The row it leaves in the            *)
(* transaction is kept in topic; none when the row found is gone.          *)
WriteTopic(w) ==
    LET r == rpc[w]
        row == IF NewRecord(r.row) THEN [id |-> NewTopicId, key |-> r.key]
               ELSE IF r.row.id = topics[r.t].id THEN [id |-> r.row.id, key |-> r.key]
               ELSE NoRow
    IN  /\ At(w, "WriteTopic")
        /\ ~TopicLocked(w, r.t)
        /\ IF NewRecord(r.row) /\ ~NewRecord(topics[r.t])
           THEN Fail(w)
           ELSE Return(w, [r EXCEPT !.topic = row])
        /\ nextId' = IF NewRecord(r.row) THEN nextId + 1 ELSE nextId
        /\ UNCHANGED <<clients, topics, ctopics, cclients, dev, inflight, subs, trail, calls>>

(* CountClientsForTopic and CountLinkedClients find the topic, or the      *)
(* client, by name, then count what is associated with it; they return     *)
(* the error of the first query only, a second one that fails counts 0.    *)
Uncounted(name, key) == <<"uncounted", name, key>> \in trail

Counted(w, name, audience, failures) ==
    \E failed \in failures :
        /\ Return(w, [rpc[w] EXCEPT !.count = IF failed THEN 0 ELSE Cardinality(audience)])
        /\ Record(IF failed THEN {<<"uncounted", name, rpc[w].key>>} ELSE {})

CountClients(w) ==
    LET r == rpc[w]
        id == IF NewRecord(r.topic) THEN topics[r.t].id ELSE r.topic.id
    IN  /\ At(w, "CountClients")
        /\ IF id = 0 THEN Fail(w) /\ UNCHANGED trail
           ELSE Counted(w, r.t, {c \in Names : ~NewRecord(clients[c]) /\ <<clients[c].id, id>> \in ctopics},
                        Unnoticed(TRUE))
        /\ UNCHANGED <<dbVars, dev, inflight, subs, calls>>

CommitTx(w) ==
    LET r == rpc[w] IN
    /\ At(w, "CommitTx")
    /\ topics' = IF NewRecord(r.topic) THEN topics ELSE [topics EXCEPT ![r.t] = r.topic]
    /\ Record(IF NewRecord(r.topic) THEN {} ELSE {<<"committed", r.t, r.key>>})
    /\ Return(w, r)
    /\ UNCHANGED <<clients, ctopics, cclients, nextId, dev, inflight, subs, calls>>

(* A subscription that times out may still take effect.                    *)
SubscribeToTopic(w) ==
    /\ At(w, "SubscribeToTopic")
    /\ \E outcome \in Outcomes :
         /\ subs' = IF outcome = "fail" THEN subs ELSE subs \cup {rpc[w].t}
         /\ IF outcome = "ok" THEN Return(w, rpc[w]) ELSE Fail(w)
    /\ UNCHANGED <<dbVars, dev, inflight, trail, calls>>

(* RemoveTopic only logs a failure to unsubscribe.                         *)
UnsubscribeFromTopic(w) ==
    /\ At(w, "UnsubscribeFromTopic")
    /\ \E outcome \in Outcomes :
         /\ subs' = IF outcome = "fail" THEN subs ELSE subs \ {rpc[w].t}
         /\ flaggedTopics' = IF outcome = "ok" THEN flaggedTopics ELSE flaggedTopics \cup {rpc[w].t}
    /\ rpc' = [rpc EXCEPT ![w] = Advance(rpc[w])]
    /\ UNCHANGED <<dbVars, dev, inflight, flaggedClients, trail, calls>>

DeleteTopic(w) ==
    /\ At(w, "DeleteTopic")
    /\ ~TopicLocked(w, rpc[w].t)
    /\ DeleteTopicRow(rpc[w].topic)
    /\ Return(w, rpc[w])
    /\ UNCHANGED <<dev, inflight, subs, trail, calls>>

-----------------------------------------------------------------------------
(* Sending to many: sendCommandToTopicClients for NewTopic, after the      *)
(* count taken in its transaction; sendNewPubKeyToLinkedClients for        *)
(* NewClientKey.  Failures are logged and skipped.                         *)

CountLinked(w) ==
    LET r == rpc[w] IN
    /\ At(w, "CountLinked")
    /\ IF NewRecord(clients[r.c]) THEN Fail(w) /\ UNCHANGED trail
       ELSE Counted(w, r.c, LinkedClients(clients[r.c]), Unnoticed(FALSE))
    /\ UNCHANGED <<dbVars, dev, inflight, subs, calls>>

MorePages_NoLast(r) == r.offset + BatchSize < r.count
MorePages(r) == r.offset < r.count

(* A page that cannot be read is skipped.                                  *)
NextPage_Retry(r) == IF NewRecord(topics[r.t]) THEN r ELSE [r EXCEPT !.offset = @ + BatchSize]
NextPage(r) == [r EXCEPT !.offset = @ + BatchSize]

ReadPage(w) ==
    LET r == rpc[w]
        gone == IF r.op = "NewTopic" THEN NewRecord(topics[r.t]) ELSE NewRecord(clients[r.c])
        skip == /\ rpc' = [rpc EXCEPT ![w] = NextPage(r)]
                /\ flaggedClients' = flaggedClients \cup ({r.c} \ {0})
                /\ flaggedTopics' = flaggedTopics \cup ({r.t} \ {0})
        read == /\ rpc' = [rpc EXCEPT ![w] = [NextPage(r) EXCEPT !.todo =
                       {[name |-> c, row |-> clients[c]] : c \in Page(Audience(r), r.offset, BatchSize)}]]
                /\ UNCHANGED <<flaggedClients, flaggedTopics>>
    IN  /\ At(w, "SendToAll")
        /\ r.todo = {} /\ MorePages(r)
        /\ \/ ~gone /\ read
           \/ (gone \/ DBFaults) /\ skip
        /\ UNCHANGED <<dbVars, dev, inflight, subs, trail, calls>>

SendToNext(w) ==
    LET r == rpc[w]
        to == CHOOSE x \in r.todo : \A y \in r.todo : x.name <= y.name
    IN  /\ At(w, "SendToAll")
        /\ r.todo # {}
        /\ \E outcome \in Outcomes :
             /\ Transmit(Message(Broadcast(r), to), outcome)
             /\ flaggedClients' = IF outcome = "ok" THEN flaggedClients ELSE flaggedClients \cup {to.name}
        /\ rpc' = [rpc EXCEPT ![w].todo = @ \ {to}]
        /\ UNCHANGED <<dbVars, subs, flaggedTopics, trail, calls>>

EndOfPages(w) ==
    /\ At(w, "SendToAll")
    /\ rpc[w].todo = {} /\ ~MorePages(rpc[w])
    /\ Return(w, rpc[w])
    /\ UNCHANGED <<dbVars, dev, inflight, subs, trail, calls>>

-----------------------------------------------------------------------------
(* The environment.                                                        *)

DBSteps == {"GetClient", "GetPeer", "GetTopic", "WriteClient", "DeleteClient", "LinkClients",
            "UnlinkClients", "LinkClientTopic", "UnlinkClientTopic", "WriteTopic", "CountClients",
            "CommitTx", "DeleteTopic", "CountLinked"}

(* A statement fails and says so: nothing is written, the handler returns  *)
(* ErrInternal.  (Of a count it is the query that finds what to count.     *)
(* UnlinkClientTopic leaves its transaction open when it is the lookup of  *)
(* the topic that fails; the row it has deleted stays.)                    *)
DBFault(w) ==
    /\ DBFaults
    /\ \E step \in DBSteps : At(w, step)
    /\ Fail(w)
    /\ UNCHANGED <<dbVars, dev, inflight, subs, trail, calls>>

(* A late message arrives, or never will.                                  *)
Arrive == \E m \in inflight :
    /\ dev' \in {Received(m), dev}
    /\ inflight' = inflight \ {m}
    /\ UNCHANGED <<dbVars, rpc, subs, flaggedClients, flaggedTopics, trail, calls>>

(* The server dies and starts again: calls and open transactions are lost, *)
(* the monitor subscribes to every topic of the database.                  *)
Restart ==
    /\ Restarts /\ calls < MaxCalls
    /\ rpc' = [w \in Workers |-> Idle]
    /\ subs' = {t \in Topics : ~NewRecord(topics[t])}
    /\ flaggedClients' = flaggedClients \cup ({rpc[w].c : w \in Workers} \ {0})
    /\ flaggedTopics' = flaggedTopics \cup ({rpc[w].t : w \in Workers} \ {0})
    /\ calls' = calls + 1
    /\ UNCHANGED <<dbVars, dev, inflight, trail>>

(* The instance has made its calls and they have returned.                 *)
Finished == calls = MaxCalls /\ AllIdle /\ inflight = {} /\ UNCHANGED vars

-----------------------------------------------------------------------------
Handle(w) ==
    \/ GetClient(w) \/ GetPeer(w) \/ GetTopic(w) \/ FindClient(w) \/ FindTopic(w)
    \/ WriteClient(w) \/ DeleteClient(w) \/ Publish(w) \/ LinkClients(w) \/ UnlinkClients(w)
    \/ LinkClientTopic(w) \/ UnlinkClientTopic(w) \/ Dispatch(w)
    \/ WriteTopic(w) \/ CountClients(w) \/ CommitTx(w) \/ SubscribeToTopic(w)
    \/ UnsubscribeFromTopic(w) \/ DeleteTopic(w)
    \/ CountLinked(w) \/ ReadPage(w) \/ SendToNext(w) \/ EndOfPages(w)
    \/ DBFault(w)

(* Factory keys are 1..NumClients, then the keys of the topics created.    *)
FactoryKey == [c \in Names |-> c]
FirstTopicKey == [t \in Topics |-> NumClients + t]

Init ==
    /\ DBInit(Populated, FactoryKey, FirstTopicKey)
    /\ rpc = [w \in Workers |-> Idle]
    /\ dev = [c \in Names |-> [key |-> FactoryKey[c],
                               topics |-> [t \in Topics |-> IF Populated THEN FirstTopicKey[t] ELSE 0],
                               pubs |-> [p \in Names |-> IF Populated /\ PubKeyMode /\ p # c
                                                         THEN FactoryKey[p] ELSE 0]]]
    /\ inflight = {}
    /\ subs = IF Populated THEN Topics ELSE {}
    /\ flaggedClients = {}
    /\ flaggedTopics = {}
    /\ trail = IF Populated
               THEN {<<"registered", c, FactoryKey[c]>> : c \in Names}
                    \cup {<<"committed", t, FirstTopicKey[t]>> : t \in Topics}
                    \cup ({"SetTopicKey", "linked", "subscribed"} \X Names \X Topics)
               ELSE {}
    /\ calls = 0

Next == (\E w \in Workers : Call(w) \/ Handle(w)) \/ Arrive \/ Restart \/ Finished

Spec == Init /\ [][Next]_vars

(* Every call is served by a goroutine the runtime schedules, and each of  *)
(* its statements and publications answers, in the affirmative or with an  *)
(* error (Publish after waitTimeout at the latest).                        *)
FairSpec == Spec /\ \A w \in Workers : WF_vars(Handle(w))

(* Nothing in the service keeps calls apart; its operators may.  While a   *)
(* topic is given a new key no other call is about that topic, while a     *)
(* client is given one no other call is about that client, and while keys  *)
(* are sent to many none of those many is removed, given a new key, or, if *)
(* they are public keys, told to forget them.  Other calls overlap freely. *)
Broadcasts(r) == r.op = "NewTopic" \/ (r.op = "NewClientKey" /\ SendPubkeys)

InTheWay(r, s) ==
    \/ r.op = "NewTopic" /\ s.t = r.t
    \/ r.op = "NewClientKey" /\ r.c \in {s.c, s.d}
    \/ /\ Broadcasts(r) /\ s.c \in Audience(r)
       /\ \/ s.op \in {"RemoveClient", "NewClientKey"}
          \/ s.op = "ResetClientPubKeys" /\ r.op = "NewClientKey"

Apart == \A v, w \in Workers : v # w => ~InTheWay(rpc[v], rpc[w])

ApartSpec == Init /\ [][Next /\ Apart']_vars

-----------------------------------------------------------------------------
(* Properties.                                                             *)

Commands == [type : {"SetIDKey", "SetTopicKey", "RemoveTopic", "ResetTopics",
                     "SetPubKey", "RemovePubKey", "ResetPubKeys"}, name : Nat, key : Nat]
Messages == [to : Names, under : Nat, cmd : Commands]
Devices  == [key : Nat, topics : [Topics -> Nat], pubs : [Names -> Nat]]
Calls == [op : AllOps, pc : Nat \ {0}, c : Names \cup {0}, d : Names \cup {0},
          t : Topics \cup {0}, key : Nat, client : Row, peer : Row, topic : Row, row : Row,
          count : Nat, offset : Nat, todo : SUBSET [name : Names, row : Row]]
Facts == {"registered", "committed", "SetIDKey", "SetTopicKey", "linked", "unlinked",
          "subscribed", "unsubscribed", "uncounted"} \X Nat \X Nat

(* A call at one of the statements of its handler, on arguments it takes.  *)
ActiveCalls == {r \in Calls : /\ r.pc <= Len(Program(r.op))
                              /\ [c |-> r.c, d |-> r.d, t |-> r.t] \in Arguments(r.op)}

(* Type invariant: tables, calls, devices and messages keep their shape,   *)
(* and a worker is idle or at a statement of the handler it runs.          *)
TypeOK ==
    /\ DBTypeOK
    /\ rpc \in [Workers -> {Idle} \cup ActiveCalls]
    /\ dev \in [Names -> Devices]
    /\ inflight \subseteq Messages
    /\ subs \subseteq Topics
    /\ flaggedClients \subseteq Names
    /\ flaggedTopics \subseteq Topics
    /\ trail \subseteq Facts
    /\ calls \in Nat

(* Whatever the interleaving, crash or failure, the database links a       *)
(* client row to a topic row only after the broker has accepted the        *)
(* SetTopicKey command of that pair (NewTopicClient sends, then saves).    *)
LinkedClientsWereNotified ==
    \A l \in ctopics : <<"SetTopicKey", l[1], l[2]>> \in trail

(* Listeners are told of a (un)subscription only once the link of that     *)
(* very client row and topic row has been saved (removed).                 *)
EventsFollowLinks ==
    \A f \in trail :
        /\ f[1] = "subscribed"   => <<"linked", f[2], f[3]>> \in trail
        /\ f[1] = "unsubscribed" => <<"unlinked", f[2], f[3]>> \in trail

(* The inductive form of the two properties on the clients of topics: what *)
(* a call that has passed a statement can rely on.  By the time the link   *)
(* is saved the command has been accepted; by the time the event is        *)
(* dispatched the link has been saved or removed.                          *)
LinkStep(r) ==
    /\ r.op = "NewTopicClient" /\ r.pc >= 4 => <<"SetTopicKey", r.client.id, r.topic.id>> \in trail
    /\ r.op = "NewTopicClient" /\ r.pc >= 5 => <<"linked", r.client.id, r.topic.id>> \in trail
    /\ r.op = "RemoveTopicClient" /\ r.pc >= 5 => <<"unlinked", r.client.id, r.topic.id>> \in trail
LinkInv ==
    /\ LinkedClientsWereNotified
    /\ EventsFollowLinks
    /\ \A w \in Workers : LinkStep(rpc[w])

(* A primary key names one row of its table, and the next is new to both.  *)
UniqueIds ==
    /\ \A c \in Names : clients[c].id < nextId
    /\ \A t \in Topics : topics[t].id < nextId
    /\ \A c, d \in Names : clients[c].id = clients[d].id => c = d \/ NewRecord(clients[c])
    /\ \A s, t \in Topics : topics[s].id = topics[t].id => s = t \/ NewRecord(topics[s])

(* A join row was made of rows that had a primary key.                     *)
LinkIds ==
    /\ \A l \in ctopics : l[1] \in 1..(nextId - 1) /\ l[2] \in 1..(nextId - 1)
    /\ \A l \in cclients : l[1] \in 1..(nextId - 1) /\ l[2] \in 1..(nextId - 1)

(* The rows a call holds: whatever has happened to them since they were    *)
(* read, no row of another name has taken their primary key.               *)
HeldRows(r) ==
    /\ r.client.id < nextId /\ r.peer.id < nextId /\ r.topic.id < nextId /\ r.row.id < nextId
    /\ \A c \in Names : ~NewRecord(clients[c]) =>
           /\ clients[c].id = r.client.id => c = r.c
           /\ clients[c].id = r.peer.id => c = r.d
           /\ r.op \in ClientOps /\ clients[c].id = r.row.id => c = r.c
    /\ \A t \in Topics : ~NewRecord(topics[t]) => (topics[t].id = r.topic.id => t = r.t)

(* The rows its lookups have found, by the statement it is at.             *)
RowsFound(r) ==
    /\ r.op \in ClientTopicOps \cup PeerOps /\ r.pc >= 2 => ~NewRecord(r.client)
    /\ r.op \in ClientTopicOps /\ r.pc >= 3 => ~NewRecord(r.topic)
    /\ r.op \in PeerOps /\ r.pc >= 3 => ~NewRecord(r.peer)

(* A NewTopic whose transaction is open is alone on its topic; the row it  *)
(* has written is the committed one, or one that nobody else has seen.     *)
InTx(r) == r.op = "NewTopic" /\ r.pc \in {3, 4} /\ ~NewRecord(r.topic)

Unseen(w) ==
    /\ \A l \in ctopics : l[2] # rpc[w].topic.id
    /\ \A t \in Topics : topics[t].id # rpc[w].topic.id
    /\ \A v \in Workers \ {w} : rpc[v].topic.id # rpc[w].topic.id

TxAlone(w) ==
    /\ \A v \in Workers \ {w} : ~(InTx(rpc[v]) /\ rpc[v].t = rpc[w].t)
    /\ \/ topics[rpc[w].t].id = rpc[w].topic.id
       \/ NewRecord(topics[rpc[w].t]) /\ Unseen(w)

TxInv == \A w \in Workers : InTx(rpc[w]) => TxAlone(w)

(* Rows are removed and created again while calls hold the old ones, and   *)
(* statements go by the primary keys of the rows held: no call, link or    *)
(* open transaction ever takes another row for the one it means.           *)
RowInv ==
    /\ UniqueIds
    /\ LinkIds
    /\ \A w \in Workers : HeldRows(rpc[w]) /\ RowsFound(rpc[w])
    /\ TxInv

(* The key the database holds for a client is one the client has been      *)
(* given: the one it was registered with, or one NewClientKey had accepted *)
(* by the broker before it was stored.                                     *)
StoredKeyWasHandedOver ==
    \A c \in Names : ~NewRecord(clients[c]) =>
        \E how \in {"registered", "SetIDKey"} : <<how, c, clients[c].key>> \in trail

(* When calls are kept apart: no device holds, or may still receive, a     *)
(* topic key that the database never committed: a NewTopic that is rolled  *)
(* back leaves no trace.                                                   *)
DistributedTopicKeysWereCommitted ==
    /\ \A c \in Names, t \in Topics :
         dev[c].topics[t] # 0 => <<"committed", t, dev[c].topics[t]>> \in trail
    /\ \A m \in inflight : m.cmd.type = "SetTopicKey" => <<"committed", m.cmd.name, m.cmd.key>> \in trail

(* When calls are kept apart: the stored key of a client is the key its    *)
(* device holds, unless a call about it has reported an error after it     *)
(* published. The operator is never left with an unreported lost device.   *)
NoSilentKeyDivergence ==
    AllIdle => \A c \in Names \ flaggedClients :
                   ~NewRecord(clients[c]) => clients[c].key = dev[c].key

(* When calls are kept apart: a client linked to a topic holds the current *)
(* key of the topic or none (ResetClient), never an old one, unless a call *)
(* about either reported or logged an error, or the NewTopic that made     *)
(* this very key counted no clients because its count failed, which        *)
(* nothing reports.                                                        *)
NoSilentStaleTopicKey ==
    AllIdle => \A t \in Topics \ flaggedTopics : \A c \in ClientsForTopic(t) \ flaggedClients :
                   \/ dev[c].topics[t] \in {topics[t].key, 0}
                   \/ Uncounted(t, topics[t].key)

(* When calls are kept apart: the monitor is subscribed to exactly the     *)
(* topics that exist, unless a call about the topic reported an error.     *)
MonitoringMatchesTopics ==
    AllIdle => \A t \in Topics \ flaggedTopics : t \in subs <=> ~NewRecord(topics[t])

(* Even when calls overlap: once they have returned, every topic that      *)
(* exists is monitored, unless a call about it reported an error.          *)
ExistingTopicsAreMonitored ==
    AllIdle => \A t \in Topics \ flaggedTopics : ~NewRecord(topics[t]) => t \in subs

(* On postgres no join row outlives a client it names.                     *)
PostgresKeepsNoClientOrphans ==
    Postgres => /\ \A l \in ctopics : ClientExists(l[1])
                /\ \A l \in cclients : ClientExists(l[1]) /\ ClientExists(l[2])

(* A NewClientKey that is past its publication has had the key accepted.   *)
KeyAccepted(r) == r.op = "NewClientKey" /\ r.pc >= 3 => <<"SetIDKey", r.c, r.key>> \in trail
KeyInv == StoredKeyWasHandedOver /\ \A w \in Workers : KeyAccepted(rpc[w])

(* The call is about to subscribe to the topic, or is the one that is      *)
(* removing it.                                                            *)
Announces(r, t) ==
    /\ r.t = t
    /\ \/ r.op = "NewTopic" /\ r.pc \in {5, 6}
       \/ r.op = "RemoveTopic" /\ r.pc = 2
       \/ r.op = "RemoveTopic" /\ r.pc = 3 /\ r.topic.id = topics[t].id

MonInv ==
    \A t \in Topics \ flaggedTopics : ~NewRecord(topics[t]) =>
        t \in subs \/ \E w \in Workers : Announces(rpc[w], t)

(* All that is proved of overlapping calls rests on these.                 *)
OverlapInv == LinkInv /\ RowInv /\ KeyInv /\ MonInv

(* When calls are kept apart: once NewClientKey has run to its end, every  *)
(* client linked to the one that was rekeyed has its new public key,       *)
(* unless an error was reported or the count of them failed, which nothing *)
(* reports.                                                                *)
RekeyReachesLinkedClients ==
    [][\A w \in Workers : LET r == rpc[w] IN
         (r.op = "NewClientKey" /\ EndOfPages(w) /\ r.c \notin flaggedClients /\ ~Uncounted(r.c, r.key)) =>
            \A p \in LinkedClients(clients[r.c]) \ flaggedClients : dev[p].pubs[r.c] = clients[r.c].key]_vars

(* What Migrate sets out to guarantee with "Add foreign key on topic id":  *)
(* a link names a topic that exists.                                       *)
TopicLinksHaveTopics == \A l \in ctopics : TopicExists(l[2])

(* Every call returns: no handler waits for another for ever, no loop over *)
(* pages of clients is stuck, whatever fails and whatever is removed.      *)
CallsReturn == \A w \in Workers : rpc[w] # Idle ~> rpc[w] = Idle

(* The service keeps the registry of Registry, however its calls overlap.  *)
Abstract == INSTANCE Registry WITH
    registered <- {c \in Names : ~NewRecord(clients[c])},
    existing   <- {t \in Topics : ~NewRecord(topics[t])},
    members    <- {m \in Names \X Topics : m[1] \in ClientsForTopic(m[2])},
    pairs      <- {p \in Names \X Names : ~NewRecord(clients[p[1]]) /\ p[2] \in LinkedClients(clients[p[1]])}

(* Refinement: what a reader of the database sees is a registry whose      *)
(* operations are atomic; in particular no client and no topic starts with *)
(* a link, be it one left by a former row of the same name.                *)
ImplementsRegistry == Abstract!Spec
=============================================================================
