------------------------------ MODULE Database ------------------------------
(***************************************************************************)
(* The relational store of the C2 server: internal/models/database.go and  *)
(* internal/models/models.go, over gorm.                                   *)
(*                                                                         *)
(* Two tables, clients and topic_keys, and two join tables.  A client row  *)
(* is found by its E4 ID, which is the hash of its name: the model keys    *)
(* the table by the name.  A row carries the primary key the database gave *)
(* it, because handlers keep rows in memory and later statements use the   *)
(* primary key of that copy, whatever happened to the row meanwhile.       *)
(*                                                                         *)
(* The operators below are the statements the handlers execute; each is    *)
(* atomic.  Handlers that execute several of them take one step for each.  *)
(***************************************************************************)
EXTENDS Naturals, FiniteSets

CONSTANTS
    NumClients, \* client names of the instance
    NumTopics,  \* topic names of the instance
    Postgres    \* TRUE: postgres, with the foreign keys Migrate adds

ASSUME NumClientsAssumption == NumClients \in Nat \ {0}
ASSUME NumTopicsAssumption  == NumTopics \in Nat
ASSUME PostgresAssumption   == Postgres \in BOOLEAN

(* Names are numbered by their order in ORDER BY name, ORDER BY topic.     *)
Names == 1..NumClients
Topics == 1..NumTopics

VARIABLES
    clients,    \* table clients: the row of each name, NoRow when there is none
    topics,     \* table topic_keys: the row of each topic
    ctopics,    \* table clients_topickeys: <<client_id, topic_key_id>>
    cclients,   \* table clients_clientkeys: <<client_id, clientkey_id>>
    nextId      \* next primary key, of both tables; ids are never reused
                \* (AUTOINCREMENT, serial)

dbVars == <<clients, topics, ctopics, cclients, nextId>>

-----------------------------------------------------------------------------
(* Rows.  A zero primary key is gorm's NewRecord: the struct of a row that *)
(* was not found.                                                          *)

Row == [id : Nat, key : Nat]
NoRow == [id |-> 0, key |-> 0]
NewRecord(row) == row.id = 0

ClientExists(id) == \E c \in Names : clients[c].id = id
TopicExists(id)  == \E t \in Topics : topics[t].id = id

(* Related() and Association().Count() join with the rows of the other     *)
(* table: a join row whose client or topic is gone is not seen.            *)
ClientsForTopic(t) ==
    {c \in Names : ~NewRecord(clients[c]) /\ <<clients[c].id, topics[t].id>> \in ctopics}
LinkedClients(row) ==
    {c \in Names : ~NewRecord(clients[c]) /\ <<row.id, clients[c].id>> \in cclients}

(* ORDER BY name OFFSET offset LIMIT limit                                 *)
Page(S, offset, limit) ==
    {c \in S : LET rank == Cardinality({b \in S : b <= c})
               IN  offset < rank /\ rank <= offset + limit}

-----------------------------------------------------------------------------
(* Statements.                                                             *)

(* The primary key of a new row.                                           *)
NewClientId_Reused == CHOOSE id \in 1..nextId : ~ClientExists(id)
NewClientId == nextId
NewTopicId_Reused == CHOOSE id \in 1..nextId : ~TopicExists(id)
NewTopicId == nextId

(* The Create of InsertClient: the unique index on the E4 ID refuses a     *)
(* second row.  Its Updates goes by primary key: a row deleted since it    *)
(* was read is not an error, nothing is written.                           *)
CreateClient(c, k) ==
    /\ clients' = [clients EXCEPT ![c] = [id |-> NewClientId, key |-> k]]
    /\ nextId' = nextId + 1
    /\ UNCHANGED <<topics, ctopics, cclients>>

UpdateClient(row, k) ==
    /\ clients' = [c \in Names |-> IF clients[c].id = row.id
                                   THEN [id |-> row.id, key |-> k] ELSE clients[c]]
    /\ UNCHANGED <<topics, ctopics, cclients, nextId>>

(* DeleteClientByID clears the client's topics and deletes the row; the    *)
(* links between clients go with it only by the cascades of postgres.      *)
DeleteClientRow(row) ==
    /\ clients' = [c \in Names |-> IF clients[c].id = row.id THEN NoRow ELSE clients[c]]
    /\ ctopics' = {l \in ctopics : l[1] # row.id}
    /\ cclients' = IF Postgres THEN {l \in cclients : l[1] # row.id /\ l[2] # row.id}
                               ELSE cclients
    /\ UNCHANGED <<topics, nextId>>

DeleteTopicRow(row) ==
    /\ topics' = [t \in Topics |-> IF topics[t].id = row.id THEN NoRow ELSE topics[t]]
    /\ ctopics' = {l \in ctopics : l[2] # row.id}
    /\ UNCHANGED <<clients, cclients, nextId>>

(* Association(..).Append adds the join row.  Postgres refuses a client id *)
(* that is gone; Migrate never adds the constraint on the topic id.        *)
CanLinkTopic_NoKey(client) == TRUE
CanLinkTopic(client)    == Postgres => ClientExists(client.id)
CanLinkClients(a, b)    == Postgres => ClientExists(a.id) /\ ClientExists(b.id)

LinkTopicRow(client, topic) ==
    /\ ctopics' = ctopics \cup {<<client.id, topic.id>>}
    /\ UNCHANGED <<clients, topics, cclients, nextId>>

UnlinkTopicRow(client, topic) ==
    /\ ctopics' = ctopics \ {<<client.id, topic.id>>}
    /\ UNCHANGED <<clients, topics, cclients, nextId>>

LinkClientRow(source, target) ==
    /\ cclients' = cclients \cup {<<target.id, source.id>>}
    /\ UNCHANGED <<clients, topics, ctopics, nextId>>

UnlinkClientRow(source, target) ==
    /\ cclients' = cclients \ {<<target.id, source.id>>}
    /\ UNCHANGED <<clients, topics, ctopics, nextId>>

-----------------------------------------------------------------------------
DBTypeOK ==
    /\ clients \in [Names -> Row]
    /\ topics \in [Topics -> Row]
    /\ ctopics \subseteq Nat \X Nat
    /\ cclients \subseteq Nat \X Nat
    /\ nextId \in Nat \ {0}

(* The migrated, empty store; or the one it becomes when every client and  *)
(* topic has been created, in order, and linked.                           *)
DBInit(populated, clientKey, topicKey) ==
    /\ clients = [c \in Names |-> IF populated THEN [id |-> c, key |-> clientKey[c]] ELSE NoRow]
    /\ topics = [t \in Topics |-> IF populated THEN [id |-> t, key |-> topicKey[t]] ELSE NoRow]
    /\ ctopics = IF populated THEN Names \X Topics ELSE {}
    /\ cclients = IF populated THEN {l \in Names \X Names : l[1] # l[2]} ELSE {}
    /\ nextId = NumClients + NumTopics + 1
=============================================================================
