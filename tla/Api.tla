--------------------------------- MODULE Api ---------------------------------
(***************************************************************************)
(* The gRPC API (internal/api/grpc.go) over the registry of clients and    *)
(* topics: what each handler checks, what the service answers, and the     *)
(* status the error becomes.  A call takes effect at once, as Registry     *)
(* says; how the service gets there is E4Service's matter.                 *)
(***************************************************************************)
EXTENDS Integers, FiniteSets

CONSTANTS
    Names, Topics,  \* numbered in the order of ORDER BY name, ORDER BY topic
    CryptoMode,     \* "symkey" or "pubkey"
    QueryLimit      \* most clients, or topics, of a query on their table

(* The length of a name is limited: there are finitely many.               *)
ASSUME NamesAssumption == Names \subseteq Nat \ {0} /\ Topics \subseteq Nat \ {0}
ASSUME FinitenessAssumption == IsFiniteSet(Names) /\ IsFiniteSet(Topics)
ASSUME CryptoModeAssumption == CryptoMode \in {"symkey", "pubkey"}
ASSUME QueryLimitAssumption == QueryLimit \in Nat

VARIABLES registered, existing, members, pairs

registryVars == <<registered, existing, members, pairs>>
R == INSTANCE Registry

-----------------------------------------------------------------------------
(* Requests.  A client, the source of a pair; the target of a pair; a      *)
(* topic; a page; and whether the rest (a key, data, --force) is valid.    *)

NoClient == -1  \* a request without a client
NoName == 0     \* a client without a name

Request(method, client, target, topic, offset, count) ==
    [method |-> method, client |-> client, target |-> target, topic |-> topic,
     offset |-> offset, count |-> count, valid |-> TRUE]

(* An error of the checks of a name is given a status twice, and ends as   *)
(* Internal.                                                               *)
Find(c) == CASE c = NoName -> "Internal"
             [] c \in registered -> "OK"
             [] OTHER -> "NotFound"

FindTopic(t) == IF t \in existing THEN "OK" ELSE "NotFound"

First(status, otherwise) == IF status # "OK" THEN status ELSE otherwise

NewClient(r) == IF r.client \in {NoClient, NoName} \/ ~r.valid THEN "InvalidArgument" ELSE "OK"

(* RemoveClient, ResetClient and NewClientKey.                             *)
OfClient(r) == IF r.client = NoClient THEN "InvalidArgument" ELSE Find(r.client)

(* NewTopic has replaced the key of a topic that exists.                   *)
NewTopic(r) == IF r.valid THEN "OK" ELSE "Internal"
RemoveTopic(r) == FindTopic(r.topic)

(* NewTopicClient and RemoveTopicClient.                                   *)
OfMember(r) == First(OfClient(r), FindTopic(r.topic))

(* CountTopicsForClient and GetTopicsForClient.                            *)
TopicsOf(r) == OfClient(r)

(* CountClientsForTopic and GetClientsForTopic.                            *)
ClientsOf(r) == FindTopic(r.topic)

(* LinkClient and UnlinkClient.                                            *)
OfPair(r) == IF NoClient \in {r.client, r.target} THEN "Unknown"
             ELSE IF NoName \in {r.client, r.target} THEN "Internal"
             ELSE First(Find(r.client), Find(r.target))

(* CountLinkedClients and GetLinkedClients.                                *)
LinkedOf(r) == OfClient(r)

(* SendClientPubKey, RemoveClientPubKey, ResetClientPubKeys.               *)
OfPubKeys(r) ==
    IF NoClient \in {r.client, r.target} THEN "Unknown"
    ELSE IF NoName \in {r.client, r.target} \/ CryptoMode # "pubkey" THEN "Internal"
    ELSE First(IF r.method = "ResetClientPubKeys" THEN "OK" ELSE Find(r.client), Find(r.target))

NewC2Key(r) == IF r.valid /\ CryptoMode = "pubkey" THEN "OK" ELSE "Internal"

(* ProtectMessage and UnprotectMessage: the service needs the key of the   *)
(* topic.                                                                  *)
TopicKey(r) == FindTopic(r.topic)
OfMessage(r) == IF r.valid THEN TopicKey(r) ELSE "Unknown"

(* The status of a request, when nothing fails.                            *)
Status(r) ==
    CASE r.method = "NewClient" -> NewClient(r)
      [] r.method \in {"RemoveClient", "ResetClient", "NewClientKey"} -> OfClient(r)
      [] r.method = "NewTopic" -> NewTopic(r)
      [] r.method = "RemoveTopic" -> RemoveTopic(r)
      [] r.method \in {"NewTopicClient", "RemoveTopicClient"} -> OfMember(r)
      [] r.method \in {"CountTopicsForClient", "GetTopicsForClient"} -> TopicsOf(r)
      [] r.method \in {"CountClientsForTopic", "GetClientsForTopic"} -> ClientsOf(r)
      [] r.method \in {"LinkClient", "UnlinkClient"} -> OfPair(r)
      [] r.method \in {"CountLinkedClients", "GetLinkedClients"} -> LinkedOf(r)
      [] r.method \in {"SendClientPubKey", "RemoveClientPubKey", "ResetClientPubKeys"} -> OfPubKeys(r)
      [] r.method = "NewC2Key" -> NewC2Key(r)
      [] r.method \in {"ProtectMessage", "UnprotectMessage"} -> OfMessage(r)
      [] OTHER -> "OK"

(* What a successful call does to the registry.  The source of a link      *)
(* becomes one of the clients linked to its target.                        *)
Effect_Swapped(r) ==
    CASE r.method = "NewClient" /\ r.client \notin registered -> R!Register(r.client)
      [] r.method = "RemoveClient"      -> R!Unregister(r.client)
      [] r.method = "NewTopic" /\ r.topic \notin existing -> R!Create(r.topic)
      [] r.method = "RemoveTopic"       -> R!Remove(r.topic)
      [] r.method = "NewTopicClient"    -> R!Join(r.client, r.topic)
      [] r.method = "RemoveTopicClient" -> R!Leave(r.client, r.topic)
      [] r.method = "LinkClient"        -> R!Pair(r.client, r.target)
      [] r.method = "UnlinkClient"      -> R!Unpair(r.client, r.target)
      [] OTHER -> UNCHANGED registryVars
Effect(r) ==
    CASE r.method = "NewClient" /\ r.client \notin registered -> R!Register(r.client)
      [] r.method = "RemoveClient"      -> R!Unregister(r.client)
      [] r.method = "NewTopic" /\ r.topic \notin existing -> R!Create(r.topic)
      [] r.method = "RemoveTopic"       -> R!Remove(r.topic)
      [] r.method = "NewTopicClient"    -> R!Join(r.client, r.topic)
      [] r.method = "RemoveTopicClient" -> R!Leave(r.client, r.topic)
      [] r.method = "LinkClient"        -> R!Pair(r.target, r.client)
      [] r.method = "UnlinkClient"      -> R!Unpair(r.target, r.client)
      [] OTHER -> UNCHANGED registryVars

(* Calls that may end with an error and have taken effect: the messages of *)
(* a new topic are subscribed to after it is committed.                    *)
FailsLate(r) == r.method = "NewTopic"

-----------------------------------------------------------------------------
(* Queries.                                                                *)

(* What a Count or Get method is about.                                    *)
Collection(r) ==
    CASE r.method \in {"CountClients", "GetClients"} -> registered
      [] r.method \in {"CountTopics", "GetTopics"}   -> existing
      [] r.method \in {"CountTopicsForClient", "GetTopicsForClient"} -> {t \in Topics : <<r.client, t>> \in members}
      [] r.method \in {"CountClientsForTopic", "GetClientsForTopic"} -> {c \in Names : <<c, r.topic>> \in members}
      [] r.method \in {"CountLinkedClients", "GetLinkedClients"} -> {c \in Names : <<r.client, c>> \in pairs}
      [] OTHER -> {}

(* ORDER BY name OFFSET offset LIMIT limit                                 *)
Rank(S, x) == Cardinality({y \in S : y <= x})
Page_Inclusive(S, offset, limit) == {x \in S : offset <= Rank(S, x) /\ Rank(S, x) <= offset + limit}
Page(S, offset, limit) == {x \in S : offset < Rank(S, x) /\ Rank(S, x) <= offset + limit}

(* Queries on a table are limited, those on a relation are not.            *)
Limit_Below(r) == IF r.count >= QueryLimit THEN QueryLimit - 1 ELSE r.count
Limit(r) == IF r.method \in {"GetClients", "GetTopics"} /\ r.count > QueryLimit
            THEN QueryLimit ELSE r.count

(* The first statement of a query on a relation looks its owner up.        *)
TwoStatements(r) ==
    r.method \in {"CountTopicsForClient", "GetTopicsForClient", "CountClientsForTopic",
                  "GetClientsForTopic", "CountLinkedClients", "GetLinkedClients"}

OwnerIn(r, clients, topics) == IF r.method \in {"CountClientsForTopic", "GetClientsForTopic"}
                               THEN r.topic \in topics ELSE r.client \in clients

Answer(r) == Page(Collection(r), r.offset, Limit(r))
=============================================================================
