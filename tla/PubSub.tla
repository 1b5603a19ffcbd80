------------------------------- MODULE PubSub --------------------------------
(***************************************************************************)
(* The subscriptions of the three publish/subscribe clients                *)
(* (internal/protocols): MQTT, Kafka and GCP.                              *)
(*                                                                         *)
(* MQTT keeps them at the broker.  Kafka has a partition consumer, a stop  *)
(* channel and a goroutine, the watcher, for each topic; the map of the    *)
(* stop channels has no lock.  GCP has none.                               *)
(***************************************************************************)
EXTENDS Naturals, FiniteSets

CONSTANTS
    NumTopics,    \* topics, numbered in the order of their names
    Unsuitable,   \* Unsuitable[kind]: topics ValidateTopic refuses
    Answers       \* outcomes of a broker request: "ok", "fail", "late"

Topics == 1..NumTopics
Kinds == {"mqtt", "kafka", "gcp", "none"}

ASSUME NumTopicsAssumption  == NumTopics \in Nat
ASSUME UnsuitableAssumption == Unsuitable \in [Kinds -> SUBSET Topics]
ASSUME AnswersAssumption    == Answers \subseteq {"ok", "fail", "late"}

VARIABLES
    connected,  \* the client is connected
    brokerSubs, \* MQTT: topics the broker sends messages of
    subscribed, \* Kafka: subscribedTopics, the stop channel of a topic and the
                \* context it was subscribed under
    consumed,   \* Kafka: topics with an open partition consumer
    watchers,   \* Kafka: goroutines in watchForMessages
    closed,     \* Kafka: stop channels that are closed
    stops       \* Kafka: stop channels made

pubsubVars == <<connected, brokerSubs, subscribed, consumed, watchers, closed, stops>>

Main == 0  \* the context of main; that of an API call is the number of the call
NoEntry == [stop |-> 0, ctx |-> Main]
Watcher(t, entry) == [topic |-> t, stop |-> entry.stop, ctx |-> entry.ctx]

ValidTopic(kind, t) == t \notin Unsuitable[kind]

PubSubInit ==
    /\ connected = FALSE
    /\ brokerSubs = {} /\ subscribed = [t \in Topics |-> NoEntry]
    /\ consumed = {} /\ watchers = {} /\ closed = {} /\ stops = 0

Connect ==
    /\ connected' = TRUE
    /\ UNCHANGED <<brokerSubs, subscribed, consumed, watchers, closed, stops>>

-----------------------------------------------------------------------------
(* MQTT.  A request that timed out ("late") takes effect all the same.     *)

MQTTSubscribe(ts, answer) ==
    /\ brokerSubs' = IF answer = "fail" THEN brokerSubs ELSE brokerSubs \cup ts
    /\ UNCHANGED <<connected, subscribed, consumed, watchers, closed, stops>>

MQTTUnsubscribe(t, answer) ==
    /\ brokerSubs' = IF answer = "fail" THEN brokerSubs ELSE brokerSubs \ {t}
    /\ UNCHANGED <<connected, subscribed, consumed, watchers, closed, stops>>

(* The session ends with the connection.                                   *)
MQTTDisconnect ==
    /\ connected' = FALSE /\ brokerSubs' = {}
    /\ UNCHANGED <<subscribed, consumed, watchers, closed, stops>>

-----------------------------------------------------------------------------
(* Kafka.                                                                  *)

(* The library consumes a partition once: a topic whose consumer is open   *)
(* is refused.                                                             *)
CanConsume(t) == t \notin consumed
ConsumePartition(t) ==
    /\ consumed' = consumed \cup {t}
    /\ UNCHANGED <<connected, brokerSubs, subscribed, watchers, closed, stops>>

(* The stop channel goes into the map and the watcher starts.              *)
Watch_UnderCall(t, ctx) ==
    LET entry == [stop |-> stops + 1, ctx |-> ctx] IN
    /\ subscribed' = [subscribed EXCEPT ![t] = entry]
    /\ watchers' = watchers \cup {[Watcher(t, entry) EXCEPT !.ctx = 1]}
    /\ stops' = stops + 1
    /\ UNCHANGED <<connected, brokerSubs, consumed, closed>>
Watch(t, ctx) ==
    LET entry == [stop |-> stops + 1, ctx |-> ctx] IN
    /\ subscribed' = [subscribed EXCEPT ![t] = entry]
    /\ watchers' = watchers \cup {Watcher(t, entry)}
    /\ stops' = stops + 1
    /\ UNCHANGED <<connected, brokerSubs, consumed, closed>>

(* delete(subscribedTopics, topic); close(stopChan)                        *)
StopWatching_NoClose(t, stop) ==
    /\ subscribed' = [subscribed EXCEPT ![t] = NoEntry]
    /\ UNCHANGED <<connected, brokerSubs, consumed, watchers, closed, stops>>
StopWatching_ReleaseFirst(t, stop) ==
    /\ subscribed' = [subscribed EXCEPT ![t] = NoEntry]
    /\ closed' = closed \cup {stop}
    /\ consumed' = consumed \ {t}
    /\ UNCHANGED <<connected, brokerSubs, watchers, stops>>
StopWatching(t, stop) ==
    /\ subscribed' = [subscribed EXCEPT ![t] = NoEntry]
    /\ closed' = closed \cup {stop}
    /\ UNCHANGED <<connected, brokerSubs, consumed, watchers, stops>>

(* A watcher that is stopped closes its partition consumer.                *)
WatcherStops == \E w \in watchers :
    /\ w.stop \in closed
    /\ watchers' = watchers \ {w}
    /\ consumed' = consumed \ {w.topic}
    /\ UNCHANGED <<connected, brokerSubs, subscribed, closed, stops>>

(* One whose context is done leaves it open, and its entry in the map.     *)
WatcherCancelled(done) == \E w \in watchers :
    /\ w.ctx \in done
    /\ watchers' = watchers \ {w}
    /\ UNCHANGED <<connected, brokerSubs, subscribed, consumed, closed, stops>>

(* Disconnect closes the stop channels and forgets them.  When closing the *)
(* consumer or the producer fails it stops there.                          *)
KafkaDisconnect(answer) ==
    /\ IF answer = "ok"
       THEN /\ connected' = FALSE
            /\ closed' = closed \cup ({subscribed[t].stop : t \in Topics} \ {0})
            /\ subscribed' = [t \in Topics |-> NoEntry]
       ELSE UNCHANGED <<connected, closed, subscribed>>
    /\ UNCHANGED <<brokerSubs, consumed, watchers, stops>>

(* The connection of GCP is a flag of the model: Connect and Disconnect    *)
(* are empty.                                                              *)
GCPDisconnect ==
    /\ connected' = FALSE
    /\ UNCHANGED <<brokerSubs, subscribed, consumed, watchers, closed, stops>>

-----------------------------------------------------------------------------
Entries == [stop : 0..stops, ctx : Nat]

PubSubTypeOK ==
    /\ connected \in BOOLEAN
    /\ brokerSubs \subseteq Topics
    /\ subscribed \in [Topics -> Entries]
    /\ consumed \subseteq Topics
    /\ watchers \subseteq [topic : Topics, stop : 1..stops, ctx : Nat]
    /\ closed \subseteq 1..stops
    /\ stops \in Nat

(* Kafka: a watcher can always be told to stop: its channel is the one the *)
(* map holds for its topic, or has been closed already.                    *)
EveryWatcherCanBeStopped ==
    \A w \in watchers : subscribed[w.topic].stop = w.stop \/ w.stop \in closed

(* Kafka: a topic never has two watchers, which would log each message     *)
(* twice, be it subscribed again while the first is still stopping.        *)
NoTopicIsWatchedTwice ==
    \A v, w \in watchers : v.topic = w.topic => v = w

(* Kafka: what was subscribed at start-up, under the context of main, is   *)
(* watched as long as it is in the map.                                    *)
StartupSubscriptionsAreWatched ==
    \A t \in Topics : LET e == subscribed[t]
                      IN  e.stop # 0 /\ e.ctx = Main => Watcher(t, e) \in watchers
=============================================================================
