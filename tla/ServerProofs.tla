---------------------------- MODULE ServerProofs ----------------------------
(***************************************************************************)
(* Theorems about Server, for every configuration, set of topics and       *)
(* number of calls: the state keeps its shape, every Kafka watcher can be  *)
(* stopped, no topic has two, the subscriptions of the start-up are        *)
(* watched, the start-up misses no topic, and a panic has one of the       *)
(* reasons listed.                                                         *)
(***************************************************************************)
EXTENDS Server, FiniteSetTheorems, WellFoundedInduction, TLAPS

-----------------------------------------------------------------------------
(* The inductive invariant.                                                *)

Early == {"load", "validate", "key", "elasticsearch", "database", "migrate", "connect", "observe", "listen"}

(* What is open and what runs, by the phase main is in.                    *)
PhaseInv ==
    /\ phase \in Early \cup {"exited"} =>
         (\A g \in Goroutines : run[g].pc = "idle") /\ watchers = {} /\ brokerSubs = {}
    /\ phase \in {"migrate", "connect", "observe", "listen", "serving", "close"} => "db" \in opened
    /\ phase \in {"observe", "listen", "serving", "close", "disconnect"} =>
         connected /\ PubSubKind(cfg) # "none"
    /\ phase \notin {"load", "validate", "key", "elasticsearch", "exited"} /\ cfg.es.enable => "es" \in opened
    /\ phase # "exited" => crashed = "no"

(* Where goroutine g may be, and what it has in hand there.                *)
RunOK(g, r) ==
    /\ g = Startup => /\ r.pc \in {"idle", "count", "page", "subscribe", "watch"}
                      /\ r.pc \in {"subscribe", "watch"} => r.todo # {}
    /\ g # Startup => /\ r.pc \notin {"count", "page"}
                      /\ r.pc # "idle" => r.t \in Topics
    /\ r.pc \in {"watch", "stop"} => Kind = "kafka"
    /\ r.pc = "stop" => r.stop \in 1..stops
GoroutineInv == \A g \in Goroutines : RunOK(g, run[g])

(* The topic a goroutine of the Kafka client is at.                        *)
Target(r, g) == IF g = Startup THEN FirstOf(r.todo) ELSE r.t

(* A topic in the map is consumed, under a channel of its own that is      *)
(* open.                                                                   *)
EntryInv ==
    /\ \A t \in Topics : subscribed[t].stop # 0 => t \in consumed /\ subscribed[t].stop \notin closed
    /\ \A t, u \in Topics : subscribed[t].stop = subscribed[u].stop /\ subscribed[t].stop # 0 => t = u

(* A watcher's topic is consumed, and is in the map under its channel, or  *)
(* not at all.                                                             *)
WatcherInv ==
    \A w \in watchers : w.topic \in consumed /\ subscribed[w.topic].stop \in {0, w.stop}

(* A goroutine about to start a watcher is alone with the consumer it has  *)
(* opened.                                                                 *)
WatchInv ==
    \A g \in Goroutines : run[g].pc = "watch" =>
        LET t == Target(run[g], g) IN
        /\ t \in consumed /\ subscribed[t].stop = 0
        /\ \A w \in watchers : w.topic # t
        /\ \A h \in Goroutines : h # g /\ run[h].pc = "watch" => Target(run[h], h) # t

(* A call about to close a channel finds it in the map until another has   *)
(* closed it.                                                              *)
StopInv ==
    \A c \in Calls : run[c].pc = "stop" =>
        \/ subscribed[run[c].t].stop = run[c].stop
        \/ (run[c].raced /\ run[c].stop \in closed)

KafkaInv == /\ EntryInv /\ WatcherInv /\ WatchInv /\ StopInv
            /\ EveryWatcherCanBeStopped /\ NoTopicIsWatchedTwice /\ StartupSubscriptionsAreWatched

IInv == TypeOK /\ PhaseInv /\ GoroutineInv /\ KafkaInv

-----------------------------------------------------------------------------
(* Topics and targets.                                                     *)

(* A set of topics has a first.                                            *)
LEMMA FirstIsMember ==
    ASSUME NEW S \in SUBSET Topics, S # {}
    PROVE  FirstOf(S) \in S
  <1>1. S \subseteq Nat
    BY DEF Topics
  <1>2. PICK m \in S : \A n \in S : <<n, m>> \notin OpToRel(<, Nat)
    BY <1>1, WFMin, NatLessThanWellFounded, Zenon
  <1>3. ASSUME NEW n \in S PROVE m <= n
    <2>1. n < m => <<n, m>> \in OpToRel(<, Nat)
      BY <1>1, Zenon DEF OpToRel
    <2>2. ~(n < m) /\ m \in Nat /\ n \in Nat
      BY <1>1, <1>2, <2>1
    <2> QED
      BY <2>2
  <1> QED
    BY <1>3 DEF FirstOf

LEMMA FirstOfOne ==
    ASSUME NEW t \in Topics
    PROVE  FirstOf({t}) = t
  <1>1. t <= t
    BY DEF Topics
  <1> QED
    BY <1>1 DEF FirstOf

(* Kafka subscribes to one topic at a time, that of the call or the first  *)
(* of the page.                                                            *)
LEMMA OneTarget ==
    ASSUME TypeOK, GoroutineInv, Kind = "kafka",
           NEW g \in Goroutines, run[g].pc \in {"subscribe", "watch"}
    PROVE  /\ Targets(g) = {Target(run[g], g)}
           /\ FirstOf(Targets(g)) = Target(run[g], g)
           /\ Target(run[g], g) \in Topics
           /\ g = Startup => Target(run[g], g) \in run[g].todo
  <1>1. CASE g = Startup
    <2>1. run[g].todo \in SUBSET Topics /\ run[g].todo # {}
      BY <1>1 DEF TypeOK, Runs, GoroutineInv, RunOK
    <2>2. FirstOf(run[g].todo) \in run[g].todo
      BY <2>1, FirstIsMember
    <2> QED
      BY <1>1, <2>1, <2>2, FirstOfOne DEF Targets, Target
  <1>2. CASE g # Startup
    <2>1. run[g].t \in Topics
      BY <1>2 DEF Goroutines, GoroutineInv, RunOK
    <2> QED
      BY <1>2, <2>1, FirstOfOne DEF Targets, Target
  <1> QED
    BY <1>1, <1>2

(* The calls are not the goroutine of the start-up.                        *)
LEMMA CallsAreOthers == Startup \notin Calls /\ Calls \subseteq Nat /\ Goroutines \ {Startup} = Calls
  BY BoundsAssumption, StartupAssumption DEF Calls, Goroutines

-----------------------------------------------------------------------------
(* Steps that leave the Kafka client alone.                                *)

LEMMA Quiet ==
    ASSUME KafkaInv, UNCHANGED <<subscribed, consumed, watchers, closed, stops>>,
           \A g \in Goroutines : run'[g].pc \in {"watch", "stop"} => run'[g] = run[g]
    PROVE  KafkaInv'
  <1>1. EntryInv' /\ WatcherInv'
    BY DEF KafkaInv, EntryInv, WatcherInv
  <1>2. WatchInv'
    BY DEF KafkaInv, WatchInv, Target
  <1>3. StopInv'
    BY CallsAreOthers DEF KafkaInv, StopInv, Goroutines
  <1>4. EveryWatcherCanBeStopped' /\ NoTopicIsWatchedTwice' /\ StartupSubscriptionsAreWatched'
    BY DEF KafkaInv, EveryWatcherCanBeStopped, NoTopicIsWatchedTwice, StartupSubscriptionsAreWatched,
           Watcher, Main
  <1> QED
    BY <1>1, <1>2, <1>3, <1>4 DEF KafkaInv

-----------------------------------------------------------------------------
(* Types.                                                                  *)

LEMMA IdleIsRun == Idle \in Runs
  <1>1. 0 \in 0..NumTopics /\ 0 \in Nat /\ FALSE \in BOOLEAN /\ {} \in SUBSET Topics
    BY NumTopicsAssumption
  <1> QED
    BY <1>1, NumTopicsAssumption DEF Idle, Runs

LEMMA NoEntryIsEntry ==
    ASSUME NEW n \in Nat
    PROVE  NoEntry \in [stop : 0..n, ctx : Nat]
  BY DEF NoEntry, Main

(* The end of the process.                                                 *)
LEMMA EndsOK ==
    ASSUME IInv, NEW why \in {"no", "map", "closed twice", "nil consumer", "payload", "nil elasticsearch"},
           Ends(why)
    PROVE  IInv'
  <1>1. TypeOK'
    <2>1. PubSubTypeOK'
      <3>1. stops' = 0 /\ Entries' = [stop : 0..stops', ctx : Nat]
        BY DEF Ends, Entries
      <3>2. NoEntry \in Entries'
        BY <3>1, NoEntryIsEntry
      <3>3. subscribed' \in [Topics -> Entries']
        BY <3>2 DEF Ends
      <3>4. connected' = FALSE /\ brokerSubs' = {} /\ consumed' = {} /\ watchers' = {} /\ closed' = {}
        BY DEF Ends
      <3> QED
        BY <3>1, <3>3, <3>4 DEF PubSubTypeOK
    <2>2. run' \in [Goroutines -> Runs]
      BY IdleIsRun DEF Ends
    <2>3. sender' \in [Senders -> {"off", "running", "sending", "done"}]
      BY DEF Ends, IInv, TypeOK
    <2>4. phase' = "exited" /\ opened' = {} /\ calls' = 0 /\ crashed' = why /\ excused' = {}
          /\ cfg' = cfg /\ existing' = existing
      BY DEF Ends
    <2> QED
      BY <2>1, <2>2, <2>3, <2>4 DEF IInv, TypeOK, Phases
  <1>2. PhaseInv'
    BY DEF IInv, Ends, PhaseInv, Idle, Early
  <1>3. GoroutineInv'
    BY CallsAreOthers DEF Ends, GoroutineInv, RunOK, Idle, Goroutines
  <1>4. KafkaInv'
    <2>1. \A g \in Goroutines : run'[g].pc = "idle"
      BY DEF Ends, Idle
    <2>2. \A t \in Topics : subscribed'[t].stop = 0
      BY DEF Ends, NoEntry
    <2> QED
      BY <2>1, <2>2, CallsAreOthers
      DEF Ends, KafkaInv, EntryInv, WatcherInv, WatchInv, StopInv, EveryWatcherCanBeStopped,
          NoTopicIsWatchedTwice, StartupSubscriptionsAreWatched, Goroutines
  <1> QED
    BY <1>1, <1>2, <1>3, <1>4 DEF IInv

-----------------------------------------------------------------------------
(* The client keeps its shape, whatever is asked of it.                    *)
LEMMA PubSubTypes ==
    ASSUME PubSubTypeOK
    PROVE  /\ UNCHANGED pubsubVars => PubSubTypeOK'
           /\ Connect => PubSubTypeOK'
           /\ \A ts \in SUBSET Topics : \A answer \in Answers :
                 MQTTSubscribe(ts, answer) => PubSubTypeOK'
           /\ \A t \in Topics : \A answer \in Answers : MQTTUnsubscribe(t, answer) => PubSubTypeOK'
           /\ MQTTDisconnect => PubSubTypeOK'
           /\ GCPDisconnect => PubSubTypeOK'
           /\ WatcherStops => PubSubTypeOK'
           /\ \A done : WatcherCancelled(done) => PubSubTypeOK'
           /\ \A t \in Topics : ConsumePartition(t) => PubSubTypeOK'
  BY DEF PubSubTypeOK, pubsubVars, Connect, MQTTSubscribe, MQTTUnsubscribe, MQTTDisconnect, GCPDisconnect,
         WatcherStops, WatcherCancelled, ConsumePartition, Entries

LEMMA WatchType ==
    ASSUME PubSubTypeOK, NEW t \in Topics, NEW ctx \in Nat, Watch(t, ctx)
    PROVE  PubSubTypeOK'
  <1> DEFINE entry == [stop |-> stops + 1, ctx |-> ctx]
  <1>1. stops \in Nat /\ stops' = stops + 1
    BY DEF PubSubTypeOK, Watch
  <1>2. entry \in Entries' /\ Entries \subseteq Entries'
    BY <1>1 DEF Entries
  <1>3. subscribed' \in [Topics -> Entries']
    BY <1>2 DEF PubSubTypeOK, Watch
  <1>4. watchers' \subseteq [topic : Topics, stop : 1..stops', ctx : Nat]
    BY <1>1 DEF PubSubTypeOK, Watch, Watcher
  <1>5. closed' \subseteq 1..stops'
    BY <1>1 DEF PubSubTypeOK, Watch
  <1> QED
    BY <1>1, <1>3, <1>4, <1>5 DEF PubSubTypeOK, Watch

LEMMA StopWatchingType ==
    ASSUME PubSubTypeOK, NEW t \in Topics, NEW stop \in 1..stops, StopWatching(t, stop)
    PROVE  PubSubTypeOK'
  <1>1. NoEntry \in Entries
    BY NoEntryIsEntry DEF PubSubTypeOK, Entries
  <1>2. Entries' = Entries
    BY DEF StopWatching, Entries
  <1>3. subscribed' \in [Topics -> Entries']
    BY <1>1, <1>2 DEF PubSubTypeOK, StopWatching
  <1> QED
    BY <1>3 DEF PubSubTypeOK, StopWatching

LEMMA KafkaDisconnectType ==
    ASSUME PubSubTypeOK, NEW answer, KafkaDisconnect(answer)
    PROVE  PubSubTypeOK'
  <1>1. NoEntry \in Entries /\ Entries' = Entries
    BY NoEntryIsEntry DEF PubSubTypeOK, KafkaDisconnect, Entries
  <1>2. subscribed' \in [Topics -> Entries']
    BY <1>1 DEF PubSubTypeOK, KafkaDisconnect
  <1>3. {subscribed[t].stop : t \in Topics} \ {0} \subseteq 1..stops
    BY DEF PubSubTypeOK, Entries
  <1>4. closed' \subseteq 1..stops'
    BY <1>3 DEF PubSubTypeOK, KafkaDisconnect
  <1> QED
    BY <1>2, <1>4 DEF PubSubTypeOK, KafkaDisconnect

-----------------------------------------------------------------------------
(* A step of one goroutine.                                                *)

Sendings == [Senders -> {"off", "running", "sending", "done"}]

LEMMA RunStepType ==
    ASSUME TypeOK, PubSubTypeOK', UNCHANGED <<cfg, phase, opened, crashed, connected>>,
           NEW g \in Goroutines, NEW r \in Runs, run' = [run EXCEPT ![g] = r],
           sender' \in Sendings, existing' \subseteq Topics, excused' \subseteq Topics, calls' \in Nat
    PROVE  TypeOK'
  BY DEF TypeOK, Sendings

LEMMA RunStepGoroutines ==
    ASSUME TypeOK, GoroutineInv, UNCHANGED cfg, stops' = stops \/ stops' = stops + 1,
           NEW g \in Goroutines, NEW r \in Runs, run' = [run EXCEPT ![g] = r], RunOK(g, r)
    PROVE  GoroutineInv'
  <1>1. stops \in Nat /\ Kind' = Kind
    BY DEF TypeOK, PubSubTypeOK, Kind
  <1>2. 1..stops \subseteq 1..stops'
    BY <1>1
  <1>3. ASSUME NEW h \in Goroutines PROVE RunOK(h, run[h]) /\ run'[h] \in {r, run[h]} /\ (h # g => run'[h] = run[h])
    BY DEF TypeOK, GoroutineInv
  <1>4. run'[g] = r
    BY DEF TypeOK
  <1> QED
    BY <1>1, <1>2, <1>3, <1>4 DEF GoroutineInv, RunOK

Late == {"serving", "close", "disconnect", "exit"}

LEMMA RunStepPhase ==
    ASSUME PhaseInv, phase \in Late, UNCHANGED <<cfg, phase, opened, connected, crashed>>
    PROVE  PhaseInv'
  BY DEF PhaseInv, Late, Early

(* Goroutines run while the server serves, or closes.                      *)
LEMMA RunsLate ==
    ASSUME TypeOK, PhaseInv, NEW g \in Goroutines, run[g].pc # "idle"
    PROVE  phase \in Late
  BY DEF TypeOK, PhaseInv, Phases, Late, Early

LEMMA RunStepQuiet ==
    ASSUME IInv, PubSubTypeOK', UNCHANGED <<cfg, phase, opened, crashed, connected>>,
           UNCHANGED <<subscribed, consumed, watchers, closed, stops>>,
           NEW g \in Goroutines, NEW r \in Runs, run' = [run EXCEPT ![g] = r], RunOK(g, r),
           r.pc \notin {"watch", "stop"}, phase \in Late,
           sender' \in Sendings, existing' \subseteq Topics, excused' \subseteq Topics, calls' \in Nat
    PROVE  IInv'
  <1>1. TypeOK'
    BY RunStepType DEF IInv
  <1>2. PhaseInv'
    BY RunStepPhase DEF IInv
  <1>3. GoroutineInv'
    BY RunStepGoroutines DEF IInv
  <1>4. \A h \in Goroutines : run'[h].pc \in {"watch", "stop"} => run'[h] = run[h]
    BY DEF IInv, TypeOK
  <1>5. KafkaInv'
    BY <1>4, Quiet DEF IInv
  <1> QED
    BY <1>1, <1>2, <1>3, <1>5 DEF IInv

-----------------------------------------------------------------------------
(* Start-up.                                                               *)

LEMMA BeforeServing ==
    ASSUME IInv, phase \in Early, phase' \in Early \cup {"exited"},
           UNCHANGED <<cfg, sender, existing, run, excused, calls, crashed>>,
           UNCHANGED <<brokerSubs, subscribed, consumed, watchers, closed, stops>>,
           opened' \subseteq {"es", "db"}, connected' \in BOOLEAN, PhaseInv'
    PROVE  IInv'
  <1>1. PubSubTypeOK'
    BY DEF IInv, TypeOK, PubSubTypeOK, Entries
  <1>2. TypeOK'
    BY <1>1 DEF IInv, TypeOK, Phases, Early
  <1>3. GoroutineInv'
    BY DEF IInv, GoroutineInv, RunOK, Kind
  <1>4. KafkaInv'
    BY Quiet DEF IInv
  <1> QED
    BY <1>2, <1>3, <1>4 DEF IInv

LEMMA StartsOK ==
    ASSUME IInv, Load \/ Validate \/ NewKey \/ NewESClient \/ NewDB \/ Migrate \/ ConnectPubSub \/ Observe
    PROVE  IInv'
  <1> USE DEF Step, pubsubVars
  <1>1. phase \in Early /\ phase' \in Early \cup {"exited"}
    BY DEF Load, Validate, NewKey, NewESClient, NewDB, Migrate, ConnectPubSub, Observe, Early
  <1>2. /\ UNCHANGED <<cfg, sender, existing, run, excused, calls, crashed>>
        /\ UNCHANGED <<brokerSubs, subscribed, consumed, watchers, closed, stops>>
    BY DEF Load, Validate, NewKey, NewESClient, NewDB, Migrate, ConnectPubSub, Observe, Connect
  <1>3. opened' \subseteq {"es", "db"} /\ connected' \in BOOLEAN
    BY DEF Load, Validate, NewKey, NewESClient, NewDB, Migrate, ConnectPubSub, Observe, Connect,
           IInv, TypeOK, PubSubTypeOK
  <1>4. PhaseInv'
    <2> USE DEF IInv, PhaseInv, Early
    <2>1. CASE Load \/ Validate \/ NewKey
      BY <2>1 DEF Load, Validate, NewKey
    <2>2. CASE NewESClient
      BY <2>2 DEF NewESClient
    <2>3. CASE NewDB
      BY <2>3 DEF NewDB
    <2>4. CASE Migrate \/ Observe
      BY <2>4 DEF Migrate, Observe
    <2>5. CASE ConnectPubSub
      BY <2>5 DEF ConnectPubSub, Connect, Kind
    <2> QED
      BY <2>1, <2>2, <2>3, <2>4, <2>5
  <1> QED
    BY <1>1, <1>2, <1>3, <1>4, BeforeServing

LEMMA ListenAndServeOK ==
    ASSUME IInv, ListenAndServe
    PROVE  IInv'
  <1> DEFINE r == [run[Startup] EXCEPT !.op = "startup", !.pc = "count"]
  <1>1. Startup \in Goroutines /\ run[Startup] \in Runs /\ r \in Runs /\ r.pc = "count"
    BY DEF Goroutines, IInv, TypeOK, Runs
  <1>2. run' = run \/ run' = [run EXCEPT ![Startup] = r]
    BY <1>1 DEF ListenAndServe, IInv, TypeOK
  <1> HIDE DEF r
  <1>3. run' \in [Goroutines -> Runs]
    BY <1>1, <1>2 DEF IInv, TypeOK
  <1>4. \A g \in Goroutines : /\ run'[g] = run[g] \/ run'[g] = r
                              /\ g # Startup => run'[g] = run[g]
    BY <1>1, <1>2 DEF IInv, TypeOK
  <1>5. TypeOK'
    <2>1. PubSubTypeOK'
      BY PubSubTypes DEF IInv, TypeOK, ListenAndServe
    <2>2. "db" \in opened /\ connected
      BY DEF IInv, PhaseInv, ListenAndServe
    <2>3. sender' \in Sendings
      BY DEF ListenAndServe, Sendings
    <2> QED
      BY <1>3, <2>1, <2>2, <2>3 DEF IInv, TypeOK, ListenAndServe, Phases, Sendings, pubsubVars
  <1>6. PhaseInv'
    BY DEF IInv, PhaseInv, ListenAndServe, Early, pubsubVars
  <1>7. GoroutineInv'
    BY <1>1, <1>4 DEF IInv, GoroutineInv, RunOK, ListenAndServe, Kind, pubsubVars
  <1>8. KafkaInv'
    BY <1>1, <1>4, Quiet DEF IInv, ListenAndServe, pubsubVars
  <1> QED
    BY <1>5, <1>6, <1>7, <1>8 DEF IInv

-----------------------------------------------------------------------------
(* Main serves and closes.                                                 *)

LEMMA ReportsOK ==
    ASSUME IInv, NEW s \in Senders, Report(s) \/ TakeError(s)
    PROVE  IInv'
  <1> USE DEF Report, TakeError, pubsubVars
  <1>1. PubSubTypeOK'
    BY PubSubTypes DEF IInv, TypeOK
  <1>2. sender' \in Sendings
    BY DEF IInv, TypeOK, Sendings
  <1>3. TypeOK'
    BY <1>1, <1>2 DEF IInv, TypeOK, Sendings, Phases
  <1>4. PhaseInv'
    BY DEF IInv, PhaseInv, Early
  <1>5. GoroutineInv'
    BY DEF IInv, GoroutineInv, RunOK, Kind
  <1>6. KafkaInv'
    BY Quiet DEF IInv
  <1> QED
    BY <1>3, <1>4, <1>5, <1>6 DEF IInv

LEMMA CloseDBOK ==
    ASSUME IInv, CloseDB
    PROVE  IInv'
  <1> USE DEF CloseDB, pubsubVars
  <1>1. PubSubTypeOK'
    BY PubSubTypes DEF IInv, TypeOK
  <1>2. TypeOK'
    BY <1>1 DEF IInv, TypeOK, Phases
  <1>3. PhaseInv'
    BY DEF IInv, PhaseInv, Early
  <1>4. GoroutineInv'
    BY DEF IInv, GoroutineInv, RunOK, Kind
  <1>5. KafkaInv'
    BY Quiet DEF IInv
  <1> QED
    BY <1>2, <1>3, <1>4, <1>5 DEF IInv

-----------------------------------------------------------------------------
(* Goroutines, where they leave the Kafka client alone.                    *)

LEMMA IdleOK ==
    ASSUME NEW g \in Goroutines
    PROVE  RunOK(g, Idle)
  BY DEF RunOK, Idle

LEMMA StartupStepsOK ==
    ASSUME IInv, CountTopics \/ GetTopicsRange
    PROVE  IInv'
  <1> DEFINE r0 == run[Startup]
             rc == [r0 EXCEPT !.pc = "page", !.count = Cardinality(existing)]
             page == PageOf(existing, r0.offset)
             rp == [r0 EXCEPT !.todo = page, !.pc = IF page = {} THEN "page" ELSE "subscribe",
                              !.offset = NextOffset(r0)]
  <1>1. Startup \in Goroutines /\ r0 \in Runs /\ r0.pc # "idle" /\ run \in [Goroutines -> Runs]
    BY DEF IInv, TypeOK, Goroutines, CountTopics, GetTopicsRange, At
  <1>2. phase \in Late
    BY <1>1, RunsLate DEF IInv
  <1>3. PubSubTypeOK' /\ UNCHANGED <<subscribed, consumed, watchers, closed, stops, connected>>
    BY PubSubTypes DEF IInv, TypeOK, CountTopics, GetTopicsRange, pubsubVars
  <1>4. /\ UNCHANGED <<cfg, phase, opened, crashed, existing, excused, calls>>
        /\ existing' \subseteq Topics /\ excused' \subseteq Topics /\ calls' \in Nat
    BY DEF IInv, TypeOK, CountTopics, GetTopicsRange
  <1>5. sender' \in Sendings
    BY DEF IInv, TypeOK, Sendings, CountTopics, GetTopicsRange, StartupFails
  <1>6. Cardinality(existing) \in Nat
    <2>1. IsFiniteSet(existing)
      <3>1. IsFiniteSet(Topics)
        BY NumTopicsAssumption, FS_Interval DEF Topics
      <3>2. existing \subseteq Topics
        BY DEF IInv, TypeOK
      <3> QED
        BY <3>1, <3>2, FS_Subset
    <2> QED
      BY <2>1, FS_CardinalityType
  <1>7. rc \in Runs /\ RunOK(Startup, rc) /\ rc.pc \notin {"watch", "stop"}
    BY <1>1, <1>6 DEF Runs, RunOK
  <1>8. rp \in Runs /\ RunOK(Startup, rp) /\ rp.pc \notin {"watch", "stop"}
    <2>1. page \in SUBSET Topics
      BY DEF PageOf, IInv, TypeOK
    <2>2. NextOffset(r0) \in Nat
      BY <1>1, BoundsAssumption DEF Runs, NextOffset
    <2> HIDE DEF page
    <2>3. rp.todo = page /\ rp.pc = IF page = {} THEN "page" ELSE "subscribe"
      BY <1>1 DEF Runs
    <2> QED
      BY <1>1, <2>1, <2>2, <2>3 DEF Runs, RunOK
  <1>9. Idle \in Runs /\ RunOK(Startup, Idle) /\ Idle.pc \notin {"watch", "stop"}
    BY <1>1, IdleIsRun, IdleOK DEF Idle
  <1>10. \/ run' = [run EXCEPT ![Startup] = Idle]
         \/ run' = [run EXCEPT ![Startup] = rc]
         \/ run' = [run EXCEPT ![Startup] = rp]
    BY <1>1 DEF CountTopics, GetTopicsRange, StartupFails
  <1> HIDE DEF rc, rp, r0, page
  <1> QED
    BY <1>1, <1>2, <1>3, <1>4, <1>5, <1>7, <1>8, <1>9, <1>10, RunStepQuiet

LEMMA CallOK ==
    ASSUME IInv, Call
    PROVE  IInv'
  <1> DEFINE n == calls + 1
  <1>1. calls \in Nat /\ n \in Calls
    <2>1. calls \in Nat /\ calls < MaxCalls
      BY DEF IInv, TypeOK, Call
    <2>2. MaxCalls \in Nat
      BY BoundsAssumption
    <2> QED
      BY <2>1, <2>2 DEF Calls
  <1>2. n \in Goroutines /\ n # Startup
    BY <1>1, CallsAreOthers DEF Goroutines
  <1>3. run \in [Goroutines -> Runs] /\ run[n] \in Runs
    BY <1>2 DEF IInv, TypeOK
  <1>4. PICK t \in Topics :
          \/ run' = [run EXCEPT ![n].op = "NewTopic", ![n].pc = "commit", ![n].t = t]
          \/ run' = [run EXCEPT ![n].op = "RemoveTopic", ![n].t = t,
                                ![n].pc = IF ValidTopic(Kind, t) THEN "unsubscribe" ELSE "delete"]
    BY DEF Call
  <1> DEFINE rn == [run[n] EXCEPT !.op = "NewTopic", !.pc = "commit", !.t = t]
             rr == [run[n] EXCEPT !.op = "RemoveTopic", !.t = t,
                                  !.pc = IF ValidTopic(Kind, t) THEN "unsubscribe" ELSE "delete"]
  <1>5. t \in 0..NumTopics
    BY NumTopicsAssumption DEF Topics
  <1>6. /\ rn \in Runs /\ rn.pc \in {"commit", "unsubscribe", "delete"} /\ rn.t = t
        /\ rr \in Runs /\ rr.pc \in {"commit", "unsubscribe", "delete"} /\ rr.t = t
    BY <1>3, <1>5 DEF Runs
  <1> HIDE DEF n
  <1>7. run' = [run EXCEPT ![n] = rn] \/ run' = [run EXCEPT ![n] = rr]
    BY <1>2, <1>3, <1>4
  <1> HIDE DEF rn, rr
  <1>7a. PICK r \in Runs : RunOK(n, r) /\ r.pc \notin {"watch", "stop"} /\ run' = [run EXCEPT ![n] = r]
    <2>1. RunOK(n, rn) /\ RunOK(n, rr)
      BY <1>2, <1>6 DEF RunOK
    <2> QED
      BY <1>6, <1>7, <2>1
  <1>8. phase \in Late /\ calls' \in Nat
    BY <1>1 DEF Call, Late, n
  <1>9. PubSubTypeOK' /\ UNCHANGED <<subscribed, consumed, watchers, closed, stops, connected>>
    BY PubSubTypes DEF IInv, TypeOK, Call, pubsubVars
  <1>10. /\ UNCHANGED <<cfg, phase, opened, crashed>>
         /\ existing' \subseteq Topics /\ excused' \subseteq Topics /\ sender' \in Sendings
    BY DEF IInv, TypeOK, Call, Sendings
  <1> QED
    BY <1>2, <1>7a, <1>8, <1>9, <1>10, RunStepQuiet

LEMMA TopicTableOK ==
    ASSUME IInv, NEW w \in Calls, CommitTopic(w) \/ DeleteTopic(w)
    PROVE  IInv'
  <1> DEFINE r == [run[w] EXCEPT !.pc = "subscribe"]
  <1>1. w \in Goroutines /\ w # Startup /\ run \in [Goroutines -> Runs] /\ run[w] \in Runs /\ run[w].pc # "idle"
    BY CallsAreOthers DEF IInv, TypeOK, Goroutines, CommitTopic, DeleteTopic, At
  <1>2. phase \in Late
    BY <1>1, RunsLate DEF IInv
  <1>3. r \in Runs /\ r.pc = "subscribe" /\ r.t = run[w].t
    BY <1>1 DEF Runs
  <1>4. run[w].t \in Topics
    BY <1>1 DEF IInv, GoroutineInv, RunOK
  <1>5. RunOK(w, r) /\ RunOK(w, Idle) /\ Idle \in Runs /\ Idle.pc = "idle"
    BY <1>1, <1>3, <1>4, IdleIsRun DEF RunOK, Idle
  <1>6. run' = [run EXCEPT ![w] = Idle] \/ run' = [run EXCEPT ![w] = r]
    BY <1>1 DEF CommitTopic, DeleteTopic
  <1>7. PubSubTypeOK' /\ UNCHANGED <<subscribed, consumed, watchers, closed, stops, connected>>
    BY PubSubTypes DEF IInv, TypeOK, CommitTopic, DeleteTopic, pubsubVars
  <1>8. UNCHANGED <<cfg, phase, opened, crashed>> /\ calls' \in Nat /\ sender' \in Sendings
    BY DEF IInv, TypeOK, CommitTopic, DeleteTopic, Sendings
  <1>9. existing' \subseteq Topics /\ excused' \subseteq Topics
    BY <1>4 DEF IInv, TypeOK, CommitTopic, DeleteTopic, Shifted
  <1>10. r.pc \notin {"watch", "stop"} /\ Idle.pc \notin {"watch", "stop"}
    BY <1>3, <1>5
  <1> HIDE DEF r
  <1> QED
    BY <1>1, <1>2, <1>3, <1>5, <1>6, <1>7, <1>8, <1>9, <1>10, RunStepQuiet

(* What a subscription that is done, or has failed, leaves to goroutine g. *)
LEMMA SubscribedRun ==
    ASSUME IInv, NEW g \in Goroutines, run[g].pc \in {"subscribe", "watch"}, NEW ts \in SUBSET Topics,
           ts \subseteq run[g].todo \/ g # Startup, Subscribed(g, ts)
    PROVE  \E r \in Runs : RunOK(g, r) /\ r.pc \notin {"watch", "stop"} /\ run' = [run EXCEPT ![g] = r]
  <1>1. run \in [Goroutines -> Runs] /\ run[g] \in Runs
    BY DEF IInv, TypeOK
  <1>2. CASE g # Startup
    <2>1. Idle.pc = "idle"
      BY DEF Idle
    <2>2. run' = [run EXCEPT ![g] = Idle]
      BY <1>2 DEF Subscribed
    <2> QED
      BY <2>1, <2>2, IdleIsRun, IdleOK
  <1>3. CASE g = Startup
    <2> DEFINE q == [run[g] EXCEPT !.todo = run[g].todo \ ts,
                                   !.pc = IF run[g].todo = ts THEN "page" ELSE "subscribe"]
    <2>1. q \in Runs /\ q.todo = run[g].todo \ ts
          /\ q.pc = IF run[g].todo = ts THEN "page" ELSE "subscribe"
      BY <1>1 DEF Runs
    <2>2. run' = [run EXCEPT ![g] = q]
      BY <1>3 DEF Subscribed
    <2> HIDE DEF q
    <2>3. RunOK(g, q) /\ q.pc \notin {"watch", "stop"}
      BY <1>3, <2>1 DEF RunOK
    <2> QED
      BY <2>1, <2>2, <2>3
  <1> QED
    BY <1>2, <1>3

LEMMA NotSubscribedRun ==
    ASSUME IInv, NEW g \in Goroutines, NEW ts \in SUBSET Topics, NotSubscribed(g, ts)
    PROVE  /\ run' = [run EXCEPT ![g] = Idle]
           /\ excused' \subseteq Topics /\ sender' \in Sendings
  BY DEF IInv, TypeOK, NotSubscribed, StartupFails, Sendings

(* The topics a goroutine subscribes to.                                   *)
LEMMA TargetsAreTopics ==
    ASSUME IInv, NEW g \in Goroutines, run[g].pc \in {"subscribe", "watch"}
    PROVE  Targets(g) \in SUBSET Topics /\ (Targets(g) \subseteq run[g].todo \/ g # Startup)
  <1>1. run[g] \in Runs /\ RunOK(g, run[g])
    BY DEF IInv, TypeOK, GoroutineInv
  <1>2. CASE g # Startup
    BY <1>1, <1>2 DEF Targets, RunOK
  <1>3. CASE g = Startup
    <2>1. run[g].todo \in SUBSET Topics /\ run[g].todo # {}
      BY <1>1, <1>3 DEF Runs, RunOK
    <2>2. FirstOf(run[g].todo) \in run[g].todo
      BY <2>1, FirstIsMember
    <2> QED
      BY <1>3, <2>1, <2>2 DEF Targets
  <1> QED
    BY <1>2, <1>3

LEMMA SubscribeNothingOK ==
    ASSUME IInv, NEW g \in Goroutines, SubscribeNothing(g)
    PROVE  IInv'
  <1>1. run[g].pc = "subscribe"
    BY DEF SubscribeNothing, At
  <1>2. PICK r \in Runs : RunOK(g, r) /\ r.pc \notin {"watch", "stop"} /\ run' = [run EXCEPT ![g] = r]
    BY <1>1, TargetsAreTopics, SubscribedRun DEF SubscribeNothing
  <1>3. phase \in Late
    BY <1>1, RunsLate DEF IInv
  <1>4. PubSubTypeOK' /\ UNCHANGED <<subscribed, consumed, watchers, closed, stops, connected>>
    BY PubSubTypes DEF IInv, TypeOK, SubscribeNothing, pubsubVars
  <1>5. /\ UNCHANGED <<cfg, phase, opened, crashed>>
        /\ existing' \subseteq Topics /\ excused' \subseteq Topics
        /\ sender' \in Sendings /\ calls' \in Nat
    BY DEF IInv, TypeOK, SubscribeNothing, Sendings
  <1> QED
    BY <1>2, <1>3, <1>4, <1>5, RunStepQuiet

LEMMA SubscribeMQTTOK ==
    ASSUME IInv, NEW g \in Goroutines, SubscribeMQTT(g)
    PROVE  IInv'
  <1> DEFINE ts == Targets(g)
  <1>1. run[g].pc = "subscribe"
    BY DEF SubscribeMQTT, At
  <1>2. ts \in SUBSET Topics /\ (ts \subseteq run[g].todo \/ g # Startup)
    BY <1>1, TargetsAreTopics
  <1> HIDE DEF ts
  <1>3. /\ PubSubTypeOK'
        /\ UNCHANGED <<subscribed, consumed, watchers, closed, stops, connected>>
    <2>1. UNCHANGED pubsubVars \/ \E answer \in Answers : MQTTSubscribe(ts, answer)
      BY DEF SubscribeMQTT, ts
    <2> QED
      BY <1>2, <2>1, PubSubTypes DEF IInv, TypeOK, MQTTSubscribe, pubsubVars
  <1>4. (Subscribed(g, ts) /\ UNCHANGED <<excused, sender>>) \/ NotSubscribed(g, ts)
    BY DEF SubscribeMQTT, ts
  <1>5. /\ \E r \in Runs : RunOK(g, r) /\ r.pc \notin {"watch", "stop"} /\ run' = [run EXCEPT ![g] = r]
        /\ excused' \subseteq Topics /\ sender' \in Sendings
    <2>1. CASE Subscribed(g, ts) /\ UNCHANGED <<excused, sender>>
      BY <1>1, <1>2, <2>1, SubscribedRun DEF IInv, TypeOK, Sendings
    <2>2. CASE NotSubscribed(g, ts)
      BY <1>2, <2>2, NotSubscribedRun, IdleIsRun, IdleOK DEF Idle
    <2> QED
      BY <1>4, <2>1, <2>2
  <1>6. phase \in Late
    BY <1>1, RunsLate DEF IInv
  <1>7. /\ UNCHANGED <<cfg, phase, opened, crashed>>
        /\ existing' \subseteq Topics /\ calls' \in Nat
    BY DEF IInv, TypeOK, SubscribeMQTT
  <1> QED
    BY <1>3, <1>5, <1>6, <1>7, RunStepQuiet

LEMMA UnsubscribeMQTTOK ==
    ASSUME IInv, NEW w \in Calls, UnsubscribeMQTT(w)
    PROVE  IInv'
  <1> DEFINE r == [run[w] EXCEPT !.pc = "delete"]
  <1>1. w \in Goroutines /\ w # Startup /\ run \in [Goroutines -> Runs] /\ run[w] \in Runs /\ run[w].pc # "idle"
    BY CallsAreOthers DEF IInv, TypeOK, Goroutines, UnsubscribeMQTT, At
  <1>2. run[w].t \in Topics
    BY <1>1 DEF IInv, GoroutineInv, RunOK
  <1>3. r \in Runs /\ r.pc = "delete" /\ r.t = run[w].t
    BY <1>1 DEF Runs
  <1>4. RunOK(w, r) /\ r.pc \notin {"watch", "stop"}
    BY <1>1, <1>2, <1>3 DEF RunOK
  <1>5. run' = [run EXCEPT ![w] = r]
    BY <1>1 DEF UnsubscribeMQTT
  <1>6. PubSubTypeOK' /\ UNCHANGED <<subscribed, consumed, watchers, closed, stops, connected>>
    BY <1>2, PubSubTypes DEF IInv, TypeOK, UnsubscribeMQTT, MQTTUnsubscribe, pubsubVars
  <1>7. phase \in Late
    BY <1>1, RunsLate DEF IInv
  <1>8. /\ UNCHANGED <<cfg, phase, opened, crashed>>
        /\ existing' \subseteq Topics /\ excused' \subseteq Topics
        /\ sender' \in Sendings /\ calls' \in Nat
    BY DEF IInv, TypeOK, UnsubscribeMQTT, Sendings
  <1> HIDE DEF r
  <1> QED
    BY <1>1, <1>3, <1>4, <1>5, <1>6, <1>7, <1>8, RunStepQuiet

-----------------------------------------------------------------------------
(* Goroutines, where they change the Kafka client or are about to.         *)

LEMMA RunStep ==
    ASSUME IInv, PubSubTypeOK', UNCHANGED <<cfg, phase, opened, crashed, connected>>,
           stops' = stops \/ stops' = stops + 1,
           NEW g \in Goroutines, NEW r \in Runs, run' = [run EXCEPT ![g] = r], RunOK(g, r), phase \in Late,
           sender' \in Sendings, existing' \subseteq Topics, excused' \subseteq Topics, calls' \in Nat
    PROVE  /\ TypeOK' /\ PhaseInv' /\ GoroutineInv'
           /\ run'[g] = r /\ \A h \in Goroutines : h # g => run'[h] = run[h]
  <1>1. TypeOK'
    BY RunStepType DEF IInv
  <1>2. PhaseInv'
    BY RunStepPhase DEF IInv
  <1>3. GoroutineInv'
    BY RunStepGoroutines DEF IInv
  <1>4. run'[g] = r /\ \A h \in Goroutines : h # g => run'[h] = run[h]
    BY DEF IInv, TypeOK
  <1> QED
    BY <1>1, <1>2, <1>3, <1>4

(* A consumer is opened for a topic that has none: it has no watcher and   *)
(* no entry in the map, and nobody else is at it.                          *)
LEMMA ConsumeOK ==
    ASSUME IInv, NEW g \in Goroutines, run[g].pc = "subscribe", Kind = "kafka",
           CanConsume(Target(run[g], g)), ConsumePartition(Target(run[g], g)),
           run' = [run EXCEPT ![g].pc = "watch"],
           UNCHANGED <<excused, sender, cfg, phase, opened, existing, calls, crashed>>
    PROVE  IInv'
  <1> DEFINE r == [run[g] EXCEPT !.pc = "watch"]
             t == Target(run[g], g)
  <1>1. run \in [Goroutines -> Runs] /\ run[g] \in Runs /\ RunOK(g, run[g])
    BY DEF IInv, TypeOK, GoroutineInv
  <1>2. r \in Runs /\ r.pc = "watch" /\ r.t = run[g].t /\ r.todo = run[g].todo
    BY <1>1 DEF Runs
  <1>3. RunOK(g, r) /\ Target(r, g) = t
    BY <1>1, <1>2 DEF RunOK, Target
  <1>4. run' = [run EXCEPT ![g] = r]
    BY <1>1
  <1>5. t \in Topics
    BY OneTarget DEF IInv
  <1>6. PubSubTypeOK' /\ UNCHANGED <<subscribed, watchers, closed, stops, connected>>
        /\ consumed' = consumed \cup {t} /\ t \notin consumed
    BY <1>5, PubSubTypes DEF IInv, TypeOK, ConsumePartition, CanConsume
  <1>7. phase \in Late
    BY RunsLate DEF IInv
  <1>8. existing' \subseteq Topics /\ excused' \subseteq Topics /\ sender' \in Sendings /\ calls' \in Nat
    BY DEF IInv, TypeOK, Sendings
  <1> HIDE DEF r
  <1>9. /\ TypeOK' /\ PhaseInv' /\ GoroutineInv'
        /\ run'[g] = r /\ \A h \in Goroutines : h # g => run'[h] = run[h]
    BY <1>2, <1>3, <1>4, <1>6, <1>7, <1>8, RunStep
  <1> HIDE DEF t
  <1>10. EntryInv' /\ WatcherInv'
    BY <1>6 DEF IInv, KafkaInv, EntryInv, WatcherInv
  <1>11. /\ subscribed[t].stop = 0
         /\ \A w \in watchers : w.topic # t
         /\ \A h \in Goroutines : run[h].pc = "watch" => Target(run[h], h) # t
    BY <1>5, <1>6 DEF IInv, KafkaInv, EntryInv, WatcherInv, WatchInv
  <1>12. WatchInv'
    <2> SUFFICES ASSUME NEW h \in Goroutines, run'[h].pc = "watch"
                 PROVE  LET u == Target(run'[h], h) IN
                        /\ u \in consumed' /\ subscribed[u].stop = 0
                        /\ \A w \in watchers : w.topic # u
                        /\ \A i \in Goroutines : i # h /\ run'[i].pc = "watch" => Target(run'[i], i) # u
      BY <1>6 DEF WatchInv
    <2>1. Target(run'[g], g) = t
      BY <1>3, <1>9
    <2>2. CASE h = g
      BY <1>6, <1>9, <1>11, <2>1, <2>2
    <2>3. CASE h # g
      BY <1>6, <1>9, <1>11, <2>1, <2>3 DEF IInv, KafkaInv, WatchInv
    <2> QED
      BY <2>2, <2>3
  <1>13. StopInv'
    BY <1>2, <1>6, <1>9, CallsAreOthers DEF IInv, KafkaInv, StopInv, Goroutines
  <1>14. EveryWatcherCanBeStopped' /\ NoTopicIsWatchedTwice' /\ StartupSubscriptionsAreWatched'
    BY <1>6 DEF IInv, KafkaInv, EveryWatcherCanBeStopped, NoTopicIsWatchedTwice,
                StartupSubscriptionsAreWatched, Watcher, Main
  <1> QED
    BY <1>9, <1>10, <1>12, <1>13, <1>14 DEF IInv, KafkaInv

LEMMA SubscribeKafkaOK ==
    ASSUME IInv, NEW g \in Goroutines, SubscribeKafka(g)
    PROVE  IInv'
  <1> DEFINE ts == Targets(g)
             t == Target(run[g], g)
  <1>1. run[g].pc = "subscribe" /\ Kind = "kafka"
    BY DEF SubscribeKafka, At
  <1>2. ts = {t} /\ FirstOf(ts) = t /\ t \in Topics
    BY <1>1, OneTarget DEF IInv
  <1>3. CASE Ends("nil consumer")
    BY <1>3, EndsOK
  <1>4. CASE /\ NotSubscribed(g, ts)
             /\ UNCHANGED <<cfg, phase, opened, existing, calls, crashed, pubsubVars>>
    <2>1. ts \in SUBSET Topics
      BY <1>2
    <2> HIDE DEF ts
    <2>2. run' = [run EXCEPT ![g] = Idle] /\ excused' \subseteq Topics /\ sender' \in Sendings
      BY <1>4, <2>1, NotSubscribedRun
    <2>3. PubSubTypeOK' /\ UNCHANGED <<subscribed, consumed, watchers, closed, stops, connected>>
      BY <1>4, PubSubTypes DEF IInv, TypeOK, pubsubVars
    <2>4. existing' \subseteq Topics /\ calls' \in Nat /\ phase \in Late
      BY <1>1, <1>4, RunsLate DEF IInv, TypeOK
    <2>5. Idle \in Runs /\ RunOK(g, Idle) /\ Idle.pc \notin {"watch", "stop"}
      BY IdleIsRun, IdleOK DEF Idle
    <2> QED
      BY <1>4, <2>2, <2>3, <2>4, <2>5, RunStepQuiet
  <1>5. CASE /\ \A u \in ts : CanConsume(u)
             /\ ConsumePartition(FirstOf(ts))
             /\ run' = [run EXCEPT ![g].pc = "watch"]
             /\ UNCHANGED <<excused, sender, cfg, phase, opened, existing, calls, crashed>>
    BY <1>1, <1>2, <1>5, ConsumeOK
  <1> QED
    BY <1>3, <1>4, <1>5 DEF SubscribeKafka

(* The watcher starts, under a channel that is new.                        *)
LEMMA WatchOK ==
    ASSUME IInv, NEW g \in Goroutines, run[g].pc = "watch",
           Watch(FirstOf(Targets(g)), Context(g)), Subscribed(g, Targets(g)),
           UNCHANGED <<cfg, phase, opened, sender, existing, excused, calls, crashed>>
    PROVE  IInv'
  <1> DEFINE t == Target(run[g], g)
             ctx == Context(g)
             entry == [stop |-> stops + 1, ctx |-> ctx]
  <1>1. Kind = "kafka"
    BY DEF IInv, GoroutineInv, RunOK
  <1>2. Targets(g) = {t} /\ FirstOf(Targets(g)) = t /\ t \in Topics
    BY <1>1, OneTarget DEF IInv
  <1>3. ctx \in Nat
    BY CallsAreOthers DEF Context, Goroutines, Main
  <1> HIDE DEF t, ctx
  <1>4. stops \in Nat /\ subscribed \in [Topics -> Entries] /\ closed \subseteq 1..stops
        /\ \A u \in Topics : subscribed[u].stop \in 0..stops
    BY DEF IInv, TypeOK, PubSubTypeOK, Entries
  <1>5. /\ PubSubTypeOK'
        /\ subscribed' = [subscribed EXCEPT ![t] = entry]
        /\ watchers' = watchers \cup {Watcher(t, entry)}
        /\ stops' = stops + 1 /\ UNCHANGED <<connected, consumed, closed>>
    BY <1>2, <1>3, WatchType DEF IInv, TypeOK, Watch, ctx
  <1>6. PICK r \in Runs : RunOK(g, r) /\ r.pc \notin {"watch", "stop"} /\ run' = [run EXCEPT ![g] = r]
    BY TargetsAreTopics, SubscribedRun
  <1>7. phase \in Late /\ existing' \subseteq Topics /\ excused' \subseteq Topics
        /\ sender' \in Sendings /\ calls' \in Nat
    BY RunsLate DEF IInv, TypeOK, Sendings
  <1>8. /\ TypeOK' /\ PhaseInv' /\ GoroutineInv'
        /\ run'[g] = r /\ \A h \in Goroutines : h # g => run'[h] = run[h]
    BY <1>5, <1>6, <1>7, RunStep
  <1>9. /\ t \in consumed /\ subscribed[t].stop = 0
        /\ \A w \in watchers : w.topic # t
        /\ \A h \in Goroutines : h # g /\ run[h].pc = "watch" => Target(run[h], h) # t
    BY DEF IInv, KafkaInv, WatchInv, t
  <1>10. /\ subscribed'[t] = entry /\ entry.stop = stops + 1 /\ entry.ctx = ctx
         /\ \A u \in Topics : u # t => subscribed'[u] = subscribed[u]
         /\ Watcher(t, entry).topic = t /\ Watcher(t, entry).stop = stops + 1
    BY <1>2, <1>4, <1>5 DEF Watcher
  <1>11. stops + 1 \notin closed /\ stops + 1 # 0 /\ \A u \in Topics : subscribed[u].stop # stops + 1
    BY <1>4
  <1>12. \A w \in watchers : w.topic \in Topics
    BY DEF IInv, TypeOK, PubSubTypeOK
  <1> HIDE DEF entry
  <1>13. EntryInv'
    BY <1>5, <1>9, <1>10, <1>11 DEF IInv, KafkaInv, EntryInv
  <1>14. WatcherInv'
    BY <1>2, <1>5, <1>9, <1>10, <1>12 DEF IInv, KafkaInv, WatcherInv
  <1>15. WatchInv'
    <2> SUFFICES ASSUME NEW h \in Goroutines, run'[h].pc = "watch"
                 PROVE  LET u == Target(run'[h], h) IN
                        /\ u \in consumed /\ subscribed'[u].stop = 0
                        /\ \A w \in watchers' : w.topic # u
                        /\ \A i \in Goroutines : i # h /\ run'[i].pc = "watch" => Target(run'[i], i) # u
      BY <1>5 DEF WatchInv
    <2> DEFINE u == Target(run[h], h)
    <2>1. h # g /\ run'[h] = run[h]
      BY <1>6, <1>8
    <2>2. u \in Topics /\ u # t
      BY <1>1, <1>9, <2>1, OneTarget DEF IInv
    <2>3. u \in consumed /\ subscribed[u].stop = 0 /\ (\A w \in watchers : w.topic # u)
          /\ \A i \in Goroutines : i # h /\ run[i].pc = "watch" => Target(run[i], i) # u
      BY <2>1 DEF IInv, KafkaInv, WatchInv
    <2> HIDE DEF u
    <2>4. subscribed'[u].stop = 0 /\ \A w \in watchers' : w.topic # u
      BY <1>5, <1>10, <2>2, <2>3
    <2>5. \A i \in Goroutines : i # h /\ run'[i].pc = "watch" => Target(run'[i], i) # u
      BY <1>6, <1>8, <2>3
    <2> QED
      BY <2>1, <2>3, <2>4, <2>5 DEF u
  <1>16. StopInv'
    <2> SUFFICES ASSUME NEW c \in Calls, run'[c].pc = "stop"
                 PROVE  subscribed'[run'[c].t].stop = run'[c].stop \/ (run'[c].raced /\ run'[c].stop \in closed)
      BY <1>5 DEF StopInv
    <2>1. c \in Goroutines /\ c # Startup /\ run'[c] = run[c]
      BY <1>6, <1>8, CallsAreOthers DEF Goroutines
    <2>2. run[c].t \in Topics /\ run[c].stop \in 1..stops
      BY <2>1 DEF IInv, GoroutineInv, RunOK
    <2>3. run[c].stop # 0
      BY <1>4, <2>2
    <2>4. subscribed[run[c].t].stop = run[c].stop \/ (run[c].raced /\ run[c].stop \in closed)
      BY <2>1 DEF IInv, KafkaInv, StopInv
    <2> QED
      BY <1>9, <1>10, <2>1, <2>2, <2>3, <2>4
  <1>17. EveryWatcherCanBeStopped'
    BY <1>2, <1>5, <1>9, <1>10, <1>12 DEF IInv, KafkaInv, EveryWatcherCanBeStopped
  <1>18. NoTopicIsWatchedTwice'
    BY <1>5, <1>9, <1>10 DEF IInv, KafkaInv, NoTopicIsWatchedTwice
  <1>19. StartupSubscriptionsAreWatched'
    <2> SUFFICES ASSUME NEW u \in Topics, subscribed'[u].stop # 0, subscribed'[u].ctx = Main
                 PROVE  Watcher(u, subscribed'[u]) \in watchers'
      BY DEF StartupSubscriptionsAreWatched
    <2>1. CASE u = t
      BY <1>5, <1>10, <2>1
    <2>2. CASE u # t
      BY <1>5, <1>10, <2>2 DEF IInv, KafkaInv, StartupSubscriptionsAreWatched
    <2> QED
      BY <2>1, <2>2
  <1> QED
    BY <1>8, <1>13, <1>14, <1>15, <1>16, <1>17, <1>18, <1>19 DEF IInv, KafkaInv

LEMMA WatchKafkaOK ==
    ASSUME IInv, NEW g \in Goroutines, WatchKafka(g)
    PROVE  IInv'
  <1>1. run[g].pc = "watch"
    BY DEF WatchKafka, At
  <1> QED
    BY <1>1, WatchOK, EndsOK DEF WatchKafka

LEMMA UnsubscribeKafkaOK ==
    ASSUME IInv, NEW w \in Calls, UnsubscribeKafka(w)
    PROVE  IInv'
  <1> DEFINE t == run[w].t
             stop == subscribed[t].stop
             r == [run[w] EXCEPT !.pc = IF stop = 0 THEN "delete" ELSE "stop", !.stop = stop]
  <1>1. w \in Goroutines /\ w # Startup /\ run \in [Goroutines -> Runs] /\ run[w] \in Runs
        /\ run[w].pc = "unsubscribe"
    BY CallsAreOthers DEF IInv, TypeOK, Goroutines, UnsubscribeKafka, At
  <1>2. t \in Topics
    BY <1>1 DEF IInv, GoroutineInv, RunOK
  <1>3. run' = [run EXCEPT ![w] = r]
    BY <1>1 DEF UnsubscribeKafka
  <1>4. stop \in 0..stops /\ stops \in Nat
    BY <1>2 DEF IInv, TypeOK, PubSubTypeOK, Entries
  <1> HIDE DEF t
  <1>5. stop \in Nat /\ (stop # 0 => stop \in 1..stops)
    BY <1>4
  <1> HIDE DEF stop
  <1>6. r \in Runs /\ r.t = t /\ r.stop = stop /\ r.pc = IF stop = 0 THEN "delete" ELSE "stop"
    BY <1>1, <1>5 DEF Runs, t
  <1> HIDE DEF r
  <1>7. RunOK(w, r)
    BY <1>1, <1>2, <1>5, <1>6 DEF RunOK, UnsubscribeKafka
  <1>8. PubSubTypeOK' /\ UNCHANGED <<subscribed, consumed, watchers, closed, stops, connected>>
    BY PubSubTypes DEF IInv, TypeOK, UnsubscribeKafka, pubsubVars
  <1>9. /\ UNCHANGED <<cfg, phase, opened, crashed>> /\ phase \in Late
        /\ existing' \subseteq Topics /\ excused' \subseteq Topics
        /\ sender' \in Sendings /\ calls' \in Nat
    BY <1>1, RunsLate DEF IInv, TypeOK, UnsubscribeKafka, Sendings
  <1>10. /\ TypeOK' /\ PhaseInv' /\ GoroutineInv'
         /\ run'[w] = r /\ \A h \in Goroutines : h # w => run'[h] = run[h]
    BY <1>1, <1>3, <1>6, <1>7, <1>8, <1>9, RunStep
  <1>11. EntryInv' /\ WatcherInv'
    BY <1>8 DEF IInv, KafkaInv, EntryInv, WatcherInv
  <1>12. WatchInv'
    BY <1>6, <1>8, <1>10 DEF IInv, KafkaInv, WatchInv, Target
  <1>13. StopInv'
    <2> SUFFICES ASSUME NEW c \in Calls, run'[c].pc = "stop"
                 PROVE  subscribed[run'[c].t].stop = run'[c].stop \/ (run'[c].raced /\ run'[c].stop \in closed)
      BY <1>8 DEF StopInv
    <2>1. CASE c = w
      BY <1>6, <1>10, <2>1 DEF stop
    <2>2. CASE c # w
      BY <1>10, <2>2, CallsAreOthers DEF IInv, KafkaInv, StopInv, Goroutines
    <2> QED
      BY <2>1, <2>2
  <1>14. EveryWatcherCanBeStopped' /\ NoTopicIsWatchedTwice' /\ StartupSubscriptionsAreWatched'
    BY <1>8 DEF IInv, KafkaInv, EveryWatcherCanBeStopped, NoTopicIsWatchedTwice,
                StartupSubscriptionsAreWatched, Watcher, Main
  <1> QED
    BY <1>10, <1>11, <1>12, <1>13, <1>14 DEF IInv, KafkaInv

(* A race changes the ghost alone.                                         *)
LEMMA RaceOK ==
    ASSUME NEW r \in [Goroutines -> Runs], NEW g, NEW ts
    PROVE  /\ Race(r, g, ts) \in [Goroutines -> Runs]
           /\ \A h \in Goroutines :
                LET q == Race(r, g, ts)[h] IN
                /\ q.pc = r[h].pc /\ q.t = r[h].t /\ q.stop = r[h].stop /\ q.todo = r[h].todo
                /\ r[h].raced => q.raced
                /\ h # g /\ r[h].pc = "stop" /\ r[h].t \in ts => q.raced
  <1>1. ASSUME NEW h \in Goroutines
        PROVE  LET q == Race(r, g, ts)[h] IN
               /\ q \in Runs
               /\ q.pc = r[h].pc /\ q.t = r[h].t /\ q.stop = r[h].stop /\ q.todo = r[h].todo
               /\ r[h].raced => q.raced
               /\ h # g /\ r[h].pc = "stop" /\ r[h].t \in ts => q.raced
    <2> DEFINE n == [r[h] EXCEPT !.raced = TRUE]
    <2>1. /\ n \in Runs /\ n.raced = TRUE
          /\ n.pc = r[h].pc /\ n.t = r[h].t /\ n.stop = r[h].stop /\ n.todo = r[h].todo
      BY DEF Runs
    <2>2. Race(r, g, ts)[h] = IF h # g /\ r[h].pc = "stop" /\ r[h].t \in ts THEN n ELSE r[h]
      BY DEF Race
    <2> HIDE DEF n
    <2> QED
      BY <2>1, <2>2
  <1> QED
    BY <1>1 DEF Race

(* Where only races happen, goroutines stay where they are.                *)
LEMMA SameGoroutines ==
    ASSUME GoroutineInv, UNCHANGED <<cfg, stops>>,
           \A h \in Goroutines : /\ run'[h].pc = run[h].pc /\ run'[h].t = run[h].t
                                 /\ run'[h].stop = run[h].stop /\ run'[h].todo = run[h].todo
    PROVE  GoroutineInv'
  BY DEF GoroutineInv, RunOK, Kind

(* The channel closed is that of the topic; whoever else has it in hand    *)
(* has been raced.                                                         *)
LEMMA StopOK ==
    ASSUME IInv, NEW w \in Calls, run[w].pc = "stop", run[w].stop \notin closed,
           StopWatching(run[w].t, run[w].stop),
           run' = Race([run EXCEPT ![w] = [run[w] EXCEPT !.pc = "delete", !.stop = 0, !.raced = FALSE]],
                       w, {run[w].t}),
           UNCHANGED <<cfg, phase, opened, sender, existing, excused, calls, crashed>>
    PROVE  IInv'
  <1> DEFINE t == run[w].t
             stop == run[w].stop
             n == [run[w] EXCEPT !.pc = "delete", !.stop = 0, !.raced = FALSE]
             rs == [run EXCEPT ![w] = n]
  <1>1. w \in Goroutines /\ w # Startup /\ run \in [Goroutines -> Runs] /\ run[w] \in Runs
    BY CallsAreOthers DEF IInv, TypeOK, Goroutines
  <1>2. t \in Topics /\ stop \in 1..stops /\ stops \in Nat
    BY <1>1 DEF IInv, GoroutineInv, RunOK, TypeOK, PubSubTypeOK
  <1>3. subscribed[t].stop = stop
    BY DEF IInv, KafkaInv, StopInv
  <1>4. n \in Runs /\ n.pc = "delete" /\ n.t = t
    BY <1>1 DEF Runs
  <1>5. run' = Race(rs, w, {t})
    OBVIOUS
  <1>6. /\ PubSubTypeOK'
        /\ UNCHANGED <<connected, brokerSubs, consumed, watchers, stops>>
        /\ subscribed' = [subscribed EXCEPT ![t] = NoEntry] /\ closed' = closed \cup {stop}
    BY <1>2, StopWatchingType DEF IInv, TypeOK, StopWatching
  <1> HIDE DEF n, t, stop
  <1>7. rs \in [Goroutines -> Runs] /\ rs[w] = n /\ \A h \in Goroutines : h # w => rs[h] = run[h]
    BY <1>1, <1>4
  <1> HIDE DEF rs
  <1>8. /\ run' \in [Goroutines -> Runs] /\ run'[w].pc = "delete" /\ run'[w].t = t
        /\ \A h \in Goroutines : h # w =>
             /\ run'[h].pc = run[h].pc /\ run'[h].t = run[h].t
             /\ run'[h].stop = run[h].stop /\ run'[h].todo = run[h].todo
             /\ run[h].raced => run'[h].raced
             /\ run[h].pc = "stop" /\ run[h].t = t => run'[h].raced
    <2>1. /\ run' \in [Goroutines -> Runs]
          /\ \A h \in Goroutines :
               /\ run'[h].pc = rs[h].pc /\ run'[h].t = rs[h].t
               /\ run'[h].stop = rs[h].stop /\ run'[h].todo = rs[h].todo
               /\ rs[h].raced => run'[h].raced
               /\ h # w /\ rs[h].pc = "stop" /\ rs[h].t \in {t} => run'[h].raced
      <3>1. rs \in [Goroutines -> Runs]
        BY <1>7
      <3>2. /\ Race(rs, w, {t}) \in [Goroutines -> Runs]
            /\ \A h \in Goroutines :
                 LET q == Race(rs, w, {t})[h] IN
                 /\ q.pc = rs[h].pc /\ q.t = rs[h].t /\ q.stop = rs[h].stop /\ q.todo = rs[h].todo
                 /\ rs[h].raced => q.raced
                 /\ h # w /\ rs[h].pc = "stop" /\ rs[h].t \in {t} => q.raced
        BY <3>1, RaceOK, Zenon
      <3> QED
        BY <1>5, <3>2, Zenon
    <2>2. run'[w].pc = "delete" /\ run'[w].t = t
      BY <1>1, <1>4, <1>7, <2>1
    <2>3. ASSUME NEW h \in Goroutines, h # w
          PROVE  /\ run'[h].pc = run[h].pc /\ run'[h].t = run[h].t
                 /\ run'[h].stop = run[h].stop /\ run'[h].todo = run[h].todo
                 /\ run[h].raced => run'[h].raced
                 /\ run[h].pc = "stop" /\ run[h].t = t => run'[h].raced
      <3>1. rs[h] = run[h]
        BY <1>7, <2>3
      <3> QED
        BY <2>1, <2>3, <3>1, Zenon
    <2> QED
      BY <2>1, <2>2, <2>3
  <1>9. stop # 0
    BY <1>2
  <1>10. subscribed'[t].stop = 0 /\ \A u \in Topics : u # t => subscribed'[u] = subscribed[u]
    BY <1>2, <1>6 DEF IInv, TypeOK, PubSubTypeOK, NoEntry
  <1>11. TypeOK'
    BY <1>6, <1>8 DEF IInv, TypeOK
  <1>12. PhaseInv'
    <2>1. phase \in Late
      BY <1>1, RunsLate DEF IInv
    <2> QED
      BY <1>6, <2>1, RunStepPhase DEF IInv
  <1>13. GoroutineInv'
    BY <1>1, <1>2, <1>6, <1>8, ZenonT(60) DEF IInv, GoroutineInv, RunOK, Kind
  <1>14. EntryInv'
    BY <1>2, <1>3, <1>6, <1>9, <1>10 DEF IInv, KafkaInv, EntryInv
  <1>15. \A v \in watchers : v.topic \in Topics
    BY DEF IInv, TypeOK, PubSubTypeOK
  <1>16. WatcherInv'
    BY <1>6, <1>10, <1>15 DEF IInv, KafkaInv, WatcherInv
  <1>17. WatchInv'
    <2> SUFFICES ASSUME NEW h \in Goroutines, run'[h].pc = "watch"
                 PROVE  LET u == Target(run'[h], h) IN
                        /\ u \in consumed /\ subscribed'[u].stop = 0
                        /\ \A v \in watchers : v.topic # u
                        /\ \A i \in Goroutines : i # h /\ run'[i].pc = "watch" => Target(run'[i], i) # u
      BY <1>6 DEF WatchInv
    <2>1. \A i \in Goroutines : run'[i].pc = "watch" => run[i].pc = "watch" /\ Target(run'[i], i) = Target(run[i], i)
      BY <1>8 DEF Target
    <2> DEFINE u == Target(run[h], h)
    <2>2. u \in consumed /\ subscribed[u].stop = 0
          /\ (\A v \in watchers : v.topic # u)
          /\ \A i \in Goroutines : i # h /\ run[i].pc = "watch" => Target(run[i], i) # u
      BY <2>1 DEF IInv, KafkaInv, WatchInv
    <2>3. u \in Topics
      BY <2>2 DEF IInv, TypeOK, PubSubTypeOK
    <2> HIDE DEF u
    <2>4. subscribed'[u].stop = 0
      BY <1>10, <2>2, <2>3
    <2> QED
      BY <2>1, <2>2, <2>4 DEF u
  <1>18. StopInv'
    <2> SUFFICES ASSUME NEW c \in Calls, run'[c].pc = "stop"
                 PROVE  \/ subscribed'[run'[c].t].stop = run'[c].stop
                        \/ run'[c].raced /\ run'[c].stop \in closed'
      BY DEF StopInv
    <2>1. c \in Goroutines /\ c # Startup /\ c # w /\ run[c].pc = "stop"
      BY <1>8, CallsAreOthers DEF Goroutines
    <2>2. run[c].t \in Topics
      BY <2>1 DEF IInv, GoroutineInv, RunOK
    <2>3. \/ subscribed[run[c].t].stop = run[c].stop
          \/ run[c].raced /\ run[c].stop \in closed
      BY <2>1 DEF IInv, KafkaInv, StopInv
    <2>4. CASE run[c].t = t
      <3>1. run'[c].raced /\ run'[c].stop = run[c].stop
        BY <1>8, <2>1, <2>4
      <3>2. run[c].stop \in closed'
        BY <1>3, <1>6, <2>3, <2>4
      <3> QED
        BY <3>1, <3>2
    <2>5. CASE run[c].t # t
      <3>1. subscribed'[run[c].t] = subscribed[run[c].t]
        BY <1>10, <2>2, <2>5
      <3>2. run'[c].t = run[c].t /\ run'[c].stop = run[c].stop /\ (run[c].raced => run'[c].raced)
        BY <1>8, <2>1, Zenon
      <3>3. closed \subseteq closed'
        BY <1>6
      <3> QED
        BY <2>3, <3>1, <3>2, <3>3, Zenon
    <2> QED
      BY <2>4, <2>5
  <1>19. EveryWatcherCanBeStopped'
    BY <1>3, <1>6, <1>10, <1>15 DEF IInv, KafkaInv, EveryWatcherCanBeStopped
  <1>20. NoTopicIsWatchedTwice'
    BY <1>6 DEF IInv, KafkaInv, NoTopicIsWatchedTwice
  <1>21. StartupSubscriptionsAreWatched'
    BY <1>6, <1>10 DEF IInv, KafkaInv, StartupSubscriptionsAreWatched, Watcher, Main
  <1> QED
    BY <1>11, <1>12, <1>13, <1>14, <1>16, <1>17, <1>18, <1>19, <1>20, <1>21 DEF IInv, KafkaInv

LEMMA StopKafkaOK ==
    ASSUME IInv, NEW w \in Calls, StopKafka(w)
    PROVE  IInv'
  <1>1. run[w].pc = "stop"
    BY DEF StopKafka, At
  <1> QED
    BY <1>1, StopOK, EndsOK DEF StopKafka

-----------------------------------------------------------------------------
(* Disconnect.                                                             *)

(* Whoever has a channel in hand finds it closed.                          *)
LEMMA KafkaDisconnectOK ==
    ASSUME IInv, KafkaDisconnect("ok"), run' = Race(run, Startup, Topics),
           phase = "disconnect", phase' = "exit",
           UNCHANGED <<cfg, opened, sender, existing, excused, calls, crashed>>
    PROVE  IInv'
  <1>1. /\ PubSubTypeOK' /\ connected' = FALSE
        /\ UNCHANGED <<brokerSubs, consumed, watchers, stops>>
        /\ closed' = closed \cup ({subscribed[t].stop : t \in Topics} \ {0})
        /\ \A t \in Topics : subscribed'[t] = NoEntry /\ subscribed'[t].stop = 0
    <2>1. PubSubTypeOK'
      BY KafkaDisconnectType DEF IInv, TypeOK
    <2>2. NoEntry.stop = 0
      BY DEF NoEntry
    <2> QED
      BY <2>1, <2>2 DEF KafkaDisconnect
  <1>2. run \in [Goroutines -> Runs]
    BY DEF IInv, TypeOK
  <1>3. /\ Race(run, Startup, Topics) \in [Goroutines -> Runs]
        /\ \A h \in Goroutines :
             LET q == Race(run, Startup, Topics)[h] IN
             /\ q.pc = run[h].pc /\ q.t = run[h].t /\ q.stop = run[h].stop /\ q.todo = run[h].todo
             /\ run[h].raced => q.raced
             /\ h # Startup /\ run[h].pc = "stop" /\ run[h].t \in Topics => q.raced
    BY <1>2, RaceOK, Zenon
  <1>4. /\ run' \in [Goroutines -> Runs]
        /\ \A h \in Goroutines :
             /\ run'[h].pc = run[h].pc /\ run'[h].t = run[h].t
             /\ run'[h].stop = run[h].stop /\ run'[h].todo = run[h].todo
             /\ h # Startup /\ run[h].pc = "stop" /\ run[h].t \in Topics => run'[h].raced
    BY <1>3, Zenon
  <1>5. TypeOK'
    BY <1>1, <1>4 DEF IInv, TypeOK, Phases
  <1>6. PhaseInv'
    BY DEF IInv, PhaseInv, Early
  <1>7. GoroutineInv'
    BY <1>1, <1>4, SameGoroutines DEF IInv
  <1>8. EntryInv'
    BY <1>1 DEF EntryInv
  <1>9. \A w \in watchers : w.topic \in Topics /\ w.stop # 0
    <2>1. watchers \subseteq [topic : Topics, stop : 1..stops, ctx : Nat] /\ stops \in Nat
      BY DEF IInv, TypeOK, PubSubTypeOK
    <2>2. \A w \in watchers : w.topic \in Topics /\ w.stop \in 1..stops
      BY <2>1
    <2> QED
      BY <2>1, <2>2
  <1>10. WatcherInv'
    BY <1>1, <1>9 DEF IInv, KafkaInv, WatcherInv
  <1>11. WatchInv'
    <2> SUFFICES ASSUME NEW h \in Goroutines, run'[h].pc = "watch"
                 PROVE  LET u == Target(run'[h], h) IN
                        /\ u \in consumed /\ subscribed'[u].stop = 0
                        /\ \A v \in watchers : v.topic # u
                        /\ \A i \in Goroutines : i # h /\ run'[i].pc = "watch" => Target(run'[i], i) # u
      BY <1>1 DEF WatchInv
    <2>1. \A i \in Goroutines : run'[i].pc = run[i].pc /\ Target(run'[i], i) = Target(run[i], i)
      BY <1>4 DEF Target
    <2> DEFINE u == Target(run[h], h)
    <2>2. u \in consumed
          /\ (\A v \in watchers : v.topic # u)
          /\ \A i \in Goroutines : i # h /\ run[i].pc = "watch" => Target(run[i], i) # u
      BY <2>1 DEF IInv, KafkaInv, WatchInv
    <2>3. u \in Topics
      BY <2>2 DEF IInv, TypeOK, PubSubTypeOK
    <2> HIDE DEF u
    <2>4. subscribed'[u].stop = 0
      BY <1>1, <2>3
    <2> QED
      BY <2>1, <2>2, <2>4 DEF u
  <1>12. StopInv'
    <2> SUFFICES ASSUME NEW c \in Calls, run'[c].pc = "stop"
                 PROVE  run'[c].raced /\ run'[c].stop \in closed'
      BY DEF StopInv
    <2>1. c \in Goroutines /\ c # Startup /\ run[c].pc = "stop" /\ run'[c].stop = run[c].stop
      BY <1>4, CallsAreOthers DEF Goroutines
    <2>2. run[c].t \in Topics /\ run[c].stop \in 1..stops /\ stops \in Nat
      BY <2>1 DEF IInv, GoroutineInv, RunOK, TypeOK, PubSubTypeOK
    <2>3. run'[c].raced
      BY <1>4, <2>1, <2>2, Zenon
    <2>4. subscribed[run[c].t].stop = run[c].stop \/ run[c].stop \in closed
      BY <2>1 DEF IInv, KafkaInv, StopInv
    <2>5. run[c].stop # 0
      BY <2>2
    <2>6. run[c].stop \in closed'
      BY <1>1, <2>2, <2>4, <2>5
    <2> QED
      BY <2>1, <2>3, <2>6
  <1>13. EveryWatcherCanBeStopped'
    BY <1>1, <1>9 DEF IInv, KafkaInv, EveryWatcherCanBeStopped
  <1>14. NoTopicIsWatchedTwice'
    BY <1>1 DEF IInv, KafkaInv, NoTopicIsWatchedTwice
  <1>15. StartupSubscriptionsAreWatched'
    BY <1>1 DEF StartupSubscriptionsAreWatched
  <1> QED
    BY <1>5, <1>6, <1>7, <1>8, <1>10, <1>11, <1>12, <1>13, <1>14, <1>15 DEF IInv, KafkaInv

LEMMA DisconnectOK ==
    ASSUME IInv, Disconnect
    PROVE  IInv'
  <1>1. CASE /\ KafkaDisconnect("ok")
             /\ run' = Race(run, Startup, Topics)
    BY <1>1, KafkaDisconnectOK DEF Disconnect
  <1>2. CASE /\ UNCHANGED <<run, subscribed, consumed, watchers, closed, stops>>
             /\ PubSubTypeOK' /\ (connected' = FALSE \/ UNCHANGED connected)
    <2>1. TypeOK'
      BY <1>2 DEF IInv, TypeOK, Disconnect, Phases
    <2>2. PhaseInv'
      BY DEF IInv, PhaseInv, Disconnect, Early
    <2>3. GoroutineInv'
      BY <1>2 DEF IInv, GoroutineInv, RunOK, Kind, Disconnect
    <2>4. KafkaInv'
      BY <1>2, Quiet DEF IInv
    <2> QED
      BY <2>1, <2>2, <2>3, <2>4 DEF IInv
  <1>3. ASSUME NEW answer \in Answers \ {"late"}, KafkaDisconnect(answer), answer # "ok", run' = run
        PROVE  /\ UNCHANGED <<run, subscribed, consumed, watchers, closed, stops, connected>>
               /\ PubSubTypeOK'
    BY <1>3, KafkaDisconnectType DEF IInv, TypeOK, KafkaDisconnect
  <1>4. ASSUME MQTTDisconnect \/ GCPDisconnect, run' = run
        PROVE  /\ UNCHANGED <<run, subscribed, consumed, watchers, closed, stops>>
               /\ PubSubTypeOK' /\ connected' = FALSE
    BY <1>4, PubSubTypes DEF IInv, TypeOK, MQTTDisconnect, GCPDisconnect
  <1>5. \/ (MQTTDisconnect \/ GCPDisconnect) /\ run' = run
        \/ \E answer \in Answers \ {"late"} :
              /\ KafkaDisconnect(answer)
              /\ run' = IF answer = "ok" THEN Race(run, Startup, Topics) ELSE run
    <2>1. Kind # "none"
      BY DEF IInv, PhaseInv, Disconnect, Kind
    <2>2. Kind \in {"mqtt", "kafka", "gcp"}
      BY <2>1 DEF Kind, PubSubKind
    <2> QED
      BY <2>2 DEF Disconnect
  <1> QED
    BY <1>1, <1>2, <1>3, <1>4, <1>5

-----------------------------------------------------------------------------
(* Watchers, and messages.                                                 *)

LEMMA WatcherEndsOK ==
    ASSUME IInv, WatcherEnds
    PROVE  IInv'
  <1>1. UNCHANGED <<cfg, phase, opened, sender, existing, run, excused, calls, crashed>>
        /\ UNCHANGED <<connected, brokerSubs, subscribed, closed, stops>>
    BY DEF WatcherEnds, WatcherStops, WatcherCancelled
  <1>2. PubSubTypeOK'
    BY PubSubTypes DEF IInv, TypeOK, WatcherEnds
  <1>3. TypeOK'
    BY <1>1, <1>2 DEF IInv, TypeOK
  <1>4. watchers' \subseteq watchers /\ consumed' \subseteq consumed
    BY DEF WatcherEnds, WatcherStops, WatcherCancelled
  <1>5. PhaseInv'
    BY <1>1, <1>4 DEF IInv, PhaseInv, Early
  <1>6. GoroutineInv'
    BY <1>1 DEF IInv, GoroutineInv, RunOK, Kind
  <1>7. \A t \in Topics : subscribed[t] \in Entries
    BY DEF IInv, TypeOK, PubSubTypeOK
  <1>8. KafkaInv'
    <2>1. PICK w \in watchers : /\ watchers' = watchers \ {w}
                                /\ \/ w.stop \in closed /\ consumed' = consumed \ {w.topic}
                                   \/ w.ctx \in DoneContexts /\ consumed' = consumed
      BY DEF WatcherEnds, WatcherStops, WatcherCancelled
    <2>2. w.topic \in Topics
      BY DEF IInv, TypeOK, PubSubTypeOK
    <2>3. consumed' # consumed => subscribed[w.topic].stop = 0
      BY <2>1, <2>2 DEF IInv, KafkaInv, EntryInv, WatcherInv
    <2>4. \A v \in watchers' : v.topic # w.topic
      BY <2>1 DEF IInv, KafkaInv, NoTopicIsWatchedTwice
    <2>5. EntryInv'
      BY <1>1, <2>1, <2>3 DEF IInv, KafkaInv, EntryInv
    <2>6. WatcherInv'
      BY <1>1, <2>1, <2>4 DEF IInv, KafkaInv, WatcherInv
    <2>7. WatchInv'
      BY <1>1, <1>4, <2>1 DEF IInv, KafkaInv, WatchInv, Target
    <2>8. StopInv'
      BY <1>1 DEF IInv, KafkaInv, StopInv
    <2>9. EveryWatcherCanBeStopped' /\ NoTopicIsWatchedTwice'
      BY <1>1, <1>4 DEF IInv, KafkaInv, EveryWatcherCanBeStopped, NoTopicIsWatchedTwice
    <2>10. StartupSubscriptionsAreWatched'
      <3> SUFFICES ASSUME NEW t \in Topics, subscribed[t].stop # 0, subscribed[t].ctx = Main
                   PROVE  Watcher(t, subscribed[t]) \in watchers'
        BY <1>1 DEF StartupSubscriptionsAreWatched
      <3> DEFINE v == Watcher(t, subscribed[t])
      <3>1. v \in watchers /\ v.topic = t /\ v.stop = subscribed[t].stop /\ v.ctx = 0
        BY DEF IInv, KafkaInv, StartupSubscriptionsAreWatched, Watcher, Main
      <3>2. v.stop \notin closed
        BY <3>1 DEF IInv, KafkaInv, EntryInv
      <3>3. 0 \notin DoneContexts
        <4>1. calls \in Nat
          BY DEF IInv, TypeOK
        <4>2. 0 \notin 1..calls
          BY <4>1
        <4> QED
          BY <4>2 DEF DoneContexts
      <3> HIDE DEF v
      <3>4. v # w
        BY <2>1, <3>1, <3>2, <3>3
      <3> QED
        BY <2>1, <3>1, <3>4 DEF v
    <2> QED
      BY <2>5, <2>6, <2>7, <2>8, <2>9, <2>10 DEF KafkaInv
  <1> QED
    BY <1>3, <1>5, <1>6, <1>8 DEF IInv

LEMMA OnMessageOK ==
    ASSUME IInv, OnMessage
    PROVE  IInv'
  BY EndsOK DEF OnMessage, Panics

-----------------------------------------------------------------------------
(* The invariant is inductive.                                             *)

LEMMA InitOK ==
    ASSUME Init
    PROVE  IInv
  <1>1. TypeOK
    <2>1. PubSubTypeOK
      <3>1. stops = 0 /\ Entries = [stop : 0..stops, ctx : Nat]
        BY DEF Init, PubSubInit, Entries
      <3>2. NoEntry \in Entries
        BY <3>1, NoEntryIsEntry
      <3>3. subscribed \in [Topics -> Entries]
        BY <3>2 DEF Init, PubSubInit
      <3>4. connected = FALSE /\ brokerSubs = {} /\ consumed = {} /\ watchers = {} /\ closed = {}
        BY DEF Init, PubSubInit
      <3> QED
        BY <3>1, <3>3, <3>4 DEF PubSubTypeOK
    <2>2. run \in [Goroutines -> Runs] /\ sender \in Sendings
      BY IdleIsRun DEF Init, Sendings
    <2> QED
      BY <2>1, <2>2, StoredAssumption DEF Init, TypeOK, Phases, Sendings
  <1>2. PhaseInv
    BY DEF Init, PubSubInit, PhaseInv, Idle
  <1>3. GoroutineInv
    BY IdleOK DEF Init, GoroutineInv
  <1>4. KafkaInv
    <2>1. \A g \in Goroutines : run[g].pc = "idle"
      BY DEF Init, Idle
    <2>2. \A t \in Topics : subscribed[t].stop = 0
      BY DEF Init, PubSubInit, NoEntry
    <2> QED
      BY <2>1, <2>2, CallsAreOthers
      DEF Init, PubSubInit, KafkaInv, EntryInv, WatcherInv, WatchInv, StopInv, EveryWatcherCanBeStopped,
          NoTopicIsWatchedTwice, StartupSubscriptionsAreWatched, Goroutines
  <1> QED
    BY <1>1, <1>2, <1>3, <1>4 DEF IInv

LEMMA NextOK ==
    ASSUME IInv, [Next]_vars
    PROVE  IInv'
  <1>1. CASE UNCHANGED vars
    <2> USE <1>1 DEF vars, pubsubVars
    <2>1. TypeOK'
      BY DEF IInv, TypeOK, PubSubTypeOK, Entries
    <2>2. PhaseInv'
      BY DEF IInv, PhaseInv
    <2>3. GoroutineInv'
      BY DEF IInv, GoroutineInv, RunOK, Kind
    <2>4. KafkaInv'
      BY Quiet DEF IInv
    <2> QED
      BY <2>1, <2>2, <2>3, <2>4 DEF IInv
  <1>2. CASE MainStep
    BY <1>2, StartsOK, ListenAndServeOK, ReportsOK, CloseDBOK, DisconnectOK, EndsOK DEF MainStep, Exit
  <1>3. ASSUME NEW g \in Goroutines, Subscribe(g)
        PROVE  IInv'
    BY <1>3, SubscribeNothingOK, SubscribeMQTTOK, SubscribeKafkaOK, WatchKafkaOK DEF Subscribe
  <1>4. CASE StartupStep
    BY <1>3, <1>4, StartupStepsOK DEF StartupStep, Goroutines
  <1>5. CASE WatcherEnds \/ OnMessage
    BY <1>5, WatcherEndsOK, OnMessageOK
  <1>6. CASE Ended
    BY <1>1, <1>6 DEF Ended
  <1>7. CASE \E s \in Senders : Report(s)
    BY <1>7, ReportsOK
  <1>8. CASE Call
    BY <1>8, CallOK
  <1>9. ASSUME NEW n \in Calls, Handle(n)
        PROVE  IInv'
    BY <1>3, <1>9, TopicTableOK, UnsubscribeMQTTOK, UnsubscribeKafkaOK, StopKafkaOK DEF Handle, Goroutines
  <1> QED
    BY <1>1, <1>2, <1>4, <1>5, <1>6, <1>7, <1>8, <1>9 DEF Next

LEMMA Inductive == Spec => []IInv
  BY InitOK, NextOK, PTL DEF Spec

-----------------------------------------------------------------------------
(* Main, the goroutines and the client keep their shape, and a server that *)
(* serves has its database and its client (New, ListenAndServe, Close).    *)
THEOREM TypeCorrect == Spec => []TypeOK
  BY Inductive, PTL DEF IInv

(* Whatever calls and the start-up do, and wherever they are interrupted,  *)
(* no watcher of a Kafka topic is out of the reach of whoever              *)
(* unsubscribes the topic or disconnects.                                  *)
THEOREM WatchersCanBeStopped == Spec => []EveryWatcherCanBeStopped
  BY Inductive, PTL DEF IInv, KafkaInv

(* No topic has two Kafka watchers, however subscribing and unsubscribing  *)
(* it overlap.                                                             *)
THEOREM OneWatcherATopic == Spec => []NoTopicIsWatchedTwice
  BY Inductive, PTL DEF IInv, KafkaInv

(* A Kafka topic that start-up has subscribed is watched until it is       *)
(* unsubscribed.                                                           *)
THEOREM StartupIsWatched == Spec => []StartupSubscriptionsAreWatched
  BY Inductive, PTL DEF IInv, KafkaInv

-----------------------------------------------------------------------------
(* Panics.                                                                 *)

LEMMA Two ==
    ASSUME NEW g \in Goroutines, NEW h \in Goroutines, g # h, AtMap(g), AtMap(h)
    PROVE  Cardinality({i \in Goroutines : AtMap(i)}) > 1
  <1> DEFINE S == {i \in Goroutines : AtMap(i)}
  <1>1. IsFiniteSet(Goroutines)
    <2>1. IsFiniteSet(Calls)
      BY BoundsAssumption, FS_Interval DEF Calls
    <2>2. IsFiniteSet({Startup})
      BY FS_Singleton
    <2> QED
      BY <2>1, <2>2, FS_Union DEF Goroutines
  <1>2. IsFiniteSet(S) /\ {g, h} \subseteq S
    BY <1>1, FS_Subset
  <1> HIDE DEF S
  <1>3. Cardinality(S) \in Nat /\ Cardinality({g, h}) <= Cardinality(S)
    BY <1>2, FS_Subset, FS_CardinalityType
  <1>4. Cardinality({g, h}) = 2
    <2>1. IsFiniteSet({g}) /\ Cardinality({g}) = 1
      BY FS_Singleton
    <2>2. {g, h} = {g} \cup {h} /\ h \notin {g}
      OBVIOUS
    <2>3. Cardinality({g} \cup {h}) = Cardinality({g}) + 1
      BY <2>1, <2>2, FS_AddElement
    <2> QED
      BY <2>1, <2>2, <2>3
  <1> QED
    BY <1>3, <1>4 DEF S

LEMMA MapPanic ==
    ASSUME IInv, NEW g \in Goroutines, run[g].pc \in {"watch", "stop"}, Contended(g)
    PROVE  Explained("map")
  <1>1. AtMap(g)
    BY DEF IInv, GoroutineInv, RunOK, AtMap
  <1>2. CASE phase = "disconnect"
    BY <1>1, <1>2 DEF Explained
  <1>3. CASE \E h \in Goroutines \ {g} : AtMap(h)
    BY <1>1, <1>3, Two DEF Explained
  <1> QED
    BY <1>2, <1>3 DEF Contended

LEMMA ChannelPanic ==
    ASSUME IInv, NEW w \in Calls, run[w].pc = "stop", run[w].stop \in closed
    PROVE  Explained("closed twice")
  <1>1. w \in Goroutines /\ w # Startup
    BY CallsAreOthers DEF Goroutines
  <1>2. run[w].t \in Topics /\ run[w].stop # 0
    <2>1. run[w].t \in Topics /\ run[w].stop \in 1..stops /\ stops \in Nat
      BY <1>1 DEF IInv, GoroutineInv, RunOK, TypeOK, PubSubTypeOK
    <2> QED
      BY <2>1
  <1>3. run[w].raced
    BY <1>2 DEF IInv, KafkaInv, StopInv, EntryInv
  <1> QED
    BY <1>3 DEF Explained

LEMMA ConsumerPanic ==
    ASSUME IInv, NEW g \in Goroutines, run[g].pc = "subscribe", ~connected
    PROVE  Explained("nil consumer")
  <1>1. phase \in Late
    BY RunsLate DEF IInv
  <1>2. phase = "exit"
    BY <1>1 DEF Late, IInv, PhaseInv
  <1> QED
    BY <1>2 DEF Explained

(* The client of elasticsearch is there for every message that is logged.  *)
LEMMA MessagePanic ==
    ASSUME IInv, Alive, watchers # {} \/ brokerSubs # {}, NEW p \in Payloads, NEW why \in Panics(p)
    PROVE  Explained(why)
  <1>1. phase \in Late
    BY DEF Alive, IInv, TypeOK, Phases, PhaseInv, Early, Late
  <1>2. ~(Monitoring /\ "es" \notin opened)
    BY <1>1 DEF Monitoring, MessageLoggingEnabled, IInv, PhaseInv, Late
  <1>3. why = "payload"
    BY <1>2 DEF Panics
  <1> QED
    BY <1>3 DEF Explained

LEMMA PanicStep ==
    ASSUME IInv, [Next]_vars, crashed' # crashed
    PROVE  Explained(crashed')
  <1>1. CASE Exit
    BY <1>1 DEF Exit, Ends, IInv, PhaseInv
  <1>2. ASSUME NEW g \in Goroutines, Subscribe(g)
        PROVE  Explained(crashed')
    <2>1. CASE SubscribeKafka(g)
      BY <2>1, ConsumerPanic DEF SubscribeKafka, At, Ends
    <2>2. CASE WatchKafka(g)
      BY <2>2, MapPanic DEF WatchKafka, At, Ends
    <2> QED
      BY <1>2, <2>1, <2>2 DEF Subscribe, SubscribeNothing, SubscribeMQTT
  <1>3. ASSUME NEW w \in Calls, StopKafka(w)
        PROVE  Explained(crashed')
    <2>1. w \in Goroutines /\ run[w].pc = "stop"
      BY <1>3 DEF Goroutines, StopKafka, At
    <2>2. CASE run[w].stop \in closed /\ Ends("closed twice")
      BY <2>1, <2>2, ChannelPanic DEF Ends
    <2>3. CASE Contended(w) /\ Ends("map")
      BY <2>1, <2>3, MapPanic DEF Ends
    <2> QED
      BY <1>3, <2>2, <2>3 DEF StopKafka
  <1>4. CASE OnMessage
    BY <1>4, MessagePanic DEF OnMessage, Ends
  <1>5. MainStep => Exit
    BY DEF MainStep, Step, Load, Validate, NewKey, NewESClient, NewDB, Migrate, ConnectPubSub, Observe,
           ListenAndServe, TakeError, CloseDB, Disconnect
  <1>6. ASSUME NEW w \in Calls, Handle(w)
        PROVE  Explained(crashed')
    BY <1>2, <1>3, <1>6 DEF Handle, CommitTopic, DeleteTopic, UnsubscribeMQTT, UnsubscribeKafka, Goroutines
  <1>7. StartupStep => Subscribe(Startup)
    BY DEF StartupStep, CountTopics, GetTopicsRange
  <1> QED
    BY <1>1, <1>2, <1>4, <1>5, <1>6, <1>7
    DEF Next, WatcherEnds, Ended, Report, Call, vars, Goroutines

(* A panic has one of four reasons: an overlap at the map of Kafka         *)
(* subscriptions, a channel that another has closed meanwhile, a call that *)
(* outlives Disconnect, a message too short to be classified.              *)
THEOREM PanicsExplained == Spec => PanicsAreExplained
  BY Inductive, PanicStep, PTL DEF Spec, PanicsAreExplained

-----------------------------------------------------------------------------
(* The start-up misses no topic.                                           *)

(* Topic t is subscribed.                                                  *)
IsSubscribed(t) == IF Kind = "mqtt" THEN t \in brokerSubs ELSE subscribed[t].stop # 0

(* A call is about to subscribe to topic t, or has unsubscribed it and is  *)
(* about to remove it.                                                     *)
InHand(t) == \E c \in Calls : run[c].t = t /\ run[c].pc \in {"subscribe", "watch", "delete"}

(* The place of topic t in a listing of topics S.                          *)
Place(S, t) == Cardinality({u \in S : u <= t})

(* The start-up, at r, has topic t in the page it is subscribing to, or    *)
(* ahead of it.                                                            *)
IsAhead(r, t) ==
    \/ r.pc = "count"
    \/ r.pc \in {"subscribe", "watch"} /\ t \in r.todo
    \/ r.pc \in {"page", "subscribe", "watch"} /\ r.offset < Place(existing, t) /\ Place(existing, t) <= r.count

(* Goroutines start where nothing is in hand, and the start-up reports     *)
(* when it ends.                                                           *)
StartInv ==
    /\ \A n \in Calls : n > calls => run[n].pc = "idle"
    /\ run[Startup].pc \in {"idle", "count"} => run[Startup].offset = 0
    /\ phase = "serving" /\ run[Startup].pc # "idle" => sender[Startup] = "running"

(* The start-up has not failed, and what it subscribes to matters.         *)
Covering == phase = "serving" /\ Monitoring /\ Kind \in {"mqtt", "kafka"} /\ sender[Startup] # "sending"

(* Every topic of the database is subscribed, or somebody will see to it.  *)
NoTopicIsForgotten ==
    \A t \in existing \ excused : IsSubscribed(t) \/ InHand(t) \/ IsAhead(run[Startup], t)

StartupInv == StartInv /\ (Covering => NoTopicIsForgotten)

(* Steps that leave the database and the start-up where they are keep the  *)
(* topics covered when each that was subscribed, or in hand, still is.     *)
LEMMA Covers ==
    ASSUME NoTopicIsForgotten, existing' = existing, excused \subseteq excused', run'[Startup] = run[Startup],
           \A t \in existing \ excused' :
              IsSubscribed(t) \/ InHand(t) =>
                 \/ IF Kind' = "mqtt" THEN t \in brokerSubs' ELSE subscribed'[t].stop # 0
                 \/ \E c \in Calls : run'[c].t = t /\ run'[c].pc \in {"subscribe", "watch", "delete"}
    PROVE  NoTopicIsForgotten'
  <1> SUFFICES ASSUME NEW t \in existing' \ excused'
               PROVE  (IsSubscribed(t) \/ InHand(t) \/ IsAhead(run[Startup], t))'
    BY DEF NoTopicIsForgotten
  <1>1. t \in existing \ excused'
    OBVIOUS
  <1>2. CASE IsSubscribed(t) \/ InHand(t)
    BY <1>1, <1>2 DEF IsSubscribed, InHand
  <1>3. CASE IsAhead(run[Startup], t)
    BY <1>3 DEF IsAhead, Place
  <1> QED
    BY <1>1, <1>2, <1>3 DEF NoTopicIsForgotten

(* The same for a step of one call, which sees to its own topic.           *)
LEMMA CallCovers ==
    ASSUME IInv, NoTopicIsForgotten, cfg' = cfg, existing' = existing, excused \subseteq excused',
           NEW w \in Calls, \A h \in Goroutines : h # w => run'[h].pc = run[h].pc /\ run'[h].t = run[h].t,
           run'[Startup] = run[Startup],
           \A t \in Topics : t # run[w].t =>
              (t \in brokerSubs => t \in brokerSubs') /\ (subscribed[t].stop # 0 => subscribed'[t].stop # 0),
           \/ run[w].t \in excused'
           \/ IF Kind = "mqtt" THEN run[w].t \in brokerSubs' ELSE subscribed'[run[w].t].stop # 0
           \/ run'[w].t = run[w].t /\ run'[w].pc \in {"subscribe", "watch", "delete"}
           \/ /\ run[w].pc \notin {"subscribe", "watch", "delete"}
              /\ brokerSubs' = brokerSubs /\ subscribed' = subscribed
    PROVE  NoTopicIsForgotten'
  <1>1. ASSUME NEW t \in existing \ excused', IsSubscribed(t) \/ InHand(t)
        PROVE  \/ IF Kind' = "mqtt" THEN t \in brokerSubs' ELSE subscribed'[t].stop # 0
               \/ \E c \in Calls : run'[c].t = t /\ run'[c].pc \in {"subscribe", "watch", "delete"}
    <2>1. t \in Topics /\ Kind' = Kind
      BY DEF IInv, TypeOK, Kind
    <2>2. \A c \in Calls : c # w => run'[c].pc = run[c].pc /\ run'[c].t = run[c].t
      BY DEF Goroutines
    <2>3. CASE t # run[w].t
      BY <1>1, <2>1, <2>2, <2>3 DEF IsSubscribed, InHand
    <2>4. CASE t = run[w].t
      <3>1. CASE \/ IF Kind = "mqtt" THEN run[w].t \in brokerSubs' ELSE subscribed'[run[w].t].stop # 0
                 \/ run'[w].t = run[w].t /\ run'[w].pc \in {"subscribe", "watch", "delete"}
        BY <2>1, <2>4, <3>1
      <3>2. CASE /\ run[w].pc \notin {"subscribe", "watch", "delete"}
                 /\ brokerSubs' = brokerSubs /\ subscribed' = subscribed
        BY <1>1, <2>1, <2>2, <3>2 DEF IsSubscribed, InHand
      <3> QED
        BY <2>4, <3>1, <3>2
    <2> QED
      BY <2>3, <2>4
  <1> QED
    BY <1>1, Covers

-----------------------------------------------------------------------------
(* Places.                                                                 *)

LEMMA PlaceBound ==
    ASSUME NEW S \in SUBSET Topics, NEW t \in S
    PROVE  /\ Place(S, t) \in Nat /\ Cardinality(S) \in Nat
           /\ 0 < Place(S, t) /\ Place(S, t) <= Cardinality(S)
  <1> DEFINE below == {u \in S : u <= t}
  <1>1. IsFiniteSet(S)
    <2>1. IsFiniteSet(Topics)
      BY NumTopicsAssumption, FS_Interval DEF Topics
    <2> QED
      BY <2>1, FS_Subset
  <1>2. below \subseteq S /\ {t} \subseteq below
    BY DEF Topics
  <1>3. IsFiniteSet(below) /\ Cardinality(below) <= Cardinality(S)
    BY <1>1, <1>2, FS_Subset
  <1>4. Cardinality({t}) <= Cardinality(below) /\ Cardinality({t}) = 1
    BY <1>2, <1>3, FS_Subset, FS_Singleton
  <1>5. Cardinality(below) \in Nat /\ Cardinality(S) \in Nat
    BY <1>1, <1>3, FS_CardinalityType
  <1> HIDE DEF below
  <1>6. Place(S, t) = Cardinality(below)
    BY DEF Place, below
  <1> QED
    BY <1>3, <1>4, <1>5, <1>6

(* A change of the table behind a topic does not move it.                  *)
LEMMA PlaceStays ==
    ASSUME NEW S \in SUBSET Topics, NEW T \in SUBSET Topics, NEW t \in Topics,
           \A u \in Topics : u <= t => (u \in S <=> u \in T)
    PROVE  Place(S, t) = Place(T, t)
  <1>1. {u \in S : u <= t} = {u \in T : u <= t}
    OBVIOUS
  <1> QED
    BY <1>1 DEF Place

-----------------------------------------------------------------------------
(* The table of topics.                                                    *)

LEMMA CommitCovers ==
    ASSUME IInv, NoTopicIsForgotten, NEW w \in Calls, CommitTopic(w)
    PROVE  NoTopicIsForgotten'
  <1> DEFINE v == run[w].t
  <1>1. w \in Goroutines /\ w # Startup /\ run \in [Goroutines -> Runs] /\ run[w] \in Runs
        /\ run[w].pc = "commit" /\ v \in Topics /\ Startup \in Goroutines
    BY CallsAreOthers DEF IInv, TypeOK, GoroutineInv, RunOK, Goroutines, CommitTopic, At
  <1>2. UNCHANGED <<cfg, brokerSubs, subscribed>>
    BY DEF CommitTopic, pubsubVars
  <1>3. \A h \in Goroutines : h # w => run'[h] = run[h]
    BY <1>1 DEF CommitTopic
  <1>4. CASE UNCHANGED <<existing, excused>>
    BY <1>1, <1>2, <1>3, <1>4, CallCovers
  <1>5. CASE /\ existing' = existing \cup {v}
             /\ excused' = excused \cup (IF v \in existing THEN {} ELSE Shifted(v))
             /\ run' = [run EXCEPT ![w].pc = "subscribe"]
    <2> SUFFICES ASSUME NEW t \in existing' \ excused'
                 PROVE  (IsSubscribed(t) \/ InHand(t) \/ IsAhead(run[Startup], t))'
      BY DEF NoTopicIsForgotten
    <2>1. run'[w].pc = "subscribe" /\ run'[w].t = v
      BY <1>1, <1>5 DEF Runs
    <2>2. t \in Topics /\ existing \in SUBSET Topics /\ existing' \in SUBSET Topics
      BY <1>1, <1>5 DEF IInv, TypeOK
    <2>3. CASE t = v
      BY <2>1, <2>3 DEF InHand
    <2>4. CASE t # v
      <3>1. t \in existing \ excused
        BY <1>5, <2>4
      <3>2. IsSubscribed(t) => IsSubscribed(t)'
        BY <1>2 DEF IsSubscribed, Kind
      <3>3. InHand(t) => InHand(t)'
        <4>1. SUFFICES ASSUME NEW c \in Calls, run[c].t = t, run[c].pc \in {"subscribe", "watch", "delete"}
                       PROVE  InHand(t)'
          BY DEF InHand
        <4>2. c # w /\ c \in Goroutines
          BY <1>1, <4>1 DEF Goroutines
        <4> QED
          BY <1>3, <4>1, <4>2 DEF InHand
      <3>4. run'[Startup] = run[Startup]
        BY <1>1, <1>3
      <3>5. CASE IsAhead(run[Startup], t)
        <4>1. CASE ~StartupReads \/ v \in existing
          <5>1. CASE ~StartupReads
            BY <3>4, <3>5, <5>1 DEF IsAhead, StartupReads
          <5>2. CASE v \in existing
            <6>1. existing' = existing
              BY <1>5, <5>2
            <6> QED
              BY <3>4, <3>5, <6>1 DEF IsAhead, Place
          <5> QED
            BY <4>1, <5>1, <5>2
        <4>2. CASE StartupReads /\ v \notin existing
          <5>1. ~(t > v)
            BY <1>5, <2>2, <4>2 DEF Shifted
          <5>2. \A u \in Topics : u <= t => (u \in existing <=> u \in existing')
            BY <1>1, <1>5, <2>2, <2>4, <5>1 DEF Topics
          <5>3. Place(existing, t) = Place(existing', t)
            BY <2>2, <5>2, PlaceStays
          <5> QED
            BY <3>4, <3>5, <5>3 DEF IsAhead
        <4> QED
          BY <4>1, <4>2
      <3> QED
        BY <3>1, <3>2, <3>3, <3>5 DEF NoTopicIsForgotten
    <2> QED
      BY <2>3, <2>4
  <1> QED
    BY <1>4, <1>5 DEF CommitTopic

LEMMA DeleteCovers ==
    ASSUME IInv, NoTopicIsForgotten, NEW w \in Calls, DeleteTopic(w)
    PROVE  NoTopicIsForgotten'
  <1> DEFINE v == run[w].t
  <1>1. w \in Goroutines /\ w # Startup /\ run \in [Goroutines -> Runs] /\ run[w] \in Runs
        /\ run[w].pc = "delete" /\ v \in Topics /\ Startup \in Goroutines
    BY CallsAreOthers DEF IInv, TypeOK, GoroutineInv, RunOK, Goroutines, DeleteTopic, At
  <1>2. UNCHANGED <<cfg, brokerSubs, subscribed>>
    BY DEF DeleteTopic, pubsubVars
  <1>3. \A h \in Goroutines : h # w => run'[h] = run[h]
    BY <1>1 DEF DeleteTopic
  <1>4. CASE excused' = excused \cup {v} /\ UNCHANGED existing
    BY <1>1, <1>2, <1>3, <1>4, CallCovers
  <1>5. CASE existing' = existing \ {v} /\ excused' = excused \cup Shifted(v)
    <2> SUFFICES ASSUME NEW t \in existing' \ excused'
                 PROVE  (IsSubscribed(t) \/ InHand(t) \/ IsAhead(run[Startup], t))'
      BY DEF NoTopicIsForgotten
    <2>1. t \in Topics /\ existing \in SUBSET Topics /\ existing' \in SUBSET Topics /\ t # v
          /\ t \in existing \ excused
      BY <1>1, <1>5 DEF IInv, TypeOK
    <2>2. IsSubscribed(t) => IsSubscribed(t)'
      BY <1>2 DEF IsSubscribed, Kind
    <2>3. InHand(t) => InHand(t)'
      <3>1. SUFFICES ASSUME NEW c \in Calls, run[c].t = t, run[c].pc \in {"subscribe", "watch", "delete"}
                     PROVE  InHand(t)'
        BY DEF InHand
      <3>2. c # w /\ c \in Goroutines
        BY <2>1, <3>1 DEF Goroutines
      <3> QED
        BY <1>3, <3>1, <3>2 DEF InHand
    <2>4. run'[Startup] = run[Startup]
      BY <1>1, <1>3
    <2>5. CASE IsAhead(run[Startup], t)
      <3>1. CASE ~StartupReads
        BY <2>4, <2>5, <3>1 DEF IsAhead, StartupReads
      <3>2. CASE StartupReads
        <4>1. ~(t > v)
          BY <1>5, <2>1, <3>2 DEF Shifted
        <4>2. \A u \in Topics : u <= t => (u \in existing <=> u \in existing')
          BY <1>1, <1>5, <2>1, <4>1 DEF Topics
        <4>3. Place(existing, t) = Place(existing', t)
          BY <2>1, <4>2, PlaceStays
        <4> QED
          BY <2>4, <2>5, <4>3 DEF IsAhead
      <3> QED
        BY <3>1, <3>2
    <2> QED
      BY <2>1, <2>2, <2>3, <2>5 DEF NoTopicIsForgotten
  <1> QED
    BY <1>4, <1>5 DEF DeleteTopic

-----------------------------------------------------------------------------
(* The pages.                                                              *)

LEMMA CountCovers ==
    ASSUME IInv, StartupInv, CountTopics
    PROVE  StartupInv'
  <1> DEFINE r0 == run[Startup]
             rc == [r0 EXCEPT !.pc = "page", !.count = Cardinality(existing)]
  <1>1. Startup \in Goroutines /\ r0 \in Runs /\ r0.pc = "count" /\ run \in [Goroutines -> Runs]
        /\ Startup \in Senders /\ sender \in Sendings /\ r0.offset = 0
    BY DEF IInv, TypeOK, Goroutines, CountTopics, At, Senders, Sendings, StartupInv, StartInv
  <1>2. UNCHANGED <<cfg, phase, opened, existing, excused, calls, crashed, brokerSubs, subscribed>>
    BY DEF CountTopics, pubsubVars
  <1>3. Idle.pc = "idle" /\ Idle.offset = 0
    BY DEF Idle
  <1>4. CASE run' = [run EXCEPT ![Startup] = rc] /\ UNCHANGED sender
    <2>1. rc.pc = "page" /\ rc.count = Cardinality(existing) /\ rc.offset = 0
      BY <1>1 DEF Runs
    <2>2. run'[Startup] = rc /\ \A c \in Calls : run'[c] = run[c]
      BY <1>1, <1>4, CallsAreOthers DEF Goroutines
    <2> HIDE DEF rc, r0
    <2>3. StartInv'
      <3>1. \A n \in Calls : n > calls => run[n].pc = "idle"
        BY DEF StartupInv, StartInv
      <3>2. phase = "serving" => sender[Startup] = "running"
        BY <1>1 DEF StartupInv, StartInv, r0
      <3> QED
        BY <1>2, <1>4, <2>1, <2>2, <3>1, <3>2 DEF StartInv
    <2>4. ASSUME Covering', NEW t \in existing' \ excused'
          PROVE  IsAhead(run[Startup], t)'
      <3>1. existing \in SUBSET Topics /\ t \in existing
        BY <1>2 DEF IInv, TypeOK
      <3>2. 0 < Place(existing, t) /\ Place(existing, t) <= Cardinality(existing)
        BY <3>1, PlaceBound
      <3>3. existing' = existing
        BY <1>2
      <3> QED
        BY <2>1, <2>2, <3>2, <3>3 DEF IsAhead
    <2> QED
      BY <2>3, <2>4 DEF StartupInv, NoTopicIsForgotten
  <1>5. CASE StartupFails
    <2>1. run'[Startup] = Idle /\ \A c \in Calls : run'[c] = run[c]
      BY <1>1, <1>5, CallsAreOthers DEF Goroutines, StartupFails
    <2>2. sender'[Startup] = "sending"
      BY <1>1, <1>5 DEF StartupFails, Sendings
    <2>3. \A n \in Calls : n > calls => run[n].pc = "idle"
      BY DEF StartupInv, StartInv
    <2> QED
      BY <1>2, <1>3, <2>1, <2>2, <2>3 DEF StartupInv, StartInv, Covering
  <1> QED
    BY <1>1, <1>4, <1>5 DEF CountTopics

LEMMA PageCovers ==
    ASSUME IInv, StartupInv, GetTopicsRange
    PROVE  StartupInv'
  <1> DEFINE r0 == run[Startup]
             page == PageOf(existing, r0.offset)
             rp == [r0 EXCEPT !.todo = page, !.pc = IF page = {} THEN "page" ELSE "subscribe",
                              !.offset = NextOffset(r0)]
  <1>1. Startup \in Goroutines /\ r0 \in Runs /\ r0.pc = "page" /\ run \in [Goroutines -> Runs]
        /\ Startup \in Senders /\ sender \in Sendings
    BY DEF IInv, TypeOK, Goroutines, GetTopicsRange, At, Senders, Sendings
  <1>2. UNCHANGED <<cfg, phase, opened, existing, excused, calls, crashed, brokerSubs, subscribed>>
    BY DEF GetTopicsRange, pubsubVars
  <1>3. Idle.pc = "idle" /\ Idle.offset = 0
    BY DEF Idle
  <1>4. \A n \in Calls : n > calls => run[n].pc = "idle"
    BY DEF StartupInv, StartInv
  <1>5. phase = "serving" => sender[Startup] = "running"
    BY <1>1 DEF StartupInv, StartInv
  <1>6. r0.offset \in Nat /\ r0.count \in Nat /\ BatchSize \in Nat
    BY <1>1, BoundsAssumption DEF Runs
  <1>7. ASSUME NEW t \in existing
        PROVE  Place(existing, t) \in Nat /\ Place(existing, t) <= Cardinality(existing)
    <2>1. existing \in SUBSET Topics
      BY DEF IInv, TypeOK
    <2> QED
      BY <2>1, PlaceBound
  <1>8. CASE StartupFails
    <2>1. run'[Startup] = Idle /\ \A c \in Calls : run'[c] = run[c]
      BY <1>1, <1>8, CallsAreOthers DEF Goroutines, StartupFails
    <2>2. sender'[Startup] = "sending"
      BY <1>1, <1>8 DEF StartupFails, Sendings
    <2> QED
      BY <1>2, <1>3, <1>4, <2>1, <2>2 DEF StartupInv, StartInv, Covering
  <1>9. CASE /\ r0.offset >= r0.count
             /\ run' = [run EXCEPT ![Startup] = Idle]
             /\ sender' = [sender EXCEPT ![Startup] = "done"]
    <2>1. run'[Startup] = Idle /\ \A c \in Calls : run'[c] = run[c]
      BY <1>1, <1>9, CallsAreOthers DEF Goroutines
    <2>2. StartInv'
      BY <1>2, <1>3, <1>4, <2>1 DEF StartInv
    <2>3. ASSUME Covering', NEW t \in existing' \ excused'
          PROVE  (IsSubscribed(t) \/ InHand(t) \/ IsAhead(run[Startup], t))'
      <3>1. Covering /\ t \in existing \ excused
        BY <1>2, <1>5, <2>3 DEF Covering, Kind, Monitoring
      <3>2. IsSubscribed(t) \/ InHand(t) \/ IsAhead(run[Startup], t)
        BY <3>1 DEF StartupInv, NoTopicIsForgotten
      <3>3. ~IsAhead(run[Startup], t)
        BY <1>1, <1>6, <1>7, <1>9, <3>1 DEF IsAhead
      <3> QED
        BY <1>2, <2>1, <3>2, <3>3 DEF IsSubscribed, InHand, Kind
    <2> QED
      BY <2>2, <2>3 DEF StartupInv, NoTopicIsForgotten
  <1>10. CASE run' = [run EXCEPT ![Startup] = rp] /\ UNCHANGED sender
    <2>1. rp.todo = page /\ rp.pc = (IF page = {} THEN "page" ELSE "subscribe")
          /\ rp.offset = r0.offset + BatchSize /\ rp.count = r0.count
      BY <1>1 DEF Runs, NextOffset
    <2>2. run'[Startup] = rp /\ \A c \in Calls : run'[c] = run[c]
      BY <1>1, <1>10, CallsAreOthers DEF Goroutines
    <2> HIDE DEF rp
    <2>3. StartInv'
      BY <1>2, <1>4, <1>5, <1>10, <2>1, <2>2 DEF StartInv
    <2>4. ASSUME Covering', NEW t \in existing' \ excused'
          PROVE  (IsSubscribed(t) \/ InHand(t) \/ IsAhead(run[Startup], t))'
      <3>1. Covering /\ t \in existing \ excused
        BY <1>2, <1>10, <2>4 DEF Covering, Kind, Monitoring
      <3>2. IsSubscribed(t) \/ InHand(t) \/ IsAhead(run[Startup], t)
        BY <3>1 DEF StartupInv, NoTopicIsForgotten
      <3>3. CASE IsAhead(run[Startup], t)
        <4>1. r0.offset < Place(existing, t) /\ Place(existing, t) <= r0.count
          BY <1>1, <3>3 DEF IsAhead
        <4>2. CASE t \in page
          BY <2>1, <2>2, <4>2 DEF IsAhead
        <4>3. CASE t \notin page
          <5>1. Place(existing, t) > r0.offset + BatchSize
            BY <1>6, <1>7, <3>1, <4>1, <4>3 DEF PageOf, Place
          <5> QED
            BY <1>2, <2>1, <2>2, <4>1, <5>1 DEF IsAhead
        <4> QED
          BY <4>2, <4>3
      <3> QED
        BY <1>2, <2>2, <3>2, <3>3 DEF IsSubscribed, InHand, Kind
    <2> QED
      BY <2>3, <2>4 DEF StartupInv, NoTopicIsForgotten
  <1> QED
    BY <1>1, <1>8, <1>9, <1>10 DEF GetTopicsRange

-----------------------------------------------------------------------------
(* Subscribing.                                                            *)

(* A step of a call leaves StartInv as it is.                              *)
LEMMA CallStarts ==
    ASSUME StartInv, NEW w \in Calls, run[w].pc # "idle",
           \A h \in Goroutines : h # w => run'[h].pc = run[h].pc, run'[Startup] = run[Startup],
           UNCHANGED <<calls, phase, sender>>
    PROVE  StartInv'
  <1>1. ~(w > calls)
    BY DEF StartInv
  <1>2. \A n \in Calls : n > calls => run'[n].pc = "idle"
    BY <1>1 DEF StartInv, Goroutines
  <1> QED
    BY <1>2 DEF StartInv

(* A call covers its topic, or its error does.                             *)
LEMMA CallStepCovers ==
    ASSUME IInv, StartupInv, UNCHANGED <<cfg, phase, sender, existing, calls>>, excused \subseteq excused',
           NEW w \in Calls, run[w].pc # "idle",
           \A h \in Goroutines : h # w => run'[h].pc = run[h].pc /\ run'[h].t = run[h].t,
           run'[Startup] = run[Startup],
           \A t \in Topics : t # run[w].t =>
              (t \in brokerSubs => t \in brokerSubs') /\ (subscribed[t].stop # 0 => subscribed'[t].stop # 0),
           \/ run[w].t \in excused'
           \/ IF Kind = "mqtt" THEN run[w].t \in brokerSubs' ELSE subscribed'[run[w].t].stop # 0
           \/ run'[w].t = run[w].t /\ run'[w].pc \in {"subscribe", "watch", "delete"}
           \/ /\ run[w].pc \notin {"subscribe", "watch", "delete"}
              /\ brokerSubs' = brokerSubs /\ subscribed' = subscribed
    PROVE  StartupInv'
  <1>1. StartInv'
    BY CallStarts DEF StartupInv
  <1>2. Covering' => Covering
    BY DEF Covering, Kind, Monitoring
  <1>3. NoTopicIsForgotten => NoTopicIsForgotten'
    BY CallCovers
  <1> QED
    BY <1>1, <1>2, <1>3 DEF StartupInv

(* The start-up takes from its page what it has subscribed to.             *)
LEMMA StartupSubscribes ==
    ASSUME IInv, StartupInv, run[Startup].pc \in {"subscribe", "watch"},
           NEW ts \in SUBSET Topics, Subscribed(Startup, ts),
           UNCHANGED <<cfg, phase, sender, existing, excused, calls>>,
           \A t \in ts : IF Kind = "mqtt" THEN t \in brokerSubs' ELSE subscribed'[t].stop # 0,
           brokerSubs \subseteq brokerSubs',
           \A t \in Topics : subscribed[t].stop # 0 => subscribed'[t].stop # 0
    PROVE  StartupInv'
  <1> DEFINE r0 == run[Startup]
             q == [r0 EXCEPT !.todo = r0.todo \ ts, !.pc = IF r0.todo = ts THEN "page" ELSE "subscribe"]
  <1>1. Startup \in Goroutines /\ run \in [Goroutines -> Runs] /\ r0 \in Runs
    BY DEF IInv, TypeOK, Goroutines
  <1>2. /\ q.todo = r0.todo \ ts /\ q.pc = IF r0.todo = ts THEN "page" ELSE "subscribe"
        /\ q.offset = r0.offset /\ q.count = r0.count
    BY <1>1 DEF Runs
  <1>3. run'[Startup] = q /\ \A c \in Calls : run'[c] = run[c]
    BY <1>1, CallsAreOthers DEF Subscribed, Goroutines
  <1> HIDE DEF q
  <1>4. StartInv'
    BY <1>2, <1>3 DEF StartupInv, StartInv
  <1>5. ASSUME Covering', NEW t \in existing' \ excused'
        PROVE  (IsSubscribed(t) \/ InHand(t) \/ IsAhead(run[Startup], t))'
    <2>1. Covering /\ t \in existing \ excused /\ t \in Topics /\ Kind' = Kind
      BY <1>5 DEF Covering, Kind, Monitoring, IInv, TypeOK
    <2>2. IsSubscribed(t) \/ InHand(t) \/ IsAhead(run[Startup], t)
      BY <2>1 DEF StartupInv, NoTopicIsForgotten
    <2>3. CASE t \in ts
      BY <2>1, <2>3 DEF IsSubscribed
    <2>4. CASE IsSubscribed(t)
      BY <2>1, <2>4 DEF IsSubscribed
    <2>5. CASE InHand(t)
      BY <1>3, <2>5 DEF InHand
    <2>6. CASE IsAhead(run[Startup], t) /\ t \notin ts
      BY <1>2, <1>3, <2>6 DEF IsAhead, Place
    <2> QED
      BY <2>2, <2>3, <2>4, <2>5, <2>6
  <1> QED
    BY <1>4, <1>5 DEF StartupInv, NoTopicIsForgotten

(* What cannot be subscribed is excused, or ends the start-up.             *)
LEMMA FailureCovers ==
    ASSUME IInv, StartupInv, NEW g \in Goroutines, run[g].pc # "idle", NEW ts \in SUBSET Topics,
           NotSubscribed(g, ts), g # Startup => run[g].t \in ts,
           UNCHANGED <<cfg, phase, existing, calls, subscribed>>, brokerSubs \subseteq brokerSubs'
    PROVE  StartupInv'
  <1>1. run \in [Goroutines -> Runs] /\ Startup \in Senders /\ sender \in Sendings
    BY DEF IInv, TypeOK, Senders, Sendings
  <1>2. \A h \in Goroutines : h # g => run'[h] = run[h]
    BY <1>1 DEF NotSubscribed, StartupFails
  <1>3. CASE g # Startup
    <2>1. g \in Calls /\ Startup \in Goroutines
      BY <1>3 DEF Goroutines
    <2>2. sender' = sender /\ excused \subseteq excused' /\ run[g].t \in excused'
      BY <1>3 DEF NotSubscribed
    <2> QED
      BY <1>2, <1>3, <2>1, <2>2, CallStepCovers
  <1>4. CASE g = Startup
    <2>1. run'[Startup] = Idle /\ sender'[Startup] = "sending" /\ Idle.pc = "idle" /\ Idle.offset = 0
      BY <1>1, <1>4 DEF NotSubscribed, StartupFails, Sendings, Idle
    <2>2. \A n \in Calls : n > calls => run'[n].pc = "idle"
      BY <1>2, <1>4, CallsAreOthers DEF StartupInv, StartInv, Goroutines
    <2> QED
      BY <2>1, <2>2 DEF StartupInv, StartInv, Covering
  <1> QED
    BY <1>3, <1>4

LEMMA MQTTCovers ==
    ASSUME IInv, StartupInv, NEW g \in Goroutines, SubscribeMQTT(g)
    PROVE  StartupInv'
  <1> DEFINE ts == Targets(g)
  <1>1. run[g].pc = "subscribe" /\ Kind = "mqtt"
    BY DEF SubscribeMQTT, At
  <1>2. ts \in SUBSET Topics
    BY <1>1, TargetsAreTopics
  <1>3. g # Startup => ts = {run[g].t}
    BY DEF Targets
  <1> HIDE DEF ts
  <1>4. UNCHANGED <<cfg, phase, existing, calls>>
    BY DEF SubscribeMQTT
  <1>5. PICK answer \in Answers :
          LET sent == (\A t \in ts : ValidTopic(Kind, t)) /\ connected
          IN  /\ IF sent THEN MQTTSubscribe(ts, answer) ELSE UNCHANGED pubsubVars
              /\ IF sent /\ answer = "ok"
                 THEN Subscribed(g, ts) /\ UNCHANGED <<excused, sender>>
                 ELSE NotSubscribed(g, ts)
    BY DEF SubscribeMQTT, ts
  <1>6. subscribed' = subscribed /\ brokerSubs \subseteq brokerSubs'
    BY <1>5 DEF MQTTSubscribe, pubsubVars
  <1>7. CASE NotSubscribed(g, ts)
    BY <1>1, <1>2, <1>3, <1>4, <1>6, <1>7, FailureCovers
  <1>8. CASE Subscribed(g, ts) /\ UNCHANGED <<excused, sender>> /\ MQTTSubscribe(ts, answer) /\ answer = "ok"
    <2>1. ts \subseteq brokerSubs'
      BY <1>8 DEF MQTTSubscribe
    <2>2. CASE g = Startup
      BY <1>1, <1>2, <1>4, <1>6, <1>8, <2>1, <2>2, StartupSubscribes
    <2>3. CASE g # Startup
      <3>1. g \in Calls /\ Startup \in Goroutines /\ run \in [Goroutines -> Runs]
        BY <2>3 DEF Goroutines, IInv, TypeOK
      <3>2. \A h \in Goroutines : h # g => run'[h] = run[h]
        BY <1>8, <2>3, <3>1 DEF Subscribed
      <3>3. run[g].t \in brokerSubs'
        BY <1>3, <2>1, <2>3
      <3> QED
        BY <1>1, <1>4, <1>6, <1>8, <2>3, <3>1, <3>2, <3>3, CallStepCovers
    <2> QED
      BY <2>2, <2>3
  <1> QED
    BY <1>5, <1>7, <1>8

LEMMA KafkaCovers ==
    ASSUME IInv, StartupInv, NEW g \in Goroutines, SubscribeKafka(g), phase' # "exited"
    PROVE  StartupInv'
  <1> DEFINE ts == Targets(g)
  <1>1. run[g].pc = "subscribe" /\ Kind = "kafka"
    BY DEF SubscribeKafka, At
  <1>2. ts \in SUBSET Topics
    BY <1>1, TargetsAreTopics
  <1>3. g # Startup => ts = {run[g].t}
    BY DEF Targets
  <1>4. UNCHANGED <<cfg, phase, existing, calls, subscribed, brokerSubs>>
    BY DEF SubscribeKafka, ConsumePartition, Ends, pubsubVars
  <1>5. NotSubscribed(g, ts) \/ (run' = [run EXCEPT ![g].pc = "watch"] /\ UNCHANGED <<excused, sender>>)
    BY <1>4 DEF SubscribeKafka, Ends
  <1> HIDE DEF ts
  <1>6. CASE NotSubscribed(g, ts)
    BY <1>1, <1>2, <1>3, <1>4, <1>6, FailureCovers
  <1>7. CASE run' = [run EXCEPT ![g].pc = "watch"] /\ UNCHANGED <<excused, sender>>
    <2>1. run \in [Goroutines -> Runs] /\ run[g] \in Runs /\ Startup \in Goroutines
      BY DEF Goroutines, IInv, TypeOK
    <2>2. /\ run'[g].pc = "watch" /\ run'[g].t = run[g].t /\ run'[g].todo = run[g].todo
          /\ run'[g].offset = run[g].offset /\ run'[g].count = run[g].count
      BY <1>7, <2>1 DEF Runs
    <2>3. \A h \in Goroutines : h # g => run'[h] = run[h]
      BY <1>7, <2>1
    <2>4. CASE g # Startup
      <3>1. g \in Calls
        BY <2>4 DEF Goroutines
      <3> QED
        BY <1>1, <1>4, <1>7, <2>1, <2>2, <2>3, <2>4, <3>1, CallStepCovers
    <2>5. CASE g = Startup
      <3>1. \A c \in Calls : run'[c] = run[c]
        BY <2>3, <2>5, CallsAreOthers DEF Goroutines
      <3>2. StartInv'
        BY <1>1, <1>4, <1>7, <2>2, <2>5, <3>1 DEF StartupInv, StartInv
      <3>3. ASSUME Covering', NEW t \in existing' \ excused'
            PROVE  (IsSubscribed(t) \/ InHand(t) \/ IsAhead(run[Startup], t))'
        <4>1. Covering /\ t \in existing \ excused /\ Kind' = Kind
          BY <1>4, <1>7, <3>3 DEF Covering, Kind, Monitoring
        <4>2. IsSubscribed(t) \/ InHand(t) \/ IsAhead(run[Startup], t)
          BY <4>1 DEF StartupInv, NoTopicIsForgotten
        <4>3. IsSubscribed(t) => IsSubscribed(t)'
          BY <1>4, <4>1 DEF IsSubscribed
        <4>4. InHand(t) => InHand(t)'
          BY <3>1 DEF InHand
        <4>5. IsAhead(run[Startup], t) => IsAhead(run[Startup], t)'
          BY <1>1, <1>4, <2>2, <2>5 DEF IsAhead, Place
        <4> QED
          BY <4>2, <4>3, <4>4, <4>5
      <3> QED
        BY <3>2, <3>3 DEF StartupInv, NoTopicIsForgotten
    <2> QED
      BY <2>4, <2>5
  <1> QED
    BY <1>5, <1>6, <1>7

LEMMA WatchCovers ==
    ASSUME IInv, StartupInv, NEW g \in Goroutines, WatchKafka(g), phase' # "exited"
    PROVE  StartupInv'
  <1> DEFINE t == Target(run[g], g)
  <1>1. run[g].pc = "watch"
    BY DEF WatchKafka, At
  <1>2. Kind = "kafka"
    BY <1>1 DEF IInv, GoroutineInv, RunOK
  <1>3. Targets(g) = {t} /\ FirstOf(Targets(g)) = t /\ t \in Topics
    BY <1>1, <1>2, OneTarget DEF IInv
  <1>4. /\ Watch(t, Context(g)) /\ Subscribed(g, {t})
        /\ UNCHANGED <<cfg, phase, opened, sender, existing, excused, calls, crashed>>
    BY <1>3 DEF WatchKafka, Ends
  <1>5. stops \in Nat /\ subscribed \in [Topics -> Entries] /\ run \in [Goroutines -> Runs]
    BY DEF IInv, TypeOK, PubSubTypeOK
  <1>6. g # Startup => t = run[g].t
    BY DEF Target
  <1> HIDE DEF t
  <1>7. /\ brokerSubs' = brokerSubs /\ subscribed'[t].stop # 0
        /\ \A u \in Topics : u # t => subscribed'[u] = subscribed[u]
    BY <1>3, <1>4, <1>5 DEF Watch
  <1>8. CASE g = Startup
    BY <1>1, <1>2, <1>3, <1>4, <1>7, <1>8, StartupSubscribes
  <1>9. CASE g # Startup
    <2>1. g \in Calls /\ Startup \in Goroutines
      BY <1>9 DEF Goroutines
    <2>2. \A h \in Goroutines : h # g => run'[h] = run[h]
      BY <1>4, <1>5, <1>9 DEF Subscribed
    <2> QED
      BY <1>1, <1>2, <1>4, <1>6, <1>7, <1>9, <2>1, <2>2, CallStepCovers
  <1> QED
    BY <1>8, <1>9

-----------------------------------------------------------------------------
(* The other steps of calls.                                               *)

LEMMA UnsubscribeCovers ==
    ASSUME IInv, StartupInv, NEW w \in Calls, UnsubscribeMQTT(w) \/ UnsubscribeKafka(w)
    PROVE  StartupInv'
  <1>1. w \in Goroutines /\ w # Startup /\ run \in [Goroutines -> Runs] /\ run[w] \in Runs /\ Startup \in Goroutines
        /\ run[w].pc = "unsubscribe" /\ run[w].t \in Topics
    BY CallsAreOthers DEF IInv, TypeOK, Goroutines, GoroutineInv, RunOK, UnsubscribeMQTT, UnsubscribeKafka, At
  <1>2. UNCHANGED <<cfg, phase, sender, existing, excused, calls, subscribed>>
    BY DEF UnsubscribeMQTT, UnsubscribeKafka, MQTTUnsubscribe, pubsubVars
  <1>3. \A h \in Goroutines : h # w => run'[h] = run[h]
    BY <1>1 DEF UnsubscribeMQTT, UnsubscribeKafka
  <1>4. CASE UnsubscribeMQTT(w)
    <2>1. run'[w].pc = "delete" /\ run'[w].t = run[w].t
      BY <1>1, <1>4 DEF UnsubscribeMQTT, Runs
    <2>2. \A t \in Topics : t # run[w].t => (t \in brokerSubs => t \in brokerSubs')
      BY <1>4 DEF UnsubscribeMQTT, MQTTUnsubscribe, pubsubVars
    <2> QED
      BY <1>1, <1>2, <1>3, <2>1, <2>2, CallStepCovers
  <1>5. CASE UnsubscribeKafka(w)
    <2>1. brokerSubs' = brokerSubs
      BY <1>5 DEF UnsubscribeKafka, pubsubVars
    <2> QED
      BY <1>1, <1>2, <1>3, <2>1, CallStepCovers
  <1> QED
    BY <1>4, <1>5

LEMMA StopCovers ==
    ASSUME IInv, StartupInv, NEW w \in Calls, StopKafka(w), phase' # "exited"
    PROVE  StartupInv'
  <1> DEFINE r == [run[w] EXCEPT !.pc = "delete", !.stop = 0, !.raced = FALSE]
             moved == [run EXCEPT ![w] = r]
  <1>1. w \in Goroutines /\ w # Startup /\ run \in [Goroutines -> Runs] /\ run[w] \in Runs /\ Startup \in Goroutines
        /\ run[w].pc = "stop" /\ run[w].t \in Topics /\ run[Startup].pc # "stop"
    BY CallsAreOthers DEF IInv, TypeOK, Goroutines, GoroutineInv, RunOK, StopKafka, At
  <1>2. /\ StopWatching(run[w].t, run[w].stop) /\ run' = Race(moved, w, {run[w].t})
        /\ UNCHANGED <<cfg, phase, opened, sender, existing, excused, calls, crashed>>
    BY DEF StopKafka, Ends
  <1>3. r \in Runs /\ r.pc = "delete" /\ r.t = run[w].t
    BY <1>1 DEF Runs
  <1> HIDE DEF r
  <1>4. /\ moved \in [Goroutines -> Runs] /\ moved[w] = r
        /\ \A h \in Goroutines : h # w => moved[h] = run[h]
    BY <1>1, <1>3
  <1> HIDE DEF moved
  <1>5. \A h \in Goroutines : run'[h].pc = moved[h].pc /\ run'[h].t = moved[h].t
    BY <1>2, <1>4, RaceOK
  <1>6. run'[Startup] = run[Startup]
    BY <1>1, <1>2, <1>4 DEF Race
  <1>7. brokerSubs' = brokerSubs /\ \A t \in Topics : t # run[w].t => subscribed'[t] = subscribed[t]
    BY <1>2 DEF StopWatching, IInv, TypeOK, PubSubTypeOK
  <1>8. \A h \in Goroutines : h # w => run'[h].pc = run[h].pc /\ run'[h].t = run[h].t
    BY <1>4, <1>5
  <1>9. run'[w].t = run[w].t /\ run'[w].pc = "delete"
    BY <1>1, <1>3, <1>4, <1>5
  <1> QED
    BY <1>1, <1>2, <1>6, <1>7, <1>8, <1>9, CallStepCovers

LEMMA TableCovers ==
    ASSUME IInv, StartupInv, NEW w \in Calls, CommitTopic(w) \/ DeleteTopic(w)
    PROVE  StartupInv'
  <1>1. w \in Goroutines /\ w # Startup /\ run \in [Goroutines -> Runs] /\ Startup \in Goroutines
        /\ run[w].pc # "idle"
    BY CallsAreOthers DEF IInv, TypeOK, Goroutines, CommitTopic, DeleteTopic, At
  <1>2. UNCHANGED <<cfg, phase, sender, calls>>
    BY DEF CommitTopic, DeleteTopic
  <1>3. \A h \in Goroutines : h # w => run'[h] = run[h]
    BY <1>1 DEF CommitTopic, DeleteTopic
  <1>4. StartInv'
    BY <1>1, <1>2, <1>3, CallStarts DEF StartupInv
  <1>5. Covering' => Covering
    BY <1>2 DEF Covering, Kind, Monitoring
  <1>6. NoTopicIsForgotten => NoTopicIsForgotten'
    BY CommitCovers, DeleteCovers
  <1> QED
    BY <1>4, <1>5, <1>6 DEF StartupInv

LEMMA NewCallCovers ==
    ASSUME IInv, StartupInv, Call
    PROVE  StartupInv'
  <1> DEFINE n == calls + 1
  <1>1. calls \in Nat /\ n \in Calls /\ n > calls
    <2>1. calls \in Nat /\ calls < MaxCalls
      BY DEF IInv, TypeOK, Call
    <2>2. MaxCalls \in Nat
      BY BoundsAssumption
    <2> QED
      BY <2>1, <2>2 DEF Calls
  <1>2. n \in Goroutines /\ n # Startup /\ Startup \in Goroutines /\ run \in [Goroutines -> Runs]
    BY <1>1, CallsAreOthers DEF Goroutines, IInv, TypeOK
  <1>3. UNCHANGED <<cfg, phase, sender, existing, excused, brokerSubs, subscribed>> /\ calls' = n
    BY DEF Call, pubsubVars
  <1> HIDE DEF n
  <1>4. \A h \in Goroutines : h # n => run'[h] = run[h]
    BY <1>2 DEF Call, n
  <1>5. run[n].pc = "idle"
    BY <1>1 DEF StartupInv, StartInv
  <1>6. \A m \in Calls : m > calls' => m # n /\ m > calls
    BY <1>1, <1>3, CallsAreOthers DEF n
  <1>7. StartInv'
    BY <1>2, <1>3, <1>4, <1>6 DEF StartupInv, StartInv, Goroutines
  <1>8. Covering' => Covering
    BY <1>3 DEF Covering, Kind, Monitoring
  <1>9. NoTopicIsForgotten => NoTopicIsForgotten'
    <2>1. \A t : InHand(t) => \E c \in Calls : run'[c].t = t /\ run'[c].pc \in {"subscribe", "watch", "delete"}
      BY <1>4, <1>5 DEF InHand, Goroutines
    <2>2. Kind' = Kind /\ run'[Startup] = run[Startup]
      BY <1>2, <1>3, <1>4 DEF Kind
    <2> QED
      BY <1>3, <2>1, <2>2, Covers DEF IsSubscribed
  <1> QED
    BY <1>7, <1>8, <1>9 DEF StartupInv

-----------------------------------------------------------------------------
(* Every step.                                                             *)

LEMMA StartupInit ==
    ASSUME Init
    PROVE  StartupInv
  <1>1. Startup \in Goroutines /\ Calls \subseteq Goroutines
    BY DEF Goroutines
  <1> QED
    BY <1>1 DEF Init, StartupInv, StartInv, Covering, Idle

(* While the server does not serve, only the goroutines matter.            *)
LEMMA NotServing ==
    ASSUME StartInv', phase' # "serving"
    PROVE  StartupInv'
  BY DEF StartupInv, Covering

LEMMA EndsCovers ==
    ASSUME NEW why, Ends(why)
    PROVE  StartupInv'
  <1>1. Startup \in Goroutines /\ Calls \subseteq Goroutines
    BY DEF Goroutines
  <1>2. StartInv' /\ phase' # "serving"
    BY <1>1 DEF Ends, StartInv, Idle
  <1> QED
    BY <1>2, NotServing

LEMMA MainCovers ==
    ASSUME IInv, StartupInv, MainStep
    PROVE  StartupInv'
  <1>1. CASE Load \/ Validate \/ NewKey \/ NewESClient \/ NewDB \/ Migrate \/ ConnectPubSub \/ Observe
    <2>1. UNCHANGED <<run, calls, sender>> /\ phase' # "serving"
      BY <1>1 DEF Load, Validate, NewKey, NewESClient, NewDB, Migrate, ConnectPubSub, Observe, Step
    <2> QED
      BY <2>1, NotServing DEF StartupInv, StartInv
  <1>2. CASE ListenAndServe
    <2>1. Startup \in Goroutines /\ run \in [Goroutines -> Runs] /\ Startup \in Senders /\ run[Startup] \in Runs
      BY DEF IInv, TypeOK, Goroutines, Senders
    <2>2. \A g \in Goroutines : run[g].pc = "idle"
      BY <1>2 DEF IInv, PhaseInv, Early, ListenAndServe
    <2>3. UNCHANGED <<cfg, calls, existing, excused>>
          /\ sender'[Startup] = IF ~Monitoring THEN "done" ELSE "running"
      BY <1>2, <2>1 DEF ListenAndServe
    <2>4. \A c \in Calls : run'[c] = run[c]
      BY <1>2, <2>1, CallsAreOthers DEF ListenAndServe, Goroutines
    <2>5. CASE Monitoring
      <3>1. run'[Startup].pc = "count" /\ run'[Startup].offset = run[Startup].offset
        BY <1>2, <2>1, <2>5 DEF ListenAndServe, Runs
      <3>2. StartInv'
        BY <2>1, <2>2, <2>3, <2>4, <2>5, <3>1 DEF StartupInv, StartInv
      <3>3. NoTopicIsForgotten'
        BY <3>1 DEF NoTopicIsForgotten, IsAhead
      <3> QED
        BY <3>2, <3>3 DEF StartupInv
    <2>6. CASE ~Monitoring
      <3>1. run' = run
        BY <1>2, <2>6 DEF ListenAndServe
      <3>2. ~Monitoring'
        BY <2>3, <2>6 DEF Monitoring
      <3> QED
        BY <2>1, <2>2, <2>3, <3>1, <3>2 DEF StartupInv, StartInv, Covering
    <2> QED
      BY <2>5, <2>6
  <1>3. CASE (\E s \in Senders : TakeError(s)) \/ CloseDB
    <2>1. UNCHANGED <<run, calls>> /\ phase' # "serving"
      BY <1>3 DEF TakeError, CloseDB
    <2> QED
      BY <2>1, NotServing DEF StartupInv, StartInv
  <1>4. CASE Disconnect
    <2>1. run \in [Goroutines -> Runs] /\ run[Startup].pc # "stop" /\ Startup \in Goroutines
      BY DEF IInv, TypeOK, GoroutineInv, RunOK, Goroutines
    <2>2. run' = run \/ run' = Race(run, Startup, Topics)
      <3>1. Kind \in {"mqtt", "kafka", "gcp"}
        BY <1>4 DEF Disconnect, IInv, PhaseInv, Kind, PubSubKind
      <3> QED
        BY <1>4, <3>1 DEF Disconnect
    <2>3. \A h \in Goroutines : run'[h].pc = run[h].pc
      BY <2>1, <2>2, RaceOK
    <2>4. run'[Startup] = run[Startup]
      BY <2>1, <2>2 DEF Race
    <2>5. calls' = calls /\ phase' = "exit"
      BY <1>4 DEF Disconnect
    <2>6. StartInv'
      BY <2>3, <2>4, <2>5 DEF StartupInv, StartInv, Goroutines
    <2> QED
      BY <2>5, <2>6, NotServing
  <1>5. CASE Exit
    BY <1>5, EndsCovers DEF Exit
  <1> QED
    BY <1>1, <1>2, <1>3, <1>4, <1>5 DEF MainStep

(* Steps that leave what the properties speak of alone.                    *)
LEMMA IdleCovers ==
    ASSUME StartupInv, UNCHANGED <<cfg, phase, existing, run, excused, calls, brokerSubs, subscribed>>,
           sender'[Startup] = sender[Startup]
    PROVE  StartupInv'
  <1>1. StartInv'
    BY DEF StartupInv, StartInv
  <1>2. Covering' => Covering
    BY DEF Covering, Kind, Monitoring
  <1>3. NoTopicIsForgotten => NoTopicIsForgotten'
    BY DEF NoTopicIsForgotten, IsSubscribed, InHand, IsAhead, Place, Kind
  <1> QED
    BY <1>1, <1>2, <1>3 DEF StartupInv

(* Subscribing to nothing: there is nothing to cover.                      *)
LEMMA NothingCovers ==
    ASSUME IInv, StartupInv, NEW g \in Goroutines, SubscribeNothing(g)
    PROVE  StartupInv'
  <1>1. run[g].pc = "subscribe" /\ run \in [Goroutines -> Runs] /\ Startup \in Goroutines /\ run[g] \in Runs
    BY DEF SubscribeNothing, At, IInv, TypeOK, Goroutines
  <1>2. ~Covering' /\ UNCHANGED <<phase, calls, sender>>
    BY DEF SubscribeNothing, Covering, Kind, Monitoring
  <1>3. StartInv'
    <2>1. CASE g # Startup
      <3>1. g \in Calls /\ \A h \in Goroutines : h # g => run'[h] = run[h]
        BY <1>1, <2>1 DEF Goroutines, SubscribeNothing, Subscribed
      <3> QED
        BY <1>1, <1>2, <2>1, <3>1, CallStarts DEF StartupInv
    <2>2. CASE g = Startup
      <3>1. \A c \in Calls : run'[c] = run[c]
        BY <1>1, <2>2, CallsAreOthers DEF SubscribeNothing, Subscribed, Goroutines
      <3>2. run'[Startup].pc \in {"page", "subscribe"}
        BY <1>1, <2>2 DEF SubscribeNothing, Subscribed, Runs
      <3> QED
        BY <1>1, <1>2, <2>2, <3>1, <3>2 DEF StartupInv, StartInv
    <2> QED
      BY <2>1, <2>2
  <1> QED
    BY <1>2, <1>3 DEF StartupInv

(* A step of a goroutine that ends the process.                            *)
LEMMA PanicEnds ==
    ASSUME NEW g, SubscribeKafka(g) \/ WatchKafka(g) \/ StopKafka(g), phase' = "exited"
    PROVE  \E why : Ends(why)
  BY DEF SubscribeKafka, WatchKafka, StopKafka, At, Alive

LEMMA StartupNext ==
    ASSUME IInv, StartupInv, [Next]_vars
    PROVE  StartupInv'
  <1>1. CASE UNCHANGED vars
    BY <1>1, IdleCovers DEF vars, pubsubVars
  <1>2. CASE \E why : Ends(why)
    BY <1>2, EndsCovers
  <1>3. ASSUME NEW g \in Goroutines, Subscribe(g)
        PROVE  StartupInv'
    <2>1. CASE SubscribeNothing(g) \/ SubscribeMQTT(g)
      BY <2>1, NothingCovers, MQTTCovers
    <2>2. CASE SubscribeKafka(g) \/ WatchKafka(g)
      BY <1>2, <2>2, KafkaCovers, WatchCovers, PanicEnds
    <2> QED
      BY <1>3, <2>1, <2>2 DEF Subscribe
  <1>4. ASSUME NEW w \in Calls, Handle(w)
        PROVE  StartupInv'
    <2>1. CASE Subscribe(w)
      BY <1>3, <2>1 DEF Goroutines
    <2>2. CASE StopKafka(w)
      BY <1>2, <2>2, StopCovers, PanicEnds
    <2>3. CASE CommitTopic(w) \/ DeleteTopic(w) \/ UnsubscribeMQTT(w) \/ UnsubscribeKafka(w)
      BY <2>3, TableCovers, UnsubscribeCovers
    <2> QED
      BY <1>4, <2>1, <2>2, <2>3 DEF Handle
  <1>5. CASE StartupStep
    BY <1>3, <1>5, CountCovers, PageCovers DEF StartupStep, Goroutines
  <1>6. CASE WatcherEnds
    BY <1>6, IdleCovers DEF WatcherEnds, WatcherStops, WatcherCancelled
  <1>7. CASE OnMessage
    BY <1>2, <1>7 DEF OnMessage
  <1>8. ASSUME NEW s \in Senders, Report(s)
        PROVE  StartupInv'
    <2>1. sender'[Startup] = sender[Startup]
      BY <1>8 DEF Report, Senders, IInv, TypeOK
    <2> QED
      BY <1>8, <2>1, IdleCovers DEF Report, pubsubVars
  <1> QED
    BY <1>1, <1>3, <1>4, <1>5, <1>6, <1>7, <1>8, MainCovers, NewCallCovers DEF Next, Ended

(* What is left when everybody has finished.                               *)
LEMMA NothingIsMissed ==
    ASSUME StartupInv
    PROVE  StartupMissesNoTopic
  <1> SUFFICES ASSUME phase = "serving", Monitoring, Kind \in {"mqtt", "kafka"}, sender[Startup] = "done",
                      \A g \in Goroutines : run[g] = Idle,
                      NEW t \in existing \ excused
               PROVE  IF Kind = "mqtt" THEN t \in brokerSubs ELSE subscribed[t].stop # 0
    BY DEF StartupMissesNoTopic
  <1>1. IsSubscribed(t) \/ InHand(t) \/ IsAhead(run[Startup], t)
    BY DEF StartupInv, Covering, NoTopicIsForgotten
  <1>2. ~InHand(t) /\ ~IsAhead(run[Startup], t)
    BY DEF InHand, IsAhead, Goroutines, Idle
  <1> QED
    BY <1>1, <1>2 DEF IsSubscribed

(* Whatever topics there are, however many pages they fill, and whatever   *)
(* calls create and remove topics meanwhile, once the start-up has ended   *)
(* and the calls have returned each topic of the database is subscribed,   *)
(* except after an error or behind a change to the pages.                  *)
THEOREM NoTopicIsMissed == Spec => []StartupMissesNoTopic
  <1>1. Init => StartupInv
    BY StartupInit
  <1>2. IInv /\ StartupInv /\ [Next]_vars => StartupInv'
    BY StartupNext
  <1>3. StartupInv => StartupMissesNoTopic
    BY NothingIsMissed
  <1> QED
    BY <1>1, <1>2, <1>3, Inductive, PTL DEF Spec
=============================================================================
