------------------------------- MODULE Server --------------------------------
(***************************************************************************)
(* The C2 process: main (cmd/c2/c2.go) creates the server, serves until    *)
(* something fails or a signal arrives, and closes it (pkg/c2/c2.go).      *)
(* Meanwhile a goroutine subscribes to the topics that exist, a page after *)
(* another, next to API calls that create and remove topics, and to the    *)
(* watchers of the Kafka client.  Handlers are not waited for: those in    *)
(* progress when the server closes run on over closed connections.         *)
(***************************************************************************)
EXTENDS Config, PubSub

CONSTANTS
    Configurations, \* configurations of the instance
    Payloads,       \* payloads of the messages received
    MaxCalls,       \* bound: API calls in a behaviour, each served by a goroutine of its own
    BatchSize,      \* topics of a page (100 in the code)
    Startup,        \* the goroutine that subscribes to the existing topics
    Endpoints,      \* API endpoints main has enabled ("grpc", "http")
    Stored,         \* sets of topics an earlier process may have left in the database
    Faults          \* TRUE: statements, files and connections may fail

ASSUME ConfigurationsAssumption == Configurations \subseteq Configs
ASSUME BoundsAssumption  == MaxCalls \in Nat /\ BatchSize \in Nat \ {0}
ASSUME StartupAssumption == Startup \notin Endpoints \cup Nat
ASSUME EndpointsAssumption == Endpoints \subseteq {"grpc", "http"}
ASSUME StoredAssumption  == Stored \subseteq SUBSET Topics
ASSUME FaultsAssumption  == Faults \in BOOLEAN

VARIABLES
    cfg,      \* the configuration loaded
    phase,    \* where main is
    opened,   \* connections that are open: "es", "db"
    sender,   \* sender[s]: the goroutines that report to main on errc
    existing, \* topics of the database
    run,      \* run[g]: what the goroutines of the calls and of the start-up are doing
    excused,  \* topics whose subscription has failed, with an error, or may have been missed:
              \* behind a topic created or removed while the pages are read
    calls,    \* API calls made; the number of a call is its context
    crashed   \* the panic, or fatal error, that has ended the process

vars == <<cfg, phase, opened, sender, existing, run, excused, calls, crashed, pubsubVars>>

Kind == PubSubKind(cfg)
Monitoring == MessageLoggingEnabled(cfg)
Calls == 1..MaxCalls
Goroutines == Calls \cup {Startup}
Context(g) == IF g = Startup THEN Main ELSE g
Alive == phase # "exited"
Outcome(ok) == IF Faults THEN BOOLEAN ELSE {ok}

Idle == [op |-> "none", pc |-> "idle", t |-> 0, stop |-> 0, raced |-> FALSE,
         todo |-> {}, count |-> 0, offset |-> 0]

(* The process ends, with a panic or without: only the database remains.   *)
Ends(why) ==
    /\ phase' = "exited"
    /\ crashed' = why
    /\ opened' = {}
    /\ sender' = [s \in DOMAIN sender |-> "off"]
    /\ run' = [g \in Goroutines |-> Idle]
    /\ excused' = {} /\ calls' = 0
    /\ connected' = FALSE /\ brokerSubs' = {}
    /\ subscribed' = [t \in Topics |-> NoEntry]
    /\ consumed' = {} /\ watchers' = {} /\ closed' = {} /\ stops' = 0
    /\ UNCHANGED <<cfg, existing>>

-----------------------------------------------------------------------------
(* main and New.  An error ends the process, and leaves what has been      *)
(* opened to the operating system.                                         *)

Step(from, ok, to) ==
    /\ phase = from
    /\ phase' = IF ok THEN to ELSE "exited"
    /\ UNCHANGED <<cfg, sender, existing, run, excused, calls, crashed>>

Load == \E ok \in Outcome(TRUE) :
    Step("load", ok, "validate") /\ UNCHANGED <<opened, pubsubVars>>

Validate == Step("validate", Valid(cfg), "key") /\ UNCHANGED <<opened, pubsubVars>>

(* The key file is read in public-key mode.                                *)
NewKey == \E ok \in Outcome(TRUE) :
    /\ Step("key", \/ cfg.crypto.mode = "symkey"
                   \/ cfg.crypto.mode = "pubkey" /\ ok, "elasticsearch")
    /\ UNCHANGED <<opened, pubsubVars>>

NewESClient == \E ok \in Outcome(TRUE) :
    /\ Step("elasticsearch", ~cfg.es.enable \/ ok, "database")
    /\ opened' = IF cfg.es.enable /\ ok THEN opened \cup {"es"} ELSE opened
    /\ UNCHANGED pubsubVars

NewDB == \E ok \in Outcome(TRUE) :
    /\ Step("database", ok, "migrate")
    /\ opened' = IF ok THEN opened \cup {"db"} ELSE opened
    /\ UNCHANGED pubsubVars

Migrate == \E ok \in Outcome(TRUE) :
    Step("migrate", ok, "connect") /\ UNCHANGED <<opened, pubsubVars>>

ConnectPubSub_Unchecked == \E ok \in Outcome(TRUE) :
    /\ Step("connect", Kind # "none", "observe")
    /\ IF Kind = "gcp" \/ (Kind # "none" /\ ok) THEN Connect ELSE UNCHANGED pubsubVars
    /\ UNCHANGED opened
ConnectPubSub == \E ok \in Outcome(TRUE) :
    /\ Step("connect", Kind = "gcp" \/ (Kind # "none" /\ ok), "observe")
    /\ IF Kind = "gcp" \/ (Kind # "none" /\ ok) THEN Connect ELSE UNCHANGED pubsubVars
    /\ UNCHANGED opened

(* DeriveSymKey and SetupObservability; main then enables both endpoints.  *)
Observe == \E ok \in Outcome(TRUE) :
    Step("observe", ok, "listen") /\ UNCHANGED <<opened, pubsubVars>>

-----------------------------------------------------------------------------
(* ListenAndServe.                                                         *)

Senders == Endpoints \cup {"signal", Startup}

ListenAndServe ==
    /\ phase = "listen"
    /\ phase' = "serving"
    /\ sender' = [s \in Senders |-> IF s = Startup /\ ~Monitoring THEN "done" ELSE "running"]
    /\ run' = IF Monitoring THEN [run EXCEPT ![Startup].op = "startup", ![Startup].pc = "count"] ELSE run
    /\ UNCHANGED <<cfg, opened, existing, excused, calls, crashed, pubsubVars>>

(* A signal arrives, or an endpoint fails to listen, to load its           *)
(* certificate, or to serve.                                               *)
Report(s) ==
    /\ Alive /\ s # Startup
    /\ sender[s] = "running"
    /\ s # "signal" => Faults
    /\ sender' = [sender EXCEPT ![s] = "sending"]
    /\ UNCHANGED <<cfg, phase, opened, existing, run, excused, calls, crashed, pubsubVars>>

(* errc has no buffer: main takes one error, whoever else has one to       *)
(* report waits until the process ends.                                    *)
TakeError_NoSignal(s) ==
    /\ phase = "serving" /\ sender[s] = "sending" /\ s # "signal"
    /\ phase' = "close"
    /\ sender' = [sender EXCEPT ![s] = "done"]
    /\ UNCHANGED <<cfg, opened, existing, run, excused, calls, crashed, pubsubVars>>
TakeError(s) ==
    /\ phase = "serving" /\ sender[s] = "sending"
    /\ phase' = "close"
    /\ sender' = [sender EXCEPT ![s] = "done"]
    /\ UNCHANGED <<cfg, opened, existing, run, excused, calls, crashed, pubsubVars>>

(* Close: the database, then the publish/subscribe client.                 *)
CloseDB ==
    /\ phase = "close"
    /\ phase' = "disconnect"
    /\ opened' = opened \ {"db"}
    /\ UNCHANGED <<cfg, sender, existing, run, excused, calls, crashed, pubsubVars>>

(* Goroutines at an access of the map of Kafka subscriptions.              *)
AtMap(g) == Kind = "kafka" /\ run[g].pc \in {"watch", "unsubscribe", "stop"}

(* Whoever has found a stop channel and is about to close it may find it   *)
(* closed.                                                                 *)
Race(r, g, ts) == [h \in Goroutines |->
    IF h # g /\ r[h].pc = "stop" /\ r[h].t \in ts THEN [r[h] EXCEPT !.raced = TRUE] ELSE r[h]]

Disconnect ==
    /\ phase = "disconnect"
    /\ phase' = "exit"
    /\ CASE Kind = "mqtt"  -> MQTTDisconnect /\ UNCHANGED run
         [] Kind = "kafka" -> \E answer \in Answers \ {"late"} :
                                 /\ KafkaDisconnect(answer)
                                 /\ run' = IF answer = "ok" THEN Race(run, Startup, Topics) ELSE run
         [] Kind = "gcp"   -> GCPDisconnect /\ UNCHANGED run
    /\ UNCHANGED <<cfg, opened, sender, existing, excused, calls, crashed>>

(* The deferred functions of main end with os.Exit.                        *)
Exit ==
    /\ phase = "exit"
    /\ Ends("no")

-----------------------------------------------------------------------------
(* The subscription to the topics that exist.                              *)

At(g, pc) == Alive /\ run[g].pc = pc

StartupReads == run[Startup].pc \in {"page", "subscribe", "watch"}
FirstOf(S) == CHOOSE t \in S : \A u \in S : t <= u
PageOf(S, offset) ==
    {t \in S : LET rank == Cardinality({u \in S : u <= t}) IN offset < rank /\ rank <= offset + BatchSize}

(* errc <- ErrSubscribeExisting                                            *)
StartupFails ==
    /\ run' = [run EXCEPT ![Startup] = Idle]
    /\ sender' = [sender EXCEPT ![Startup] = "sending"]

CountTopics ==
    /\ At(Startup, "count")
    /\ \E ok \in Outcome(TRUE) :
         IF "db" \in opened /\ ok
         THEN /\ run' = [run EXCEPT ![Startup].pc = "page", ![Startup].count = Cardinality(existing)]
              /\ UNCHANGED sender
         ELSE StartupFails
    /\ UNCHANGED <<cfg, phase, opened, existing, excused, calls, crashed, pubsubVars>>

NextOffset_TooFar(r) == r.offset + BatchSize + 1
NextOffset(r) == r.offset + BatchSize

(* An empty page is a request to subscribe to nothing.                     *)
GetTopicsRange ==
    LET r == run[Startup] IN
    /\ At(Startup, "page")
    /\ IF r.offset >= r.count
       THEN /\ run' = [run EXCEPT ![Startup] = Idle]
            /\ sender' = [sender EXCEPT ![Startup] = "done"]
       ELSE \E ok \in Outcome(TRUE) :
              IF "db" \in opened /\ ok
              THEN LET page == PageOf(existing, r.offset)
                   IN  /\ run' = [run EXCEPT ![Startup].todo = page,
                                             ![Startup].pc = IF page = {} THEN "page" ELSE "subscribe",
                                             ![Startup].offset = NextOffset(r)]
                       /\ UNCHANGED sender
              ELSE StartupFails
    /\ UNCHANGED <<cfg, phase, opened, existing, excused, calls, crashed, pubsubVars>>

-----------------------------------------------------------------------------
(* API calls that create and remove topics.  Their other effects are those *)
(* of E4Service.                                                           *)

Call ==
    LET n == calls + 1 IN
    /\ phase \in {"serving", "close", "disconnect", "exit"}
    /\ \E e \in Endpoints : sender[e] = "running"
    /\ calls < MaxCalls
    /\ \E t \in Topics :
         \/ /\ ValidTopic(Kind, t)
            /\ run' = [run EXCEPT ![n].op = "NewTopic", ![n].pc = "commit", ![n].t = t]
         \/ run' = [run EXCEPT ![n].op = "RemoveTopic", ![n].t = t,
                               ![n].pc = IF ValidTopic(Kind, t) THEN "unsubscribe" ELSE "delete"]
    /\ calls' = n
    /\ UNCHANGED <<cfg, phase, opened, sender, existing, excused, crashed, pubsubVars>>

(* A change of the table moves the topics behind it to other pages.        *)
Shifted(t) == IF StartupReads THEN {u \in Topics : u > t} ELSE {}

CommitTopic(w) ==
    LET t == run[w].t IN
    /\ At(w, "commit")
    /\ \E ok \in Outcome(TRUE) :
         IF "db" \in opened /\ ok
         THEN /\ existing' = existing \cup {t}
              /\ excused' = excused \cup (IF t \in existing THEN {} ELSE Shifted(t))
              /\ run' = [run EXCEPT ![w].pc = "subscribe"]
         ELSE /\ run' = [run EXCEPT ![w] = Idle]
              /\ UNCHANGED <<existing, excused>>
    /\ UNCHANGED <<cfg, phase, opened, sender, calls, crashed, pubsubVars>>

DeleteTopic(w) ==
    LET t == run[w].t IN
    /\ At(w, "delete")
    /\ run' = [run EXCEPT ![w] = Idle]
    /\ \E ok \in Outcome(TRUE) :
         IF "db" \in opened /\ ok /\ t \in existing
         THEN /\ existing' = existing \ {t}
              /\ excused' = excused \cup Shifted(t)
         ELSE /\ excused' = excused \cup {t}
              /\ UNCHANGED existing
    /\ UNCHANGED <<cfg, phase, opened, sender, calls, crashed, pubsubVars>>

-----------------------------------------------------------------------------
(* Subscribing and unsubscribing, for all of them.  MQTT subscribes to a   *)
(* page at once, Kafka to a topic after another.                           *)

Targets(g) == IF g # Startup THEN {run[g].t}
              ELSE IF Kind = "kafka" THEN {FirstOf(run[g].todo)} ELSE run[g].todo

Subscribed(g, ts) ==
    run' = [run EXCEPT ![g] = IF g # Startup THEN Idle
                              ELSE [run[g] EXCEPT !.todo = run[g].todo \ ts,
                                                  !.pc = IF run[g].todo = ts THEN "page" ELSE "subscribe"]]

(* A call returns the error; the start-up goroutine ends the server.       *)
NotSubscribed(g, ts) ==
    /\ excused' = excused \cup ts
    /\ IF g = Startup THEN StartupFails ELSE run' = [run EXCEPT ![g] = Idle] /\ UNCHANGED sender

(* MQTT subscribes for monitoring only; GCP does nothing.                  *)
SubscribeNothing(g) ==
    /\ At(g, "subscribe")
    /\ Kind = "gcp" \/ (Kind = "mqtt" /\ ~Monitoring)
    /\ Subscribed(g, Targets(g))
    /\ UNCHANGED <<cfg, phase, opened, sender, existing, excused, calls, crashed, pubsubVars>>

SubscribeMQTT(g) ==
    LET ts == Targets(g) IN
    /\ At(g, "subscribe")
    /\ Kind = "mqtt" /\ Monitoring
    /\ \E answer \in Answers :
         LET sent == (\A t \in ts : ValidTopic(Kind, t)) /\ connected
         IN  /\ IF sent THEN MQTTSubscribe(ts, answer) ELSE UNCHANGED pubsubVars
             /\ IF sent /\ answer = "ok"
                THEN Subscribed(g, ts) /\ UNCHANGED <<excused, sender>>
                ELSE NotSubscribed(g, ts)
    /\ UNCHANGED <<cfg, phase, opened, existing, calls, crashed>>

(* ConsumePartition on the consumer that Disconnect has set to nil is a    *)
(* panic.                                                                  *)
SubscribeKafka(g) ==
    LET ts == Targets(g) IN
    /\ At(g, "subscribe")
    /\ Kind = "kafka"
    /\ IF \A t \in ts : ValidTopic(Kind, t)
       THEN IF ~connected THEN Ends("nil consumer")
            ELSE \E answer \in Answers \ {"late"} :
                   /\ IF answer = "ok" /\ \A t \in ts : CanConsume(t)
                      THEN /\ ConsumePartition(FirstOf(ts))
                           /\ run' = [run EXCEPT ![g].pc = "watch"]
                           /\ UNCHANGED <<excused, sender>>
                      ELSE NotSubscribed(g, ts) /\ UNCHANGED pubsubVars
                   /\ UNCHANGED <<cfg, phase, opened, existing, calls, crashed>>
       ELSE /\ NotSubscribed(g, ts)
            /\ UNCHANGED <<cfg, phase, opened, existing, calls, crashed, pubsubVars>>

(* Accesses of the map that overlap, one of them a write, may be fatal.    *)
Contended(g) == (\E h \in Goroutines \ {g} : AtMap(h)) \/ phase = "disconnect"

WatchKafka(g) ==
    LET ts == Targets(g) IN
    /\ At(g, "watch")
    /\ \/ /\ Watch(FirstOf(ts), Context(g))
          /\ Subscribed(g, ts)
          /\ UNCHANGED <<cfg, phase, opened, sender, existing, excused, calls, crashed>>
       \/ Contended(g) /\ Ends("map")

UnsubscribeMQTT(w) ==
    /\ At(w, "unsubscribe")
    /\ Kind \in {"mqtt", "gcp"}
    /\ run' = [run EXCEPT ![w].pc = "delete"]
    /\ IF Kind = "mqtt" /\ Monitoring /\ connected
       THEN \E answer \in Answers : MQTTUnsubscribe(run[w].t, answer)
       ELSE UNCHANGED pubsubVars
    /\ UNCHANGED <<cfg, phase, opened, sender, existing, excused, calls, crashed>>

UnsubscribeKafka(w) ==
    LET stop == subscribed[run[w].t].stop IN
    /\ At(w, "unsubscribe")
    /\ Kind = "kafka"
    /\ run' = [run EXCEPT ![w].pc = IF stop = 0 THEN "delete" ELSE "stop", ![w].stop = stop]
    /\ UNCHANGED <<cfg, phase, opened, sender, existing, excused, calls, crashed, pubsubVars>>

StopKafka(w) ==
    LET r == run[w] IN
    /\ At(w, "stop")
    /\ \/ r.stop \in closed /\ Ends("closed twice")
       \/ /\ r.stop \notin closed
          /\ StopWatching(r.t, r.stop)
          /\ run' = Race([run EXCEPT ![w] = [r EXCEPT !.pc = "delete", !.stop = 0, !.raced = FALSE]],
                         w, {r.t})
          /\ UNCHANGED <<cfg, phase, opened, sender, existing, excused, calls, crashed>>
       \/ Contended(w) /\ Ends("map")

-----------------------------------------------------------------------------
(* Watchers, and messages.                                                 *)

DoneContexts == {n \in 1..calls : run[n] = Idle}

WatcherEnds ==
    /\ Alive
    /\ WatcherStops \/ WatcherCancelled(DoneContexts)
    /\ UNCHANGED <<cfg, phase, opened, sender, existing, run, excused, calls, crashed>>

(* LooksCompressed compares slices of the first 4, 3, 7 and 2 bytes of a   *)
(* payload that is not text, whatever the capacity of its slice.           *)
OutOfRange(p) == ~p.utf8 /\ (p.cap < 4 \/ (p.cap < 7 /\ p.magic \notin {"zip", "gzip"}))

(* A message of a subscribed topic is classified, then sent to             *)
(* elasticsearch when monitoring is enabled.                               *)
Panics(p) == IF OutOfRange(p) THEN {"payload"}
             ELSE IF Monitoring /\ "es" \notin opened THEN {"nil elasticsearch"} ELSE {}
OnMessage ==
    /\ Alive
    /\ watchers # {} \/ brokerSubs # {}
    /\ \E p \in Payloads : \E why \in Panics(p) : Ends(why)

-----------------------------------------------------------------------------
Init ==
    /\ cfg \in Configurations
    /\ phase = "load"
    /\ opened = {}
    /\ sender = [s \in Senders |-> "off"]
    /\ existing \in Stored
    /\ run = [g \in Goroutines |-> Idle]
    /\ excused = {}
    /\ calls = 0
    /\ crashed = "no"
    /\ PubSubInit

MainStep == \/ Load \/ Validate \/ NewKey \/ NewESClient \/ NewDB \/ Migrate \/ ConnectPubSub \/ Observe
            \/ ListenAndServe \/ (\E s \in Senders : TakeError(s)) \/ CloseDB \/ Disconnect \/ Exit

Subscribe(g) == SubscribeNothing(g) \/ SubscribeMQTT(g) \/ SubscribeKafka(g) \/ WatchKafka(g)
StartupStep == CountTopics \/ GetTopicsRange \/ Subscribe(Startup)
Handle(w) == \/ CommitTopic(w) \/ Subscribe(w)
             \/ UnsubscribeMQTT(w) \/ UnsubscribeKafka(w) \/ StopKafka(w) \/ DeleteTopic(w)

Ended == ~Alive /\ UNCHANGED vars

Next == \/ MainStep \/ StartupStep \/ WatcherEnds \/ OnMessage \/ Ended
        \/ \E s \in Senders : Report(s)
        \/ Call \/ \E n \in Calls : Handle(n)

Spec == Init /\ [][Next]_vars

(* The goroutine of main is scheduled, and Close does not block.           *)
FairSpec == Spec /\ WF_vars(MainStep)

-----------------------------------------------------------------------------
(* Properties.                                                             *)

Phases == {"load", "validate", "key", "elasticsearch", "database", "migrate", "connect", "observe",
           "listen", "serving", "close", "disconnect", "exit", "exited"}
Runs == [op : {"none", "NewTopic", "RemoveTopic", "startup"},
         pc : {"idle", "count", "page", "commit", "delete", "subscribe", "watch", "unsubscribe", "stop"},
         t : 0..NumTopics, stop : Nat, raced : BOOLEAN,
         todo : SUBSET Topics, count : Nat, offset : Nat]

(* Type invariant: the goroutines, main and the client keep their shape,   *)
(* and a server that serves has its database and its client.               *)
TypeOK ==
    /\ PubSubTypeOK
    /\ cfg \in Configurations
    /\ phase \in Phases
    /\ opened \subseteq {"es", "db"}
    /\ sender \in [Senders -> {"off", "running", "sending", "done"}]
    /\ existing \subseteq Topics /\ excused \subseteq Topics
    /\ run \in [Goroutines -> Runs]
    /\ calls \in Nat
    /\ crashed \in {"no", "map", "closed twice", "nil consumer", "payload", "nil elasticsearch"}
    /\ phase = "serving" => "db" \in opened /\ connected

(* Start-up subscribes to every topic, whatever calls run beside it: once  *)
(* it is done and no call is in progress, each topic of the database is    *)
(* subscribed, except after an error, and except those behind a topic that *)
(* was created or removed while the pages were read.                       *)
StartupMissesNoTopic ==
    (/\ phase = "serving" /\ Monitoring /\ Kind \in {"mqtt", "kafka"}
     /\ sender[Startup] = "done" /\ \A g \in Goroutines : run[g] = Idle)
    => \A t \in existing \ excused : IF Kind = "mqtt" THEN t \in brokerSubs ELSE subscribed[t].stop # 0

(* A panic, or fatal error, has one of these reasons only: two accesses of *)
(* the map of Kafka subscriptions overlap; two removals of a topic, or one *)
(* and Disconnect, close the same channel; a call runs on after            *)
(* Disconnect; a message is too short to be classified.                    *)
Explained(why) ==
    CASE why = "map" -> \/ Cardinality({g \in Goroutines : AtMap(g)}) > 1
                        \/ phase = "disconnect" /\ \E g \in Goroutines : AtMap(g)
      [] why = "closed twice" -> \E w \in Calls : run[w].raced /\ run[w].stop \in closed
      [] why = "nil consumer" -> phase = "exit"
      [] OTHER -> why = "payload"
PanicsAreExplained == [][crashed' # crashed => Explained(crashed')]_vars

(* A signal, or an endpoint or a start-up that has failed, ends the        *)
(* process: main takes the report, whatever else is going on.              *)
ReportsEndTheServer ==
    \A s \in Senders : (phase = "serving" /\ sender[s] = "sending") ~> ~Alive
=============================================================================
