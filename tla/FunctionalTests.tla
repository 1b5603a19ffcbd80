--------------------------- MODULE FunctionalTests ---------------------------
(***************************************************************************)
(* The users of the API in this repository: the command line client, next  *)
(* to users of any kind, and the functional tests (functests/c2 and        *)
(* pkg/c2test), which run one suite over gRPC and one over HTTP, each on a *)
(* new server of its own.                                                  *)
(***************************************************************************)
EXTENDS CommandLine

CONSTANTS Users,      \* who runs: "cli", "grpc", "http"
          Registries  \* what the command line client may find

ASSUME UsersAssumption == Users \subseteq {"cli", "grpc", "http"}
ASSUME RegistriesAssumption ==
    \A reg \in Registries :
        /\ reg.registered \subseteq Names /\ reg.existing \subseteq Topics
        /\ reg.members \subseteq reg.registered \X reg.existing
        /\ reg.pairs \subseteq reg.registered \X reg.registered

VARIABLES user, step, verdict

vars == <<commandVars, user, step, verdict>>

-----------------------------------------------------------------------------
(* A test makes a call, and expects a status and what is listed.           *)

Test(method, client, topic, count, statuses, answer) ==
    [req |-> Request(method, client, NoName, topic, 0, count), statuses |-> statuses, answer |-> answer]
Passes(method, client, topic) == Test(method, client, topic, 0, {"OK"}, {})
Lists(method, client, count, answer) == Test(method, client, 0, count, {"OK"}, answer)

TestClients == 1..4
TestTopics == 1..4

(* The names of the tests are names.                                       *)
ASSUME SuitesAssumption ==
    Users \subseteq {"cli"} \/ (TestClients \subseteq Names /\ TestTopics \subseteq Topics)

(* Four clients and four topics.                                           *)
Creation == [i \in TestClients |-> Passes("NewClient", i, 0)] \o
            [i \in TestTopics |-> Passes("NewTopic", 0, i)]

(* A client joins a topic, and leaves it.                                  *)
Membership(joined, parted) ==
    << Passes("NewTopicClient", 1, 1),
       Lists("GetTopicsForClient", 1, joined, {1}),
       Passes("RemoveTopicClient", 1, 1),
       Lists("GetTopicsForClient", 1, parted, {}) >>

(* The topic is removed, and cannot be removed again.                      *)
Removal(refused) ==
    << Passes("RemoveTopic", 0, 1), Test("RemoveTopic", 0, 1, 0, refused, {}) >>

ListsTopics(count) == << Lists("GetTopics", 0, count, TestTopics \ {1}) >>
ListsClients(count) == << Lists("GetClients", 0, count, TestClients) >>
Listing(count) == ListsTopics(count) \o ListsClients(count)

(* The gateway turns the status of gRPC into that of HTTP.                 *)
HTTPStatus(status) ==
    CASE status = "OK" -> 200 [] status = "NotFound" -> 404 [] status = "InvalidArgument" -> 400 [] OTHER -> 500

Statuses == {"OK", "NotFound", "InvalidArgument", "Internal", "Unknown"}

(* Over gRPC, the second look at the topics of the client has no Count:    *)
(* LIMIT 0 lists nothing, whatever is there.  Any error will do for the    *)
(* second removal.                                                         *)
GRPCApi == Creation \o Membership(10, 0) \o Removal(Statuses \ {"OK"}) \o Listing(10)

HTTPApi == Creation \o Membership(10, 10) \o Removal({s \in Statuses : HTTPStatus(s) = 404})
           \o Listing(100)

Tests == IF user = "grpc" THEN GRPCApi ELSE HTTPApi

(* The first failure ends a suite.                                         *)
RunTest ==
    /\ user \in {"grpc", "http"} /\ verdict = "none" /\ step <= Len(Tests)
    /\ LET test == Tests[step]
           status == Status(test.req)
           passed == status \in test.statuses /\ Answer(test.req) = test.answer
       IN  /\ IF status = "OK" THEN Effect(test.req) ELSE UNCHANGED registryVars
           /\ verdict' = IF ~passed THEN "failed" ELSE IF step = Len(Tests) THEN "passed" ELSE "none"
    /\ step' = step + 1
    /\ UNCHANGED <<cliVars, changes, history, user>>

-----------------------------------------------------------------------------
Init ==
    /\ CommandInit
    /\ user \in Users /\ step = 1 /\ verdict = "none"
    /\ \E reg \in IF user = "cli" THEN Registries
                  ELSE {[registered |-> {}, existing |-> {}, members |-> {}, pairs |-> {}]} :
         /\ registered = reg.registered /\ existing = reg.existing
         /\ members = reg.members /\ pairs = reg.pairs
    /\ user # "cli" => cmd = CHOOSE c \in CommandLines : TRUE

Command == user = "cli" /\ CommandStep /\ UNCHANGED <<user, step, verdict>>
AnyoneElse == user = "cli" /\ OtherCall /\ UNCHANGED <<user, step, verdict>>
Finished == (exit # "none" \/ verdict # "none") /\ UNCHANGED vars

Next == Command \/ AnyoneElse \/ RunTest \/ Finished

(* The client, the server and the tests run on, and calls are answered.    *)
Spec == Init /\ [][Next]_vars /\ WF_vars(Command) /\ WF_vars(RunTest)

-----------------------------------------------------------------------------
TypeOK ==
    /\ R!TypeOK
    /\ cmd \in CommandLines
    /\ call.pc \in {"none", "lookup", "serve", "replied"} /\ call.status \in Statuses
    /\ left \in Nat /\ at \in Nat
    /\ out \in Seq(Names \cup Topics)
    /\ exit \in {"none", "ok", "error"} /\ changes \in 0..MaxChanges
    /\ step \in Nat /\ verdict \in {"none", "passed", "failed"}

(* The functional tests pass.                                              *)
SuitesPass == verdict # "failed"

(* A command returns, and a suite ends, whatever other users do.           *)
EveryUserIsDone == <>(exit # "none" \/ verdict # "none")
=============================================================================
