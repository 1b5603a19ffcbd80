----------------------------- MODULE CommandLine -----------------------------
(***************************************************************************)
(* The command line client (internal/cli): a process that runs a command,  *)
(* while other users of the API change the registry.                       *)
(*                                                                         *)
(* A listing asks for the count, then for a page after another, each       *)
(* counted from the start of what is in the database by then.              *)
(***************************************************************************)
EXTENDS Api, Sequences

CONSTANTS
    PageSize,    \* MaxPageSize
    Commands,    \* the commands of the instance
    Client, Target, Topic, \* the values of the flags of these names
    Offsets, Maxima,       \* values of --offset and --count; 0: all
    Others,      \* requests of the other users
    MaxChanges,  \* bound: how many of them are served
    Faults       \* TRUE: calls and files may fail

ASSUME PageSizeAssumption == PageSize \in Nat \ {0} /\ PageSize <= QueryLimit
ASSUME FlagsAssumption == Offsets \subseteq Nat /\ Maxima \subseteq Nat
ASSUME ValuesAssumption == {Client, Target} \subseteq Names \cup {NoClient, NoName} /\ Topic \in Topics
ASSUME OthersAssumption ==
    \A r \in Others : r.client \in Names \cup {NoClient, NoName} /\ r.topic \in Topics
ASSUME MaxChangesAssumption == MaxChanges \in Nat /\ Faults \in BOOLEAN

VARIABLES
    cmd,     \* the command line: command, flags given, --offset and --count
    call,    \* the call in progress: its request, what it is about to do, its result
    left,    \* totalCount: items still to be asked for
    at,      \* currentOffset
    out,     \* what has been printed of a listing
    exit,    \* "none" while the command runs, then "ok" or "error"
    changes, \* requests of the other users that were served
    history  \* the listed collection: when it was counted, added and removed since;
             \* whether the count failed unnoticed; whether nobody else changed
             \* anything since the last call

cliVars == <<cmd, call, left, at, out, exit>>
commandVars == <<registryVars, cliVars, changes, history>>

-----------------------------------------------------------------------------
(* The method that does the work of a command, or "none" when the flags    *)
(* given are refused.                                                      *)

Needs(given, flags, method) == IF flags \subseteq given THEN method ELSE "none"

ClientsCreate(given) ==
    IF "name" \in given /\ Cardinality(given \cap {"key", "password"}) = 1 THEN "NewClient" ELSE "none"
ClientsRemove(given)       == Needs(given, {"name"}, "RemoveClient")
ClientsReset(given)        == Needs(given, {"name"}, "ResetClient")
ClientsNewKey(given)       == Needs(given, {"name"}, "NewClientKey")
ClientsLink(given)         == Needs(given, {"source", "target"}, "LinkClient")
ClientsUnlink(given)       == Needs(given, {"source", "target"}, "UnlinkClient")
ClientsSendPubKey(given)   == Needs(given, {"source", "target"}, "SendClientPubKey")
ClientsRemovePubKey(given) == Needs(given, {"source", "target"}, "RemoveClientPubKey")
ClientsResetPubKeys(given) == Needs(given, {"target"}, "ResetClientPubKeys")
ClientsList(given)         == "GetClients"
ClientsListTopics(given)   == Needs(given, {"name"}, "GetTopicsForClient")
ClientsListLinked(given)   == Needs(given, {"name"}, "GetLinkedClients")
TopicsCreate(given)        == Needs(given, {"name"}, "NewTopic")
TopicsRemove(given)        == Needs(given, {"name"}, "RemoveTopic")
TopicsList(given)          == "GetTopics"
TopicsListClients(given)   == Needs(given, {"name"}, "GetClientsForTopic")
Attach(given)              == Needs(given, {"client", "topic"}, "NewTopicClient")
Detach(given)              == Needs(given, {"client", "topic"}, "RemoveTopicClient")
NewC2KeyCommand(given)     == Needs(given, {"force"}, "NewC2Key")
Protect(given)             == Needs(given, {"topic", "message"}, "ProtectMessage")
Unprotect(given)           == Needs(given, {"topic", "message"}, "UnprotectMessage")
Count(given) ==
    CASE given = {"clients"}          -> "CountClients"
      [] given = {"clients", "topic"} -> "CountClientsForTopic"
      [] given = {"topics"}           -> "CountTopics"
      [] given = {"topics", "client"} -> "CountTopicsForClient"
      [] OTHER -> "none"

(* The commands.                                                           *)
ClientCommands == {"create", "remove", "reset", "newKey", "link", "unlink", "sendPubKey", "removePubKey",
                   "resetPubKeys", "list", "listTopics", "listLinked"}
TopicCommands == {"createTopic", "removeTopic", "topicsList", "listClients"}
AllCommands == ClientCommands \cup TopicCommands
               \cup {"attach", "detach", "newC2Key", "protect", "unprotect", "count"}

ASSUME CommandsAssumption == Commands \subseteq AllCommands

(* The flags of each.                                                      *)
Flags == [
    create |-> {"name", "key", "password"}, remove |-> {"name"}, reset |-> {"name"}, newKey |-> {"name"},
    link |-> {"source", "target"}, unlink |-> {"source", "target"}, sendPubKey |-> {"source", "target"},
    removePubKey |-> {"source", "target"}, resetPubKeys |-> {"target"}, list |-> {},
    listTopics |-> {"name"}, listLinked |-> {"name"}, createTopic |-> {"name"}, removeTopic |-> {"name"},
    topicsList |-> {}, listClients |-> {"name"}, attach |-> {"client", "topic"}, detach |-> {"client", "topic"},
    newC2Key |-> {"force"}, protect |-> {"topic", "message"}, unprotect |-> {"topic", "message"},
    count |-> {"clients", "topics", "client", "topic"}]

Method(name, given) ==
    CASE name = "create" -> ClientsCreate(given)         [] name = "remove" -> ClientsRemove(given)
      [] name = "reset" -> ClientsReset(given)           [] name = "newKey" -> ClientsNewKey(given)
      [] name = "link" -> ClientsLink(given)             [] name = "unlink" -> ClientsUnlink(given)
      [] name = "sendPubKey" -> ClientsSendPubKey(given) [] name = "removePubKey" -> ClientsRemovePubKey(given)
      [] name = "resetPubKeys" -> ClientsResetPubKeys(given) [] name = "list" -> ClientsList(given)
      [] name = "listTopics" -> ClientsListTopics(given) [] name = "listLinked" -> ClientsListLinked(given)
      [] name = "createTopic" -> TopicsCreate(given)     [] name = "removeTopic" -> TopicsRemove(given)
      [] name = "topicsList" -> TopicsList(given)        [] name = "listClients" -> TopicsListClients(given)
      [] name = "attach" -> Attach(given)                [] name = "detach" -> Detach(given)
      [] name = "newC2Key" -> NewC2KeyCommand(given)     [] name = "protect" -> Protect(given)
      [] name = "unprotect" -> Unprotect(given)          [] name = "count" -> Count(given)

(* What a command asks before it does its work.                            *)
Before(method) ==
    CASE method = "GetClients" -> "CountClients"
      [] method = "GetTopics"  -> "CountTopics"
      [] method = "GetTopicsForClient" -> "CountTopicsForClient"
      [] method = "GetClientsForTopic" -> "CountClientsForTopic"
      [] method = "GetLinkedClients"   -> "CountLinkedClients"
      [] method = "NewClient"  -> "GetCryptoMode"
      [] OTHER -> "none"

Work == Method(cmd.name, cmd.given)
IsListing == Before(Work) \notin {"none", "GetCryptoMode"}

-----------------------------------------------------------------------------
(* The command.                                                            *)

NoCall == [req |-> Request("none", Client, Target, Topic, 0, 0), pc |-> "none", status |-> "OK",
           gone |-> FALSE, count |-> 0, items |-> {}]

Send(method, offset, count) ==
    call' = [NoCall EXCEPT !.req = Request(method, Client, Target, Topic, offset, count),
                           !.pc = IF TwoStatements(Request(method, 0, 0, 0, 0, 0)) THEN "lookup" ELSE "serve"]

Returns(how) ==
    /\ exit' = how
    /\ call' = NoCall
    /\ UNCHANGED <<left, at, out>>

(* The flags are checked, then the connection is set up.                   *)
Start ==
    /\ exit = "none" /\ call = NoCall
    /\ \/ /\ Work = "none" \/ Faults
          /\ Returns("error")
       \/ /\ Work # "none"
          /\ Send(IF Before(Work) = "none" THEN Work ELSE Before(Work), 0, 0)
          /\ UNCHANGED <<left, at, out, exit>>
    /\ UNCHANGED <<registryVars, cmd, changes, history>>

AtMost(n, m) == IF n < m THEN n ELSE m

(* The loop of a listing: ask for the next page, or return.                *)
NextPage(total, offset, printed) ==
    /\ left' = total /\ at' = offset /\ out' = printed
    /\ IF total > 0
       THEN Send(Work, offset, AtMost(PageSize, total)) /\ UNCHANGED exit
       ELSE call' = NoCall /\ exit' = "ok"

Replied(method) == exit = "none" /\ call.pc = "replied" /\ call.req.method = method

ReceiveError ==
    /\ exit = "none" /\ call.pc = "replied"
    /\ call.status # "OK"
    /\ Returns("error")
    /\ UNCHANGED <<registryVars, cmd, changes, history>>

ReceiveCount ==
    /\ Replied(Before(Work)) /\ IsListing
    /\ call.status = "OK"
    /\ NextPage(IF cmd.max > 0 THEN AtMost(call.count, cmd.max) ELSE call.count, cmd.offset, <<>>)
    /\ UNCHANGED <<registryVars, cmd, changes, history>>

(* The key, or the password, is read and checked.                          *)
ReceiveCryptoMode ==
    /\ Replied("GetCryptoMode")
    /\ call.status = "OK"
    /\ \/ Faults /\ Returns("error")
       \/ Send("NewClient", 0, 0) /\ UNCHANGED <<left, at, out, exit>>
    /\ UNCHANGED <<registryVars, cmd, changes, history>>

(* The rows of a page, in the order of the query.                          *)
Sorted(S) == [i \in 1..Cardinality(S) |-> CHOOSE x \in S : Rank(S, x) = i]

(* Total and offset advance by what was asked for, whatever came.          *)
ReceivePage_ByReceived ==
    /\ Replied(Work) /\ IsListing
    /\ call.status = "OK"
    /\ NextPage(left - Cardinality(call.items), at + Cardinality(call.items), out \o Sorted(call.items))
    /\ UNCHANGED <<registryVars, cmd, changes, history>>
ReceivePage_SameOffset ==
    /\ Replied(Work) /\ IsListing
    /\ call.status = "OK"
    /\ NextPage(left - call.req.count, at, out \o Sorted(call.items))
    /\ UNCHANGED <<registryVars, cmd, changes, history>>
ReceivePage_TooFar ==
    /\ Replied(Work) /\ IsListing
    /\ call.status = "OK"
    /\ NextPage(left - call.req.count, at + call.req.count + 1, out \o Sorted(call.items))
    /\ UNCHANGED <<registryVars, cmd, changes, history>>
ReceivePage_WholePages ==
    /\ Replied(Work) /\ IsListing
    /\ call.status = "OK"
    /\ NextPage(left - PageSize, at + PageSize, out \o Sorted(call.items))
    /\ UNCHANGED <<registryVars, cmd, changes, history>>
ReceivePage ==
    /\ Replied(Work) /\ IsListing
    /\ call.status = "OK"
    /\ NextPage(left - call.req.count, at + call.req.count, out \o Sorted(call.items))
    /\ UNCHANGED <<registryVars, cmd, changes, history>>

ReceiveResult ==
    /\ Replied(Work) /\ ~IsListing
    /\ call.status = "OK"
    /\ Returns("ok")
    /\ UNCHANGED <<registryVars, cmd, changes, history>>

-----------------------------------------------------------------------------
(* The server, and the other users.                                        *)

Undisturbed(S) == [counted |-> S, added |-> {}, removed |-> {}, uncounted |-> FALSE, quiet |-> TRUE]

(* The count that begins a listing, of what it found or failed to find.    *)
Noted(found, failed) ==
    IF IsListing /\ call.req.method = Before(Work) THEN [Undisturbed(found) EXCEPT !.uncounted = failed]
    ELSE [history EXCEPT !.quiet = TRUE]

(* Counts over a relation: an error of the counting statement is dropped.  *)
RelationCounts == {"CountTopicsForClient", "CountClientsForTopic", "CountLinkedClients"}

(* The first statement of a query on a relation.                           *)
Lookup ==
    /\ call.pc = "lookup"
    /\ call' = IF Status(call.req) = "OK" THEN [call EXCEPT !.pc = "serve"]
               ELSE [call EXCEPT !.pc = "replied", !.status = Status(call.req)]
    /\ UNCHANGED <<registryVars, cmd, left, at, out, exit, changes, history>>

(* The second statement does not see that the owner has gone meanwhile:    *)
(* it finds nothing.  A count that fails is answered with zero.            *)
Serve ==
    LET r == call.req
        relation == TwoStatements(r)
        status == IF relation THEN "OK" ELSE Status(r)
        found == IF call.gone THEN {} ELSE Collection(r)
    IN
    /\ call.pc = "serve"
    /\ \/ /\ call' = [call EXCEPT !.pc = "replied", !.status = status,
                                  !.count = Cardinality(found),
                                  !.items = IF call.gone THEN {} ELSE Answer(r)]
          /\ IF status = "OK" THEN Effect(r) ELSE UNCHANGED registryVars
          /\ history' = Noted(found, FALSE)
       \/ /\ Faults
          /\ call' = [call EXCEPT !.pc = "replied", !.status = "Internal"]
          /\ \/ UNCHANGED registryVars
             \/ FailsLate(r) /\ status = "OK" /\ Effect(r)
          /\ history' = Noted(found, FALSE)
       \/ /\ Faults /\ r.method \in RelationCounts
          /\ call' = [call EXCEPT !.pc = "replied", !.status = "OK", !.count = 0, !.items = {}]
          /\ UNCHANGED registryVars
          /\ history' = Noted(found, TRUE)
    /\ UNCHANGED <<cmd, left, at, out, exit, changes>>

(* A call of another user is served.                                       *)
OtherCall ==
    LET asked == Request(Work, Client, Target, Topic, 0, 0)
        listed == Collection(asked)
    IN
    /\ UNCHANGED <<cmd, left, at, out, exit>>
    /\ exit = "none" /\ changes < MaxChanges
    /\ \E r \in Others :
         /\ Status(r) = "OK"
         /\ Effect(r)
         /\ registryVars' # registryVars
    /\ changes' = changes + 1
    /\ call' = IF /\ call.pc = "serve" /\ TwoStatements(call.req)
                  /\ ~OwnerIn(call.req, registered', existing')
               THEN [call EXCEPT !.gone = TRUE] ELSE call
    /\ LET now == Collection(asked)'
       IN  history' = [history EXCEPT !.added = @ \cup (now \ listed), !.removed = @ \cup (listed \ now),
                                      !.quiet = FALSE]

-----------------------------------------------------------------------------
CommandLines == UNION {[name : {name}, given : SUBSET Flags[name], offset : Offsets, max : Maxima]
                        : name \in Commands}

(* --offset and --count are flags of the listings.                         *)
CommandInit ==
    /\ cmd \in {c \in CommandLines : Before(Method(c.name, c.given)) \in {"none", "GetCryptoMode"}
                                            => c.offset = 0 /\ c.max = 0}
    /\ call = NoCall /\ left = 0 /\ at = 0 /\ out = <<>> /\ exit = "none"
    /\ changes = 0
    /\ history = Undisturbed({})

CommandStep == \/ Start \/ ReceiveError \/ ReceiveCount \/ ReceiveCryptoMode \/ ReceivePage
               \/ ReceiveResult \/ Lookup \/ Serve

-----------------------------------------------------------------------------
(* Properties.                                                             *)

Listed == exit = "ok" /\ IsListing

(* A listing prints what it was asked for, from --offset on, in order,     *)
(* when nothing is added or removed while it runs: nothing at all, without *)
(* an error, when counting what is listed has failed unnoticed.            *)
UndisturbedListingIsExact ==
    Listed /\ history.added = {} /\ history.removed = {} =>
        LET all == Sorted(history.counted)
            wanted == IF cmd.max > 0 THEN cmd.max ELSE Len(all)
        IN  out = IF history.uncounted THEN <<>>
                  ELSE SubSeq(all, cmd.offset + 1, AtMost(cmd.offset + wanted, Len(all)))

(* An item is printed twice only when one before it was added meanwhile.   *)
TwiceOnlyBehindAnAddition ==
    \A i, j \in DOMAIN out : i < j /\ out[i] = out[j] => \E x \in history.added : x < out[i]

(* A listing of everything misses an item that was there all the time only *)
(* when one before it was added or removed meanwhile, or when the count    *)
(* has failed unnoticed.                                                   *)
MissedOnlyBehindAChange ==
    Listed /\ ~history.uncounted /\ cmd.offset = 0 /\ cmd.max = 0 =>
        \A x \in history.counted \ history.removed :
            \/ \E i \in DOMAIN out : out[i] = x
            \/ \E y \in history.added \cup history.removed : y < x

(* What a command that does not list has done.                             *)
TookEffect ==
    CASE Work = "NewClient"         -> Client \in registered
      [] Work = "RemoveClient"      -> Client \notin registered \cup {m[1] : m \in members}
                                            \cup UNION {{p[1], p[2]} : p \in pairs}
      [] Work = "NewTopic"          -> Topic \in existing
      [] Work = "RemoveTopic"       -> Topic \notin existing
      [] Work = "NewTopicClient"    -> Topic \in Collection(Request("GetTopicsForClient", Client, 0, 0, 0, 0))
      [] Work = "RemoveTopicClient" -> Client \notin Collection(Request("GetClientsForTopic", 0, 0, Topic, 0, 0))
      [] Work = "LinkClient"        -> Client \in Collection(Request("GetLinkedClients", Target, 0, 0, 0, 0))
      [] Work = "UnlinkClient"      -> Client \notin Collection(Request("GetLinkedClients", Target, 0, 0, 0, 0))
      [] OTHER -> TRUE

(* A command that ends without an error has done what it says, unless      *)
(* another user has undone it; what was linked is listed on the target.    *)
SuccessTookEffect == exit = "ok" /\ history.quiet => TookEffect
=============================================================================
