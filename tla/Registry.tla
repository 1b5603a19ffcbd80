------------------------------ MODULE Registry ------------------------------
(***************************************************************************)
(* What the C2 server promises to the users of its API about clients and   *)
(* topics: a registry whose operations take effect at once.  There are no  *)
(* rows, primary keys, transactions or messages here.                      *)
(***************************************************************************)
CONSTANTS Names, Topics

VARIABLES
    registered,  \* the clients
    existing,    \* the topics
    members,     \* <<c, t>>: client c is a client of topic t
    pairs        \* <<a, b>>: b is one of the clients linked to a

vars == <<registered, existing, members, pairs>>

TypeOK ==
    /\ registered \subseteq Names
    /\ existing \subseteq Topics
    /\ members \subseteq registered \X existing
    /\ pairs \subseteq registered \X registered

(* A client or a topic is new: it starts with no link.                     *)
Register(c) ==
    /\ c \notin registered
    /\ registered' = registered \cup {c}
    /\ UNCHANGED <<existing, members, pairs>>

Create(t) ==
    /\ t \notin existing
    /\ existing' = existing \cup {t}
    /\ UNCHANGED <<registered, members, pairs>>

(* Its links go with it.                                                   *)
Unregister(c) ==
    /\ c \in registered
    /\ registered' = registered \ {c}
    /\ members' = {m \in members : m[1] # c}
    /\ pairs' = {p \in pairs : p[1] # c /\ p[2] # c}
    /\ UNCHANGED existing

Remove(t) ==
    /\ t \in existing
    /\ existing' = existing \ {t}
    /\ members' = {m \in members : m[2] # t}
    /\ UNCHANGED <<registered, pairs>>

(* Only what exists is linked.                                             *)
Join(c, t) ==
    /\ c \in registered /\ t \in existing
    /\ members' = members \cup {<<c, t>>}
    /\ UNCHANGED <<registered, existing, pairs>>

Leave(c, t) ==
    /\ members' = members \ {<<c, t>>}
    /\ UNCHANGED <<registered, existing, pairs>>

Pair(a, b) ==
    /\ a \in registered /\ b \in registered
    /\ pairs' = pairs \cup {<<a, b>>}
    /\ UNCHANGED <<registered, existing, members>>

Unpair(a, b) ==
    /\ pairs' = pairs \ {<<a, b>>}
    /\ UNCHANGED <<registered, existing, members>>

Init == TypeOK

Next ==
    \/ \E c \in Names : Register(c) \/ Unregister(c)
    \/ \E t \in Topics : Create(t) \/ Remove(t)
    \/ \E c \in Names, t \in Topics : Join(c, t) \/ Leave(c, t)
    \/ \E a, b \in Names : Pair(a, b) \/ Unpair(a, b)

Spec == Init /\ [][Next]_vars
=============================================================================
