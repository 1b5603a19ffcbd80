------------------------- MODULE CommandLineProofs --------------------------
(***************************************************************************)
(* Theorems about the command line client beside other users: a listing    *)
(* prints what was there when nothing changes while it runs; what it       *)
(* repeats or misses lies behind a change; a command that ends without an  *)
(* error has done its work.                                                *)
(***************************************************************************)
EXTENDS FunctionalTests, FiniteSetTheorems, SequenceTheorems, TLAPS

-----------------------------------------------------------------------------
(* What the command is about: what it lists, if it lists.                  *)
Asked == Request(Work, Client, Target, Topic, 0, 0)
Shown == Collection(Asked)

(* The elements of S before x.                                             *)
Below(S, x) == Cardinality({y \in S : y < x})

IsPrinted(x) == \E i \in DOMAIN out : out[i] = x
AddedBefore(x) == \E y \in history.added : y < x
ChangedBefore(x) == \E y \in history.added \cup history.removed : y < x

(* How many of n items a page has.                                         *)
Within(n, offset, limit) == IF AtMost(offset + limit, n) > offset THEN AtMost(offset + limit, n) - offset ELSE 0

-----------------------------------------------------------------------------
(* The command: what it has asked for, and what it has printed by then.    *)

(* The page in progress, the answer that has arrived.                      *)
Paging == IsListing /\ call.pc # "none" /\ call.req.method = Work
Answered == call.pc = "replied" /\ call.status = "OK"

(* A command asks for what comes before its work, then for its work: a     *)
(* listing, for the page it is at.                                         *)
CallInv ==
    /\ call.pc = "none" => call = NoCall /\ (exit = "none" => out = <<>>)
    /\ call.pc # "none" =>
         /\ exit = "none" /\ Work # "none"
         /\ \/ /\ Before(Work) # "none" /\ out = <<>>
               /\ call.req = Request(Before(Work), Client, Target, Topic, 0, 0)
            \/ ~IsListing /\ call.req = Request(Work, Client, Target, Topic, 0, 0)
            \/ /\ IsListing /\ left > 0
               /\ call.req = Request(Work, Client, Target, Topic, at, AtMost(PageSize, left))
    /\ user # "cli" => /\ call = NoCall /\ out = <<>> /\ exit = "none" /\ history = Undisturbed({})

(* The count a listing gets: zero when counting failed unnoticed.          *)
Reported == IF history.uncounted THEN 0 ELSE Cardinality(history.counted)

(* Items a listing asks for, by the count it got.                          *)
Total == LET n == Reported
         IN  IF cmd.max > 0 THEN AtMost(n, cmd.max) ELSE n

(* What has been asked for and what is left make the total.                *)
TotalInv ==
    /\ IsListing /\ Answered /\ call.req.method = Before(Work) => call.count = Reported
    /\ Paging \/ Listed => at >= cmd.offset /\ at + left = cmd.offset + Total
    /\ Listed => left = 0

(* What is listed differs from what was counted by what has changed.  A    *)
(* count whose owner has gone is zero, whatever has come in its place.     *)
HistoryInv ==
    /\ history.counted \ Shown \subseteq history.removed
    /\ history.counted # {} => Shown \ history.counted \subseteq history.added
    /\ Paging /\ call.gone => history.counted \subseteq history.removed

(* What has been printed is behind the offset, and what has arrived is     *)
(* behind the next one, unless something was added before it.              *)
TwiceInv ==
    /\ \A i \in DOMAIN out : Below(Shown, out[i]) < at \/ AddedBefore(out[i])
    /\ Paging /\ Answered => \A x \in call.items :
         /\ Below(Shown, x) < at + call.req.count \/ AddedBefore(x)
         /\ IsPrinted(x) => AddedBefore(x)

(* What was counted and is there is printed, has arrived, or lies ahead,   *)
(* unless something changed before it.                                     *)
MissedInv ==
    /\ Paging \/ Listed => \A x \in history.counted \ history.removed :
         \/ ChangedBefore(x) \/ IsPrinted(x)
         \/ Below(history.counted, x) < cmd.offset \/ at <= Below(history.counted, x)
    /\ Paging /\ Answered => \A x \in history.counted \ history.removed :
         \/ ChangedBefore(x) \/ x \in call.items
         \/ Below(history.counted, x) < at \/ at + call.req.count <= Below(history.counted, x)

(* Without a change, what is printed is what was counted, from the offset  *)
(* of the command to that of the next page.                                *)
Reached == AtMost(at, Cardinality(history.counted))
ExactInv ==
    history.added = {} /\ history.removed = {} =>
        /\ Paging \/ Listed =>
             /\ Len(out) = IF Reached > cmd.offset THEN Reached - cmd.offset ELSE 0
             /\ \A i \in 1..Len(out) : out[i] = Sorted(history.counted)[cmd.offset + i]
        /\ Paging /\ Answered => call.items = Page(history.counted, at, call.req.count)

(* What it has done when its answer has arrived.                           *)
EffectInv ==
    history.quiet =>
        /\ exit = "ok" => TookEffect
        /\ Answered /\ call.req.method = Work => TookEffect

-----------------------------------------------------------------------------
(* Places, and sorting.                                                    *)

LEMMA Below_Finite ==
    ASSUME NEW S \in SUBSET Nat, IsFiniteSet(S), NEW x \in Nat
    PROVE  /\ IsFiniteSet({y \in S : y < x}) /\ IsFiniteSet({y \in S : y <= x})
           /\ Below(S, x) \in Nat /\ Rank(S, x) \in Nat
           /\ Below(S, x) <= Cardinality(S) /\ Rank(S, x) <= Cardinality(S) /\ Cardinality(S) \in Nat
  <1>1. {y \in S : y < x} \in SUBSET S /\ {y \in S : y <= x} \in SUBSET S
    OBVIOUS
  <1> QED
    BY <1>1, FS_Subset, FS_CardinalityType DEF Below, Rank

(* An element comes after those below it.                                  *)
LEMMA RankAfter ==
    ASSUME NEW S \in SUBSET Nat, IsFiniteSet(S), NEW x \in S
    PROVE  /\ Rank(S, x) = Below(S, x) + 1
           /\ Rank(S, x) \in 1..Cardinality(S) /\ Below(S, x) < Cardinality(S)
  <1> DEFINE B == {y \in S : y < x}
  <1>1. {y \in S : y <= x} = B \cup {x} /\ x \notin B
    <2>1. x \in Nat /\ \A y \in S : y \in Nat
      OBVIOUS
    <2>2. \A y \in S : y <= x <=> y < x \/ y = x
      BY <2>1
    <2>3. ~(x < x) /\ x \in S
      BY <2>1
    <2> QED
      BY <2>2, <2>3, Zenon
  <1>2. IsFiniteSet(B) /\ Cardinality(B) \in Nat /\ Cardinality(S) \in Nat /\ Rank(S, x) <= Cardinality(S)
    BY Below_Finite DEF Below
  <1> HIDE DEF B
  <1>3. Cardinality(B \cup {x}) = Cardinality(B) + 1
    BY <1>1, <1>2, FS_AddElement
  <1>4. Rank(S, x) = Cardinality(B \cup {x}) /\ Below(S, x) = Cardinality(B)
    BY <1>1 DEF Rank, Below, B
  <1> QED
    BY <1>2, <1>3, <1>4

LEMMA RankOrder ==
    ASSUME NEW S \in SUBSET Nat, IsFiniteSet(S), NEW x \in S, NEW y \in S, x < y
    PROVE  Rank(S, x) < Rank(S, y)
  <1> DEFINE A == {z \in S : z <= x}
             B == {z \in S : z <= y}
  <1>1. A \in SUBSET B /\ y \in B /\ y \notin A
    <2>1. x \in Nat /\ y \in Nat /\ \A z \in S : z \in Nat
      OBVIOUS
    <2>2. \A z \in S : z <= x => z <= y
      BY <2>1
    <2>3. y <= y /\ ~(y <= x)
      BY <2>1
    <2> QED
      BY <2>2, <2>3
  <1>2. IsFiniteSet(B) /\ Cardinality(A) \in Nat /\ Cardinality(B) \in Nat
    BY Below_Finite DEF Rank
  <1> HIDE DEF A, B
  <1>3. Cardinality(A) <= Cardinality(B) /\ Cardinality(A) # Cardinality(B)
    BY <1>1, <1>2, FS_Subset
  <1>4. Rank(S, x) = Cardinality(A) /\ Rank(S, y) = Cardinality(B)
    BY DEF Rank, A, B
  <1> QED
    BY <1>2, <1>3, <1>4

(* There is an element at every place.                                     *)
LEMMA RankOnto ==
    ASSUME NEW S \in SUBSET Nat, IsFiniteSet(S), NEW i \in 1..Cardinality(S)
    PROVE  \E x \in S : Rank(S, x) = i
  <1> DEFINE n == Cardinality(S)
             f == [x \in S |-> Rank(S, x)]
  <1>1. n \in Nat
    BY FS_CardinalityType
  <1>2. f \in [S -> 1..n]
    BY RankAfter
  <1>3. \A x, y \in S : f[x] = f[y] => x = y
    <2> SUFFICES ASSUME NEW x \in S, NEW y \in S, x # y
                 PROVE  f[x] # f[y]
      OBVIOUS
    <2>1. Rank(S, x) \in Nat /\ Rank(S, y) \in Nat /\ x \in Nat /\ y \in Nat
      BY RankAfter
    <2>2. x < y => Rank(S, x) < Rank(S, y)
      BY RankOrder
    <2>3. y < x => Rank(S, y) < Rank(S, x)
      BY RankOrder
    <2>4. Rank(S, x) # Rank(S, y)
      BY <2>1, <2>2, <2>3
    <2> QED
      BY <2>4
  <1>4. f \in Injection(S, 1..n)
    BY <1>2, <1>3 DEF Injection, IsInjective
  <1>5. IsFiniteSet(1..n) /\ Cardinality(1..n) = n
    BY <1>1, FS_Interval
  <1>6. f \in Surjection(S, 1..n)
    BY <1>4, <1>5, FS_Injection
  <1>7. \E x \in S : f[x] = i
    BY <1>6 DEF Surjection
  <1> QED
    BY <1>7

LEMMA SortedIs ==
    ASSUME NEW S \in SUBSET Nat, IsFiniteSet(S)
    PROVE  /\ Sorted(S) \in [1..Cardinality(S) -> S] /\ Cardinality(S) \in Nat
           /\ \A i \in 1..Cardinality(S) : Rank(S, Sorted(S)[i]) = i
           /\ \A x \in S : Sorted(S)[Rank(S, x)] = x
  <1>1. ASSUME NEW i \in 1..Cardinality(S)
        PROVE  Sorted(S)[i] \in S /\ Rank(S, Sorted(S)[i]) = i
    <2>1. \E x \in S : Rank(S, x) = i
      BY RankOnto
    <2>2. Sorted(S)[i] = CHOOSE x \in S : Rank(S, x) = i
      BY DEF Sorted
    <2> QED
      BY <2>1, <2>2
  <1>2. ASSUME NEW x \in S
        PROVE  Sorted(S)[Rank(S, x)] = x
    <2> DEFINE y == Sorted(S)[Rank(S, x)]
    <2>1. y \in S /\ Rank(S, y) = Rank(S, x)
      BY <1>1, RankAfter
    <2> HIDE DEF y
    <2>2. Rank(S, x) \in Nat /\ Rank(S, y) \in Nat /\ x \in Nat /\ y \in Nat
      BY <2>1, RankAfter
    <2>3. x < y => Rank(S, x) < Rank(S, y)
      BY <2>1, RankOrder
    <2>4. y < x => Rank(S, y) < Rank(S, x)
      BY <2>1, RankOrder
    <2>5. y = x
      BY <2>1, <2>2, <2>3, <2>4
    <2> QED
      BY <2>5 DEF y
  <1>3. Sorted(S) = [i \in 1..Cardinality(S) |-> Sorted(S)[i]] /\ Cardinality(S) \in Nat
    BY FS_CardinalityType DEF Sorted
  <1> QED
    BY <1>1, <1>2, <1>3

(* Nothing else sorts a set.                                               *)
LEMMA SortedUnique ==
    ASSUME NEW P \in SUBSET Nat, NEW n \in Nat, NEW f \in [1..n -> P],
           \A i, j \in 1..n : i < j => f[i] < f[j],
           \A x \in P : \E i \in 1..n : f[i] = x
    PROVE  IsFiniteSet(P) /\ Cardinality(P) = n /\ Sorted(P) = f
  <1>1. \A i, j \in 1..n : f[i] <= f[j] <=> i <= j
    <2> SUFFICES ASSUME NEW i \in 1..n, NEW j \in 1..n
                 PROVE  f[i] <= f[j] <=> i <= j
      OBVIOUS
    <2>1. f[i] \in Nat /\ f[j] \in Nat /\ (i < j => f[i] < f[j]) /\ (j < i => f[j] < f[i])
      OBVIOUS
    <2>2. i = j => f[i] = f[j]
      OBVIOUS
    <2> QED
      BY <2>1, <2>2
  <1>2. ASSUME NEW m \in 0..n, NEW Q, Q = {f[i] : i \in 1..m}
        PROVE  IsFiniteSet(Q) /\ Cardinality(Q) = m
    <2> DEFINE g == [i \in 1..m |-> f[i]]
    <2>1. g \in [1..m -> Q] /\ 1..m \subseteq 1..n
      BY <1>2
    <2>2. \A i, j \in 1..m : g[i] = g[j] => i = j
      <3> SUFFICES ASSUME NEW i \in 1..m, NEW j \in 1..m, f[i] = f[j]
                   PROVE  i = j
        OBVIOUS
      <3>1. i \in 1..n /\ j \in 1..n /\ f[i] \in Nat
        BY <2>1
      <3>2. f[i] <= f[j] /\ f[j] <= f[i]
        BY <3>1
      <3> QED
        BY <1>1, <3>1, <3>2
    <2>3. \A x \in Q : \E i \in 1..m : g[i] = x
      BY <1>2
    <2>4. g \in Bijection(1..m, Q)
      BY <2>1, <2>2, <2>3 DEF Bijection, Injection, Surjection, IsInjective
    <2>5. ExistsBijection(1..m, Q)
      BY <2>4 DEF ExistsBijection
    <2>6. IsFiniteSet(1..m) /\ Cardinality(1..m) = m
      BY FS_Interval
    <2> QED
      BY <2>5, <2>6, FS_Bijection
  <1>3. P = {f[i] : i \in 1..n}
    OBVIOUS
  <1>4. IsFiniteSet(P) /\ Cardinality(P) = n
    <2>1. n \in 0..n
      OBVIOUS
    <2> QED
      BY <1>2, <1>3, <2>1
  <1>5. ASSUME NEW i \in 1..n
        PROVE  Rank(P, f[i]) = i
    <2>1. {y \in P : y <= f[i]} = {f[j] : j \in 1..i}
      <3>1. ASSUME NEW y \in P, y <= f[i]
            PROVE  y \in {f[j] : j \in 1..i}
        <4>1. PICK j \in 1..n : f[j] = y
          OBVIOUS
        <4>2. j <= i
          BY <1>1, <3>1, <4>1
        <4>3. j \in 1..i
          BY <4>2
        <4> QED
          BY <4>1, <4>3
      <3>2. ASSUME NEW j \in 1..i
            PROVE  f[j] \in P /\ f[j] <= f[i]
        BY <1>1
      <3> QED
        BY <3>1, <3>2
    <2>2. i \in 0..n
      OBVIOUS
    <2>3. Cardinality({f[j] : j \in 1..i}) = i
      BY <1>2, <2>2
    <2> QED
      BY <2>1, <2>3 DEF Rank
  <1>6. \A i \in 1..n : Sorted(P)[i] = f[i]
    <2> SUFFICES ASSUME NEW i \in 1..n
                 PROVE  Sorted(P)[i] = f[i]
      OBVIOUS
    <2>1. f[i] \in P
      OBVIOUS
    <2>2. Sorted(P)[Rank(P, f[i])] = f[i]
      BY <1>4, <2>1, SortedIs
    <2> QED
      BY <1>5, <2>2
  <1>7. Sorted(P) \in [1..n -> P]
    BY <1>4, SortedIs
  <1> QED
    BY <1>4, <1>6, <1>7

(* A page is the part of the whole that starts at its offset.              *)
LEMMA SortedPage ==
    ASSUME NEW S \in SUBSET Nat, IsFiniteSet(S), NEW offset \in Nat, NEW limit \in Nat,
           NEW n, n = Cardinality(S), NEW m, m = Within(n, offset, limit)
    PROVE  /\ Cardinality(Page(S, offset, limit)) = m
           /\ \A i \in 1..m : offset + i \in 1..n /\ Sorted(Page(S, offset, limit))[i] = Sorted(S)[offset + i]
  <1> DEFINE P == Page(S, offset, limit)
             f == [i \in 1..m |-> Sorted(S)[offset + i]]
  <1>1. n \in Nat /\ Sorted(S) \in [1..n -> S] /\ \A i \in 1..n : Rank(S, Sorted(S)[i]) = i
    BY SortedIs
  <1>8. m = (IF AtMost(offset + limit, n) > offset THEN AtMost(offset + limit, n) - offset ELSE 0) /\ m \in Nat
    BY <1>1 DEF Within, AtMost
  <1>2. ASSUME NEW i \in 1..m
        PROVE  offset + i \in 1..n /\ offset < offset + i /\ offset + i <= offset + limit
    BY <1>1, <1>8 DEF AtMost
  <1>3. f \in [1..m -> P]
    <2> SUFFICES ASSUME NEW i \in 1..m
                 PROVE  Sorted(S)[offset + i] \in P
      OBVIOUS
    <2>1. Sorted(S)[offset + i] \in S /\ Rank(S, Sorted(S)[offset + i]) = offset + i
      BY <1>1, <1>2
    <2> QED
      BY <1>2, <2>1 DEF Page
  <1>4. \A i, j \in 1..m : i < j => f[i] < f[j]
    <2> SUFFICES ASSUME NEW i \in 1..m, NEW j \in 1..m, i < j
                 PROVE  f[i] < f[j]
      OBVIOUS
    <2>1. f[i] \in S /\ f[j] \in S /\ Rank(S, f[i]) = offset + i /\ Rank(S, f[j]) = offset + j
      BY <1>1, <1>2
    <2> HIDE DEF f
    <2>2. f[i] \in Nat /\ f[j] \in Nat
      BY <2>1
    <2>3. f[i] # f[j]
      BY <2>1
    <2>4. ~(f[j] < f[i])
      <3>1. ~(Rank(S, f[j]) < Rank(S, f[i]))
        BY <2>1
      <3> QED
        BY <2>1, <3>1, RankOrder
    <2> QED
      BY <2>2, <2>3, <2>4
  <1>5. \A x \in P : \E i \in 1..m : f[i] = x
    <2> SUFFICES ASSUME NEW x \in S, offset < Rank(S, x), Rank(S, x) <= offset + limit
                 PROVE  \E i \in 1..m : f[i] = x
      BY DEF Page
    <2>1. Rank(S, x) \in 1..n /\ Sorted(S)[Rank(S, x)] = x
      BY RankAfter, SortedIs
    <2>2. Rank(S, x) - offset \in 1..m /\ offset + (Rank(S, x) - offset) = Rank(S, x)
      BY <1>1, <1>8, <2>1 DEF AtMost
    <2>3. f[Rank(S, x) - offset] = x
      BY <2>1, <2>2
    <2> QED
      BY <2>2, <2>3
  <1>6. P \in SUBSET Nat
    BY DEF Page
  <1> HIDE DEF P, f
  <1>7. Cardinality(P) = m /\ Sorted(P) = f
    BY <1>3, <1>4, <1>5, <1>6, <1>8, SortedUnique
  <1> QED
    BY <1>2, <1>7 DEF P, f

-----------------------------------------------------------------------------
(* Methods.                                                                *)

Listings == {"GetClients", "GetTopics", "GetTopicsForClient", "GetClientsForTopic", "GetLinkedClients"}

LEMMA BeforeListing ==
    /\ IsListing <=> Work \in Listings
    /\ Before(Work) # "none" => Before(Work) # Work
    /\ Before(Work) = "GetCryptoMode" => Work = "NewClient"
    /\ Work = "NewClient" => Before(Work) = "GetCryptoMode"
  BY DEF IsListing, Before, Listings

(* A count and the listing it precedes are about the same.                 *)
LEMMA SameCollection ==
    ASSUME NEW o, NEW n
    PROVE  /\ Collection(Request(Work, Client, Target, Topic, o, n)) = Shown
           /\ IsListing => Collection(Request(Before(Work), Client, Target, Topic, o, n)) = Shown
           /\ ~IsListing /\ Work \notin {"CountClients", "CountTopics", "CountTopicsForClient",
                                         "CountClientsForTopic", "CountLinkedClients"} => Shown = {}
  <1>1. Collection(Request(Work, Client, Target, Topic, o, n)) = Shown
    BY DEF Collection, Request, Shown, Asked
  <1>2. ASSUME IsListing
        PROVE  Collection(Request(Before(Work), Client, Target, Topic, o, n)) = Shown
    <2>1. Work \in Listings
      BY <1>2, BeforeListing
    <2>2. CASE Work = "GetClients"
      BY <2>2 DEF Before, Collection, Request, Shown, Asked
    <2>3. CASE Work = "GetTopics"
      BY <2>3 DEF Before, Collection, Request, Shown, Asked
    <2>4. CASE Work = "GetTopicsForClient"
      BY <2>4 DEF Before, Collection, Request, Shown, Asked
    <2>5. CASE Work = "GetClientsForTopic"
      BY <2>5 DEF Before, Collection, Request, Shown, Asked
    <2>6. CASE Work = "GetLinkedClients"
      BY <2>6 DEF Before, Collection, Request, Shown, Asked
    <2> QED
      BY <2>1, <2>2, <2>3, <2>4, <2>5, <2>6 DEF Listings
  <1>3. ASSUME ~IsListing, Work \notin {"CountClients", "CountTopics", "CountTopicsForClient",
                                        "CountClientsForTopic", "CountLinkedClients"}
        PROVE  Shown = {}
    <2>1. Work \notin Listings
      BY <1>3, BeforeListing
    <2> QED
      BY <1>3, <2>1 DEF Listings, Shown, Asked, Request, Collection
  <1> QED
    BY <1>1, <1>2, <1>3

(* No flag makes a command ask for the mode as its work.                   *)
LEMMA WorkIsWork ==
    ASSUME cmd \in CommandLines
    PROVE  Work # "GetCryptoMode" /\ cmd.offset \in Nat /\ cmd.max \in Nat
  <1>1. PICK name \in Commands :
          cmd \in [name : {name}, given : SUBSET Flags[name], offset : Offsets, max : Maxima]
    BY DEF CommandLines
  <1>2. cmd.name \in AllCommands /\ cmd.offset \in Nat /\ cmd.max \in Nat
    BY <1>1, CommandsAssumption, FlagsAssumption
  <1>3. ASSUME NEW given, NEW flags, NEW method, method # "GetCryptoMode"
        PROVE  Needs(given, flags, method) # "GetCryptoMode"
    BY <1>3 DEF Needs
  <1>4. ASSUME NEW given
        PROVE  /\ ClientsCreate(given) # "GetCryptoMode"
               /\ ClientsList(given) # "GetCryptoMode" /\ TopicsList(given) # "GetCryptoMode"
               /\ Count(given) # "GetCryptoMode"
    BY DEF ClientsCreate, ClientsList, TopicsList, Count
  <1>5. ASSUME NEW given
        PROVE  /\ ClientsRemove(given) # "GetCryptoMode" /\ ClientsReset(given) # "GetCryptoMode"
               /\ ClientsNewKey(given) # "GetCryptoMode" /\ ClientsLink(given) # "GetCryptoMode"
               /\ ClientsUnlink(given) # "GetCryptoMode" /\ ClientsSendPubKey(given) # "GetCryptoMode"
               /\ ClientsRemovePubKey(given) # "GetCryptoMode"
               /\ ClientsResetPubKeys(given) # "GetCryptoMode"
               /\ ClientsListTopics(given) # "GetCryptoMode" /\ ClientsListLinked(given) # "GetCryptoMode"
    BY <1>3 DEF ClientsRemove, ClientsReset, ClientsNewKey, ClientsLink, ClientsUnlink, ClientsSendPubKey,
                ClientsRemovePubKey, ClientsResetPubKeys, ClientsListTopics, ClientsListLinked
  <1>6. ASSUME NEW given
        PROVE  /\ TopicsCreate(given) # "GetCryptoMode" /\ TopicsRemove(given) # "GetCryptoMode"
               /\ TopicsListClients(given) # "GetCryptoMode"
               /\ Attach(given) # "GetCryptoMode" /\ Detach(given) # "GetCryptoMode"
               /\ NewC2KeyCommand(given) # "GetCryptoMode"
               /\ Protect(given) # "GetCryptoMode" /\ Unprotect(given) # "GetCryptoMode"
    BY <1>3 DEF TopicsCreate, TopicsRemove, TopicsListClients, Attach, Detach, NewC2KeyCommand,
                Protect, Unprotect
  <1>7. Method(cmd.name, cmd.given) # "GetCryptoMode"
    BY <1>2, <1>4, <1>5, <1>6 DEF Method, AllCommands, ClientCommands, TopicCommands
  <1> QED
    BY <1>2, <1>7 DEF Work

-----------------------------------------------------------------------------
(* Types.                                                                  *)

Items == Names \cup Topics

CallTypeOK == call \in [req : {call.req}, pc : {"none", "lookup", "serve", "replied"}, status : Statuses,
                        gone : BOOLEAN, count : Nat, items : SUBSET Items]

HistoryTypeOK == history \in [counted : SUBSET Items, added : SUBSET Items, removed : SUBSET Items,
                              uncounted : BOOLEAN, quiet : BOOLEAN]

CInv == TypeOK /\ user \in Users /\ step # 0 /\ CallTypeOK /\ HistoryTypeOK /\ CallInv

LEMMA ItemsAreFinite == Items \subseteq Nat /\ IsFiniteSet(Items) /\ SUBSET Items \subseteq SUBSET Nat
  <1>1. IsFiniteSet(Names \cup Topics)
    BY FinitenessAssumption, FS_Union
  <1> QED
    BY <1>1, NamesAssumption DEF Items

LEMMA FiniteItems ==
    ASSUME NEW S \in SUBSET Items
    PROVE  S \in SUBSET Nat /\ IsFiniteSet(S) /\ Cardinality(S) \in Nat
  BY ItemsAreFinite, FS_Subset, FS_CardinalityType

LEMMA CollectionType ==
    ASSUME R!TypeOK, NEW r
    PROVE  Collection(r) \in SUBSET Items /\ Answer(r) \in SUBSET Items
  <1>1. registered \subseteq Names /\ existing \subseteq Topics
    BY DEF R!TypeOK
  <1>2. Collection(r) \in SUBSET Items
    BY <1>1 DEF Collection, Items
  <1> HIDE DEF Collection
  <1> QED
    BY <1>2 DEF Answer, Page

LEMMA StatusType ==
    ASSUME NEW r
    PROVE  Status(r) \in Statuses
  <1>1. \A c : Find(c) \in Statuses
    BY DEF Find, Statuses
  <1>2. \A t : FindTopic(t) \in Statuses
    BY DEF FindTopic, Statuses
  <1>3. \A s, u : s \in Statuses /\ u \in Statuses => First(s, u) \in Statuses
    BY DEF First
  <1>4. OfClient(r) \in Statuses
    BY <1>1 DEF OfClient, Statuses
  <1>5. OfMember(r) \in Statuses
    BY <1>2, <1>3, <1>4 DEF OfMember
  <1>6. OfPair(r) \in Statuses
    <2>1. First(Find(r.client), Find(r.target)) \in Statuses
      BY <1>1, <1>3
    <2> QED
      BY <2>1 DEF OfPair, Statuses
  <1>7. OfPubKeys(r) \in Statuses
    <2>1. "OK" \in Statuses
      BY DEF Statuses
    <2>2. First(IF r.method = "ResetClientPubKeys" THEN "OK" ELSE Find(r.client), Find(r.target)) \in Statuses
      BY <1>1, <1>3, <2>1
    <2> QED
      BY <2>2 DEF OfPubKeys, Statuses
  <1>8. NewClient(r) \in Statuses /\ NewTopic(r) \in Statuses /\ NewC2Key(r) \in Statuses
    BY DEF NewClient, NewTopic, NewC2Key, Statuses
  <1>9. RemoveTopic(r) \in Statuses /\ ClientsOf(r) \in Statuses /\ TopicsOf(r) \in Statuses
        /\ LinkedOf(r) \in Statuses
    BY <1>2, <1>4 DEF RemoveTopic, ClientsOf, TopicsOf, LinkedOf
  <1>10. OfMessage(r) \in Statuses
    BY <1>2 DEF OfMessage, TopicKey, Statuses
  <1>11. "OK" \in Statuses
    BY DEF Statuses
  <1> QED
    BY <1>4, <1>5, <1>6, <1>7, <1>8, <1>9, <1>10, <1>11 DEF Status

(* What a call does leaves a registry.                                     *)
LEMMA EffectType ==
    ASSUME R!TypeOK, NEW r, Effect(r), Status(r) = "OK",
           r.method = "NewClient" => r.client \in Names \cup {NoClient, NoName},
           r.method = "NewTopic" => r.topic \in Topics
    PROVE  R!TypeOK'
  <1>1. CASE r.method = "NewClient" /\ r.client \notin registered
    <2>1. r.client \in Names
      BY <1>1 DEF Status, NewClient
    <2>2. R!Register(r.client)
      BY <1>1 DEF Effect
    <2> QED
      BY <2>1, <2>2 DEF R!TypeOK, R!Register
  <1>2. CASE r.method = "RemoveClient"
    <2>1. R!Unregister(r.client)
      BY <1>2 DEF Effect
    <2> QED
      BY <2>1 DEF R!TypeOK, R!Unregister
  <1>3. CASE r.method = "NewTopic" /\ r.topic \notin existing
    <2>1. R!Create(r.topic)
      BY <1>3 DEF Effect
    <2> QED
      BY <1>3, <2>1 DEF R!TypeOK, R!Create
  <1>4. CASE r.method = "RemoveTopic"
    <2>1. R!Remove(r.topic)
      BY <1>4 DEF Effect
    <2> QED
      BY <2>1 DEF R!TypeOK, R!Remove
  <1>5. CASE r.method = "NewTopicClient"
    <2>1. R!Join(r.client, r.topic)
      BY <1>5 DEF Effect
    <2> QED
      BY <2>1 DEF R!TypeOK, R!Join
  <1>6. CASE r.method = "RemoveTopicClient"
    <2>1. R!Leave(r.client, r.topic)
      BY <1>6 DEF Effect
    <2> QED
      BY <2>1 DEF R!TypeOK, R!Leave
  <1>7. CASE r.method = "LinkClient"
    <2>1. R!Pair(r.target, r.client)
      BY <1>7 DEF Effect
    <2> QED
      BY <2>1 DEF R!TypeOK, R!Pair
  <1>8. CASE r.method = "UnlinkClient"
    <2>1. R!Unpair(r.target, r.client)
      BY <1>8 DEF Effect
    <2> QED
      BY <2>1 DEF R!TypeOK, R!Unpair
  <1>9. CASE UNCHANGED registryVars
    BY <1>9 DEF R!TypeOK, registryVars
  <1> QED
    BY <1>1, <1>2, <1>3, <1>4, <1>5, <1>6, <1>7, <1>8, <1>9 DEF Effect

-----------------------------------------------------------------------------
(* What a step of the command does, by the call it was in.                 *)

LEMMA SameCommand ==
    ASSUME cmd' = cmd
    PROVE  /\ Work' = Work /\ IsListing' = IsListing /\ Asked' = Asked
           /\ \A r : Limit(r)' = Limit(r)
           /\ (UNCHANGED registryVars => Shown' = Shown)
  <1>1. Work' = Work
    BY DEF Work
  <1>2. IsListing' = IsListing /\ Asked' = Asked
    BY <1>1 DEF IsListing, Asked
  <1>3. UNCHANGED registryVars => Shown' = Shown
    <2> SUFFICES ASSUME UNCHANGED registryVars
                 PROVE  Shown' = Shown
      OBVIOUS
    <2> QED
      BY <1>2 DEF Shown, Collection, registryVars
  <1> QED
    BY <1>1, <1>2, <1>3

LEMMA NoCallIs ==
    /\ NoCall.pc = "none" /\ NoCall.status = "OK" /\ NoCall.gone = FALSE /\ NoCall.count = 0
    /\ NoCall.items = {}
    /\ \A m, o, n : Request(m, Client, Target, Topic, o, n) =
         [method |-> m, client |-> Client, target |-> Target, topic |-> Topic,
          offset |-> o, count |-> n, valid |-> TRUE]
  BY DEF NoCall, Request

LEMMA SentCall ==
    ASSUME NEW m, NEW o, NEW n, Send(m, o, n)
    PROVE  /\ call'.req = Request(m, Client, Target, Topic, o, n)
           /\ call'.pc \in {"lookup", "serve"} /\ call'.status = "OK" /\ call'.gone = FALSE
           /\ call'.count = 0 /\ call'.items = {}
           /\ CallTypeOK'
           /\ call'.pc = "serve" \/ TwoStatements(Request(m, 0, 0, 0, 0, 0))
  <1> DEFINE p == IF TwoStatements(Request(m, 0, 0, 0, 0, 0)) THEN "lookup" ELSE "serve"
             q == Request(m, Client, Target, Topic, o, n)
  <1>1. call' = [req |-> q, pc |-> p, status |-> "OK", gone |-> FALSE, count |-> 0, items |-> {}]
    BY DEF Send, NoCall
  <1>2. p \in {"lookup", "serve"} /\ (p = "serve" \/ TwoStatements(Request(m, 0, 0, 0, 0, 0)))
    OBVIOUS
  <1> HIDE DEF p, q
  <1>3. CallTypeOK'
    BY <1>1, <1>2 DEF CallTypeOK, Statuses
  <1> QED
    BY <1>1, <1>2, <1>3 DEF q

LEMMA NoCallType ==
    ASSUME call' = NoCall
    PROVE  CallTypeOK'
  BY DEF CallTypeOK, NoCall, Statuses

(* The requests of a command.                                              *)
LEMMA RequestOf ==
    ASSUME CInv, call.pc # "none"
    PROVE  /\ call.req = Request(call.req.method, Client, Target, Topic, call.req.offset, call.req.count)
           /\ user = "cli" /\ exit = "none" /\ Work # "none"
           /\ call.req.method \in {Work, Before(Work)} /\ call.req.method # "none"
           /\ call.req.method = Work => call.req.method # Before(Work)
           /\ call.req.method = Work /\ IsListing =>
                left > 0 /\ call.req.offset = at /\ call.req.count = AtMost(PageSize, left)
           /\ call.req.method = Before(Work) => out = <<>> /\ call.req.offset = 0 /\ call.req.count = 0
           /\ call.req.client = Client /\ call.req.target = Target /\ call.req.topic = Topic
  <1>1. user = "cli"
    BY NoCallIs DEF CInv, CallInv
  <1>2. exit = "none" /\ Work # "none"
    BY DEF CInv, CallInv
  <1>3. CASE Before(Work) # "none" /\ out = <<>>
             /\ call.req = Request(Before(Work), Client, Target, Topic, 0, 0)
    <2>1. Before(Work) # Work
      BY <1>3, BeforeListing
    <2> QED
      BY <1>1, <1>2, <1>3, <2>1 DEF Request
  <1>4. CASE ~IsListing /\ call.req = Request(Work, Client, Target, Topic, 0, 0)
    <2>1. Before(Work) # Work
      BY <1>2, BeforeListing
    <2> QED
      BY <1>1, <1>2, <1>4, <2>1 DEF Request
  <1>5. CASE IsListing /\ left > 0
             /\ call.req = Request(Work, Client, Target, Topic, at, AtMost(PageSize, left))
    <2>1. Before(Work) # Work
      BY <1>2, BeforeListing
    <2> QED
      BY <1>1, <1>2, <1>5, <2>1 DEF Request
  <1> QED
    BY <1>3, <1>4, <1>5 DEF CInv, CallInv

LEMMA AtMostIs ==
    ASSUME NEW n \in Nat, NEW m \in Nat
    PROVE  AtMost(n, m) \in Nat /\ AtMost(n, m) <= n /\ AtMost(n, m) <= m
           /\ AtMost(n, m) \in {n, m} /\ (n > 0 /\ m > 0 => AtMost(n, m) > 0)
  BY DEF AtMost

(* A page of a listing has arrived.                                        *)
LEMMA PageReceived ==
    ASSUME CInv, ReceivePage
    PROVE  /\ IsListing /\ call.req.method = Work /\ Answered /\ exit = "none" /\ user = "cli"
           /\ Paging
           /\ call.req.count \in Nat /\ call.req.count > 0 /\ call.req.count <= left
           /\ call.req.count <= PageSize /\ call.req.offset = at
           /\ left' = left - call.req.count /\ left' \in Nat /\ at' = at + call.req.count
           /\ out' = out \o Sorted(call.items)
           /\ UNCHANGED registryVars /\ UNCHANGED <<cmd, changes, history>>
           /\ \/ left' > 0 /\ Send(Work, at', AtMost(PageSize, left')) /\ exit' = "none"
              \/ left' = 0 /\ call' = NoCall /\ exit' = "ok"
  <1>1. call.pc = "replied" /\ call.req.method = Work /\ exit = "none" /\ call.status = "OK" /\ IsListing
    BY DEF ReceivePage, Replied
  <1>2. user = "cli" /\ left > 0 /\ call.req.offset = at /\ call.req.count = AtMost(PageSize, left)
    BY <1>1, RequestOf
  <1>3. left \in Nat /\ at \in Nat /\ PageSize \in Nat /\ PageSize > 0
    BY PageSizeAssumption DEF CInv, TypeOK
  <1>4. call.req.count \in Nat /\ call.req.count > 0 /\ call.req.count <= left /\ call.req.count <= PageSize
    BY <1>2, <1>3, AtMostIs
  <1>5. NextPage(left - call.req.count, at + call.req.count, out \o Sorted(call.items))
        /\ UNCHANGED registryVars /\ UNCHANGED <<cmd, changes, history>>
    BY DEF ReceivePage
  <1>6. left' = left - call.req.count /\ at' = at + call.req.count /\ out' = out \o Sorted(call.items)
    BY <1>5 DEF NextPage
  <1>7. left' \in Nat
    BY <1>3, <1>4, <1>6
  <1>8. \/ left' > 0 /\ Send(Work, at', AtMost(PageSize, left')) /\ exit' = exit
        \/ ~(left' > 0) /\ call' = NoCall /\ exit' = "ok"
    BY <1>5, <1>6 DEF NextPage
  <1>9. ~(left' > 0) => left' = 0
    BY <1>7
  <1>10. Answered /\ Paging
    BY <1>1 DEF Answered, Paging
  <1> QED
    BY <1>1, <1>2, <1>4, <1>5, <1>6, <1>7, <1>8, <1>9, <1>10

(* The count of a listing has arrived.                                     *)
LEMMA CountReceived ==
    ASSUME CInv, ReceiveCount
    PROVE  /\ IsListing /\ call.req.method = Before(Work) /\ Answered /\ exit = "none" /\ user = "cli"
           /\ ~Paging /\ out = <<>>
           /\ left' = (IF cmd.max > 0 THEN AtMost(call.count, cmd.max) ELSE call.count)
           /\ left' \in Nat /\ at' = cmd.offset /\ at' \in Nat /\ out' = <<>>
           /\ UNCHANGED registryVars /\ UNCHANGED <<cmd, changes, history>>
           /\ \/ left' > 0 /\ Send(Work, at', AtMost(PageSize, left')) /\ exit' = "none"
              \/ left' = 0 /\ call' = NoCall /\ exit' = "ok"
  <1>1. call.pc = "replied" /\ call.req.method = Before(Work) /\ exit = "none" /\ call.status = "OK" /\ IsListing
    BY DEF ReceiveCount, Replied
  <1>2. user = "cli" /\ Before(Work) # Work /\ out = <<>>
    BY <1>1, RequestOf
  <1>3. call.count \in Nat /\ cmd.max \in Nat /\ cmd.offset \in Nat
    BY WorkIsWork DEF CInv, TypeOK, CallTypeOK
  <1> DEFINE total == IF cmd.max > 0 THEN AtMost(call.count, cmd.max) ELSE call.count
  <1>4. total \in Nat
    BY <1>3, AtMostIs
  <1>5. NextPage(total, cmd.offset, <<>>)
        /\ UNCHANGED registryVars /\ UNCHANGED <<cmd, changes, history>>
    BY DEF ReceiveCount
  <1> HIDE DEF total
  <1>6. left' = total /\ at' = cmd.offset /\ out' = <<>>
    BY <1>5 DEF NextPage
  <1>7. \/ left' > 0 /\ Send(Work, at', AtMost(PageSize, left')) /\ exit' = exit
        \/ ~(left' > 0) /\ call' = NoCall /\ exit' = "ok"
    BY <1>5, <1>6 DEF NextPage
  <1>8. ~(left' > 0) => left' = 0
    BY <1>4, <1>6
  <1>9. Answered /\ ~Paging
    BY <1>1, <1>2 DEF Answered, Paging
  <1> QED
    BY <1>1, <1>2, <1>3, <1>4, <1>5, <1>6, <1>7, <1>8, <1>9 DEF total

-----------------------------------------------------------------------------
(* The state keeps its shape, and the command asks in its order.           *)

LEMMA CInv_Init ==
    ASSUME Init
    PROVE  CInv
  <1>1. cmd \in CommandLines
    <2>1. cmd \in {c \in CommandLines : Before(Method(c.name, c.given)) \in {"none", "GetCryptoMode"}
                                            => c.offset = 0 /\ c.max = 0}
      BY DEF Init, CommandInit
    <2> QED
      BY <2>1
  <1>2. R!TypeOK
    <2>1. PICK reg \in IF user = "cli" THEN Registries
                       ELSE {[registered |-> {}, existing |-> {}, members |-> {}, pairs |-> {}]} :
            registered = reg.registered /\ existing = reg.existing
            /\ members = reg.members /\ pairs = reg.pairs
      BY DEF Init
    <2>2. CASE user = "cli"
      BY <2>1, <2>2, RegistriesAssumption DEF R!TypeOK
    <2>3. CASE user # "cli"
      BY <2>1, <2>3 DEF R!TypeOK
    <2> QED
      BY <2>2, <2>3
  <1>3. call = NoCall /\ left = 0 /\ at = 0 /\ out = <<>> /\ exit = "none" /\ changes = 0
        /\ history = Undisturbed({}) /\ step = 1 /\ verdict = "none" /\ user \in Users
    BY DEF Init, CommandInit
  <1>4. CallTypeOK
    BY <1>3 DEF CallTypeOK, NoCall, Statuses
  <1>5. HistoryTypeOK
    BY <1>3 DEF HistoryTypeOK, Undisturbed
  <1>6. call.pc = "none" /\ call.status = "OK"
    BY <1>3, NoCallIs
  <1>7. TypeOK
    <2>1. call.status \in Statuses
      BY <1>6 DEF Statuses
    <2>2. out \in Seq(Names \cup Topics)
      BY <1>3
    <2>3. changes \in 0..MaxChanges
      BY <1>3, MaxChangesAssumption
    <2> QED
      BY <1>1, <1>2, <1>3, <1>6, <2>1, <2>2, <2>3 DEF TypeOK
  <1>8. CallInv
    BY <1>3, <1>6 DEF CallInv
  <1> QED
    BY <1>3, <1>4, <1>5, <1>7, <1>8 DEF CInv

(* A step of the command that leaves the registry and the history.         *)
LEMMA CInv_Own ==
    ASSUME CInv, user = "cli", UNCHANGED <<user, step, verdict>>, UNCHANGED registryVars,
           UNCHANGED <<cmd, changes, history>>,
           CallTypeOK', left' \in Nat, at' \in Nat, out' \in Seq(Items), exit' \in {"none", "ok", "error"},
           call'.pc = "none" => call' = NoCall /\ (exit' = "none" => out' = <<>>),
           call'.pc # "none" =>
             /\ exit' = "none" /\ Work # "none"
             /\ \/ /\ Before(Work) # "none" /\ out' = <<>>
                   /\ call'.req = Request(Before(Work), Client, Target, Topic, 0, 0)
                \/ ~IsListing /\ call'.req = Request(Work, Client, Target, Topic, 0, 0)
                \/ /\ IsListing /\ left' > 0
                   /\ call'.req = Request(Work, Client, Target, Topic, at', AtMost(PageSize, left'))
    PROVE  CInv'
  <1>1. Work' = Work /\ IsListing' = IsListing
    BY SameCommand
  <1>2. R!TypeOK'
    BY DEF CInv, TypeOK, R!TypeOK, registryVars
  <1>3. call'.pc \in {"none", "lookup", "serve", "replied"} /\ call'.status \in Statuses
    BY DEF CallTypeOK
  <1>4. TypeOK'
    BY <1>2, <1>3 DEF CInv, TypeOK, Items
  <1>5. HistoryTypeOK'
    BY DEF CInv, HistoryTypeOK
  <1>6. CallInv'
    BY <1>1 DEF CallInv
  <1> QED
    BY <1>4, <1>5, <1>6 DEF CInv

LEMMA CInv_Returns ==
    ASSUME CInv, user = "cli", UNCHANGED <<user, step, verdict>>, UNCHANGED registryVars,
           UNCHANGED <<cmd, changes, history>>, NEW how \in {"ok", "error"}, Returns(how)
    PROVE  CInv'
  <1>1. CallTypeOK'
    BY NoCallType DEF Returns
  <1>2. left' \in Nat /\ at' \in Nat /\ out' \in Seq(Items) /\ exit' \in {"ok", "error"}
    BY DEF Returns, CInv, TypeOK, Items
  <1>3. call' = NoCall /\ call'.pc = "none" /\ exit' # "none"
    BY NoCallIs DEF Returns
  <1> QED
    BY <1>1, <1>2, <1>3, CInv_Own

LEMMA CInv_Start ==
    ASSUME CInv, Start, user = "cli", UNCHANGED <<user, step, verdict>>
    PROVE  CInv'
  <1>1. UNCHANGED registryVars /\ UNCHANGED <<cmd, changes, history>> /\ exit = "none" /\ call = NoCall
    BY DEF Start
  <1>2. CASE Returns("error")
    BY <1>1, <1>2, CInv_Returns
  <1>3. CASE /\ Work # "none" /\ Send(IF Before(Work) = "none" THEN Work ELSE Before(Work), 0, 0)
             /\ UNCHANGED <<left, at, out, exit>>
    <2> DEFINE m == IF Before(Work) = "none" THEN Work ELSE Before(Work)
    <2>1. Send(m, 0, 0)
      BY <1>3
    <2> HIDE DEF m
    <2>2. call'.req = Request(m, Client, Target, Topic, 0, 0) /\ call'.pc \in {"lookup", "serve"} /\ CallTypeOK'
      BY <2>1, SentCall
    <2>3. out = <<>>
      BY <1>1, NoCallIs DEF CInv, CallInv
    <2>4. left' \in Nat /\ at' \in Nat /\ out' \in Seq(Items) /\ exit' = "none" /\ out' = <<>>
      BY <1>1, <1>3, <2>3 DEF CInv, TypeOK, Items
    <2>5. \/ Before(Work) # "none" /\ call'.req = Request(Before(Work), Client, Target, Topic, 0, 0)
          \/ ~IsListing /\ call'.req = Request(Work, Client, Target, Topic, 0, 0)
      BY <2>2 DEF m, IsListing
    <2> QED
      BY <1>1, <1>3, <2>2, <2>4, <2>5, CInv_Own
  <1> QED
    BY <1>2, <1>3 DEF Start

LEMMA CInv_ReceiveError ==
    ASSUME CInv, ReceiveError, user = "cli", UNCHANGED <<user, step, verdict>>
    PROVE  CInv'
  BY CInv_Returns DEF ReceiveError

LEMMA CInv_ReceiveResult ==
    ASSUME CInv, ReceiveResult, user = "cli", UNCHANGED <<user, step, verdict>>
    PROVE  CInv'
  BY CInv_Returns DEF ReceiveResult

LEMMA CInv_ReceiveCryptoMode ==
    ASSUME CInv, ReceiveCryptoMode, user = "cli", UNCHANGED <<user, step, verdict>>
    PROVE  CInv'
  <1>1. UNCHANGED registryVars /\ UNCHANGED <<cmd, changes, history>> /\ exit = "none"
        /\ call.pc = "replied" /\ call.req.method = "GetCryptoMode"
    BY DEF ReceiveCryptoMode, Replied
  <1>2. CASE Returns("error")
    BY <1>1, <1>2, CInv_Returns
  <1>3. CASE Send("NewClient", 0, 0) /\ UNCHANGED <<left, at, out, exit>>
    <2>1. call'.req = Request("NewClient", Client, Target, Topic, 0, 0) /\ call'.pc \in {"lookup", "serve"}
          /\ CallTypeOK'
      BY <1>3, SentCall
    <2>2. Work # "GetCryptoMode"
      BY WorkIsWork DEF CInv, TypeOK
    <2>3. Before(Work) = "GetCryptoMode" /\ out = <<>>
      BY <1>1, <2>2, RequestOf
    <2>4. Work = "NewClient" /\ ~IsListing
      BY <2>3, BeforeListing DEF IsListing
    <2>5. left' \in Nat /\ at' \in Nat /\ out' \in Seq(Items) /\ exit' = "none"
      BY <1>1, <1>3 DEF CInv, TypeOK, Items
    <2> QED
      BY <1>1, <2>1, <2>4, <2>5, CInv_Own
  <1> QED
    BY <1>2, <1>3 DEF ReceiveCryptoMode

LEMMA CInv_NextPage ==
    ASSUME CInv, user = "cli", UNCHANGED <<user, step, verdict>>, UNCHANGED registryVars,
           UNCHANGED <<cmd, changes, history>>, IsListing,
           left' \in Nat, at' \in Nat, out' \in Seq(Items),
           \/ left' > 0 /\ Send(Work, at', AtMost(PageSize, left')) /\ exit' = "none"
           \/ left' = 0 /\ call' = NoCall /\ exit' = "ok"
    PROVE  CInv'
  <1>1. CASE left' > 0 /\ Send(Work, at', AtMost(PageSize, left')) /\ exit' = "none"
    <2> DEFINE o == at'
               n == AtMost(PageSize, left')
    <2>1. Send(Work, o, n)
      BY <1>1
    <2> HIDE DEF o, n
    <2>2. call'.req = Request(Work, Client, Target, Topic, o, n) /\ call'.pc \in {"lookup", "serve"}
          /\ CallTypeOK'
      BY <2>1, SentCall
    <2>3. Work # "none"
      BY BeforeListing DEF Listings
    <2> QED
      BY <1>1, <2>2, <2>3, CInv_Own DEF o, n
  <1>2. CASE left' = 0 /\ call' = NoCall /\ exit' = "ok"
    <2>1. CallTypeOK' /\ call'.pc = "none" /\ exit' # "none" /\ exit' \in {"none", "ok", "error"}
      BY <1>2, NoCallType, NoCallIs
    <2> QED
      BY <1>2, <2>1, CInv_Own
  <1> QED
    BY <1>1, <1>2

LEMMA CInv_ReceiveCount ==
    ASSUME CInv, ReceiveCount, user = "cli", UNCHANGED <<user, step, verdict>>
    PROVE  CInv'
  <1>1. out' \in Seq(Items)
    BY CountReceived
  <1> QED
    BY <1>1, CountReceived, CInv_NextPage

LEMMA PrintedType ==
    ASSUME CInv, ReceivePage
    PROVE  /\ out' \in Seq(Items) /\ out \in Seq(Items) /\ Sorted(call.items) \in Seq(Items)
           /\ Len(Sorted(call.items)) = Cardinality(call.items)
           /\ Len(out') = Len(out) + Cardinality(call.items)
           /\ \A i \in 1..Len(out') :
                out'[i] = IF i <= Len(out) THEN out[i] ELSE Sorted(call.items)[i - Len(out)]
  <1>1. call.items \in SUBSET Items /\ out \in Seq(Items)
    BY DEF CInv, CallTypeOK, TypeOK, Items
  <1>2. call.items \in SUBSET Nat /\ IsFiniteSet(call.items)
    BY <1>1, FiniteItems
  <1>3. Sorted(call.items) \in [1..Cardinality(call.items) -> call.items] /\ Cardinality(call.items) \in Nat
    BY <1>2, SortedIs
  <1> DEFINE s == Sorted(call.items)
             n == Cardinality(call.items)
  <1>4. s \in [1..n -> Items] /\ n \in Nat
    BY <1>1, <1>3
  <1> HIDE DEF s, n
  <1>5. s \in Seq(Items) /\ Len(s) = n
    BY <1>4
  <1>6. out' = out \o s
    BY PageReceived DEF s
  <1>7. /\ out \o s \in Seq(Items) /\ Len(out \o s) = Len(out) + Len(s)
        /\ \A i \in 1..Len(out) + Len(s) : (out \o s)[i] = IF i <= Len(out) THEN out[i] ELSE s[i - Len(out)]
    BY <1>1, <1>5, ConcatProperties
  <1> QED
    BY <1>1, <1>5, <1>6, <1>7 DEF s, n

LEMMA CInv_ReceivePage ==
    ASSUME CInv, ReceivePage, user = "cli", UNCHANGED <<user, step, verdict>>
    PROVE  CInv'
  <1>1. out' \in Seq(Items)
    BY PrintedType
  <1>2. at' \in Nat
    BY PageReceived DEF CInv, TypeOK
  <1> QED
    BY <1>1, <1>2, PageReceived, CInv_NextPage

LEMMA CInv_Lookup ==
    ASSUME CInv, Lookup, user = "cli", UNCHANGED <<user, step, verdict>>
    PROVE  CInv'
  <1>1. UNCHANGED registryVars /\ UNCHANGED <<cmd, changes, history>> /\ UNCHANGED <<left, at, out, exit>>
        /\ call.pc = "lookup"
    BY DEF Lookup
  <1>2. Status(call.req) \in Statuses
    BY StatusType
  <1> DEFINE s == Status(call.req)
  <1>3. call' = IF s = "OK" THEN [call EXCEPT !.pc = "serve"]
                ELSE [call EXCEPT !.pc = "replied", !.status = s]
    BY DEF Lookup
  <1> HIDE DEF s
  <1>4. CallTypeOK' /\ call'.req = call.req /\ call'.pc \in {"serve", "replied"}
    BY <1>2, <1>3 DEF CInv, CallTypeOK, s
  <1>5. left' \in Nat /\ at' \in Nat /\ out' \in Seq(Items) /\ exit' \in {"none", "ok", "error"}
    BY <1>1 DEF CInv, TypeOK, Items
  <1> QED
    BY <1>1, <1>4, <1>5, CInv_Own DEF CInv, CallInv

LEMMA ServeType ==
    ASSUME CInv, Serve, user = "cli"
    PROVE  /\ R!TypeOK' /\ CallTypeOK' /\ HistoryTypeOK'
           /\ call'.pc = "replied" /\ call'.req = call.req /\ call.pc = "serve" /\ call'.gone = call.gone
           /\ UNCHANGED <<cmd, left, at, out, exit, changes>>
           /\ call'.status = "OK" =>
                /\ Effect(call.req)
                /\ TwoStatements(call.req) \/ Status(call.req) = "OK"
                /\ call.req.method \notin RelationCounts =>
                     call'.items = IF call.gone THEN {} ELSE Answer(call.req)
           /\ \E failed \in BOOLEAN :
                /\ history' = Noted(IF call.gone THEN {} ELSE Collection(call.req), failed)
                /\ call'.status = "OK" =>
                     call'.count = IF failed THEN 0
                                   ELSE Cardinality(IF call.gone THEN {} ELSE Collection(call.req))
           /\ UNCHANGED registryVars \/ Effect(call.req)
  <1> DEFINE r == call.req
             status == IF TwoStatements(r) THEN "OK" ELSE Status(r)
             found == IF call.gone THEN {} ELSE Collection(r)
             items == IF call.gone THEN {} ELSE Answer(r)
             count == Cardinality(found)
  <1>1. call.pc = "serve" /\ UNCHANGED <<cmd, left, at, out, exit, changes>>
    BY DEF Serve
  <1> DEFINE Done == /\ call' = [call EXCEPT !.pc = "replied", !.status = status, !.count = count, !.items = items]
                     /\ status = "OK" => Effect(r)
                     /\ status # "OK" => UNCHANGED registryVars
                     /\ history' = Noted(found, FALSE)
             Failed == /\ call' = [call EXCEPT !.pc = "replied", !.status = "Internal"]
                       /\ UNCHANGED registryVars \/ (status = "OK" /\ Effect(r))
                       /\ history' = Noted(found, FALSE)
             Dropped == /\ call' = [call EXCEPT !.pc = "replied", !.status = "OK", !.count = 0, !.items = {}]
                        /\ r.method \in RelationCounts /\ UNCHANGED registryVars
                        /\ history' = Noted(found, TRUE)
  <1>2. Done \/ Failed \/ Dropped
    <2>1. \/ /\ call' = [call EXCEPT !.pc = "replied", !.status = status, !.count = count, !.items = items]
             /\ IF status = "OK" THEN Effect(r) ELSE UNCHANGED registryVars
             /\ history' = Noted(found, FALSE)
          \/ /\ call' = [call EXCEPT !.pc = "replied", !.status = "Internal"]
             /\ UNCHANGED registryVars \/ (FailsLate(r) /\ status = "OK" /\ Effect(r))
             /\ history' = Noted(found, FALSE)
          \/ Dropped
      BY Zenon DEF Serve
    <2> HIDE DEF r, status, count, items, found
    <2> QED
      BY <2>1, Zenon
  <1>17. r.method \in RelationCounts => TwoStatements(r) /\ status = "OK"
    BY DEF RelationCounts, TwoStatements
  <1>18. ASSUME r.method \in RelationCounts, UNCHANGED registryVars
         PROVE  Effect(r)
    <2> HIDE DEF r
    <2> QED
      BY <1>18 DEF RelationCounts, Effect
  <1>3. R!TypeOK
    BY DEF CInv, TypeOK
  <1>4. found \in SUBSET Items /\ items \in SUBSET Items
    BY <1>3, CollectionType
  <1>5. count \in Nat
    BY <1>4, FiniteItems
  <1>6. status \in Statuses
    BY StatusType DEF Statuses
  <1>7. TwoStatements(r) /\ Effect(r) => UNCHANGED registryVars
    BY DEF TwoStatements, Effect
  <1>8. status = "OK" => TwoStatements(r) \/ Status(r) = "OK"
    OBVIOUS
  <1>9. r.client = Client /\ r.topic = Topic
    BY <1>1, RequestOf
  <1>10. ASSUME status = "OK", Effect(r)
         PROVE  R!TypeOK'
    <2>1. CASE TwoStatements(r)
      BY <1>3, <1>7, <1>10, <2>1 DEF R!TypeOK, registryVars
    <2>2. CASE Status(r) = "OK"
      <3>1. Client \in Names \cup {NoClient, NoName} /\ Topic \in Topics
        BY ValuesAssumption
      <3> HIDE DEF r
      <3> QED
        BY <1>3, <1>9, <1>10, <2>2, <3>1, EffectType
    <2> QED
      BY <1>8, <1>10, <2>1, <2>2
  <1>11. R!TypeOK'
    <2>1. UNCHANGED registryVars => R!TypeOK'
      BY <1>3 DEF R!TypeOK, registryVars
    <2> HIDE DEF r, status, count, items, found
    <2> QED
      BY <1>2, <1>10, <2>1
  <1>12. CASE Done
    <2> HIDE DEF r, status, count, items, found
    <2>1. CallTypeOK' /\ call'.pc = "replied" /\ call'.req = call.req /\ call'.gone = call.gone
          /\ call'.status = status /\ call'.count = count /\ call'.items = items
      BY <1>4, <1>5, <1>6, <1>12 DEF CInv, CallTypeOK
    <2>2. HistoryTypeOK' /\ history' = Noted(found, FALSE)
      BY <1>4, <1>12 DEF CInv, HistoryTypeOK, Noted, Undisturbed
    <2>3. UNCHANGED registryVars \/ Effect(r)
      BY <1>12
    <2>4. call'.status = "OK" => Effect(r) /\ (TwoStatements(r) \/ Status(r) = "OK")
      BY <1>8, <1>12, <2>1
    <2> QED
      BY <1>1, <1>11, <2>1, <2>2, <2>3, <2>4 DEF r, count, items, found
  <1>13. CASE Failed
    <2> HIDE DEF r, status, count, items, found
    <2>1. CallTypeOK' /\ call'.pc = "replied" /\ call'.req = call.req /\ call'.gone = call.gone
          /\ call'.status # "OK"
      BY <1>13 DEF CInv, CallTypeOK, Statuses
    <2>2. HistoryTypeOK' /\ history' = Noted(found, FALSE)
      BY <1>4, <1>13 DEF CInv, HistoryTypeOK, Noted, Undisturbed
    <2>3. UNCHANGED registryVars \/ Effect(r)
      BY <1>13
    <2> QED
      BY <1>1, <1>11, <2>1, <2>2, <2>3 DEF r, found
  <1>14. CASE Dropped
    <2> HIDE DEF r, status, count, items, found
    <2>1. CallTypeOK' /\ call'.pc = "replied" /\ call'.req = call.req /\ call'.gone = call.gone
          /\ call'.count = 0
      BY <1>14 DEF CInv, CallTypeOK, Statuses
    <2>2. HistoryTypeOK' /\ history' = Noted(found, TRUE)
      BY <1>4, <1>14 DEF CInv, HistoryTypeOK, Noted, Undisturbed
    <2>3. Effect(r) /\ TwoStatements(r) /\ r.method \in RelationCounts
      BY <1>14, <1>17, <1>18
    <2> QED
      BY <1>1, <1>11, <2>1, <2>2, <2>3 DEF r, found
  <1> QED
    BY <1>2, <1>12, <1>13, <1>14

LEMMA CInv_Serve ==
    ASSUME CInv, Serve, user = "cli", UNCHANGED <<user, step, verdict>>
    PROVE  CInv'
  <1>1. R!TypeOK' /\ CallTypeOK' /\ HistoryTypeOK'
        /\ call'.pc = "replied" /\ call'.req = call.req /\ call.pc = "serve"
        /\ UNCHANGED <<cmd, left, at, out, exit, changes>>
    BY ServeType
  <1>2. Work' = Work /\ IsListing' = IsListing
    BY <1>1, SameCommand
  <1>3. TypeOK'
    <2>1. call'.status \in Statuses
      BY <1>1 DEF CallTypeOK
    <2> QED
      BY <1>1, <2>1 DEF CInv, TypeOK
  <1>4. CallInv'
    <2>1. exit = "none" /\ Work # "none"
          /\ \/ /\ Before(Work) # "none" /\ out = <<>>
                /\ call.req = Request(Before(Work), Client, Target, Topic, 0, 0)
             \/ ~IsListing /\ call.req = Request(Work, Client, Target, Topic, 0, 0)
             \/ /\ IsListing /\ left > 0
                /\ call.req = Request(Work, Client, Target, Topic, at, AtMost(PageSize, left))
      BY <1>1 DEF CInv, CallInv
    <2> QED
      BY <1>1, <1>2, <2>1 DEF CallInv
  <1> QED
    BY <1>1, <1>3, <1>4 DEF CInv

(* The call of another user, and what it changes of what is listed.        *)
LEMMA OtherCallIs ==
    ASSUME CInv, OtherCall, user = "cli"
    PROVE  /\ UNCHANGED <<cmd, left, at, out, exit>> /\ exit = "none"
           /\ R!TypeOK' /\ CallTypeOK' /\ HistoryTypeOK' /\ changes' \in 0..MaxChanges
           /\ \/ call' = call
              \/ /\ call' = [call EXCEPT !.gone = TRUE] /\ call.pc = "serve" /\ TwoStatements(call.req)
                 /\ ~OwnerIn(call.req, registered', existing')
           /\ call'.req = call.req /\ call'.pc = call.pc /\ call'.status = call.status
           /\ call'.count = call.count /\ call'.items = call.items /\ (call.gone => call'.gone)
           /\ history'.counted = history.counted /\ history'.uncounted = history.uncounted
           /\ history'.added = history.added \cup (Shown' \ Shown)
           /\ history'.removed = history.removed \cup (Shown \ Shown')
           /\ ~history'.quiet
  <1>1. UNCHANGED <<cmd, left, at, out, exit>> /\ exit = "none" /\ changes < MaxChanges /\ changes' = changes + 1
    BY DEF OtherCall
  <1>2. R!TypeOK'
    <2>1. PICK r \in Others : Status(r) = "OK" /\ Effect(r)
      BY DEF OtherCall
    <2>2. r.client \in Names \cup {NoClient, NoName} /\ r.topic \in Topics
      BY <2>1, OthersAssumption
    <2> QED
      BY <2>1, <2>2, EffectType DEF CInv, TypeOK
  <1>3. \/ call' = call
        \/ /\ call' = [call EXCEPT !.gone = TRUE] /\ call.pc = "serve" /\ TwoStatements(call.req)
           /\ ~OwnerIn(call.req, registered', existing')
    BY DEF OtherCall
  <1>4. CallTypeOK' /\ call'.req = call.req /\ call'.pc = call.pc /\ call'.status = call.status
        /\ call'.count = call.count /\ call'.items = call.items /\ (call.gone => call'.gone)
    BY <1>3 DEF CInv, CallTypeOK
  <1>5. history' = [history EXCEPT !.added = @ \cup (Shown' \ Shown), !.removed = @ \cup (Shown \ Shown'),
                                   !.quiet = FALSE]
    BY DEF OtherCall, Shown, Asked
  <1>6. Shown \in SUBSET Items
    BY CollectionType DEF CInv, TypeOK, Shown
  <1>7. Shown' \in SUBSET Items
    BY <1>2 DEF R!TypeOK, Shown, Collection, Items
  <1>8. HistoryTypeOK
    BY DEF CInv
  <1> DEFINE now == Shown'
  <1> HIDE DEF now
  <1>9. now \in SUBSET Items
        /\ history' = [history EXCEPT !.added = @ \cup (now \ Shown), !.removed = @ \cup (Shown \ now),
                                      !.quiet = FALSE]
    BY <1>5, <1>7 DEF now
  <1>10. HistoryTypeOK' /\ history'.counted = history.counted /\ history'.uncounted = history.uncounted
         /\ history'.added = history.added \cup (now \ Shown)
         /\ history'.removed = history.removed \cup (Shown \ now)
         /\ ~history'.quiet
    BY <1>6, <1>8, <1>9 DEF HistoryTypeOK
  <1>11. changes' \in 0..MaxChanges
    BY <1>1, MaxChangesAssumption DEF CInv, TypeOK
  <1> QED
    BY <1>1, <1>2, <1>3, <1>4, <1>10, <1>11 DEF now

LEMMA CInv_OtherCall ==
    ASSUME CInv, OtherCall, user = "cli", UNCHANGED <<user, step, verdict>>
    PROVE  CInv'
  <1>1. UNCHANGED <<cmd, left, at, out, exit>> /\ exit = "none"
        /\ R!TypeOK' /\ CallTypeOK' /\ HistoryTypeOK' /\ changes' \in 0..MaxChanges
        /\ call'.req = call.req /\ call'.pc = call.pc
        /\ (call' = call \/ (call' = [call EXCEPT !.gone = TRUE] /\ call.pc = "serve"))
    BY OtherCallIs
  <1>2. Work' = Work /\ IsListing' = IsListing
    BY <1>1, SameCommand
  <1>3. TypeOK'
    <2>1. call'.status \in Statuses /\ call'.pc \in {"none", "lookup", "serve", "replied"}
      BY <1>1 DEF CallTypeOK
    <2> QED
      BY <1>1, <2>1 DEF CInv, TypeOK
  <1>4. CallInv'
    BY <1>1, <1>2, NoCallIs DEF CInv, CallInv
  <1> QED
    BY <1>1, <1>3, <1>4 DEF CInv

(* The tests use the names of the suites.                                  *)
Tested == {"NewClient", "NewTopic", "NewTopicClient", "RemoveTopicClient", "RemoveTopic",
           "GetTopicsForClient", "GetTopics", "GetClients"}
TestSet ==
    {t \in [req : [method : Tested, client : Int, target : Int, topic : Int, offset : Nat, count : Nat,
                   valid : BOOLEAN],
            statuses : SUBSET Statuses, answer : SUBSET Nat] :
        /\ t.req.method = "NewClient" => t.req.client \in Names
        /\ t.req.method = "NewTopic" => t.req.topic \in Topics}

LEMMA TestIsOne ==
    ASSUME NEW m \in Tested, NEW c \in Int, NEW t \in Int, NEW n \in Nat,
           NEW s \in SUBSET Statuses, NEW a \in SUBSET Nat,
           m = "NewClient" => c \in Names, m = "NewTopic" => t \in Topics
    PROVE  Test(m, c, t, n, s, a) \in TestSet
  BY DEF Test, TestSet, Request, NoName

LEMMA TestsAreTests ==
    ASSUME user \in {"grpc", "http"}, user \in Users
    PROVE  Tests \in Seq(TestSet)
  <1>1. TestClients = 1..4 /\ TestTopics = 1..4 /\ TestClients \subseteq Names /\ TestTopics \subseteq Topics
    BY SuitesAssumption DEF TestClients, TestTopics
  <1>2. "OK" \in Statuses /\ {"OK"} \in SUBSET Statuses
    BY DEF Statuses
  <1>3. ASSUME NEW m \in Tested, NEW c \in Int, NEW t \in Int,
               m = "NewClient" => c \in Names, m = "NewTopic" => t \in Topics
        PROVE  Passes(m, c, t) \in TestSet
    BY <1>2, <1>3, TestIsOne DEF Passes
  <1>4. ASSUME NEW m \in {"GetTopicsForClient", "GetTopics", "GetClients"}, NEW c \in Int, NEW n \in Nat,
               NEW a \in SUBSET Nat
        PROVE  Lists(m, c, n, a) \in TestSet
    <2>1. m \in Tested /\ m # "NewClient" /\ m # "NewTopic" /\ 0 \in Int
      BY DEF Tested
    <2>2. Test(m, c, 0, n, {"OK"}, a) \in TestSet
      BY <1>2, <2>1, TestIsOne
    <2> QED
      BY <2>2 DEF Lists
  <1>5. Creation \in Seq(TestSet)
    <2>1. ASSUME NEW i \in 1..4
          PROVE  Passes("NewClient", i, 0) \in TestSet /\ Passes("NewTopic", 0, i) \in TestSet
      <3>1. i \in Names /\ i \in Topics /\ i \in Int /\ 0 \in Int /\ "NewClient" \in Tested /\ "NewTopic" \in Tested
        BY <1>1 DEF Tested
      <3>2. Passes("NewClient", i, 0) \in TestSet
        BY <1>3, <3>1
      <3>3. Passes("NewTopic", 0, i) \in TestSet
        BY <1>3, <3>1
      <3> QED
        BY <3>2, <3>3
    <2>2. [i \in TestClients |-> Passes("NewClient", i, 0)] \in Seq(TestSet)
          /\ [i \in TestTopics |-> Passes("NewTopic", 0, i)] \in Seq(TestSet)
      BY <1>1, <2>1
    <2> QED
      BY <2>2, ConcatProperties DEF Creation
  <1>6. ASSUME NEW j \in Nat, NEW p \in Nat
        PROVE  Membership(j, p) \in Seq(TestSet)
    <2>1. Passes("NewTopicClient", 1, 1) \in TestSet /\ Passes("RemoveTopicClient", 1, 1) \in TestSet
      BY <1>3 DEF Tested
    <2>2. Lists("GetTopicsForClient", 1, j, {1}) \in TestSet /\ Lists("GetTopicsForClient", 1, p, {}) \in TestSet
      BY <1>4
    <2> QED
      BY <2>1, <2>2 DEF Membership
  <1>7. ASSUME NEW s \in SUBSET Statuses
        PROVE  Removal(s) \in Seq(TestSet)
    <2>1. Passes("RemoveTopic", 0, 1) \in TestSet
      BY <1>3 DEF Tested
    <2>2. Test("RemoveTopic", 0, 1, 0, s, {}) \in TestSet
      BY TestIsOne DEF Tested
    <2> QED
      BY <2>1, <2>2 DEF Removal
  <1>8. ASSUME NEW n \in Nat
        PROVE  Listing(n) \in Seq(TestSet)
    <2>1. TestTopics \ {1} \in SUBSET Nat /\ TestClients \in SUBSET Nat
      BY <1>1
    <2>2. Lists("GetTopics", 0, n, TestTopics \ {1}) \in TestSet /\ Lists("GetClients", 0, n, TestClients) \in TestSet
      BY <1>4, <2>1
    <2>3. ListsTopics(n) \in Seq(TestSet) /\ ListsClients(n) \in Seq(TestSet)
      BY <2>2 DEF ListsTopics, ListsClients
    <2> QED
      BY <2>3, ConcatProperties DEF Listing
  <1>9. ASSUME NEW j \in Nat, NEW p \in Nat, NEW s \in SUBSET Statuses, NEW n \in Nat
        PROVE  Creation \o Membership(j, p) \o Removal(s) \o Listing(n) \in Seq(TestSet)
    <2>1. Creation \o Membership(j, p) \in Seq(TestSet)
      BY <1>5, <1>6, ConcatProperties
    <2>2. Creation \o Membership(j, p) \o Removal(s) \in Seq(TestSet)
      BY <1>7, <2>1, ConcatProperties
    <2> QED
      BY <1>8, <2>2, ConcatProperties
  <1>10. GRPCApi \in Seq(TestSet)
    BY <1>9 DEF GRPCApi
  <1>11. HTTPApi \in Seq(TestSet)
    BY <1>9 DEF HTTPApi
  <1> QED
    BY <1>10, <1>11 DEF Tests

LEMMA CInv_RunTest ==
    ASSUME CInv, RunTest
    PROVE  CInv'
  <1>1. user \in {"grpc", "http"} /\ user \in Users /\ step \in 1..Len(Tests)
        /\ UNCHANGED <<cliVars, changes, history, user>> /\ step' = step + 1
    BY DEF RunTest, CInv, TypeOK
  <1>2. Tests[step] \in TestSet
    BY <1>1, TestsAreTests
  <1> DEFINE r == Tests[step].req
  <1>3. IF Status(r) = "OK" THEN Effect(r) ELSE UNCHANGED registryVars
    BY Zenon DEF RunTest
  <1>4. (r.method = "NewClient" => r.client \in Names) /\ (r.method = "NewTopic" => r.topic \in Topics)
    BY <1>2 DEF TestSet
  <1>5. R!TypeOK
    BY DEF CInv, TypeOK
  <1> HIDE DEF r
  <1>6. R!TypeOK'
    <2>1. CASE Status(r) = "OK"
      BY <1>3, <1>4, <1>5, <2>1, EffectType
    <2>2. CASE UNCHANGED registryVars
      BY <1>5, <2>2 DEF R!TypeOK, registryVars
    <2> QED
      BY <1>3, <2>1, <2>2
  <1>7. cmd' = cmd /\ call' = call /\ left' = left /\ at' = at /\ out' = out /\ exit' = exit
    BY <1>1 DEF cliVars
  <1>8. verdict' \in {"none", "passed", "failed"}
    BY DEF RunTest
  <1>9. TypeOK'
    BY <1>1, <1>6, <1>7, <1>8 DEF CInv, TypeOK
  <1>10. CallTypeOK' /\ HistoryTypeOK'
    BY <1>1, <1>7 DEF CInv, CallTypeOK, HistoryTypeOK
  <1>11. CallInv'
    <2>1. Work' = Work /\ IsListing' = IsListing
      BY <1>7, SameCommand
    <2> QED
      BY <1>1, <1>7, <2>1 DEF CInv, CallInv
  <1>12. step' # 0
    BY <1>1
  <1> QED
    BY <1>1, <1>9, <1>10, <1>11, <1>12 DEF CInv

LEMMA CInv_Idle ==
    ASSUME CInv, UNCHANGED vars
    PROVE  CInv'
  <1>1. UNCHANGED registryVars /\ UNCHANGED <<cmd, call, left, at, out, exit>>
        /\ UNCHANGED <<changes, history, user, step, verdict>>
    BY DEF vars, commandVars, cliVars
  <1>2. R!TypeOK'
    BY <1>1 DEF CInv, TypeOK, R!TypeOK, registryVars
  <1>3. TypeOK'
    BY <1>1, <1>2 DEF CInv, TypeOK
  <1>4. CallTypeOK' /\ HistoryTypeOK'
    BY <1>1 DEF CInv, CallTypeOK, HistoryTypeOK
  <1>5. Work' = Work /\ IsListing' = IsListing
    BY <1>1, SameCommand
  <1>6. CallInv'
    BY <1>1, <1>5 DEF CInv, CallInv
  <1> QED
    BY <1>1, <1>3, <1>4, <1>6 DEF CInv

LEMMA CInv_Next ==
    ASSUME CInv, [Next]_vars
    PROVE  CInv'
  <1>1. CASE Command
    <2>1. user = "cli" /\ UNCHANGED <<user, step, verdict>> /\ CommandStep
      BY <1>1 DEF Command
    <2> QED
      BY <2>1, CInv_Start, CInv_ReceiveError, CInv_ReceiveCount, CInv_ReceiveCryptoMode, CInv_ReceivePage,
         CInv_ReceiveResult, CInv_Lookup, CInv_Serve DEF CommandStep
  <1>2. CASE AnyoneElse
    BY <1>2, CInv_OtherCall DEF AnyoneElse
  <1>3. CASE RunTest
    BY <1>3, CInv_RunTest
  <1>4. CASE UNCHANGED vars
    BY <1>4, CInv_Idle
  <1> QED
    BY <1>1, <1>2, <1>3, <1>4 DEF Next, Finished

LEMMA CInv_Always ==
    Spec => []CInv
  BY CInv_Init, CInv_Next, PTL DEF Spec

(* The variables of the command line client, of the registry it asks and   *)
(* of the tests stay in their types: what is left of a listing is never    *)
(* negative, and links are between what is registered.                     *)
THEOREM TypeCorrect ==
    Spec => []TypeOK
  <1>1. CInv => TypeOK
    BY DEF CInv
  <1> QED
    BY <1>1, CInv_Always, PTL

-----------------------------------------------------------------------------
(* The kinds of steps.                                                     *)

(* A step before an answer, or after the last.                             *)
Preparing ==
    /\ UNCHANGED registryVars /\ UNCHANGED <<cmd, history, at, left, out>>
    /\ ~Answered'
    /\ Paging' => Paging /\ call'.req = call.req /\ call'.gone = call.gone
    /\ exit' = "ok" => ~IsListing /\ Answered /\ call.req.method = Work

LEMMA StepKinds ==
    ASSUME CInv, [Next]_vars
    PROVE  \/ Preparing
           \/ user = "cli" /\ (ReceiveCount \/ ReceivePage \/ Serve \/ OtherCall)
           \/ user # "cli" /\ user' = user
           \/ UNCHANGED vars
  <1>1. ASSUME user = "cli", Returns("error"), UNCHANGED registryVars, UNCHANGED <<cmd, history>>
        PROVE  Preparing
    <2>1. call'.pc = "none" /\ exit' = "error" /\ UNCHANGED <<left, at, out>>
      BY <1>1, NoCallIs DEF Returns
    <2> QED
      BY <1>1, <2>1 DEF Preparing, Answered, Paging
  <1>2. ASSUME user = "cli", NEW m, Send(m, 0, 0), UNCHANGED registryVars,
               UNCHANGED <<cmd, history, left, at, out, exit>>, exit = "none", IsListing => m # Work
        PROVE  Preparing
    <2>1. call'.pc # "replied" /\ call'.req.method = m
      <3>1. Send(m, 0, 0)
        BY <1>2
      <3>2. call'.pc \in {"lookup", "serve"} /\ call'.req = Request(m, Client, Target, Topic, 0, 0)
        BY <3>1, SentCall
      <3> QED
        BY <3>2 DEF Request
    <2>2. Work' = Work /\ IsListing' = IsListing
      BY <1>2, SameCommand
    <2> QED
      BY <1>2, <2>1, <2>2 DEF Preparing, Answered, Paging
  <1>3. ASSUME user = "cli", Start
        PROVE  Preparing
    <2>1. UNCHANGED registryVars /\ UNCHANGED <<cmd, history>> /\ exit = "none"
      BY <1>3 DEF Start
    <2>2. CASE Returns("error")
      BY <1>1, <1>3, <2>1, <2>2
    <2>3. CASE /\ Send(IF Before(Work) = "none" THEN Work ELSE Before(Work), 0, 0)
               /\ UNCHANGED <<left, at, out, exit>>
      <3> DEFINE m == IF Before(Work) = "none" THEN Work ELSE Before(Work)
      <3>1. IsListing => m # Work
        BY BeforeListing DEF IsListing
      <3>2. Send(m, 0, 0)
        BY <2>3
      <3> HIDE DEF m
      <3> QED
        BY <1>2, <1>3, <2>1, <2>3, <3>1, <3>2
    <2> QED
      BY <1>3, <2>2, <2>3 DEF Start
  <1>4. ASSUME user = "cli", ReceiveError
        PROVE  Preparing
    <2>1. Returns("error") /\ UNCHANGED registryVars /\ UNCHANGED <<cmd, history>>
      BY <1>4 DEF ReceiveError
    <2> QED
      BY <1>1, <1>4, <2>1
  <1>5. ASSUME user = "cli", ReceiveCryptoMode
        PROVE  Preparing
    <2>1. UNCHANGED registryVars /\ UNCHANGED <<cmd, history>> /\ exit = "none"
          /\ call.pc = "replied" /\ call.req.method = "GetCryptoMode"
      BY <1>5 DEF ReceiveCryptoMode, Replied
    <2>2. CASE Returns("error")
      BY <1>1, <1>5, <2>1, <2>2
    <2>3. CASE Send("NewClient", 0, 0) /\ UNCHANGED <<left, at, out, exit>>
      <3>1. Work # "GetCryptoMode"
        BY WorkIsWork DEF CInv, TypeOK
      <3>2. Before(Work) = "GetCryptoMode"
        BY <2>1, <3>1, RequestOf
      <3>3. ~IsListing
        BY <3>2 DEF IsListing
      <3> QED
        BY <1>2, <1>5, <2>1, <2>3, <3>3
    <2> QED
      BY <1>5, <2>2, <2>3 DEF ReceiveCryptoMode
  <1>6. ASSUME user = "cli", ReceiveResult
        PROVE  Preparing
    <2>1. UNCHANGED registryVars /\ UNCHANGED <<cmd, history>> /\ Returns("ok")
          /\ call.pc = "replied" /\ call.status = "OK" /\ call.req.method = Work /\ ~IsListing
      BY <1>6 DEF ReceiveResult, Replied
    <2>2. call'.pc = "none" /\ exit' = "ok" /\ UNCHANGED <<left, at, out>>
      BY <2>1, NoCallIs DEF Returns
    <2> QED
      BY <2>1, <2>2 DEF Preparing, Answered, Paging
  <1>7. ASSUME user = "cli", Lookup
        PROVE  Preparing
    <2>1. UNCHANGED registryVars /\ UNCHANGED <<cmd, history, left, at, out, exit>> /\ call.pc = "lookup"
      BY <1>7 DEF Lookup
    <2> DEFINE s == Status(call.req)
    <2>2. call' = IF s = "OK" THEN [call EXCEPT !.pc = "serve"]
                  ELSE [call EXCEPT !.pc = "replied", !.status = s]
      BY <1>7 DEF Lookup
    <2> HIDE DEF s
    <2>3. call'.req = call.req /\ call'.gone = call.gone /\ ~(call'.pc = "replied" /\ call'.status = "OK")
      BY <2>2 DEF CInv, CallTypeOK
    <2>4. Work' = Work /\ IsListing' = IsListing
      BY <2>1, SameCommand
    <2>5. exit = "none"
      BY <2>1, RequestOf
    <2> QED
      BY <2>1, <2>3, <2>4, <2>5 DEF Preparing, Answered, Paging
  <1>8. CASE Command
    <2>1. user = "cli" /\ CommandStep
      BY <1>8 DEF Command
    <2> QED
      BY <1>3, <1>4, <1>5, <1>6, <1>7, <2>1 DEF CommandStep
  <1>9. CASE AnyoneElse
    BY <1>9 DEF AnyoneElse
  <1>10. CASE RunTest
    BY <1>10 DEF RunTest
  <1> QED
    BY <1>8, <1>9, <1>10 DEF Next, Finished

(* Only a listing prints, and counts.                                      *)
OthersPrintNothing == ~IsListing => out = <<>> /\ history.counted = {}

(* What a call of a listing, or before one, does: nothing.                 *)
LEMMA ListingAsks ==
    ASSUME CInv, Serve, user = "cli", IsListing
    PROVE  UNCHANGED registryVars /\ Shown' = Shown /\ Collection(call.req) = Shown
           /\ call.req.method \in {Work, Before(Work)}
  <1>1. call.pc = "serve" /\ cmd' = cmd
    BY DEF Serve
  <1>2. call.req.method \in {Work, Before(Work)}
        /\ call.req = Request(call.req.method, Client, Target, Topic, call.req.offset, call.req.count)
    BY <1>1, RequestOf
  <1>3. Work \in Listings
    BY BeforeListing
  <1>4. call.req.method \in Listings \cup {"CountClients", "CountTopics", "CountTopicsForClient",
                                           "CountClientsForTopic", "CountLinkedClients"}
    BY <1>2, <1>3 DEF Listings, Before
  <1>5. Effect(call.req) => UNCHANGED registryVars
    BY <1>4 DEF Effect, Listings
  <1>6. UNCHANGED registryVars
    BY <1>5, ServeType
  <1>7. Shown' = Shown
    BY <1>1, <1>6, SameCommand
  <1> DEFINE o == call.req.offset
             n == call.req.count
  <1>8. Collection(Request(Work, Client, Target, Topic, o, n)) = Shown
        /\ Collection(Request(Before(Work), Client, Target, Topic, o, n)) = Shown
    BY SameCollection
  <1> HIDE DEF o, n
  <1>9. call.req = Request(Work, Client, Target, Topic, o, n)
        \/ call.req = Request(Before(Work), Client, Target, Topic, o, n)
    BY <1>2 DEF o, n
  <1>10. Collection(call.req) = Shown
    BY <1>8, <1>9
  <1> QED
    BY <1>2, <1>6, <1>7, <1>10

LEMMA ShownType ==
    ASSUME CInv
    PROVE  Shown \in SUBSET Items /\ history.counted \in SUBSET Items /\ history.added \in SUBSET Items
           /\ history.removed \in SUBSET Items /\ call.items \in SUBSET Items
           /\ out \in Seq(Items) /\ at \in Nat /\ left \in Nat
           /\ cmd.offset \in Nat /\ cmd.max \in Nat
           /\ \A i \in DOMAIN out : out[i] \in Items /\ out[i] \in Nat
  <1>1. Shown \in SUBSET Items
    BY CollectionType DEF CInv, TypeOK, Shown
  <1>2. history.counted \in SUBSET Items /\ history.added \in SUBSET Items
        /\ history.removed \in SUBSET Items /\ call.items \in SUBSET Items
    BY DEF CInv, HistoryTypeOK, CallTypeOK
  <1>3. out \in Seq(Items) /\ at \in Nat /\ left \in Nat /\ cmd.offset \in Nat /\ cmd.max \in Nat
    BY WorkIsWork DEF CInv, TypeOK, Items
  <1>4. \A i \in DOMAIN out : out[i] \in Items
    BY <1>3
  <1> QED
    BY <1>1, <1>2, <1>3, <1>4, ItemsAreFinite

LEMMA NobodyLists ==
    ASSUME CInv, user # "cli"
    PROVE  /\ call.pc = "none" /\ out = <<>> /\ exit = "none" /\ history.counted = {} /\ history.added = {}
           /\ ~Paging /\ ~Answered /\ ~Listed
  BY NoCallIs DEF CInv, CallInv, Undisturbed, Paging, Answered, Listed

LEMMA NothingMoves ==
    ASSUME UNCHANGED vars
    PROVE  /\ UNCHANGED <<cmd, call, left, at, out, exit>> /\ UNCHANGED <<changes, history>>
           /\ Work' = Work /\ IsListing' = IsListing /\ Shown' = Shown
           /\ Paging' = Paging /\ Answered' = Answered /\ Listed' = Listed /\ UNCHANGED registryVars
  <1>1. UNCHANGED registryVars /\ UNCHANGED <<cmd, call, left, at, out, exit>> /\ UNCHANGED <<changes, history>>
    BY DEF vars, commandVars, cliVars
  <1>2. Work' = Work /\ IsListing' = IsListing /\ Shown' = Shown
    BY <1>1, SameCommand
  <1> QED
    BY <1>1, <1>2 DEF Paging, Answered, Listed

-----------------------------------------------------------------------------
(* What is listed, what was counted, and how far the listing is.           *)

LInv == OthersPrintNothing /\ HistoryInv /\ TotalInv

LEMMA LInv_Init ==
    ASSUME Init
    PROVE  LInv
  <1>1. call = NoCall /\ out = <<>> /\ exit = "none" /\ history = Undisturbed({})
    BY DEF Init, CommandInit
  <1>2. call.pc = "none" /\ history.counted = {}
    BY <1>1, NoCallIs DEF Undisturbed
  <1> QED
    BY <1>1, <1>2 DEF LInv, OthersPrintNothing, HistoryInv, TotalInv, Paging, Answered, Listed

LEMMA LInv_Preparing ==
    ASSUME CInv, LInv, Preparing
    PROVE  LInv'
  <1>1. Work' = Work /\ IsListing' = IsListing /\ Shown' = Shown
    BY SameCommand DEF Preparing
  <1>2. ~Answered' /\ UNCHANGED <<cmd, history, at, left, out>>
        /\ (Paging' => Paging /\ call'.gone = call.gone)
    BY DEF Preparing
  <1>3. ~Listed'
    BY <1>1 DEF Listed, Preparing
  <1>4. Total' = Total
    BY <1>2 DEF Total, Reported, AtMost
  <1>5. OthersPrintNothing'
    BY <1>1, <1>2 DEF LInv, OthersPrintNothing
  <1>6. HistoryInv'
    BY <1>1, <1>2 DEF LInv, HistoryInv
  <1>7. TotalInv'
    BY <1>2, <1>3, <1>4 DEF LInv, TotalInv
  <1> QED
    BY <1>5, <1>6, <1>7 DEF LInv

LEMMA CountedType ==
    ASSUME CInv
    PROVE  /\ Reported \in Nat /\ Total \in Nat /\ Total <= Reported
           /\ cmd.max > 0 => Total = AtMost(Reported, cmd.max) /\ Total <= cmd.max
           /\ ~(cmd.max > 0) => Total = Reported
           /\ Reported <= Cardinality(history.counted) /\ Cardinality(history.counted) \in Nat
           /\ ~history.uncounted => Reported = Cardinality(history.counted)
  <1>1. Cardinality(history.counted) \in Nat /\ cmd.max \in Nat
    BY ShownType, FiniteItems
  <1>2. /\ Reported \in Nat /\ Reported <= Cardinality(history.counted)
        /\ ~history.uncounted => Reported = Cardinality(history.counted)
    BY <1>1 DEF Reported
  <1>3. Total = IF cmd.max > 0 THEN AtMost(Reported, cmd.max) ELSE Reported
    BY DEF Total
  <1> QED
    BY <1>1, <1>2, <1>3, AtMostIs

(* A page is asked for, or the listing ends.                               *)
LEMMA Advances ==
    ASSUME CInv, user = "cli", ReceiveCount \/ ReceivePage
    PROVE  /\ Work' = Work /\ IsListing' = IsListing /\ IsListing /\ Shown' = Shown /\ Total' = Total
           /\ UNCHANGED <<cmd, history>> /\ ~Answered'
           /\ Paging' => call'.gone = FALSE
           /\ Listed' => left' = 0
           /\ Paging' \/ Listed'
  <1>1. UNCHANGED registryVars /\ UNCHANGED <<cmd, changes, history>> /\ IsListing
        /\ (\/ left' > 0 /\ Send(Work, at', AtMost(PageSize, left')) /\ exit' = "none"
            \/ left' = 0 /\ call' = NoCall /\ exit' = "ok")
    BY CountReceived, PageReceived
  <1>2. Work' = Work /\ IsListing' = IsListing /\ Shown' = Shown
    BY <1>1, SameCommand
  <1>3. Total' = Total
    BY <1>1 DEF Total, Reported, AtMost
  <1>4. CASE left' > 0 /\ Send(Work, at', AtMost(PageSize, left')) /\ exit' = "none"
    <2> DEFINE o == at'
               n == AtMost(PageSize, left')
    <2>1. Send(Work, o, n)
      BY <1>4
    <2> HIDE DEF o, n
    <2>2. call'.pc \in {"lookup", "serve"} /\ call'.gone = FALSE /\ call'.req = Request(Work, Client, Target, Topic, o, n)
      BY <2>1, SentCall
    <2>3. call'.req.method = Work
      BY <2>2 DEF Request
    <2> QED
      BY <1>1, <1>2, <1>3, <1>4, <2>2, <2>3 DEF Answered, Paging, Listed
  <1>5. CASE left' = 0 /\ call' = NoCall /\ exit' = "ok"
    <2>1. call'.pc = "none"
      BY <1>5, NoCallIs
    <2> QED
      BY <1>1, <1>2, <1>3, <1>5, <2>1 DEF Answered, Paging, Listed
  <1> QED
    BY <1>1, <1>4, <1>5

LEMMA LInv_ReceiveCount ==
    ASSUME CInv, LInv, ReceiveCount, user = "cli"
    PROVE  LInv'
  <1>1. OthersPrintNothing' /\ HistoryInv'
    BY Advances, CountReceived DEF LInv, OthersPrintNothing, HistoryInv
  <1>2. call.count = Reported
    BY CountReceived DEF LInv, TotalInv
  <1>3. left' = Total /\ at' = cmd.offset /\ cmd' = cmd
    BY <1>2, CountReceived DEF Total
  <1>4. at' \in Nat
    BY CountReceived
  <1>5. Total' = Total /\ ~Answered' /\ (Listed' => left' = 0)
    BY Advances
  <1>6. TotalInv'
    <2>1. at' >= cmd'.offset /\ at' + left' = cmd'.offset + Total'
      BY <1>3, <1>4, <1>5
    <2> QED
      BY <1>5, <2>1 DEF TotalInv
  <1> QED
    BY <1>1, <1>6 DEF LInv

LEMMA LInv_ReceivePage ==
    ASSUME CInv, LInv, ReceivePage, user = "cli"
    PROVE  LInv'
  <1>1. OthersPrintNothing' /\ HistoryInv'
    BY Advances DEF LInv, OthersPrintNothing, HistoryInv
  <1>2. at >= cmd.offset /\ at + left = cmd.offset + Total
    BY PageReceived DEF LInv, TotalInv
  <1>3. left' = left - call.req.count /\ at' = at + call.req.count /\ call.req.count \in Nat /\ cmd' = cmd
    BY PageReceived
  <1>4. at \in Nat /\ left \in Nat /\ cmd.offset \in Nat /\ Total \in Nat
    BY ShownType, CountedType
  <1>5. at' >= cmd.offset /\ at' + left' = cmd.offset + Total
    BY <1>2, <1>3, <1>4
  <1>6. Total' = Total /\ ~Answered' /\ (Listed' => left' = 0) /\ cmd'.offset = cmd.offset
    BY <1>3, Advances
  <1>7. TotalInv'
    BY <1>5, <1>6 DEF TotalInv
  <1> QED
    BY <1>1, <1>7 DEF LInv

(* The answer to a count begins a history.                                 *)
LEMMA Counts ==
    ASSUME CInv, Serve, user = "cli", IsListing, call.req.method = Before(Work)
    PROVE  /\ history'.counted = (IF call.gone THEN {} ELSE Shown)
           /\ history'.added = {} /\ history'.removed = {}
           /\ ~Paging' /\ ~Listed' /\ out = <<>> /\ out' = <<>> /\ Shown' = Shown
           /\ Work' = Work /\ IsListing' /\ call'.req = call.req
           /\ Answered' => call'.count = Reported'
  <1>1. Collection(call.req) = Shown /\ Shown' = Shown
    BY ListingAsks
  <1> DEFINE S == IF call.gone THEN {} ELSE Shown
  <1>2. PICK failed \in BOOLEAN :
          /\ history' = Noted(S, failed)
          /\ call'.status = "OK" => call'.count = IF failed THEN 0 ELSE Cardinality(S)
    BY <1>1, ServeType
  <1>3. UNCHANGED <<cmd, out, exit>> /\ call'.req = call.req /\ call.pc = "serve"
    BY ServeType
  <1>4. Work' = Work /\ IsListing'
    BY <1>3, SameCommand
  <1>5. exit = "none" /\ out = <<>> /\ Before(Work) # Work
    BY <1>3, RequestOf
  <1> HIDE DEF S
  <1>6. history' = [Undisturbed(S) EXCEPT !.uncounted = failed]
    BY <1>2 DEF Noted
  <1>7. history'.counted = S /\ history'.added = {} /\ history'.removed = {} /\ history'.uncounted = failed
    BY <1>6 DEF Undisturbed
  <1>8. Answered' => call'.count = Reported'
    BY <1>2, <1>7 DEF Answered, Reported
  <1> QED
    BY <1>1, <1>3, <1>4, <1>5, <1>7, <1>8 DEF Paging, Listed, S

(* The other answers only say that nothing has happened since.             *)
LEMMA Goes ==
    ASSUME CInv, Serve, user = "cli", ~(IsListing /\ call.req.method = Before(Work))
    PROVE  /\ history'.counted = history.counted /\ history'.added = history.added
           /\ history'.removed = history.removed
           /\ Work' = Work /\ IsListing' = IsListing /\ ~Listed /\ ~Listed' /\ Paging' = Paging
           /\ ~Answered
           /\ UNCHANGED <<cmd, left, at, out, exit>> /\ Total' = Total
           /\ call'.req = call.req /\ call'.gone = call.gone
  <1>1. history' = [history EXCEPT !.quiet = TRUE]
    BY ServeType DEF Noted
  <1>2. history'.counted = history.counted /\ history'.added = history.added
        /\ history'.removed = history.removed /\ history'.uncounted = history.uncounted
    BY <1>1 DEF CInv, HistoryTypeOK
  <1>3. UNCHANGED <<cmd, left, at, out, exit>> /\ call'.req = call.req /\ call.pc = "serve"
        /\ call'.pc = "replied" /\ call'.gone = call.gone
    BY ServeType
  <1>4. Work' = Work /\ IsListing' = IsListing
    BY <1>3, SameCommand
  <1>5. exit = "none"
    BY <1>3, RequestOf
  <1>6. Total' = Total
    BY <1>2, <1>3 DEF Total, Reported, AtMost
  <1> QED
    BY <1>2, <1>3, <1>4, <1>5, <1>6 DEF Paging, Listed, Answered

LEMMA LInv_Serve ==
    ASSUME CInv, LInv, Serve, user = "cli"
    PROVE  LInv'
  <1>1. CASE IsListing /\ call.req.method = Before(Work)
    <2> DEFINE S == IF call.gone THEN {} ELSE Shown
    <2>1. history'.counted = S /\ ~Paging' /\ ~Listed' /\ Shown' = Shown /\ IsListing'
          /\ (Answered' => call'.count = Reported')
      BY <1>1, Counts
    <2>2. S \subseteq Shown /\ (S # {} => S = Shown)
      OBVIOUS
    <2> HIDE DEF S
    <2>3. HistoryInv'
      BY <2>1, <2>2 DEF HistoryInv
    <2> QED
      BY <2>1, <2>3 DEF LInv, OthersPrintNothing, TotalInv
  <1>2. CASE ~(IsListing /\ call.req.method = Before(Work))
    <2>1. /\ history'.counted = history.counted /\ history'.added = history.added
          /\ history'.removed = history.removed
          /\ Work' = Work /\ IsListing' = IsListing /\ ~Listed /\ ~Listed' /\ Paging' = Paging
          /\ UNCHANGED <<cmd, left, at, out, exit>> /\ Total' = Total
          /\ call'.req = call.req /\ call'.gone = call.gone
      BY <1>2, Goes
    <2>2. OthersPrintNothing'
      BY <2>1 DEF LInv, OthersPrintNothing
    <2>3. HistoryInv'
      <3>1. CASE IsListing
        <4>1. Shown' = Shown
          BY <3>1, ListingAsks
        <4> QED
          BY <2>1, <4>1 DEF LInv, HistoryInv
      <3>2. CASE ~IsListing
        <4>1. history.counted = {}
          BY <3>2 DEF LInv, OthersPrintNothing
        <4> QED
          BY <2>1, <4>1 DEF HistoryInv
      <3> QED
        BY <3>1, <3>2
    <2>4. TotalInv'
      BY <1>2, <2>1 DEF LInv, TotalInv
    <2> QED
      BY <2>2, <2>3, <2>4 DEF LInv
  <1> QED
    BY <1>1, <1>2

(* With the owner of what is listed, what is listed goes.                  *)
LEMMA GoneIsEmpty ==
    ASSUME CInv, OtherCall, user = "cli", Paging, TwoStatements(call.req),
           ~OwnerIn(call.req, registered', existing')
    PROVE  Shown' = {}
  <1>1. R!TypeOK' /\ cmd' = cmd
    BY OtherCallIs
  <1>2. call.req.method = Work /\ call.req.client = Client /\ call.req.topic = Topic
    BY RequestOf DEF Paging
  <1>3. Asked' = Asked
    BY <1>1, SameCommand
  <1>4. Asked = [method |-> Work, client |-> Client, target |-> Target, topic |-> Topic,
                 offset |-> 0, count |-> 0, valid |-> TRUE]
    BY DEF Asked, Request
  <1>5. Work \in {"GetTopicsForClient", "GetClientsForTopic", "GetLinkedClients"}
    <2>1. Work \in Listings
      BY BeforeListing DEF Paging
    <2> QED
      BY <1>2, <2>1 DEF Listings, TwoStatements
  <1>6. CASE Work = "GetTopicsForClient"
    <2>1. Client \notin registered'
      BY <1>2, <1>6 DEF OwnerIn
    <2>2. Shown' = {t \in Topics : <<Client, t>> \in members'}
      BY <1>3, <1>4, <1>6 DEF Shown, Collection
    <2> QED
      BY <1>1, <2>1, <2>2 DEF R!TypeOK
  <1>7. CASE Work = "GetClientsForTopic"
    <2>1. Topic \notin existing'
      BY <1>2, <1>7 DEF OwnerIn
    <2>2. Shown' = {c \in Names : <<c, Topic>> \in members'}
      BY <1>3, <1>4, <1>7 DEF Shown, Collection
    <2> QED
      BY <1>1, <2>1, <2>2 DEF R!TypeOK
  <1>8. CASE Work = "GetLinkedClients"
    <2>1. Client \notin registered'
      BY <1>2, <1>8 DEF OwnerIn
    <2>2. Shown' = {c \in Names : <<Client, c>> \in pairs'}
      BY <1>3, <1>4, <1>8 DEF Shown, Collection
    <2> QED
      BY <1>1, <2>1, <2>2 DEF R!TypeOK
  <1> QED
    BY <1>5, <1>6, <1>7, <1>8

(* What another user leaves alone.                                         *)
LEMMA OtherCallLeaves ==
    ASSUME CInv, OtherCall, user = "cli"
    PROVE  /\ Work' = Work /\ IsListing' = IsListing /\ ~Listed /\ ~Listed' /\ Paging' = Paging
           /\ Answered' = Answered /\ Total' = Total
           /\ UNCHANGED <<cmd, left, at, out, exit>> /\ call'.req = call.req /\ call'.items = call.items
           /\ call'.count = call.count
           /\ history'.counted = history.counted /\ history'.uncounted = history.uncounted
           /\ Reported' = Reported
  <1>1. UNCHANGED <<cmd, left, at, out, exit>> /\ exit = "none" /\ call'.req = call.req
        /\ call'.pc = call.pc /\ call'.status = call.status /\ history'.counted = history.counted
        /\ call'.items = call.items /\ call'.count = call.count /\ history'.uncounted = history.uncounted
    BY OtherCallIs
  <1>2. Work' = Work /\ IsListing' = IsListing
    BY <1>1, SameCommand
  <1>3. Total' = Total /\ Reported' = Reported
    BY <1>1 DEF Total, Reported, AtMost
  <1> QED
    BY <1>1, <1>2, <1>3 DEF Listed, Paging, Answered

LEMMA LInv_OtherCall ==
    ASSUME CInv, LInv, OtherCall, user = "cli"
    PROVE  LInv'
  <1>1. OthersPrintNothing' /\ TotalInv'
    BY OtherCallLeaves DEF LInv, OthersPrintNothing, TotalInv
  <1>2. /\ history'.counted = history.counted
        /\ history'.added = history.added \cup (Shown' \ Shown)
        /\ history'.removed = history.removed \cup (Shown \ Shown')
    BY OtherCallIs
  <1>3. /\ history.counted \ Shown \subseteq history.removed
        /\ history.counted # {} => Shown \ history.counted \subseteq history.added
        /\ Paging /\ call.gone => history.counted \subseteq history.removed
    BY DEF LInv, HistoryInv
  <1> DEFINE now == Shown'
             C == history.counted
             A == history'.added
             D == history'.removed
  <1>4. C \ now \subseteq D
    BY <1>2, <1>3
  <1>5. C # {} => now \ C \subseteq A
    BY <1>2, <1>3
  <1>6. ASSUME Paging', call'.gone
        PROVE  C \subseteq D
    <2>1. Paging
      BY <1>6, OtherCallLeaves
    <2>2. CASE call.gone
      BY <1>2, <1>3, <2>1, <2>2
    <2>3. CASE TwoStatements(call.req) /\ ~OwnerIn(call.req, registered', existing')
      <3>1. now = {}
        BY <2>1, <2>3, GoneIsEmpty
      <3> QED
        BY <1>4, <3>1
    <2> QED
      BY <1>6, <2>2, <2>3, OtherCallIs
  <1>7. HistoryInv'
    BY <1>2, <1>4, <1>5, <1>6 DEF HistoryInv
  <1> QED
    BY <1>1, <1>7 DEF LInv

LEMMA LInv_Next ==
    ASSUME CInv, CInv', LInv, [Next]_vars
    PROVE  LInv'
  <1>1. CASE user # "cli" /\ user' = user
    <2>1. /\ call'.pc = "none" /\ out' = <<>> /\ exit' = "none" /\ history'.counted = {}
          /\ ~Paging' /\ ~Answered' /\ ~Listed'
      <3>1. user' # "cli"
        BY <1>1
      <3>2. call' = NoCall /\ out' = <<>> /\ exit' = "none" /\ history' = Undisturbed({})
        BY <3>1 DEF CInv, CallInv
      <3> QED
        BY <3>2, NoCallIs DEF Undisturbed, Paging, Answered, Listed
    <2> QED
      BY <2>1 DEF LInv, OthersPrintNothing, HistoryInv, TotalInv
  <1>2. CASE UNCHANGED vars
    <2>1. Total' = Total /\ Reported' = Reported
      BY <1>2, NothingMoves DEF Total, Reported, AtMost
    <2> QED
      BY <1>2, <2>1, NothingMoves DEF LInv, OthersPrintNothing, HistoryInv, TotalInv
  <1> QED
    BY <1>1, <1>2, StepKinds, LInv_Preparing, LInv_ReceiveCount, LInv_ReceivePage, LInv_Serve, LInv_OtherCall

-----------------------------------------------------------------------------
(* What is printed twice.                                                  *)

TInv == TwiceInv /\ TwiceOnlyBehindAnAddition

(* Fewer are before x when nothing was added before it.                    *)
LEMMA BelowGrows ==
    ASSUME NEW S \in SUBSET Items, NEW T \in SUBSET Items, NEW x \in Nat,
           \A y \in T \ S : ~(y < x)
    PROVE  Below(T, x) <= Below(S, x) /\ Below(T, x) \in Nat /\ Below(S, x) \in Nat
  <1>1. S \in SUBSET Nat /\ T \in SUBSET Nat /\ IsFiniteSet(S) /\ IsFiniteSet(T)
    BY FiniteItems
  <1> DEFINE A == {y \in S : y < x}
             B == {y \in T : y < x}
  <1>2. IsFiniteSet(A) /\ IsFiniteSet(B) /\ Below(S, x) \in Nat /\ Below(T, x) \in Nat
    BY <1>1, Below_Finite
  <1>3. B \in SUBSET A
    OBVIOUS
  <1>4. Below(S, x) = Cardinality(A) /\ Below(T, x) = Cardinality(B)
    BY DEF Below
  <1> HIDE DEF A, B
  <1>5. Cardinality(B) <= Cardinality(A)
    BY <1>2, <1>3, FS_Subset
  <1> QED
    BY <1>2, <1>4, <1>5

(* What a page has, of what is there when it is served.                    *)
LEMMA PageServed ==
    ASSUME CInv, Serve, user = "cli", IsListing, call.req.method = Work, Answered'
    PROVE  /\ call'.items = IF call.gone THEN {} ELSE Page(Shown, at, call.req.count)
           /\ call.req.count \in Nat /\ at \in Nat /\ Paging
  <1>1. call.pc = "serve"
    BY DEF Serve
  <1>2. left > 0 /\ call.req.offset = at /\ call.req.count = AtMost(PageSize, left)
    BY <1>1, RequestOf
  <1>3. at \in Nat /\ left \in Nat /\ PageSize \in Nat /\ PageSize <= QueryLimit /\ QueryLimit \in Nat
    BY ShownType, PageSizeAssumption, QueryLimitAssumption
  <1>4. call.req.count \in Nat /\ call.req.count <= QueryLimit
    BY <1>2, <1>3, AtMostIs
  <1>5. Limit(call.req) = call.req.count
    BY <1>3, <1>4 DEF Limit
  <1>6. Collection(call.req) = Shown
    BY ListingAsks
  <1>7. Answer(call.req) = Page(Shown, at, call.req.count)
    BY <1>2, <1>5, <1>6 DEF Answer
  <1>8. call'.items = IF call.gone THEN {} ELSE Answer(call.req)
    <2>1. call.req.method \notin RelationCounts
      BY BeforeListing DEF Listings, RelationCounts
    <2> QED
      BY <2>1, ServeType DEF Answered
  <1>9. Paging
    BY <1>1 DEF Paging
  <1> QED
    BY <1>3, <1>4, <1>7, <1>8, <1>9

LEMMA PrintedMonotone ==
    ASSUME history.added \subseteq history'.added, NEW x
    PROVE  AddedBefore(x) => AddedBefore(x)'
  BY DEF AddedBefore

LEMMA TInv_Init ==
    ASSUME Init
    PROVE  TInv
  <1>1. call = NoCall /\ out = <<>>
    BY DEF Init, CommandInit
  <1>2. call.pc = "none"
    BY <1>1, NoCallIs
  <1> QED
    BY <1>1, <1>2 DEF TInv, TwiceInv, TwiceOnlyBehindAnAddition, Paging

(* Nothing printed, nothing arrived.                                       *)
LEMMA TInv_Nothing ==
    ASSUME out' = <<>>, ~(Paging' /\ Answered')
    PROVE  TInv'
  BY DEF TInv, TwiceInv, TwiceOnlyBehindAnAddition

LEMMA TInv_Preparing ==
    ASSUME TInv, Preparing
    PROVE  TInv'
  <1>1. Shown' = Shown
    BY SameCommand DEF Preparing
  <1>2. ~Answered' /\ UNCHANGED <<cmd, history, at, left, out>>
    BY DEF Preparing
  <1> QED
    BY <1>1, <1>2 DEF TInv, TwiceInv, TwiceOnlyBehindAnAddition, AddedBefore

LEMMA TInv_ReceiveCount ==
    ASSUME CInv, ReceiveCount, user = "cli"
    PROVE  TInv'
  BY CountReceived, Advances, TInv_Nothing

(* The printed items: those before, and those of the page.                 *)
LEMMA PrintedIs ==
    ASSUME CInv, ReceivePage, NEW i \in DOMAIN out'
    PROVE  /\ i \in 1..Len(out')
           /\ \/ i \in DOMAIN out /\ i <= Len(out) /\ out'[i] = out[i]
              \/ /\ i > Len(out) /\ i - Len(out) \in 1..Cardinality(call.items)
                 /\ out'[i] \in call.items /\ out'[i] = Sorted(call.items)[i - Len(out)]
                 /\ Rank(call.items, out'[i]) = i - Len(out)
  <1>1. /\ out' \in Seq(Items) /\ out \in Seq(Items)
        /\ Len(out') = Len(out) + Cardinality(call.items)
        /\ \A k \in 1..Len(out') :
             out'[k] = IF k <= Len(out) THEN out[k] ELSE Sorted(call.items)[k - Len(out)]
    BY PrintedType
  <1>2. call.items \in SUBSET Nat /\ IsFiniteSet(call.items) /\ Cardinality(call.items) \in Nat
    BY ShownType, FiniteItems
  <1>3. /\ Sorted(call.items) \in [1..Cardinality(call.items) -> call.items]
        /\ \A k \in 1..Cardinality(call.items) : Rank(call.items, Sorted(call.items)[k]) = k
    BY <1>2, SortedIs
  <1>4. DOMAIN out' = 1..Len(out') /\ DOMAIN out = 1..Len(out) /\ Len(out) \in Nat
    BY <1>1
  <1>5. i \in 1..Len(out')
    BY <1>4
  <1>6. CASE i <= Len(out)
    <2>1. i \in DOMAIN out
      BY <1>4, <1>5, <1>6
    <2> QED
      BY <1>1, <1>5, <1>6, <2>1
  <1>7. CASE ~(i <= Len(out))
    <2>1. i - Len(out) \in 1..Cardinality(call.items) /\ i > Len(out)
      BY <1>1, <1>2, <1>4, <1>5, <1>7
    <2>2. out'[i] = Sorted(call.items)[i - Len(out)]
      BY <1>1, <1>5, <1>7
    <2>3. Sorted(call.items)[i - Len(out)] \in call.items
          /\ Rank(call.items, Sorted(call.items)[i - Len(out)]) = i - Len(out)
      BY <1>3, <2>1
    <2> QED
      BY <1>5, <2>1, <2>2, <2>3
  <1> QED
    BY <1>6, <1>7

LEMMA TInv_ReceivePage ==
    ASSUME CInv, TInv, ReceivePage, user = "cli"
    PROVE  TInv'
  <1>1. Paging /\ Answered /\ at' = at + call.req.count /\ call.req.count \in Nat /\ history' = history
        /\ Shown' = Shown /\ ~Answered'
    BY PageReceived, Advances
  <1>2. \A x : AddedBefore(x)' <=> AddedBefore(x)
    BY <1>1 DEF AddedBefore
  <1>3. ASSUME NEW x \in call.items
        PROVE  /\ Below(Shown, x) < at + call.req.count \/ AddedBefore(x)
               /\ IsPrinted(x) => AddedBefore(x)
    BY <1>1, <1>3 DEF TInv, TwiceInv
  <1>4. ASSUME NEW i \in DOMAIN out
        PROVE  Below(Shown, out[i]) < at \/ AddedBefore(out[i])
    BY <1>4 DEF TInv, TwiceInv
  <1>5. at \in Nat /\ Shown \in SUBSET Items
    BY ShownType
  <1>6. ASSUME NEW i \in DOMAIN out'
        PROVE  Below(Shown, out'[i]) < at' \/ AddedBefore(out'[i])
    <2>1. CASE i \in DOMAIN out /\ out'[i] = out[i]
      <3>1. Below(Shown, out[i]) < at \/ AddedBefore(out[i])
        BY <1>4, <2>1
      <3>2. out[i] \in Nat
        BY <2>1, ShownType
      <3>3. Below(Shown, out[i]) \in Nat
        BY <1>5, <3>2, BelowGrows
      <3> QED
        BY <1>1, <1>5, <2>1, <3>1, <3>3
    <2>2. CASE out'[i] \in call.items
      BY <1>1, <1>3, <2>2
    <2> QED
      BY <2>1, <2>2, PrintedIs
  <1>7. ASSUME NEW i \in DOMAIN out', NEW j \in DOMAIN out', i < j, out'[i] = out'[j]
        PROVE  AddedBefore(out'[i])
    <2>1. Len(out) \in Nat /\ i \in Int /\ j \in Int
      <3>1. i \in 1..Len(out') /\ j \in 1..Len(out')
        BY PrintedIs
      <3>2. Len(out) \in Nat
        BY ShownType
      <3> QED
        BY <3>1, <3>2
    <2>2. CASE j \in DOMAIN out /\ j <= Len(out) /\ out'[j] = out[j]
      <3>1. i <= Len(out)
        BY <1>7, <2>1, <2>2
      <3>2. i \in DOMAIN out /\ out'[i] = out[i]
        BY <2>1, <3>1, PrintedIs
      <3> QED
        BY <1>7, <2>2, <3>2 DEF TInv, TwiceOnlyBehindAnAddition, AddedBefore
    <2>3. CASE /\ j > Len(out) /\ out'[j] \in call.items
               /\ Rank(call.items, out'[j]) = j - Len(out)
      <3>1. CASE i \in DOMAIN out /\ out'[i] = out[i]
        <4>1. IsPrinted(out'[j])
          BY <1>7, <3>1 DEF IsPrinted
        <4> QED
          BY <1>3, <1>7, <2>3, <4>1
      <3>2. CASE Rank(call.items, out'[i]) = i - Len(out)
        BY <1>7, <2>1, <2>3, <3>2
      <3> QED
        BY <3>1, <3>2, PrintedIs
    <2> QED
      BY <2>2, <2>3, PrintedIs
  <1>8. TwiceInv'
    BY <1>1, <1>2, <1>6 DEF TwiceInv
  <1>9. TwiceOnlyBehindAnAddition'
    BY <1>1, <1>7 DEF TwiceOnlyBehindAnAddition, AddedBefore
  <1> QED
    BY <1>8, <1>9 DEF TInv

LEMMA TInv_Serve ==
    ASSUME CInv, OthersPrintNothing, TInv, Serve, user = "cli"
    PROVE  TInv'
  <1>1. CASE IsListing /\ call.req.method = Before(Work)
    BY <1>1, Counts, TInv_Nothing
  <1>2. CASE ~IsListing
    <2>1. out' = <<>> /\ ~Paging'
      BY <1>2, Goes DEF OthersPrintNothing, Paging
    <2> QED
      BY <2>1, TInv_Nothing
  <1>3. CASE IsListing /\ call.req.method = Work
    <2>1. Before(Work) # Work
      BY <1>3, BeforeListing DEF IsListing
    <2>2. /\ history'.added = history.added /\ UNCHANGED <<at, out>> /\ call'.req = call.req
          /\ Shown' = Shown
      BY <1>3, <2>1, Goes, ListingAsks
    <2>3. \A x : (AddedBefore(x)' <=> AddedBefore(x)) /\ (IsPrinted(x)' <=> IsPrinted(x))
      BY <2>2 DEF AddedBefore, IsPrinted
    <2>4. ASSUME Answered', NEW x \in call'.items
          PROVE  Below(Shown, x) < at + call.req.count /\ (IsPrinted(x) => AddedBefore(x))
      <3>1. x \in Page(Shown, at, call.req.count) /\ call.req.count \in Nat /\ at \in Nat
        BY <1>3, <2>4, PageServed
      <3>2. x \in Shown /\ at < Rank(Shown, x) /\ Rank(Shown, x) <= at + call.req.count
        BY <3>1 DEF Page
      <3>3. Shown \in SUBSET Nat /\ IsFiniteSet(Shown)
        BY ShownType, FiniteItems
      <3>4. Rank(Shown, x) = Below(Shown, x) + 1 /\ x \in Nat
        BY <3>2, <3>3, RankAfter
      <3>5. Below(Shown, x) \in Nat
        BY <3>3, <3>4, Below_Finite
      <3>6. ASSUME NEW i \in DOMAIN out, out[i] = x
            PROVE  AddedBefore(x)
        <4>1. Below(Shown, x) < at \/ AddedBefore(x)
          BY <3>6 DEF TInv, TwiceInv
        <4> QED
          BY <3>1, <3>2, <3>4, <3>5, <4>1
      <3> QED
        BY <3>1, <3>2, <3>4, <3>5, <3>6 DEF IsPrinted
    <2>5. TwiceInv'
      BY <2>2, <2>3, <2>4 DEF TInv, TwiceInv
    <2>6. TwiceOnlyBehindAnAddition'
      BY <2>2 DEF TInv, TwiceOnlyBehindAnAddition
    <2> QED
      BY <2>5, <2>6 DEF TInv
  <1>4. call.req.method \in {Work, Before(Work)}
    BY RequestOf DEF Serve
  <1> QED
    BY <1>1, <1>2, <1>3, <1>4

LEMMA TInv_OtherCall ==
    ASSUME CInv, CInv', TInv, OtherCall, user = "cli"
    PROVE  TInv'
  <1>1. history'.added = history.added \cup (Shown' \ Shown) /\ UNCHANGED <<cmd, at, out>>
        /\ call'.req = call.req /\ call'.items = call.items
        /\ Paging' = Paging /\ Answered' = Answered
    BY OtherCallIs, OtherCallLeaves
  <1> DEFINE now == Shown'
  <1>2. Shown \in SUBSET Items /\ now \in SUBSET Items /\ at \in Nat
    <2>1. Shown \in SUBSET Items /\ at \in Nat
      BY ShownType
    <2>2. R!TypeOK'
      BY DEF CInv, TypeOK
    <2>3. now \in SUBSET Items
      BY <2>2 DEF R!TypeOK, Shown, Collection, Items
    <2> QED
      BY <2>1, <2>3
  <1> HIDE DEF now
  <1>3. \A x : AddedBefore(x) => AddedBefore(x)'
    BY <1>1 DEF AddedBefore
  <1>4. \A x : IsPrinted(x)' <=> IsPrinted(x)
    BY <1>1 DEF IsPrinted
  <1>5. ASSUME NEW x \in Nat, NEW n \in Nat, Below(Shown, x) < n \/ AddedBefore(x)
        PROVE  Below(now, x) < n \/ AddedBefore(x)'
    <2> SUFFICES ASSUME ~AddedBefore(x)'
                 PROVE  Below(now, x) < n
      OBVIOUS
    <2>1. \A y \in now \ Shown : ~(y < x)
      BY <1>1 DEF AddedBefore, now
    <2>2. Below(now, x) <= Below(Shown, x) /\ Below(now, x) \in Nat /\ Below(Shown, x) \in Nat
      BY <1>2, <2>1, BelowGrows
    <2> QED
      BY <1>3, <1>5, <2>2
  <1>6. ASSUME NEW i \in DOMAIN out, NEW x \in Nat, out[i] = x
        PROVE  Below(now, x) < at \/ AddedBefore(x)'
    <2>1. Below(Shown, x) < at \/ AddedBefore(x)
      BY <1>6 DEF TInv, TwiceInv
    <2> QED
      BY <1>2, <1>5, <2>1
  <1>7. ASSUME Paging, Answered, NEW x \in call.items
        PROVE  /\ Below(now, x) < at + call.req.count \/ AddedBefore(x)'
               /\ IsPrinted(x) => AddedBefore(x)'
    <2>1. /\ Below(Shown, x) < at + call.req.count \/ AddedBefore(x)
          /\ IsPrinted(x) => AddedBefore(x)
      BY <1>7 DEF TInv, TwiceInv
    <2>2. call.req.count = AtMost(PageSize, left)
      BY <1>7, RequestOf DEF Paging
    <2>3. call.req.count \in Nat /\ x \in Nat /\ at + call.req.count \in Nat
      <3>1. left \in Nat /\ call.items \in SUBSET Nat /\ at \in Nat
        BY ShownType, FiniteItems
      <3>2. AtMost(PageSize, left) \in Nat
        BY <3>1, PageSizeAssumption, AtMostIs
      <3> QED
        BY <2>2, <3>1, <3>2
    <2>4. Below(now, x) < at + call.req.count \/ AddedBefore(x)'
      BY <1>5, <2>1, <2>3
    <2> QED
      BY <1>3, <2>1, <2>4
  <1>8. TwiceInv'
    <2>1. \A i \in DOMAIN out : out[i] \in Nat
      BY ShownType
    <2>2. ASSUME NEW i \in DOMAIN out'
          PROVE  (Below(Shown, out[i]) < at \/ AddedBefore(out[i]))'
      <3>1. PICK x \in Nat : out[i] = x
        BY <1>1, <2>1, <2>2
      <3>2. Below(now, x) < at \/ AddedBefore(x)'
        BY <1>1, <1>6, <3>1
      <3>3. out'[i] = x /\ at' = at
        BY <1>1, <3>1
      <3> QED
        BY <3>2, <3>3 DEF now
    <2> QED
      BY <1>1, <1>4, <1>7, <2>2 DEF TwiceInv, now
  <1>9. TwiceOnlyBehindAnAddition'
    BY <1>1 DEF TInv, TwiceOnlyBehindAnAddition
  <1> QED
    BY <1>8, <1>9 DEF TInv

LEMMA TInv_Next ==
    ASSUME CInv, CInv', OthersPrintNothing, TInv, [Next]_vars
    PROVE  TInv'
  <1>1. CASE user # "cli" /\ user' = user
    <2>1. call' = NoCall /\ out' = <<>>
      BY <1>1 DEF CInv, CallInv
    <2>2. ~Paging'
      BY <2>1, NoCallIs DEF Paging
    <2> QED
      BY <2>1, <2>2, TInv_Nothing
  <1>2. CASE UNCHANGED vars
    BY <1>2, NothingMoves DEF TInv, TwiceInv, TwiceOnlyBehindAnAddition, AddedBefore, IsPrinted
  <1> QED
    BY <1>1, <1>2, StepKinds, TInv_Preparing, TInv_ReceiveCount, TInv_ReceivePage, TInv_Serve, TInv_OtherCall

-----------------------------------------------------------------------------
(* What is missed.                                                         *)

LEMMA MissedInv_Init ==
    ASSUME Init
    PROVE  MissedInv
  <1>1. call = NoCall /\ exit = "none" /\ call.pc = "none"
    BY NoCallIs DEF Init, CommandInit
  <1> QED
    BY <1>1 DEF MissedInv, Paging, Listed

LEMMA MissedInv_Nothing ==
    ASSUME ~Paging', ~Listed'
    PROVE  MissedInv'
  BY DEF MissedInv

LEMMA MissedInv_Preparing ==
    ASSUME MissedInv, Preparing
    PROVE  MissedInv'
  <1>1. ~Answered' /\ UNCHANGED <<cmd, history, at, left, out>> /\ (Paging' => Paging)
    BY DEF Preparing
  <1>2. ~Listed'
    <2>1. IsListing' = IsListing
      BY <1>1, SameCommand
    <2> QED
      BY <2>1 DEF Listed, Preparing
  <1>3. \A x : (ChangedBefore(x)' <=> ChangedBefore(x)) /\ (IsPrinted(x)' <=> IsPrinted(x))
    BY <1>1 DEF ChangedBefore, IsPrinted
  <1>4. history' = history /\ cmd' = cmd /\ at' = at
    BY <1>1
  <1>5. \A x : Below(history.counted, x)' = Below(history.counted, x)
    BY <1>4 DEF Below
  <1> QED
    BY <1>1, <1>2, <1>3, <1>4, <1>5 DEF MissedInv

LEMMA MissedInv_ReceiveCount ==
    ASSUME CInv, ReceiveCount, user = "cli"
    PROVE  MissedInv'
  <1>1. at' = cmd.offset /\ cmd' = cmd /\ history' = history /\ ~Answered'
    BY CountReceived, Advances
  <1>2. ASSUME NEW x \in history.counted
        PROVE  Below(history.counted, x) < cmd.offset \/ cmd.offset <= Below(history.counted, x)
    <2>1. history.counted \in SUBSET Items /\ history.counted \in SUBSET Nat
          /\ IsFiniteSet(history.counted) /\ cmd.offset \in Nat
      BY ShownType, FiniteItems
    <2>2. x \in Nat
      BY <2>1
    <2>3. Below(history.counted, x) \in Nat
      BY <2>1, <2>2, Below_Finite
    <2> QED
      BY <2>1, <2>3
  <1> QED
    BY <1>1, <1>2 DEF MissedInv, Below

LEMMA MissedInv_ReceivePage ==
    ASSUME CInv, MissedInv, ReceivePage, user = "cli"
    PROVE  MissedInv'
  <1>1. Paging /\ Answered /\ at' = at + call.req.count /\ history' = history /\ cmd' = cmd /\ ~Answered'
    BY PageReceived, Advances
  <1>2. ASSUME NEW x, IsPrinted(x) \/ x \in call.items
        PROVE  IsPrinted(x)'
    <2>1. /\ out' \in Seq(Items) /\ out \in Seq(Items)
          /\ Len(out') = Len(out) + Cardinality(call.items)
          /\ \A k \in 1..Len(out') :
               out'[k] = IF k <= Len(out) THEN out[k] ELSE Sorted(call.items)[k - Len(out)]
      BY PrintedType
    <2>2. call.items \in SUBSET Nat /\ IsFiniteSet(call.items) /\ Cardinality(call.items) \in Nat
      BY ShownType, FiniteItems
    <2>3. DOMAIN out' = 1..Len(out') /\ DOMAIN out = 1..Len(out) /\ Len(out) \in Nat
      BY <2>1
    <2>4. CASE IsPrinted(x)
      <3>1. PICK i \in 1..Len(out) : out[i] = x
        BY <2>3, <2>4 DEF IsPrinted
      <3>2. i \in 1..Len(out') /\ i <= Len(out)
        BY <2>1, <2>2, <2>3
      <3>3. out'[i] = x
        BY <2>1, <3>1, <3>2
      <3> QED
        BY <2>3, <3>2, <3>3 DEF IsPrinted
    <2>5. CASE x \in call.items
      <3> DEFINE k == Rank(call.items, x)
      <3>1. k \in 1..Cardinality(call.items) /\ Sorted(call.items)[k] = x
        BY <2>2, <2>5, RankAfter, SortedIs
      <3> HIDE DEF k
      <3>2. Len(out) + k \in 1..Len(out') /\ ~(Len(out) + k <= Len(out)) /\ (Len(out) + k) - Len(out) = k
        BY <2>1, <2>2, <2>3, <3>1
      <3>3. out'[Len(out) + k] = x
        BY <2>1, <3>1, <3>2
      <3> QED
        BY <2>3, <3>2, <3>3 DEF IsPrinted
    <2> QED
      BY <1>2, <2>4, <2>5
  <1>3. ASSUME NEW x \in history.counted \ history.removed
        PROVE  \/ ChangedBefore(x) \/ IsPrinted(x)'
               \/ Below(history.counted, x) < cmd.offset \/ at' <= Below(history.counted, x)
    <2>1. \/ ChangedBefore(x) \/ IsPrinted(x)
          \/ Below(history.counted, x) < cmd.offset \/ at <= Below(history.counted, x)
      BY <1>1, <1>3 DEF MissedInv
    <2>2. \/ ChangedBefore(x) \/ x \in call.items
          \/ Below(history.counted, x) < at \/ at + call.req.count <= Below(history.counted, x)
      BY <1>1, <1>3 DEF MissedInv
    <2>3. history.counted \in SUBSET Items /\ history.counted \in SUBSET Nat
          /\ IsFiniteSet(history.counted) /\ at \in Nat
      BY ShownType, FiniteItems
    <2>4. x \in Nat
      BY <2>3
    <2>5. Below(history.counted, x) \in Nat
      BY <2>3, <2>4, Below_Finite
    <2>6. ~(at <= Below(history.counted, x) /\ Below(history.counted, x) < at)
      BY <2>3, <2>5
    <2> QED
      BY <1>1, <1>2, <2>1, <2>2, <2>6
  <1>4. \A x : (ChangedBefore(x)' <=> ChangedBefore(x)) /\ Below(history.counted, x)' = Below(history.counted, x)
    BY <1>1 DEF ChangedBefore, Below
  <1> QED
    BY <1>1, <1>3, <1>4 DEF MissedInv

(* What was counted keeps its place when nothing changes before it.        *)
LEMMA SamePlace ==
    ASSUME CInv, HistoryInv, NEW x \in history.counted \ history.removed, ~ChangedBefore(x)
    PROVE  x \in Shown /\ Below(Shown, x) = Below(history.counted, x) /\ x \in Nat
           /\ Below(Shown, x) \in Nat
  <1>1. Shown \in SUBSET Items /\ history.counted \in SUBSET Items
    BY ShownType
  <1>2. Shown \in SUBSET Nat /\ history.counted \in SUBSET Nat /\ IsFiniteSet(Shown)
    BY <1>1, FiniteItems
  <1>3. /\ history.counted \ Shown \subseteq history.removed
        /\ Shown \ history.counted \subseteq history.added
    BY DEF HistoryInv
  <1>4. {y \in Shown : y < x} = {y \in history.counted : y < x}
    <2>1. ASSUME NEW y, y < x
          PROVE  y \in Shown <=> y \in history.counted
      BY <1>3, <2>1 DEF ChangedBefore
    <2> QED
      BY <2>1, Zenon
  <1>5. x \in Shown /\ x \in Nat
    BY <1>2, <1>3
  <1>6. Below(Shown, x) \in Nat
    BY <1>2, <1>5, Below_Finite
  <1> QED
    BY <1>4, <1>5, <1>6 DEF Below

LEMMA MissedInv_Serve ==
    ASSUME CInv, LInv, MissedInv, Serve, user = "cli"
    PROVE  MissedInv'
  <1>1. CASE IsListing /\ call.req.method = Before(Work)
    BY <1>1, Counts, MissedInv_Nothing
  <1>2. CASE ~IsListing
    <2>1. ~Paging' /\ ~Listed'
      BY <1>2, Goes DEF Paging
    <2> QED
      BY <2>1, MissedInv_Nothing
  <1>3. CASE IsListing /\ call.req.method = Work
    <2>1. Before(Work) # Work
      BY <1>3, BeforeListing DEF IsListing
    <2>2. /\ history'.counted = history.counted /\ history'.added = history.added
          /\ history'.removed = history.removed /\ UNCHANGED <<cmd, at, out>> /\ call'.req = call.req
          /\ ~Listed' /\ Paging' = Paging
      BY <1>3, <2>1, Goes
    <2>3. \A x : (ChangedBefore(x)' <=> ChangedBefore(x)) /\ (IsPrinted(x)' <=> IsPrinted(x))
                 /\ Below(history.counted, x)' = Below(history.counted, x)
      BY <2>2 DEF ChangedBefore, IsPrinted, Below
    <2>4. ASSUME Answered', NEW x \in history.counted \ history.removed
          PROVE  \/ ChangedBefore(x) \/ x \in call'.items
                 \/ Below(history.counted, x) < at \/ at + call.req.count <= Below(history.counted, x)
      <3>1. SUFFICES ASSUME ~ChangedBefore(x), ~(Below(history.counted, x) < at),
                            ~(at + call.req.count <= Below(history.counted, x))
                     PROVE  x \in call'.items
        OBVIOUS
      <3>2. x \in Shown /\ Below(Shown, x) = Below(history.counted, x) /\ x \in Nat
            /\ Below(Shown, x) \in Nat
        BY <2>4, <3>1, SamePlace DEF LInv
      <3>3. /\ call'.items = IF call.gone THEN {} ELSE Page(Shown, at, call.req.count)
            /\ call.req.count \in Nat /\ at \in Nat /\ Paging
        BY <1>3, <2>4, PageServed
      <3>4. ~call.gone
        BY <2>4, <3>3 DEF LInv, HistoryInv
      <3>5. Shown \in SUBSET Nat /\ IsFiniteSet(Shown)
        BY ShownType, FiniteItems
      <3>6. Rank(Shown, x) = Below(Shown, x) + 1
        BY <3>2, <3>5, RankAfter
      <3>7. at < Rank(Shown, x) /\ Rank(Shown, x) <= at + call.req.count
        BY <3>1, <3>2, <3>3, <3>6
      <3> QED
        BY <3>2, <3>3, <3>4, <3>7 DEF Page
    <2> QED
      BY <2>2, <2>3, <2>4 DEF MissedInv
  <1>4. call.req.method \in {Work, Before(Work)}
    BY RequestOf DEF Serve
  <1> QED
    BY <1>1, <1>2, <1>3, <1>4

LEMMA MissedInv_OtherCall ==
    ASSUME CInv, MissedInv, OtherCall, user = "cli"
    PROVE  MissedInv'
  <1>1. /\ history'.added = history.added \cup (Shown' \ Shown)
        /\ history'.removed = history.removed \cup (Shown \ Shown')
    BY OtherCallIs
  <1>2. /\ UNCHANGED <<cmd, at, out>> /\ call'.req = call.req /\ call'.items = call.items
        /\ Paging' = Paging /\ Answered' = Answered /\ ~Listed' /\ history'.counted = history.counted
    BY OtherCallLeaves
  <1>3. \A x : (ChangedBefore(x) => ChangedBefore(x)') /\ (IsPrinted(x)' <=> IsPrinted(x))
               /\ Below(history.counted, x)' = Below(history.counted, x)
    BY <1>1, <1>2 DEF ChangedBefore, IsPrinted, Below
  <1>4. history'.counted \ history'.removed \subseteq history.counted \ history.removed
    BY <1>1, <1>2
  <1> QED
    BY <1>2, <1>3, <1>4 DEF MissedInv

LEMMA MissedInv_Next ==
    ASSUME CInv, CInv', LInv, MissedInv, [Next]_vars
    PROVE  MissedInv'
  <1>1. CASE user # "cli" /\ user' = user
    <2>1. call' = NoCall /\ exit' = "none"
      BY <1>1 DEF CInv, CallInv
    <2>2. ~Paging' /\ ~Listed'
      BY <2>1, NoCallIs DEF Paging, Listed
    <2> QED
      BY <2>2, MissedInv_Nothing
  <1>2. CASE UNCHANGED vars
    BY <1>2, NothingMoves DEF MissedInv, ChangedBefore, IsPrinted, Below
  <1> QED
    BY <1>1, <1>2, StepKinds, MissedInv_Preparing, MissedInv_ReceiveCount, MissedInv_ReceivePage,
       MissedInv_Serve, MissedInv_OtherCall

-----------------------------------------------------------------------------
(* What is listed when nothing changes.                                    *)

LEMMA ExactInv_Nothing ==
    ASSUME ~Paging', ~Listed'
    PROVE  ExactInv'
  BY DEF ExactInv

LEMMA ExactInv_Init ==
    ASSUME Init
    PROVE  ExactInv
  <1>1. call = NoCall /\ exit = "none" /\ call.pc = "none"
    BY NoCallIs DEF Init, CommandInit
  <1> QED
    BY <1>1 DEF ExactInv, Paging, Listed

LEMMA ExactInv_Preparing ==
    ASSUME ExactInv, Preparing
    PROVE  ExactInv'
  <1>1. ~Answered' /\ cmd' = cmd /\ history' = history /\ at' = at /\ out' = out /\ (Paging' => Paging)
    BY DEF Preparing
  <1>2. ~Listed'
    <2>1. IsListing' = IsListing
      BY <1>1, SameCommand
    <2> QED
      BY <2>1 DEF Listed, Preparing
  <1>3. Reached' = Reached
    BY <1>1 DEF Reached, AtMost
  <1>4. Sorted(history.counted)' = Sorted(history.counted)
    BY <1>1 DEF Sorted, Rank
  <1> QED
    BY <1>1, <1>2, <1>3, <1>4 DEF ExactInv

(* The counted items, in order.                                            *)
LEMMA CountedSorted ==
    ASSUME CInv, NEW n, n = Cardinality(history.counted)
    PROVE  /\ history.counted \in SUBSET Nat /\ IsFiniteSet(history.counted) /\ n \in Nat
           /\ Sorted(history.counted) \in [1..n -> history.counted]
           /\ at \in Nat /\ cmd.offset \in Nat
           /\ Reached = (IF at < n THEN at ELSE n)
  <1>1. history.counted \in SUBSET Items /\ at \in Nat /\ cmd.offset \in Nat
    BY ShownType
  <1>2. history.counted \in SUBSET Nat /\ IsFiniteSet(history.counted) /\ n \in Nat
    BY <1>1, FiniteItems
  <1>3. Sorted(history.counted) \in [1..n -> history.counted]
    BY <1>2, SortedIs
  <1>4. Reached = (IF at < n THEN at ELSE n)
    BY DEF Reached, AtMost
  <1> QED
    BY <1>1, <1>2, <1>3, <1>4

LEMMA ExactInv_ReceiveCount ==
    ASSUME CInv, ReceiveCount, user = "cli"
    PROVE  ExactInv'
  <1>1. at' = cmd.offset /\ cmd' = cmd /\ history' = history /\ ~Answered' /\ out' = <<>>
    BY CountReceived, Advances
  <1> DEFINE n == Cardinality(history.counted)
  <1>2. n \in Nat /\ cmd.offset \in Nat
    BY CountedSorted
  <1>3. Reached' = AtMost(cmd.offset, n)
    BY <1>1 DEF Reached, AtMost
  <1> HIDE DEF n
  <1>4. ~(Reached' > cmd.offset)
    BY <1>2, <1>3, AtMostIs
  <1>5. Len(out') = 0
    BY <1>1
  <1>6. Len(out') = IF Reached' > cmd'.offset THEN Reached' - cmd'.offset ELSE 0
    BY <1>1, <1>4, <1>5
  <1>7. 1..Len(out') = {}
    BY <1>5
  <1> QED
    BY <1>1, <1>6, <1>7 DEF ExactInv

LEMMA ExactInv_ReceivePage ==
    ASSUME CInv, LInv, ExactInv, ReceivePage, user = "cli"
    PROVE  ExactInv'
  <1>1. /\ Paging /\ Answered /\ at' = at + call.req.count /\ history' = history /\ cmd' = cmd /\ ~Answered'
        /\ call.req.count \in Nat
    BY PageReceived, Advances
  <1> SUFFICES ASSUME history.added = {}, history.removed = {}
               PROVE  /\ Len(out') = IF Reached' > cmd.offset THEN Reached' - cmd.offset ELSE 0
                      /\ \A i \in 1..Len(out') : out'[i] = Sorted(history.counted)[cmd.offset + i]
    <2>1. Sorted(history.counted)' = Sorted(history.counted)
      BY <1>1 DEF Sorted, Rank
    <2> QED
      BY <1>1, <2>1 DEF ExactInv
  <1>2. /\ Len(out) = IF Reached > cmd.offset THEN Reached - cmd.offset ELSE 0
        /\ \A i \in 1..Len(out) : out[i] = Sorted(history.counted)[cmd.offset + i]
        /\ call.items = Page(history.counted, at, call.req.count)
    BY <1>1 DEF ExactInv
  <1> DEFINE n == Cardinality(history.counted)
             c == call.req.count
             o == cmd.offset
             m == Within(n, at, c)
             s == Sorted(history.counted)
  <1>3. /\ history.counted \in SUBSET Nat /\ IsFiniteSet(history.counted) /\ n \in Nat
        /\ at \in Nat /\ o \in Nat /\ c \in Nat
        /\ Reached = (IF at < n THEN at ELSE n)
    BY <1>1, CountedSorted
  <1>4. Reached' = AtMost(at + c, n)
    BY <1>1 DEF Reached, AtMost
  <1>5. at >= o
    BY <1>1 DEF LInv, TotalInv
  <1>6. Len(out) \in Nat
    BY ShownType
  <1> HIDE DEF n, c, o
  <1>7. /\ m \in Nat /\ Len(out) + m = IF Reached' > o THEN Reached' - o ELSE 0
        /\ m > 0 => Len(out) = at - o
    <2>1. Len(out) = IF Reached > o THEN Reached - o ELSE 0
      BY <1>2 DEF o
    <2> DEFINE q == Reached'
               len == Len(out)
    <2>2. q = AtMost(at + c, n) /\ len \in Nat /\ len = (IF Reached > o THEN Reached - o ELSE 0)
      BY <1>4, <1>6, <2>1
    <2>3. m = IF AtMost(at + c, n) > at THEN AtMost(at + c, n) - at ELSE 0
      BY DEF Within
    <2> HIDE DEF q, len, m
    <2>4. m \in Nat /\ len + m = (IF q > o THEN q - o ELSE 0) /\ (m > 0 => len = at - o)
      BY <1>3, <1>5, <2>2, <2>3 DEF AtMost
    <2> QED
      BY <2>4 DEF q, len
  <1> HIDE DEF m
  <1>8. /\ Cardinality(call.items) = m
        /\ \A i \in 1..m : at + i \in 1..n /\ Sorted(call.items)[i] = s[at + i]
    <2>1. /\ Cardinality(Page(history.counted, at, c)) = m
          /\ \A i \in 1..m : at + i \in 1..n /\ Sorted(Page(history.counted, at, c))[i] = s[at + i]
      BY <1>3, SortedPage DEF m, n
    <2>2. call.items = Page(history.counted, at, c)
      BY <1>2 DEF c
    <2> QED
      BY <2>1, <2>2
  <1> HIDE DEF s
  <1>9. /\ Len(out') = Len(out) + m
        /\ \A i \in 1..Len(out') :
             out'[i] = IF i <= Len(out) THEN out[i] ELSE Sorted(call.items)[i - Len(out)]
    BY <1>8, PrintedType
  <1>10. ASSUME NEW i \in 1..Len(out')
         PROVE  out'[i] = s[o + i]
    <2>1. CASE i <= Len(out)
      <3>1. i \in 1..Len(out)
        BY <1>6, <1>7, <1>9, <2>1
      <3>2. out[i] = s[o + i]
        BY <1>2, <3>1 DEF s, o
      <3> QED
        BY <1>9, <2>1, <3>2
    <2>2. CASE ~(i <= Len(out))
      <3>1. i - Len(out) \in 1..m /\ m > 0
        BY <1>6, <1>7, <1>9, <2>2
      <3>2. at + (i - Len(out)) = o + i
        BY <1>3, <1>6, <1>7, <3>1
      <3>3. Sorted(call.items)[i - Len(out)] = s[at + (i - Len(out))]
        BY <1>8, <3>1
      <3>4. out'[i] = Sorted(call.items)[i - Len(out)]
        BY <1>9, <2>2
      <3> QED
        BY <3>2, <3>3, <3>4
    <2> QED
      BY <2>1, <2>2
  <1> QED
    BY <1>7, <1>9, <1>10 DEF s, o

LEMMA ExactInv_Serve ==
    ASSUME CInv, LInv, ExactInv, Serve, user = "cli"
    PROVE  ExactInv'
  <1>1. CASE IsListing /\ call.req.method = Before(Work)
    BY <1>1, Counts, ExactInv_Nothing
  <1>2. CASE ~IsListing
    <2>1. ~Paging' /\ ~Listed'
      BY <1>2, Goes DEF Paging
    <2> QED
      BY <2>1, ExactInv_Nothing
  <1>3. CASE IsListing /\ call.req.method = Work
    <2>1. Before(Work) # Work
      BY <1>3, BeforeListing DEF IsListing
    <2>2. /\ history'.counted = history.counted /\ history'.added = history.added
          /\ history'.removed = history.removed /\ cmd' = cmd /\ at' = at /\ out' = out /\ call'.req = call.req
          /\ ~Listed' /\ Paging' = Paging
      BY <1>3, <2>1, Goes
    <2>3. Reached' = Reached /\ Sorted(history.counted)' = Sorted(history.counted)
      BY <2>2 DEF Reached, AtMost, Sorted, Rank
    <2>4. ASSUME history.added = {}, history.removed = {}, Answered'
          PROVE  call'.items = Page(history.counted, at, call.req.count)
      <3>1. /\ call'.items = IF call.gone THEN {} ELSE Page(Shown, at, call.req.count)
            /\ call.req.count \in Nat /\ at \in Nat /\ Paging
        BY <1>3, <2>4, PageServed
      <3>2. history.counted # {}
        <4>1. left > 0
          BY <1>3, RequestOf DEF Serve
        <4>2. at >= cmd.offset /\ at + left = cmd.offset + Total
          BY <3>1 DEF LInv, TotalInv
        <4>3. left \in Nat /\ cmd.offset \in Nat /\ Total \in Nat /\ Total <= Cardinality(history.counted)
              /\ Cardinality(history.counted) \in Nat
          BY ShownType, CountedType
        <4>4. Cardinality(history.counted) > 0
          BY <3>1, <4>1, <4>2, <4>3
        <4> QED
          BY <4>4, FS_EmptySet
      <3>3. ~call.gone /\ Shown = history.counted
        <4>1. ~call.gone
          BY <2>4, <3>1, <3>2 DEF LInv, HistoryInv
        <4>2. history.counted \ Shown = {} /\ Shown \ history.counted = {}
          BY <2>4, <3>2 DEF LInv, HistoryInv
        <4> QED
          BY <4>1, <4>2
      <3> QED
        BY <3>1, <3>3
    <2>5. Page(history.counted, at, call.req.count)' = Page(history.counted, at, call.req.count)
      BY <2>2 DEF Page, Rank
    <2> QED
      BY <2>2, <2>3, <2>4, <2>5 DEF ExactInv
  <1>4. call.req.method \in {Work, Before(Work)}
    BY RequestOf DEF Serve
  <1> QED
    BY <1>1, <1>2, <1>3, <1>4

LEMMA ExactInv_OtherCall ==
    ASSUME CInv, ExactInv, OtherCall, user = "cli"
    PROVE  ExactInv'
  <1>1. /\ history'.added = history.added \cup (Shown' \ Shown)
        /\ history'.removed = history.removed \cup (Shown \ Shown')
    BY OtherCallIs
  <1>2. /\ cmd' = cmd /\ at' = at /\ out' = out /\ call'.req = call.req /\ call'.items = call.items
        /\ Paging' = Paging /\ Answered' = Answered /\ ~Listed' /\ history'.counted = history.counted
    BY OtherCallLeaves
  <1>3. /\ history'.added = {} => history.added = {}
        /\ history'.removed = {} => history.removed = {}
    BY <1>1
  <1>4. Reached' = Reached /\ Sorted(history.counted)' = Sorted(history.counted)
        /\ Page(history.counted, at, call.req.count)' = Page(history.counted, at, call.req.count)
    BY <1>2 DEF Reached, AtMost, Sorted, Rank, Page
  <1> QED
    BY <1>2, <1>3, <1>4 DEF ExactInv

LEMMA ExactInv_Next ==
    ASSUME CInv, CInv', LInv, ExactInv, [Next]_vars
    PROVE  ExactInv'
  <1>1. CASE user # "cli" /\ user' = user
    <2>1. call' = NoCall /\ exit' = "none"
      BY <1>1 DEF CInv, CallInv
    <2>2. ~Paging' /\ ~Listed'
      BY <2>1, NoCallIs DEF Paging, Listed
    <2> QED
      BY <2>2, ExactInv_Nothing
  <1>2. CASE UNCHANGED vars
    <2>1. cmd' = cmd /\ at' = at /\ out' = out /\ call' = call /\ history' = history
          /\ Paging' = Paging /\ Answered' = Answered /\ Listed' = Listed
      BY <1>2, NothingMoves
    <2>2. Reached' = Reached /\ Sorted(history.counted)' = Sorted(history.counted)
          /\ Page(history.counted, at, call.req.count)' = Page(history.counted, at, call.req.count)
      BY <2>1 DEF Reached, AtMost, Sorted, Rank, Page
    <2> QED
      BY <2>1, <2>2 DEF ExactInv
  <1> QED
    BY <1>1, <1>2, StepKinds, ExactInv_Preparing, ExactInv_ReceiveCount, ExactInv_ReceivePage,
       ExactInv_Serve, ExactInv_OtherCall

-----------------------------------------------------------------------------
(* What has been done.                                                     *)

LEMMA SameEffect ==
    ASSUME UNCHANGED registryVars, cmd' = cmd
    PROVE  TookEffect' = TookEffect
  <1>1. Work' = Work /\ registered' = registered /\ existing' = existing /\ members' = members /\ pairs' = pairs
    BY SameCommand DEF registryVars
  <1>2. \A r : Collection(r)' = Collection(r)
    BY <1>1 DEF Collection
  <1> QED
    BY <1>1, <1>2 DEF TookEffect, Request

LEMMA ListingsDoNothing ==
    ASSUME IsListing
    PROVE  TookEffect
  <1>1. Work \in Listings
    BY BeforeListing
  <1> QED
    BY <1>1 DEF TookEffect, Listings

(* The effect of a call is there when it has ended.                        *)
LEMMA EffectTaken ==
    ASSUME CInv, CInv', cmd' = cmd, Effect(call.req), call.pc # "none", call.req.method = Work,
           TwoStatements(call.req) \/ Status(call.req) = "OK"
    PROVE  TookEffect'
  <1>1. call.req.client = Client /\ call.req.target = Target /\ call.req.topic = Topic
    BY RequestOf
  <1>2. Work' = Work
    BY SameCommand
  <1> DEFINE r == call.req
  <1>3. Topic \in Topics
    BY ValuesAssumption
  <1>4. registered \subseteq Names /\ registered' \subseteq Names
    BY DEF CInv, TypeOK, R!TypeOK
  <1>5. CASE Work = "NewClient"
    <2>1. Client \in registered'
      <3>1. CASE Client \notin registered
        <4>1. R!Register(Client)
          BY <1>1, <1>5, <3>1 DEF Effect
        <4> QED
          BY <4>1 DEF R!Register
      <3>2. CASE Client \in registered
        <4>1. UNCHANGED registryVars
          BY <1>1, <1>5, <3>2 DEF Effect
        <4> QED
          BY <3>2, <4>1 DEF registryVars
      <3> QED
        BY <3>1, <3>2
    <2> QED
      BY <1>2, <1>5, <2>1 DEF TookEffect
  <1>6. CASE Work = "RemoveClient"
    <2>1. R!Unregister(Client)
      BY <1>1, <1>6 DEF Effect
    <2>2. /\ Client \notin registered'
          /\ members' = {m \in members : m[1] # Client} /\ pairs' = {p \in pairs : p[1] # Client /\ p[2] # Client}
      BY <2>1 DEF R!Unregister
    <2>3. Client \notin {m[1] : m \in members'}
      BY <2>2
    <2>4. Client \notin UNION {{p[1], p[2]} : p \in pairs'}
      BY <2>2
    <2>5. Client \notin registered' \cup {m[1] : m \in members'} \cup UNION {{p[1], p[2]} : p \in pairs'}
      BY <2>2, <2>3, <2>4
    <2> QED
      BY <1>2, <1>6, <2>5 DEF TookEffect
  <1>7. CASE Work = "NewTopic"
    <2>1. Topic \in existing'
      <3>1. CASE Topic \notin existing
        <4>1. R!Create(Topic)
          BY <1>1, <1>7, <3>1 DEF Effect
        <4> QED
          BY <4>1 DEF R!Create
      <3>2. CASE Topic \in existing
        <4>1. UNCHANGED registryVars
          BY <1>1, <1>7, <3>2 DEF Effect
        <4> QED
          BY <3>2, <4>1 DEF registryVars
      <3> QED
        BY <3>1, <3>2
    <2> QED
      BY <1>2, <1>7, <2>1 DEF TookEffect
  <1>8. CASE Work = "RemoveTopic"
    <2>1. R!Remove(Topic)
      BY <1>1, <1>8 DEF Effect
    <2>2. Topic \notin existing'
      BY <2>1 DEF R!Remove
    <2> QED
      BY <1>2, <1>8, <2>2 DEF TookEffect
  <1>9. CASE Work = "NewTopicClient"
    <2>1. R!Join(Client, Topic)
      BY <1>1, <1>9 DEF Effect
    <2>2. <<Client, Topic>> \in members'
      BY <2>1 DEF R!Join
    <2>3. Collection(Request("GetTopicsForClient", Client, 0, 0, 0, 0))'
            = {t \in Topics : <<Client, t>> \in members'}
      BY DEF Collection, Request
    <2> QED
      BY <1>2, <1>3, <1>9, <2>2, <2>3 DEF TookEffect
  <1>10. CASE Work = "RemoveTopicClient"
    <2>1. R!Leave(Client, Topic)
      BY <1>1, <1>10 DEF Effect
    <2>2. <<Client, Topic>> \notin members'
      BY <2>1 DEF R!Leave
    <2>3. Collection(Request("GetClientsForTopic", 0, 0, Topic, 0, 0))'
            = {c \in Names : <<c, Topic>> \in members'}
      BY DEF Collection, Request
    <2> QED
      BY <1>2, <1>10, <2>2, <2>3 DEF TookEffect
  <1>11. CASE Work = "LinkClient"
    <2>1. R!Pair(Target, Client)
      BY <1>1, <1>11 DEF Effect
    <2>2. <<Target, Client>> \in pairs' /\ Client \in Names
      BY <1>4, <2>1 DEF R!Pair
    <2>3. Collection(Request("GetLinkedClients", Target, 0, 0, 0, 0))'
            = {c \in Names : <<Target, c>> \in pairs'}
      BY DEF Collection, Request
    <2> QED
      BY <1>2, <1>11, <2>2, <2>3 DEF TookEffect
  <1>12. CASE Work = "UnlinkClient"
    <2>1. R!Unpair(Target, Client)
      BY <1>1, <1>12 DEF Effect
    <2>2. <<Target, Client>> \notin pairs'
      BY <2>1 DEF R!Unpair
    <2>3. Collection(Request("GetLinkedClients", Target, 0, 0, 0, 0))'
            = {c \in Names : <<Target, c>> \in pairs'}
      BY DEF Collection, Request
    <2> QED
      BY <1>2, <1>12, <2>2, <2>3 DEF TookEffect
  <1>13. CASE Work \notin {"NewClient", "RemoveClient", "NewTopic", "RemoveTopic", "NewTopicClient",
                           "RemoveTopicClient", "LinkClient", "UnlinkClient"}
    BY <1>2, <1>13 DEF TookEffect
  <1> QED
    BY <1>5, <1>6, <1>7, <1>8, <1>9, <1>10, <1>11, <1>12, <1>13

LEMMA EffectInv_Next ==
    ASSUME CInv, CInv', EffectInv, [Next]_vars
    PROVE  EffectInv'
  <1>1. CASE user # "cli" /\ user' = user
    <2>1. call' = NoCall /\ exit' = "none"
      BY <1>1 DEF CInv, CallInv
    <2> QED
      BY <2>1, NoCallIs DEF EffectInv, Answered
  <1>2. CASE UNCHANGED vars
    <2>1. TookEffect' = TookEffect
      BY <1>2, NothingMoves, SameEffect
    <2> QED
      BY <1>2, <2>1, NothingMoves DEF EffectInv
  <1>3. CASE Preparing
    <2>1. TookEffect' = TookEffect
      BY <1>3, SameEffect DEF Preparing
    <2> QED
      BY <1>3, <2>1 DEF EffectInv, Preparing
  <1>4. CASE user = "cli" /\ (ReceiveCount \/ ReceivePage)
    <2>1. IsListing' /\ ~Answered'
      BY <1>4, Advances
    <2>2. TookEffect'
      <3>1. IsListing => TookEffect
        BY ListingsDoNothing
      <3>2. TookEffect' = TookEffect /\ IsListing
        BY <1>4, Advances, CountReceived, PageReceived, SameEffect
      <3> QED
        BY <3>1, <3>2
    <2> QED
      BY <2>1, <2>2 DEF EffectInv
  <1>5. CASE user = "cli" /\ Serve
    <2>1. call.pc = "serve" /\ cmd' = cmd /\ exit' = exit /\ call'.req = call.req
      BY <1>5, ServeType
    <2>2. exit' # "ok"
      BY <2>1, RequestOf
    <2>3. Work' = Work
      BY <2>1, SameCommand
    <2>4. ASSUME Answered', call'.req.method = Work'
          PROVE  TookEffect'
      <3>1. Effect(call.req) /\ (TwoStatements(call.req) \/ Status(call.req) = "OK")
        BY <1>5, <2>4, ServeType DEF Answered
      <3> QED
        BY <2>1, <2>3, <2>4, <3>1, EffectTaken
    <2> QED
      BY <2>2, <2>4 DEF EffectInv
  <1>6. CASE user = "cli" /\ OtherCall
    BY <1>6, OtherCallIs DEF EffectInv
  <1> QED
    BY <1>1, <1>2, <1>3, <1>4, <1>5, <1>6, StepKinds

LEMMA EffectInv_Init ==
    ASSUME Init
    PROVE  EffectInv
  <1>1. call = NoCall /\ exit = "none"
    BY DEF Init, CommandInit
  <1> QED
    BY <1>1, NoCallIs DEF EffectInv, Answered

-----------------------------------------------------------------------------
(* The theorems.                                                           *)

(* The inductive invariant of a listing.                                   *)
ListingInv == LInv /\ TInv /\ MissedInv /\ ExactInv

LEMMA ListingInv_Always ==
    Spec => []ListingInv
  <1>1. Init => ListingInv
    BY LInv_Init, TInv_Init, MissedInv_Init, ExactInv_Init DEF ListingInv
  <1>2. CInv /\ CInv' /\ ListingInv /\ [Next]_vars => ListingInv'
    BY LInv_Next, TInv_Next, MissedInv_Next, ExactInv_Next DEF ListingInv, LInv
  <1> QED
    BY <1>1, <1>2, CInv_Always, PTL DEF Spec

(* Where a listing ends.                                                   *)
LEMMA ListedIs ==
    ASSUME CInv, LInv, Listed
    PROVE  /\ at = cmd.offset + Total /\ at \in Nat /\ cmd.offset \in Nat /\ cmd.max \in Nat /\ Total \in Nat
  <1>1. left = 0 /\ at + left = cmd.offset + Total
    BY DEF LInv, TotalInv
  <1>2. at \in Nat /\ cmd.offset \in Nat /\ cmd.max \in Nat /\ Total \in Nat
    BY ShownType, CountedType
  <1> QED
    BY <1>1, <1>2

(* A listing prints a part of the counted items, in order and without a    *)
(* gap, from the offset given, as many as were asked for: when nobody      *)
(* changes what is listed while its pages are read.  When the count has    *)
(* failed, which nobody is told, it prints nothing and ends well.          *)
THEOREM ListingIsExact ==
    Spec => []UndisturbedListingIsExact
  <1>1. ASSUME CInv, ListingInv
        PROVE  UndisturbedListingIsExact
    <2>1. SUFFICES ASSUME Listed, history.added = {}, history.removed = {}
                   PROVE  LET all == Sorted(history.counted)
                              wanted == IF cmd.max > 0 THEN cmd.max ELSE Len(all)
                          IN  out = IF history.uncounted THEN <<>>
                                    ELSE SubSeq(all, cmd.offset + 1, AtMost(cmd.offset + wanted, Len(all)))
      BY DEF UndisturbedListingIsExact
    <2> DEFINE all == Sorted(history.counted)
               n == Cardinality(history.counted)
               wanted == IF cmd.max > 0 THEN cmd.max ELSE Len(all)
               o == cmd.offset
               q == AtMost(o + wanted, n)
    <2>2. /\ n \in Nat /\ all \in [1..n -> history.counted] /\ history.counted \in SUBSET Items
          /\ o \in Nat /\ at \in Nat /\ Reached = (IF at < n THEN at ELSE n)
      BY <1>1, CountedSorted, ShownType
    <2>3. all \in Seq(Items) /\ Len(all) = n
      BY <2>2
    <2>4. /\ Len(out) = IF Reached > o THEN Reached - o ELSE 0
          /\ \A i \in 1..Len(out) : out[i] = all[o + i]
      BY <1>1, <2>1 DEF ListingInv, ExactInv
    <2>5. at = o + Total /\ cmd.max \in Nat /\ Total \in Nat
      BY <1>1, <2>1, ListedIs DEF ListingInv
    <2>6. Total = (IF cmd.max > 0 THEN AtMost(Reported, cmd.max) ELSE Reported)
          /\ (~history.uncounted => Reported = n)
      BY <1>1, CountedType
    <2>7. out \in Seq(Items)
      BY <1>1, ShownType
    <2>12. CASE history.uncounted
      <3>1. Total = 0
        BY <2>5, <2>6, <2>12 DEF Reported, AtMost
      <3>2. at = o
        BY <2>2, <2>5, <3>1
      <3>3. Len(out) = 0
        BY <2>2, <2>4, <3>2
      <3>4. out = <<>>
        BY <2>7, <3>3, EmptySeq
      <3> QED
        BY <2>12, <3>4
    <2> SUFFICES ASSUME ~history.uncounted
                 PROVE  out = SubSeq(all, o + 1, AtMost(o + wanted, Len(all)))
      BY <2>12
    <2> HIDE DEF all, n, o
    <2>8. Reached = q /\ q \in Nat /\ q <= n
      <3>1. Total = IF cmd.max > 0 THEN AtMost(n, cmd.max) ELSE n
        BY <2>6
      <3> QED
        BY <2>2, <2>3, <2>5, <3>1 DEF AtMost
    <2> HIDE DEF q
    <2>9. Len(out) = IF q > o THEN q - o ELSE 0
      BY <2>4, <2>8
    <2>10. SubSeq(all, o + 1, q) \in Seq(Items) /\ Len(SubSeq(all, o + 1, q)) = Len(out)
           /\ \A i \in 1..Len(out) : SubSeq(all, o + 1, q)[i] = all[o + i]
      <3>1. \A i \in (o + 1)..q : all[i] \in Items
        <4>1. \A i \in (o + 1)..q : i \in 1..n
          BY <2>2, <2>8
        <4> QED
          BY <2>2, <4>1
      <3>2. o + 1 \in Int /\ q \in Int
        BY <2>2, <2>8
      <3>3. /\ SubSeq(all, o + 1, q) \in Seq(Items)
            /\ Len(SubSeq(all, o + 1, q)) = IF o + 1 <= q THEN q - (o + 1) + 1 ELSE 0
            /\ \A i \in 1..(q - (o + 1) + 1) : SubSeq(all, o + 1, q)[i] = all[o + 1 + i - 1]
        BY ONLY <3>1, <3>2, SubSeqProperties
      <3>4. Len(out) = IF o + 1 <= q THEN q - (o + 1) + 1 ELSE 0
        BY <2>2, <2>8, <2>9
      <3>5. ASSUME NEW i \in 1..Len(out)
            PROVE  i \in 1..(q - (o + 1) + 1) /\ o + 1 + i - 1 = o + i
        BY <2>2, <2>8, <3>4
      <3>6. ASSUME NEW i \in 1..Len(out)
            PROVE  SubSeq(all, o + 1, q)[i] = all[o + i]
        <4>1. SubSeq(all, o + 1, q)[i] = all[o + 1 + i - 1] /\ o + 1 + i - 1 = o + i
          BY ONLY <3>3, <3>5
        <4> QED
          BY ONLY <4>1
      <3> QED
        BY <3>3, <3>4, <3>6
    <2>11. out = SubSeq(all, o + 1, q)
      <3> DEFINE s == SubSeq(all, o + 1, q)
      <3>1. s \in Seq(Items) /\ Len(s) = Len(out) /\ \A i \in 1..Len(out) : s[i] = out[i]
        BY <2>4, <2>10
      <3> HIDE DEF s
      <3>2. s = out
        BY <2>7, <3>1, SeqEqual
      <3> QED
        BY <3>2 DEF s
    <2> QED
      BY <2>3, <2>11 DEF all, o, q, n
  <1> QED
    BY <1>1, CInv_Always, ListingInv_Always, PTL

(* A listing repeats an item only when another user has added one before   *)
(* it in the order while the pages were read: a removal makes it skip,     *)
(* never repeat.                                                           *)
THEOREM NothingElseIsPrintedTwice ==
    Spec => []TwiceOnlyBehindAnAddition
  <1>1. ListingInv => TwiceOnlyBehindAnAddition
    BY DEF ListingInv, TInv
  <1> QED
    BY <1>1, ListingInv_Always, PTL

(* A listing of everything misses an item that was there from the count to *)
(* the end only when one before it in the order has come or gone, or when  *)
(* an error of the count was dropped.                                      *)
THEOREM NothingElseIsMissed ==
    Spec => []MissedOnlyBehindAChange
  <1>1. ASSUME CInv, ListingInv
        PROVE  MissedOnlyBehindAChange
    <2>1. SUFFICES ASSUME Listed, ~history.uncounted, cmd.offset = 0, cmd.max = 0,
                          NEW x \in history.counted \ history.removed
                   PROVE  IsPrinted(x) \/ ChangedBefore(x)
      BY DEF MissedOnlyBehindAChange, IsPrinted, ChangedBefore
    <2>2. \/ ChangedBefore(x) \/ IsPrinted(x)
          \/ Below(history.counted, x) < cmd.offset \/ at <= Below(history.counted, x)
      BY <1>1, <2>1 DEF ListingInv, MissedInv
    <2>3. at = Cardinality(history.counted) /\ at \in Nat
      <3>1. at = cmd.offset + Total /\ at \in Nat /\ Total \in Nat
        BY <1>1, <2>1, ListedIs DEF ListingInv
      <3>2. Total = Cardinality(history.counted)
        BY <1>1, <2>1, CountedType
      <3> QED
        BY <2>1, <3>1, <3>2
    <2>4. history.counted \in SUBSET Nat /\ IsFiniteSet(history.counted) /\ x \in history.counted
      BY <1>1, <2>1, ShownType, FiniteItems
    <2>5. Below(history.counted, x) < Cardinality(history.counted) /\ Below(history.counted, x) \in Nat
      BY <2>4, RankAfter, Below_Finite
    <2> QED
      BY <2>1, <2>2, <2>3, <2>5
  <1> QED
    BY <1>1, CInv_Always, ListingInv_Always, PTL

(* When a command that changes the registry ends without an error, the     *)
(* change is there, until another user changes the registry again.         *)
THEOREM CommandsTakeEffect ==
    Spec => []SuccessTookEffect
  <1>1. EffectInv => SuccessTookEffect
    BY DEF EffectInv, SuccessTookEffect
  <1>2. Init => EffectInv
    BY EffectInv_Init
  <1>3. CInv /\ CInv' /\ EffectInv /\ [Next]_vars => EffectInv'
    BY EffectInv_Next
  <1> QED
    BY <1>1, <1>2, <1>3, CInv_Always, PTL DEF Spec
=============================================================================
