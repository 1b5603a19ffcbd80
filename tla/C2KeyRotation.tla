---------------------------- MODULE C2KeyRotation ----------------------------
(***************************************************************************)
(* The rotation of the server's own key, in public-key mode: NewC2Key of   *)
(* internal/services/e4.go and the transaction of internal/crypto          *)
(* (c2key.go, keys.go) it runs.                                            *)
(*                                                                         *)
(* The server keeps its private key in memory and in a file.  A rotation   *)
(* backs the key up, draws a new one, sends its public part to every       *)
(* client under the old key, then overwrites the file and switches.        *)
(* Nothing keeps two calls of NewC2Key apart.  A client opens a command    *)
(* only if the server key it holds is the one that protected it.           *)
(***************************************************************************)
EXTENDS Naturals, FiniteSets, FiniteSetsExt

CONSTANTS
    Workers,    \* goroutines serving NewC2Key
    NumClients, \* registered clients
    QueryLimit, \* the most rows a query returns (100 in the code)
    BatchSize,  \* NewC2KeyBatchSize (500 in the code)
    MaxCalls,   \* bound: calls of NewC2Key and restarts in a behaviour
    Outcomes,   \* outcomes of a publication: "ok", "fail", "late"
    DBFaults,   \* TRUE: the query of a page may fail
    FileFaults, \* TRUE: an operation on a file may fail
    Restarts    \* TRUE: the server may crash and start again

ASSUME NumClientsAssumption == NumClients \in Nat
ASSUME LimitsAssumption     == QueryLimit \in Nat \ {0} /\ BatchSize \in Nat \ {0}
ASSUME MaxCallsAssumption   == MaxCalls \in Nat
ASSUME OutcomesAssumption   == Outcomes \subseteq {"ok", "fail", "late"}
ASSUME FlagsAssumption      == {DBFaults, FileFaults, Restarts} \subseteq BOOLEAN

(* Clients are numbered by their order in ORDER BY name.                   *)
Clients == 1..NumClients

(* Keys are numbers, drawn in order; 0 is a file that holds no key.        *)
NoKey == 0
FirstKey == 1

VARIABLES
    key,      \* e4Key.c2PrivKey: the key the running server uses
    file,     \* the key in the key file
    backups,  \* backup files: [path, key]; a path names the second it was made in
    second,   \* the clock
    rot,      \* rot[w]: the rotation worker w runs
    dev,      \* dev[c]: the server key that client c holds
    inflight, \* messages whose publication timed out and that may still arrive
    up,       \* the server runs
    flagged,  \* clients of a failure that was logged or reported
    calls

vars == <<key, file, backups, second, rot, dev, inflight, up, flagged, calls>>

Idle == [pc |-> "idle", new |-> NoKey, path |-> 0, offset |-> 0, todo |-> {}, last |-> FALSE]
AllIdle == \A w \in Workers : rot[w] = Idle

Goto(w, pc) == rot' = [rot EXCEPT ![w].pc = pc]

(* The call returns an error.                                              *)
Fail_Midway(w) == Goto(w, "idle") /\ flagged' = flagged \cup Clients
Fail(w) == rot' = [rot EXCEPT ![w] = Idle] /\ flagged' = flagged \cup Clients

-----------------------------------------------------------------------------
(* NewC2KeyRotationTx: one backup a second at most, of the key in memory.  *)

FirstStep_Commit == "open"
FirstStep == "page"

Begin(w) ==
    /\ up /\ calls < MaxCalls
    /\ rot[w] = Idle
    /\ calls' = calls + 1
    /\ \E now \in {second, second + 1} :
         LET taken == \E b \in backups : b.path = now
         IN  /\ second' = now
             /\ \/ /\ ~taken
                   /\ backups' = backups \cup {[path |-> now, key |-> key]}
                   /\ \E pc \in {FirstStep} \cup (IF FileFaults THEN {"rollback"} ELSE {}) :
                        rot' = [rot EXCEPT ![w] = [Idle EXCEPT !.pc = pc, !.path = now,
                                                               !.new = FirstKey + calls + 1]]
                \/ /\ taken \/ FileFaults
                   /\ UNCHANGED rot
                   /\ backups' \in {backups} \cup
                        (IF taken THEN {} ELSE {backups \cup {[path |-> now, key |-> k]} : k \in {NoKey, key}})
    /\ UNCHANGED <<key, file, dev, inflight, up, flagged>>

-----------------------------------------------------------------------------
(* Sending the new key, a page of clients after another.                   *)

Page(offset) == {c \in Clients : offset < c /\ c <= offset + Min({BatchSize, QueryLimit})}

(* A page shorter than what was asked for is the last.                     *)
LastPage(page) == Cardinality(page) < BatchSize

NextOffset_Same(offset) == offset
NextOffset(offset) == offset + BatchSize

(* GetClientsRange; an error is logged and the same page asked for again.  *)
ReadPage(w) ==
    /\ rot[w].pc = "page"
    /\ \/ LET page == Page(rot[w].offset)
          IN  rot' = [rot EXCEPT ![w].pc = "send", ![w].todo = page, ![w].last = LastPage(page)]
       \/ DBFaults /\ Goto(w, "retry")
    /\ UNCHANGED <<key, file, backups, second, dev, inflight, up, flagged, calls>>

Retry(w) ==
    /\ rot[w].pc = "retry"
    /\ Goto(w, "page")
    /\ UNCHANGED <<key, file, backups, second, dev, inflight, up, flagged, calls>>

(* sendCommandToClient protects the command with the key in use.           *)
Message(w, c) == [to |-> c, under |-> key, new |-> rot[w].new]
Received(m) == IF dev[m.to] = m.under THEN [dev EXCEPT ![m.to] = m.new] ELSE dev

SendToNext(w) ==
    LET c == Min(rot[w].todo) IN
    /\ rot[w].pc = "send"
    /\ rot[w].todo # {}
    /\ \E outcome \in Outcomes :
         /\ dev' = IF outcome = "ok" THEN Received(Message(w, c)) ELSE dev
         /\ inflight' = IF outcome = "late" THEN inflight \cup {Message(w, c)} ELSE inflight
         /\ flagged' = IF outcome = "ok" THEN flagged ELSE flagged \cup {c}
    /\ rot' = [rot EXCEPT ![w].todo = @ \ {c}]
    /\ UNCHANGED <<key, file, backups, second, up, calls>>

EndOfPage(w) ==
    /\ rot[w].pc = "send"
    /\ rot[w].todo = {}
    /\ rot' = IF rot[w].last THEN [rot EXCEPT ![w].pc = "open"]
              ELSE [rot EXCEPT ![w].pc = "page", ![w].offset = NextOffset(@)]
    /\ UNCHANGED <<key, file, backups, second, dev, inflight, up, flagged, calls>>

-----------------------------------------------------------------------------
(* Commit and Rollback.                                                    *)

(* Opening the key file to overwrite it truncates it.                      *)
Open(w, from, to, onError) ==
    /\ rot[w].pc = from
    /\ \/ file' = NoKey /\ Goto(w, to) /\ UNCHANGED flagged
       \/ FileFaults /\ UNCHANGED file /\ onError
    /\ UNCHANGED <<key, backups, second, dev, inflight, up, calls>>

Write(w, from, k, to, onError) ==
    /\ rot[w].pc = from
    /\ \/ file' = k /\ Goto(w, to) /\ UNCHANGED flagged
       \/ FileFaults /\ UNCHANGED file /\ onError
    /\ UNCHANGED <<key, backups, second, dev, inflight, up, calls>>

RollBackInstead(w) == Goto(w, "rollback") /\ UNCHANGED flagged

CommitOpen(w)  == Open(w, "open", "write", RollBackInstead(w))
CommitWrite(w) == Write(w, "write", rot[w].new, "switch", RollBackInstead(w))

Switch_PublicOnly(w) ==
    /\ rot[w].pc = "switch"
    /\ rot' = [rot EXCEPT ![w] = Idle]
    /\ UNCHANGED <<key, file, backups, second, dev, inflight, up, flagged, calls>>
Switch(w) ==
    /\ rot[w].pc = "switch"
    /\ key' = rot[w].new
    /\ rot' = [rot EXCEPT ![w] = Idle]
    /\ UNCHANGED <<file, backups, second, dev, inflight, up, flagged, calls>>

(* Rollback puts the key in memory back into the file, then removes the    *)
(* backup; an error leaves the rest undone.                                *)
RollbackOpen_RemoveFirst(w) ==
    /\ rot[w].pc = "rollback"
    /\ backups' = {b \in backups : b.path # rot[w].path}
    /\ file' = NoKey
    /\ Goto(w, "restore")
    /\ UNCHANGED <<key, second, dev, inflight, up, flagged, calls>>
RollbackOpen(w)  == Open(w, "rollback", "restore", Fail(w))
RollbackWrite(w) == Write(w, "restore", key, "remove", Fail(w))

RemoveBackup(w) ==
    /\ rot[w].pc = "remove"
    /\ \/ backups' = {b \in backups : b.path # rot[w].path}
       \/ FileFaults /\ UNCHANGED backups
    /\ Fail(w)
    /\ UNCHANGED <<key, file, second, dev, inflight, up, calls>>

-----------------------------------------------------------------------------
(* The environment.                                                        *)

(* A late message arrives, or never will.                                  *)
Arrive == \E m \in inflight :
    /\ dev' \in {Received(m), dev}
    /\ inflight' = inflight \ {m}
    /\ UNCHANGED <<key, file, backups, second, rot, up, flagged, calls>>

(* The server dies.  It starts again with the key of the file, or not at   *)
(* all when the file holds none (NewE4PubKey).                             *)
Restart ==
    /\ Restarts /\ up /\ calls < MaxCalls
    /\ calls' = calls + 1
    /\ up' = (file # NoKey)
    /\ key' = IF file # NoKey THEN file ELSE key
    /\ rot' = [w \in Workers |-> Idle]
    /\ flagged' = flagged \cup (IF AllIdle THEN {} ELSE Clients)
    /\ UNCHANGED <<file, backups, second, dev, inflight>>

(* The instance has made its calls and they have returned.                 *)
Finished == (calls = MaxCalls \/ ~up) /\ AllIdle /\ inflight = {} /\ UNCHANGED vars

Rotate(w) ==
    \/ ReadPage(w) \/ Retry(w) \/ SendToNext(w) \/ EndOfPage(w)
    \/ CommitOpen(w) \/ CommitWrite(w) \/ Switch(w)
    \/ RollbackOpen(w) \/ RollbackWrite(w) \/ RemoveBackup(w)

Init ==
    /\ key = FirstKey /\ file = FirstKey
    /\ backups = {} /\ second = 0
    /\ rot = [w \in Workers |-> Idle]
    /\ dev = [c \in Clients |-> FirstKey]
    /\ inflight = {} /\ up = TRUE /\ flagged = {} /\ calls = 0

Next == (\E w \in Workers : Begin(w) \/ Rotate(w)) \/ Arrive \/ Restart \/ Finished

Spec == Init /\ [][Next]_vars

(* A call that can proceed does.                                           *)
FairSpec == Spec /\ \A w \in Workers : WF_vars(Rotate(w))

-----------------------------------------------------------------------------
(* Properties.                                                             *)

Messages == [to : Clients, under : Nat, new : Nat \ {NoKey}]
Rotations == [pc : {"page", "retry", "send", "open", "write", "switch", "rollback", "restore", "remove"},
              new : Nat \ {NoKey}, path : Nat, offset : Nat, todo : SUBSET Clients, last : BOOLEAN]

(* Type invariant.                                                         *)
TypeOK ==
    /\ key \in Nat \ {NoKey} /\ file \in Nat
    /\ backups \subseteq [path : Nat, key : Nat]
    /\ second \in Nat
    /\ rot \in [Workers -> {Idle} \cup Rotations]
    /\ dev \in [Clients -> Nat \ {NoKey}]
    /\ inflight \subseteq Messages
    /\ up \in BOOLEAN
    /\ flagged \subseteq Clients
    /\ calls \in Nat

(* When rotations do not overlap: the key the server uses, or last used    *)
(* before it failed to start, is on disk, in the key file or in a backup,  *)
(* at every point of a rotation, of its rollback and of a crash.           *)
KeyIsNeverLost == file = key \/ \E b \in backups : b.key = key

(* When rotations do not overlap: the server comes to use a key, be it by  *)
(* a crash half-way through Commit, only once every client holds that key  *)
(* or a failure to give it to the client has been logged or reported.      *)
KeyIsOfferedBeforeUse ==
    [][key' # key => \A c \in Clients : dev'[c] = key' \/ c \in flagged']_vars

(* When rotations do not overlap: once the call has returned, a client     *)
(* holds the key the server uses, unless a failure has been logged or      *)
(* reported: no client is cut off silently.                                *)
NoSilentC2KeyDivergence == AllIdle /\ up => \A c \in Clients \ flagged : dev[c] = key

(* A rotation returns, or meets a query that fails, whatever files and     *)
(* publications do: only the database can keep it.                         *)
NewC2KeyReturnsOrRetries == \A w \in Workers : rot[w] # Idle ~> rot[w] = Idle \/ rot[w].pc = "retry"

(* What the E4 interface says of NewC2Key: the public key is sent to all   *)
(* clients.  With no failure anywhere, once the call has returned, every   *)
(* client holds the key in use.                                            *)
NewC2KeyReachesAllClients == AllIdle => \A c \in Clients : dev[c] = key

=============================================================================
