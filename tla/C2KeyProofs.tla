----------------------------- MODULE C2KeyProofs -----------------------------
(***************************************************************************)
(* Theorems about C2KeyRotation: the state keeps its shape; and when       *)
(* rotations do not overlap, which is to say with one worker, the key in   *)
(* use is always on disk, is used only once it has been offered to every   *)
(* client, and no client is cut off silently, for any number of clients,   *)
(* rotations, failures and crashes.                                        *)
(***************************************************************************)
EXTENDS C2KeyRotation, FiniteSetTheorems, WellFoundedInduction, TLAPS

-----------------------------------------------------------------------------
(* A set of clients has a least one.                                       *)
LEMMA FirstIsMember ==
    ASSUME NEW S \in SUBSET Clients, S # {}
    PROVE  Min(S) \in S
  <1>1. S \subseteq Nat
    BY DEF Clients
  <1>2. PICK m \in S : \A n \in S : <<n, m>> \notin OpToRel(<, Nat)
    BY <1>1, WFMin, NatLessThanWellFounded, Zenon
  <1>3. ASSUME NEW n \in S PROVE m <= n
    <2>1. n < m => <<n, m>> \in OpToRel(<, Nat)
      BY <1>1, Zenon DEF OpToRel
    <2>2. ~(n < m) /\ m \in Nat /\ n \in Nat
      BY <1>1, <1>2, <2>1
    <2> QED
      BY <2>2
  <1> QED
    BY <1>3 DEF Min

-----------------------------------------------------------------------------
(* Types, with any number of workers.                                      *)

(* The record of a rotation keeps its shape when it moves.                 *)
LEMMA RotationFields ==
    ASSUME NEW r \in Rotations
    PROVE  /\ \A pc \in {"page", "retry", "send", "open", "write", "switch", "rollback", "restore", "remove"} :
                [r EXCEPT !.pc = pc] \in Rotations
           /\ \A todo \in SUBSET Clients, last \in BOOLEAN :
                [r EXCEPT !.pc = "send", !.todo = todo, !.last = last] \in Rotations
           /\ \A todo \in SUBSET Clients : [r EXCEPT !.todo = todo] \in Rotations
           /\ \A offset \in Nat : [r EXCEPT !.pc = "page", !.offset = offset] \in Rotations
  BY DEF Rotations

(* A worker that is not idle runs a rotation.                              *)
LEMMA Rotating ==
    ASSUME TypeOK, NEW w \in Workers, rot[w].pc # "idle"
    PROVE  rot[w] \in Rotations
  BY DEF TypeOK, Idle

Pcs == {"page", "retry", "send", "open", "write", "switch", "rollback", "restore", "remove"}

LEMMA GotoType ==
    ASSUME TypeOK, NEW w \in Workers, rot[w].pc # "idle", NEW pc \in Pcs, Goto(w, pc)
    PROVE  rot' \in [Workers -> {Idle} \cup Rotations]
  <1> DEFINE r == [rot[w] EXCEPT !.pc = pc]
  <1>1. rot[w] \in Rotations /\ rot \in [Workers -> {Idle} \cup Rotations]
    BY Rotating DEF TypeOK
  <1>2. r \in Rotations
    BY <1>1, RotationFields DEF Pcs
  <1>3. rot' = [rot EXCEPT ![w] = r]
    BY <1>1 DEF Goto
  <1> HIDE DEF r
  <1> QED
    BY <1>1, <1>2, <1>3

LEMMA FailType ==
    ASSUME TypeOK, NEW w \in Workers, Fail(w)
    PROVE  rot' \in [Workers -> {Idle} \cup Rotations] /\ flagged' \subseteq Clients
  BY DEF TypeOK, Fail

LEMMA NewRotation ==
    ASSUME NEW pc \in {"page", "rollback"}, NEW now \in Nat, NEW new \in Nat \ {NoKey}
    PROVE  [Idle EXCEPT !.pc = pc, !.path = now, !.new = new] \in Rotations
  <1>1. 0 \in Nat /\ {} \in SUBSET Clients /\ FALSE \in BOOLEAN
    OBVIOUS
  <1> QED
    BY <1>1 DEF Idle, Rotations, NoKey

LEMMA BeginType ==
    ASSUME TypeOK, NEW w \in Workers, Begin(w)
    PROVE  TypeOK'
  <1>1. PICK now \in {second, second + 1} :
          /\ second' = now
          /\ \/ \E pc \in {"page", "rollback"} :
                  rot' = [rot EXCEPT ![w] = [Idle EXCEPT !.pc = pc, !.path = now, !.new = FirstKey + calls + 1]]
             \/ UNCHANGED rot
          /\ backups' \subseteq backups \cup {[path |-> now, key |-> k] : k \in {NoKey, key}}
    BY DEF Begin, FirstStep
  <1>2. second' \in Nat /\ now \in Nat /\ calls' \in Nat /\ FirstKey + calls + 1 \in Nat \ {NoKey}
    <2>1. second \in Nat /\ calls \in Nat /\ calls' = calls + 1 /\ second' = now
      BY <1>1 DEF TypeOK, Begin
    <2>2. now \in Nat
      BY <2>1
    <2>3. FirstKey + calls + 1 \in Nat \ {NoKey}
      BY <2>1 DEF FirstKey, NoKey
    <2> QED
      BY <2>1, <2>2, <2>3
  <1>3. rot' \in [Workers -> {Idle} \cup Rotations]
    <2>1. ASSUME NEW pc \in {"page", "rollback"}
          PROVE  [Idle EXCEPT !.pc = pc, !.path = now, !.new = FirstKey + calls + 1] \in Rotations
      BY <1>2, NewRotation
    <2> QED
      BY <1>1, <2>1 DEF TypeOK
  <1>4. backups' \subseteq [path : Nat, key : Nat]
    BY <1>1, <1>2 DEF TypeOK, NoKey
  <1> QED
    BY <1>2, <1>3, <1>4 DEF TypeOK, Begin

LEMMA PageType ==
    ASSUME TypeOK, NEW w \in Workers, ReadPage(w) \/ EndOfPage(w) \/ SendToNext(w)
    PROVE  rot' \in [Workers -> {Idle} \cup Rotations]
  <1>1. rot[w].pc # "idle" /\ rot \in [Workers -> {Idle} \cup Rotations]
    BY DEF ReadPage, EndOfPage, SendToNext, TypeOK
  <1>2. rot[w] \in Rotations
    BY <1>1, Rotating
  <1>3. CASE Goto(w, "retry") \/ Goto(w, "open")
    BY <1>1, <1>3, GotoType DEF Pcs
  <1>4. ASSUME NEW r \in Rotations, rot' = [rot EXCEPT ![w] = r]
        PROVE  rot' \in [Workers -> {Idle} \cup Rotations]
    BY <1>1, <1>4
  <1>5. CASE ReadPage(w)
    <2> DEFINE page == Page(rot[w].offset)
               r == [rot[w] EXCEPT !.pc = "send", !.todo = page, !.last = LastPage(page)]
    <2>1. page \in SUBSET Clients /\ LastPage(page) \in BOOLEAN
      BY DEF Page, LastPage
    <2> HIDE DEF page
    <2>2. r \in Rotations
      BY <1>2, <2>1, RotationFields
    <2>3. rot' = [rot EXCEPT ![w] = r] \/ Goto(w, "retry")
      BY <1>1, <1>5 DEF ReadPage, page
    <2> HIDE DEF r
    <2> QED
      BY <1>3, <1>4, <2>2, <2>3
  <1>6. CASE EndOfPage(w)
    <2> DEFINE r == [rot[w] EXCEPT !.pc = "page", !.offset = NextOffset(rot[w].offset)]
    <2>1. NextOffset(rot[w].offset) \in Nat
      BY <1>2, LimitsAssumption DEF NextOffset, Rotations
    <2>2. r \in Rotations
      BY <1>2, <2>1, RotationFields
    <2>3. rot' = [rot EXCEPT ![w] = r] \/ Goto(w, "open")
      BY <1>1, <1>6 DEF EndOfPage, Goto
    <2> HIDE DEF r
    <2> QED
      BY <1>3, <1>4, <2>2, <2>3
  <1>7. CASE SendToNext(w)
    <2> DEFINE todo == rot[w].todo \ {Min(rot[w].todo)}
               r == [rot[w] EXCEPT !.todo = todo]
    <2>1. todo \in SUBSET Clients
      BY <1>2 DEF Rotations
    <2> HIDE DEF todo
    <2>2. r \in Rotations
      BY <1>2, <2>1, RotationFields
    <2>3. rot' = [rot EXCEPT ![w] = r]
      BY <1>1, <1>7 DEF SendToNext, todo
    <2> HIDE DEF r
    <2> QED
      BY <1>4, <2>2, <2>3
  <1> QED
    BY <1>5, <1>6, <1>7

(* A message is made of the keys in use and in the rotation.               *)
LEMMA SendType ==
    ASSUME TypeOK, NEW w \in Workers, SendToNext(w)
    PROVE  /\ Min(rot[w].todo) \in Clients
           /\ dev' \in [Clients -> Nat \ {NoKey}] /\ inflight' \subseteq Messages /\ flagged' \subseteq Clients
  <1> DEFINE c == Min(rot[w].todo)
             m == Message(w, c)
  <1>1. rot[w] \in Rotations /\ rot[w].todo # {}
    BY Rotating DEF SendToNext
  <1>2. rot[w].todo \in SUBSET Clients /\ rot[w].new \in Nat \ {NoKey}
    BY <1>1 DEF Rotations
  <1>3. c \in Clients
    BY <1>1, <1>2, FirstIsMember
  <1> HIDE DEF c
  <1>4. m \in Messages /\ m.new \in Nat \ {NoKey}
    BY <1>2, <1>3 DEF Message, Messages, TypeOK
  <1> HIDE DEF m
  <1>5. Received(m) \in [Clients -> Nat \ {NoKey}]
    BY <1>4 DEF Received, TypeOK
  <1>6. PICK outcome \in Outcomes :
          /\ dev' = IF outcome = "ok" THEN Received(m) ELSE dev
          /\ inflight' = IF outcome = "late" THEN inflight \cup {m} ELSE inflight
          /\ flagged' = IF outcome = "ok" THEN flagged ELSE flagged \cup {c}
    BY DEF SendToNext, c, m
  <1> QED
    BY <1>3, <1>4, <1>5, <1>6 DEF TypeOK, c

LEMMA FileType ==
    ASSUME TypeOK, NEW w \in Workers,
           \/ CommitOpen(w) \/ CommitWrite(w) \/ Switch(w)
           \/ RollbackOpen(w) \/ RollbackWrite(w) \/ RemoveBackup(w)
    PROVE  TypeOK'
  <1> USE DEF CommitOpen, CommitWrite, Switch, RollbackOpen, RollbackWrite, RemoveBackup, Open, Write,
              RollBackInstead
  <1>1. rot[w].pc # "idle" /\ rot \in [Workers -> {Idle} \cup Rotations]
    BY DEF TypeOK
  <1>2. rot[w] \in Rotations
    BY <1>1, Rotating
  <1>3. rot[w].new \in Nat \ {NoKey}
    BY <1>2 DEF Rotations
  <1>4. rot' \in [Workers -> {Idle} \cup Rotations] /\ flagged' \subseteq Clients
    <2>1. CASE Fail(w)
      BY <2>1, FailType
    <2>2. ASSUME NEW pc \in Pcs, Goto(w, pc), UNCHANGED flagged
          PROVE  rot' \in [Workers -> {Idle} \cup Rotations] /\ flagged' \subseteq Clients
      BY <1>1, <2>2, GotoType DEF TypeOK
    <2>3. CASE rot' = [rot EXCEPT ![w] = Idle] /\ UNCHANGED flagged
      BY <1>1, <2>3 DEF TypeOK
    <2> QED
      BY <2>1, <2>2, <2>3 DEF Pcs
  <1>5. key' \in Nat \ {NoKey} /\ file' \in Nat /\ backups' \subseteq backups
    BY <1>3 DEF TypeOK, NoKey
  <1>6. UNCHANGED <<second, dev, inflight, up, calls>>
    OBVIOUS
  <1> QED
    BY <1>4, <1>5, <1>6 DEF TypeOK

LEMMA TypeStep ==
    ASSUME TypeOK, [Next]_vars
    PROVE  TypeOK'
  <1>1. CASE UNCHANGED vars
    BY <1>1 DEF vars, TypeOK
  <1>2. ASSUME NEW w \in Workers, Begin(w)
        PROVE  TypeOK'
    BY <1>2, BeginType
  <1>3. ASSUME NEW w \in Workers, Rotate(w)
        PROVE  TypeOK'
    <2>1. CASE ReadPage(w) \/ EndOfPage(w)
      BY <2>1, PageType DEF TypeOK, ReadPage, EndOfPage
    <2>2. CASE Retry(w)
      BY <2>2, GotoType DEF TypeOK, Retry, Pcs
    <2>3. CASE SendToNext(w)
      BY <2>3, PageType, SendType DEF TypeOK, SendToNext
    <2> QED
      BY <1>3, <2>1, <2>2, <2>3, FileType DEF Rotate
  <1>4. CASE Arrive
    <2>1. PICK m \in inflight : dev' \in {Received(m), dev} /\ inflight' = inflight \ {m}
      BY <1>4 DEF Arrive
    <2>2. ASSUME NEW n \in inflight PROVE Received(n) \in [Clients -> Nat \ {NoKey}]
      BY <2>2 DEF TypeOK, Messages, Received
    <2> QED
      BY <1>4, <2>1, <2>2 DEF TypeOK, Arrive
  <1>5. CASE Restart
    BY <1>5 DEF TypeOK, Restart
  <1>6. CASE Finished
    BY <1>1, <1>6 DEF Finished
  <1> QED
    BY <1>1, <1>2, <1>3, <1>4, <1>5, <1>6 DEF Next

LEMMA TypeInit == Init => TypeOK
  BY DEF Init, TypeOK, FirstKey, NoKey

(* Keys, files, messages and rotations keep their shape, however many      *)
(* rotations overlap (NewC2Key and the transaction of c2key.go).           *)
THEOREM TypeCorrect == Spec => []TypeOK
  BY TypeInit, TypeStep, PTL DEF Spec

-----------------------------------------------------------------------------
(* Rotations that do not overlap: there is one worker, w.                  *)

(* What the key file holds at each step of a rotation, and that its backup *)
(* is there until it has put the file back.                                *)
DiskInv(w) ==
    /\ rot[w].pc # "switch" => file \in {key, NoKey}
    /\ rot[w].pc = "switch" => file = rot[w].new
    /\ rot[w].pc = "remove" => file = key
    /\ rot[w].pc \notin {"idle", "remove"} => [path |-> rot[w].path, key |-> key] \in backups
    /\ KeyIsNeverLost

(* Clients that have not been offered the new key yet.                     *)
Waiting(w) == CASE rot[w].pc \in {"page", "retry"} -> {c \in Clients : c > rot[w].offset}
                [] rot[w].pc = "send" -> {c \in Clients : \/ c \in rot[w].todo
                                                          \/ ~rot[w].last /\ c > rot[w].offset + BatchSize}
                [] OTHER -> {}

Offering == {"page", "retry", "send", "open", "write", "switch"}

(* A client that no failure concerns holds the key in use, and the new one *)
(* once it has been offered it; late messages are to clients of a failure. *)
OfferInv(w) ==
    /\ rot[w].pc = "idle" => \A c \in Clients \ flagged : dev[c] = key
    /\ rot[w].pc \in Offering =>
         \A c \in Clients \ flagged : dev[c] = IF c \in Waiting(w) THEN key ELSE rot[w].new
    /\ rot[w].pc = "send" => \A c \in rot[w].todo : c <= rot[w].offset + BatchSize
    /\ \A m \in inflight : m.to \in flagged

DInv(w) == TypeOK /\ DiskInv(w)
IInv(w) == DInv(w) /\ OfferInv(w)

(* One step of the worker.                                                 *)
LEMMA Moves ==
    ASSUME TypeOK, NEW w \in Workers, NEW pc, Goto(w, pc), rot[w].pc # "idle"
    PROVE  /\ rot'[w].pc = pc /\ rot'[w].new = rot[w].new /\ rot'[w].path = rot[w].path
           /\ rot'[w].offset = rot[w].offset /\ rot'[w].todo = rot[w].todo /\ rot'[w].last = rot[w].last
  <1>1. rot[w] \in Rotations /\ rot \in [Workers -> {Idle} \cup Rotations]
    BY Rotating DEF TypeOK
  <1> QED
    BY <1>1 DEF Goto, Rotations

LEMMA Fails ==
    ASSUME TypeOK, NEW w \in Workers, Fail(w)
    PROVE  /\ rot'[w] = Idle /\ rot'[w].pc = "idle" /\ flagged' = flagged \cup Clients
  BY DEF TypeOK, Fail, Idle

LEMMA IdleWorker ==
    ASSUME TypeOK, NEW w \in Workers, rot[w].pc = "idle"
    PROVE  rot[w] = Idle
  BY DEF TypeOK, Rotations

-----------------------------------------------------------------------------
(* The key is on disk.                                                     *)

LEMMA BeginDisk ==
    ASSUME NEW w \in Workers, DInv(w), Begin(w)
    PROVE  DiskInv(w)'
  <1>1. rot[w].pc = "idle" /\ UNCHANGED <<key, file>> /\ backups \subseteq backups'
    <2>1. rot[w] = Idle /\ Idle.pc = "idle"
      BY DEF Begin, Idle
    <2> QED
      BY <2>1 DEF Begin
  <1>2. KeyIsNeverLost'
    BY <1>1 DEF DInv, DiskInv, KeyIsNeverLost
  <1>3. CASE UNCHANGED rot
    BY <1>1, <1>2, <1>3 DEF DInv, DiskInv
  <1>4. ASSUME NEW now \in {second, second + 1}, NEW pc \in {"page", "rollback"},
               backups' = backups \cup {[path |-> now, key |-> key]},
               rot' = [rot EXCEPT ![w] = [Idle EXCEPT !.pc = pc, !.path = now, !.new = FirstKey + calls + 1]]
        PROVE  DiskInv(w)'
    <2>1. rot'[w].pc = pc /\ rot'[w].path = now
      BY <1>4 DEF DInv, TypeOK, Idle
    <2> QED
      BY <1>1, <1>2, <1>4, <2>1 DEF DInv, DiskInv
  <1> QED
    BY <1>3, <1>4 DEF Begin, FirstStep

LEMMA PagesDisk ==
    ASSUME NEW w \in Workers, DInv(w), ReadPage(w) \/ Retry(w) \/ SendToNext(w) \/ EndOfPage(w)
    PROVE  DiskInv(w)'
  <1>1. rot[w].pc \in {"page", "retry", "send"} /\ UNCHANGED <<key, file, backups>>
    BY DEF ReadPage, Retry, SendToNext, EndOfPage
  <1>2. rot[w] \in Rotations /\ rot \in [Workers -> {Idle} \cup Rotations]
    BY <1>1, Rotating DEF DInv, TypeOK
  <1>3. rot'[w].pc \in {"page", "retry", "send", "open"} /\ rot'[w].path = rot[w].path
    BY <1>2 DEF ReadPage, Retry, SendToNext, EndOfPage, Goto, Rotations
  <1> QED
    BY <1>1, <1>3 DEF DInv, DiskInv, KeyIsNeverLost

LEMMA CommitDisk ==
    ASSUME NEW w \in Workers, DInv(w), CommitOpen(w) \/ CommitWrite(w)
    PROVE  DiskInv(w)'
  <1> USE DEF CommitOpen, CommitWrite, Open, Write, RollBackInstead
  <1>1. rot[w].pc \in {"open", "write"} /\ UNCHANGED <<key, backups>>
    OBVIOUS
  <1>2. /\ rot'[w].new = rot[w].new /\ rot'[w].path = rot[w].path
        /\ \/ rot'[w].pc = "write" /\ file' = NoKey
           \/ rot'[w].pc = "switch" /\ file' = rot[w].new
           \/ rot'[w].pc = "rollback" /\ file' = file
    BY Moves DEF DInv
  <1> DEFINE b == [path |-> rot[w].path, key |-> key]
  <1>3. b \in backups' /\ b.key = key'
    BY <1>1 DEF DInv, DiskInv
  <1>4. KeyIsNeverLost'
    BY <1>3 DEF KeyIsNeverLost
  <1> QED
    BY <1>1, <1>2, <1>3, <1>4 DEF DInv, DiskInv

LEMMA SwitchDisk ==
    ASSUME NEW w \in Workers, DInv(w), Switch(w)
    PROVE  DiskInv(w)'
  <1>1. rot'[w] = Idle /\ Idle.pc = "idle"
    BY DEF Switch, DInv, TypeOK, Idle
  <1>2. file' = key'
    BY DEF Switch, DInv, DiskInv
  <1> QED
    BY <1>1, <1>2 DEF DiskInv, KeyIsNeverLost

LEMMA RollbackDisk ==
    ASSUME NEW w \in Workers, DInv(w), RollbackOpen(w) \/ RollbackWrite(w) \/ RemoveBackup(w)
    PROVE  DiskInv(w)'
  <1> USE DEF RollbackOpen, RollbackWrite, RemoveBackup, Open, Write
  <1> DEFINE b == [path |-> rot[w].path, key |-> key]
  <1>1. /\ rot[w].pc \in {"rollback", "restore", "remove"} /\ UNCHANGED key
        /\ IF rot[w].pc = "remove" THEN UNCHANGED file ELSE UNCHANGED backups
        /\ file' \in {file, key, NoKey}
    OBVIOUS
  <1>2. KeyIsNeverLost'
    <2>1. CASE rot[w].pc \in {"rollback", "restore"}
      <3>1. b \in backups' /\ b.key = key'
        BY <1>1, <2>1 DEF DInv, DiskInv
      <3> QED
        BY <3>1 DEF KeyIsNeverLost
    <2>2. CASE rot[w].pc = "remove"
      BY <1>1, <2>2 DEF DInv, DiskInv, KeyIsNeverLost
    <2> QED
      BY <1>1, <2>1, <2>2
  <1>3. CASE Fail(w)
    BY <1>1, <1>2, <1>3, Fails DEF DInv, DiskInv
  <1>4. CASE \/ rot[w].pc = "rollback" /\ Goto(w, "restore") /\ file' = NoKey
             \/ rot[w].pc = "restore" /\ Goto(w, "remove") /\ file' = key
    <2>1. /\ rot'[w].path = rot[w].path
          /\ \/ rot'[w].pc = "restore" /\ file' = NoKey
             \/ rot'[w].pc = "remove" /\ file' = key
      BY <1>1, <1>4, Moves DEF DInv
    <2>2. b \in backups'
      BY <1>1, <1>4 DEF DInv, DiskInv
    <2> QED
      BY <1>1, <1>2, <2>1, <2>2 DEF DiskInv
  <1> QED
    BY <1>1, <1>3, <1>4

(* Between rotations the file holds the key in use, or none.               *)
LEMMA RestartDisk ==
    ASSUME NEW w \in Workers, DInv(w), Restart
    PROVE  DiskInv(w)'
  <1>1. rot'[w] = Idle /\ Idle.pc = "idle"
    BY DEF Restart, Idle
  <1> QED
    BY <1>1 DEF Restart, DInv, DiskInv, KeyIsNeverLost

LEMMA DiskInit ==
    ASSUME NEW w \in Workers, Init
    PROVE  DInv(w)
  <1>1. rot[w].pc = "idle"
    BY DEF Init, Idle
  <1> QED
    BY <1>1, TypeInit DEF Init, DInv, DiskInv, KeyIsNeverLost

LEMMA DiskStep ==
    ASSUME NEW w \in Workers, Workers = {w}, DInv(w), [Next]_vars
    PROVE  DInv(w)'
  <1>1. TypeOK'
    BY TypeStep DEF DInv
  <1>2. CASE UNCHANGED vars \/ Arrive
    BY <1>1, <1>2 DEF vars, Arrive, DInv, DiskInv, KeyIsNeverLost
  <1>3. CASE Begin(w) \/ Rotate(w)
    BY <1>1, <1>3, BeginDisk, PagesDisk, CommitDisk, SwitchDisk, RollbackDisk DEF DInv, Rotate
  <1>4. CASE Restart
    BY <1>1, <1>4, RestartDisk DEF DInv
  <1> QED
    BY <1>2, <1>3, <1>4 DEF Next, Finished

(* Wherever a rotation, its rollback or a crash stops, the key in use is   *)
(* in the key file or in a backup.                                         *)
THEOREM KeyIsOnDisk ==
    ASSUME NEW w \in Workers, Workers = {w}
    PROVE  Spec => []KeyIsNeverLost
  <1>1. Init => DInv(w)
    BY DiskInit
  <1>2. DInv(w) /\ [Next]_vars => DInv(w)'
    BY DiskStep
  <1>3. DInv(w) => KeyIsNeverLost
    BY DEF DInv, DiskInv
  <1> QED
    BY <1>1, <1>2, <1>3, PTL DEF Spec

-----------------------------------------------------------------------------
(* Clients follow the key, when no query cuts a page.                      *)

LEMMA BeginOK ==
    ASSUME NEW w \in Workers, IInv(w), Begin(w)
    PROVE  OfferInv(w)'
  <1>1. rot[w].pc = "idle" /\ UNCHANGED <<key, dev, inflight, flagged>>
    <2>1. rot[w] = Idle /\ Idle.pc = "idle"
      BY DEF Begin, Idle
    <2> QED
      BY <2>1 DEF Begin
  <1>2. CASE UNCHANGED rot
    BY <1>1, <1>2 DEF IInv, OfferInv, Offering
  <1>3. ASSUME NEW now \in {second, second + 1}, NEW pc \in {"page", "rollback"},
               rot' = [rot EXCEPT ![w] = [Idle EXCEPT !.pc = pc, !.path = now, !.new = FirstKey + calls + 1]]
        PROVE  OfferInv(w)'
    <2>1. rot'[w].pc = pc /\ rot'[w].offset = 0
      BY <1>3 DEF IInv, DInv, TypeOK, Idle
    <2>2. pc = "page" => Waiting(w)' = Clients
      BY <2>1 DEF Waiting, Clients
    <2> QED
      BY <1>1, <2>1, <2>2 DEF IInv, OfferInv, Offering
  <1> QED
    BY <1>2, <1>3 DEF Begin, FirstStep

LEMMA RetryOK ==
    ASSUME NEW w \in Workers, IInv(w), Retry(w)
    PROVE  OfferInv(w)'
  <1>1. /\ rot[w].pc = "retry" /\ rot'[w].pc = "page" /\ rot'[w].new = rot[w].new
        /\ rot'[w].path = rot[w].path /\ rot'[w].offset = rot[w].offset
    BY Moves DEF IInv, DInv, Retry
  <1>2. UNCHANGED <<key, file, backups, dev, inflight, flagged>>
    BY DEF Retry
  <1>3. Waiting(w)' = Waiting(w)
    BY <1>1 DEF Waiting
  <1> QED
    BY <1>1, <1>2, <1>3 DEF IInv, OfferInv, Offering

(* Pages.  A query that returned less than a page would skip clients.  It  *)
(* does not when its limit is no less than a page, nor, whatever the page, *)
(* when there are no more clients than the limit.                          *)
NoPageIsCut == BatchSize <= QueryLimit \/ NumClients <= QueryLimit

LEMMA PageIs ==
    ASSUME NoPageIsCut, NEW offset \in Nat
    PROVE  Page(offset) = {c \in Clients : offset < c /\ c <= offset + BatchSize}
  <1>1. BatchSize \in Nat /\ QueryLimit \in Nat /\ NumClients \in Nat
    BY LimitsAssumption, NumClientsAssumption
  <1>2. CASE BatchSize <= QueryLimit
    <2>1. Min({BatchSize, QueryLimit}) = BatchSize
      BY <1>1, <1>2 DEF Min
    <2> QED
      BY <2>1 DEF Page
  <1>3. CASE QueryLimit < BatchSize /\ NumClients <= QueryLimit
    <2>1. Min({BatchSize, QueryLimit}) = QueryLimit
      BY <1>1, <1>3 DEF Min
    <2>2. ASSUME NEW c \in Clients PROVE c <= offset + QueryLimit /\ c <= offset + BatchSize
      BY <1>1, <1>3 DEF Clients
    <2> QED
      BY <2>1, <2>2 DEF Page
  <1> QED
    BY <1>1, <1>2, <1>3 DEF NoPageIsCut

LEMMA IntervalSize ==
    ASSUME NEW offset \in Nat, NEW n \in Nat \ {0}
    PROVE  Cardinality((offset + 1)..(offset + n)) = n
  <1> DEFINE a == offset + 1
             b == offset + n
  <1>1. a \in Int /\ b \in Int /\ ~(a > b) /\ b - a + 1 = n
    OBVIOUS
  <1> HIDE DEF a, b
  <1>2. Cardinality(a..b) = n
    BY <1>1, FS_Interval
  <1> QED
    BY <1>2 DEF a, b

LEMMA LastPageIsLast ==
    ASSUME NoPageIsCut, NEW offset \in Nat, LastPage(Page(offset))
    PROVE  \A c \in Clients : c <= offset + BatchSize
  <1> SUFFICES ASSUME NEW c \in Clients, c > offset + BatchSize
               PROVE  FALSE
    BY LimitsAssumption DEF Clients
  <1>1. BatchSize \in Nat \ {0} /\ NumClients \in Nat
    BY LimitsAssumption, NumClientsAssumption
  <1>2. Page(offset) = (offset + 1)..(offset + BatchSize)
    <2>1. Page(offset) = {d \in 1..NumClients : offset < d /\ d <= offset + BatchSize}
      BY PageIs DEF Clients
    <2>2. c \in 1..NumClients
      BY DEF Clients
    <2>3. ASSUME NEW d \in Int
          PROVE  (d \in 1..NumClients /\ offset < d /\ d <= offset + BatchSize)
                   <=> d \in (offset + 1)..(offset + BatchSize)
      BY <1>1, <2>2
    <2> QED
      BY <2>1, <2>3
  <1>3. Cardinality((offset + 1)..(offset + BatchSize)) = BatchSize
    BY <1>1, IntervalSize
  <1> QED
    BY <1>1, <1>2, <1>3 DEF LastPage

LEMMA ReadPageOK ==
    ASSUME NEW w \in Workers, IInv(w), NoPageIsCut, ReadPage(w)
    PROVE  OfferInv(w)'
  <1> DEFINE offset == rot[w].offset
             page == Page(offset)
             last == LastPage(page)
  <1>1. rot[w].pc = "page" /\ UNCHANGED <<key, file, backups, dev, inflight, flagged>>
    BY DEF ReadPage
  <1>2. rot[w] \in Rotations /\ offset \in Nat /\ rot \in [Workers -> {Idle} \cup Rotations]
    BY <1>1, Rotating DEF IInv, DInv, TypeOK, Rotations
  <1>3. CASE Goto(w, "retry")
    <2>1. /\ rot'[w].pc = "retry" /\ rot'[w].new = rot[w].new
          /\ rot'[w].path = rot[w].path /\ rot'[w].offset = rot[w].offset
      BY <1>1, <1>3, Moves DEF IInv, DInv
    <2>2. Waiting(w)' = Waiting(w)
      BY <1>1, <2>1 DEF Waiting
    <2> QED
      BY <1>1, <2>1, <2>2 DEF IInv, OfferInv, Offering
  <1>4. CASE rot' = [rot EXCEPT ![w].pc = "send", ![w].todo = page, ![w].last = last]
    <2>1. page = {c \in Clients : offset < c /\ c <= offset + BatchSize}
      BY <1>2, PageIs
    <2>2. last => \A c \in Clients : c <= offset + BatchSize
      BY <1>2, LastPageIsLast
    <2>3. BatchSize \in Nat /\ \A c \in Clients : c \in Nat
      BY LimitsAssumption DEF Clients
    <2> HIDE DEF page, last
    <2>4. /\ rot'[w].pc = "send" /\ rot'[w].new = rot[w].new /\ rot'[w].path = rot[w].path
          /\ rot'[w].offset = offset /\ rot'[w].todo = page /\ rot'[w].last = last
      BY <1>2, <1>4 DEF Rotations
    <2> HIDE DEF offset
    <2>5. Waiting(w)' = {c \in Clients : c \in page \/ (~last /\ c > offset + BatchSize)}
      BY <2>4 DEF Waiting
    <2>6. Waiting(w) = {c \in Clients : c > offset}
      BY <1>1 DEF Waiting, offset
    <2>7. Waiting(w)' = Waiting(w)
      BY <1>2, <2>1, <2>2, <2>3, <2>5, <2>6
    <2>8. \A c \in page : c <= offset + BatchSize
      BY <2>1
    <2> QED
      BY <1>1, <2>4, <2>7, <2>8 DEF IInv, OfferInv, Offering
  <1> QED
    BY <1>3, <1>4 DEF ReadPage

LEMMA SendToNextOK ==
    ASSUME NEW w \in Workers, IInv(w), SendToNext(w)
    PROVE  OfferInv(w)'
  <1> DEFINE c == Min(rot[w].todo)
             r == rot[w]
  <1>1. r.pc = "send" /\ r.todo # {} /\ UNCHANGED <<key, file, backups>>
    BY DEF SendToNext
  <1>2. r \in Rotations /\ rot \in [Workers -> {Idle} \cup Rotations] /\ r.offset \in Nat
    BY <1>1, Rotating DEF IInv, DInv, TypeOK, Rotations
  <1>3. c \in r.todo /\ c \in Clients
    BY <1>1, <1>2, FirstIsMember DEF Rotations
  <1>4. rot' = [rot EXCEPT ![w].todo = r.todo \ {c}]
    BY DEF SendToNext
  <1>5. /\ rot'[w].pc = "send" /\ rot'[w].new = r.new /\ rot'[w].path = r.path
        /\ rot'[w].offset = r.offset /\ rot'[w].todo = r.todo \ {c} /\ rot'[w].last = r.last
    BY <1>1, <1>2, <1>4 DEF Rotations
  <1>6. PICK outcome \in Outcomes :
          /\ dev' = IF outcome = "ok" THEN Received(Message(w, c)) ELSE dev
          /\ inflight' = IF outcome = "late" THEN inflight \cup {Message(w, c)} ELSE inflight
          /\ flagged' = IF outcome = "ok" THEN flagged ELSE flagged \cup {c}
    BY DEF SendToNext
  <1> HIDE DEF c, r
  <1>7. Message(w, c).to = c /\ Message(w, c).under = key /\ Message(w, c).new = r.new
    BY DEF Message, r
  <1>8. \A d \in r.todo : d <= r.offset + BatchSize
    BY <1>1 DEF IInv, OfferInv, r
  <1>9. c \in Waiting(w) /\ Waiting(w)' = Waiting(w) \ {c}
    <2>1. Waiting(w) = {d \in Clients : d \in r.todo \/ (~r.last /\ d > r.offset + BatchSize)}
      BY <1>1 DEF Waiting, r
    <2>2. Waiting(w)' = {d \in Clients : d \in r.todo \ {c} \/ (~r.last /\ d > r.offset + BatchSize)}
      BY <1>5 DEF Waiting
    <2>3. ~(c > r.offset + BatchSize)
      BY <1>2, <1>3, <1>8, LimitsAssumption DEF Clients
    <2> QED
      BY <1>3, <2>1, <2>2, <2>3
  <1>10. \A d \in Clients \ flagged : dev[d] = IF d \in Waiting(w) THEN key ELSE r.new
    BY <1>1 DEF IInv, OfferInv, Offering, r
  <1>11. ASSUME NEW d \in Clients \ flagged'
         PROVE  dev'[d] = IF d \in Waiting(w)' THEN key' ELSE rot'[w].new
    <2>1. dev \in [Clients -> Nat \ {NoKey}]
      BY DEF IInv, DInv, TypeOK
    <2>2. d \in Clients \ flagged
      BY <1>6
    <2>3. CASE d = c
      <3>1. outcome = "ok" /\ dev[c] = key
        BY <1>6, <1>9, <1>10, <2>2, <2>3
      <3>2. dev' = [dev EXCEPT ![c] = r.new]
        BY <1>6, <1>7, <3>1 DEF Received
      <3> QED
        BY <1>3, <1>5, <1>9, <2>1, <2>3, <3>2
    <2>4. CASE d # c
      <3>1. dev'[d] = dev[d]
        BY <1>6, <1>7, <2>1, <2>4 DEF Received
      <3> QED
        BY <1>1, <1>5, <1>9, <1>10, <2>2, <2>4, <3>1
    <2> QED
      BY <2>3, <2>4
  <1>12. \A m \in inflight' : m.to \in flagged'
    BY <1>6, <1>7 DEF IInv, OfferInv
  <1>13. \A d \in rot'[w].todo : d <= rot'[w].offset + BatchSize
    BY <1>5, <1>8
  <1> QED
    BY <1>5, <1>11, <1>12, <1>13 DEF OfferInv, Offering

LEMMA EndOfPageOK ==
    ASSUME NEW w \in Workers, IInv(w), EndOfPage(w)
    PROVE  OfferInv(w)'
  <1>1. rot[w].pc = "send" /\ rot[w].todo = {} /\ UNCHANGED <<key, file, backups, dev, inflight, flagged>>
    BY DEF EndOfPage
  <1>2. rot[w] \in Rotations /\ rot \in [Workers -> {Idle} \cup Rotations]
    BY <1>1, Rotating DEF IInv, DInv, TypeOK
  <1>3. /\ rot'[w].new = rot[w].new /\ rot'[w].path = rot[w].path
        /\ rot[w].last => rot'[w].pc = "open"
        /\ ~rot[w].last => rot'[w].pc = "page" /\ rot'[w].offset = rot[w].offset + BatchSize
    BY <1>2 DEF EndOfPage, NextOffset, Rotations
  <1>4. rot'[w].pc \in {"open", "page"} /\ Waiting(w)' = Waiting(w)
    <2>1. rot[w].last \in BOOLEAN
      BY <1>2 DEF Rotations
    <2>2. CASE rot[w].last
      BY <1>1, <1>3, <2>2 DEF Waiting
    <2>3. CASE ~rot[w].last
      BY <1>1, <1>3, <2>3 DEF Waiting
    <2> QED
      BY <2>1, <2>2, <2>3
  <1> QED
    BY <1>1, <1>3, <1>4 DEF IInv, OfferInv, Offering

LEMMA CommitOK ==
    ASSUME NEW w \in Workers, IInv(w), CommitOpen(w) \/ CommitWrite(w)
    PROVE  OfferInv(w)'
  <1> USE DEF CommitOpen, CommitWrite, Open, Write, RollBackInstead
  <1>1. rot[w].pc \in {"open", "write"} /\ UNCHANGED <<key, dev, inflight, flagged>>
    OBVIOUS
  <1>2. rot'[w].new = rot[w].new /\ rot'[w].pc \in {"write", "switch", "rollback"}
    BY Moves DEF IInv, DInv
  <1>3. Waiting(w) = {} /\ Waiting(w)' = {}
    BY <1>1, <1>2 DEF Waiting
  <1> QED
    BY <1>1, <1>2, <1>3 DEF IInv, OfferInv, Offering

LEMMA SwitchOK ==
    ASSUME NEW w \in Workers, IInv(w), Switch(w)
    PROVE  OfferInv(w)' /\ \A c \in Clients : dev'[c] = key' \/ c \in flagged'
  <1>1. rot[w].pc = "switch" /\ key' = rot[w].new /\ UNCHANGED <<dev, inflight, flagged>>
    BY DEF Switch
  <1>2. rot'[w] = Idle /\ Idle.pc = "idle"
    BY DEF Switch, IInv, DInv, TypeOK, Idle
  <1>3. \A c \in Clients \ flagged : dev[c] = rot[w].new
    BY <1>1 DEF IInv, OfferInv, Offering, Waiting
  <1> QED
    BY <1>1, <1>2, <1>3 DEF IInv, OfferInv, Offering

(* Rollback ends with every client flagged, wherever it stops.             *)
LEMMA RollbackOK ==
    ASSUME NEW w \in Workers, IInv(w), RollbackOpen(w) \/ RollbackWrite(w) \/ RemoveBackup(w)
    PROVE  OfferInv(w)'
  <1> USE DEF RollbackOpen, RollbackWrite, RemoveBackup, Open, Write
  <1>1. rot[w].pc \in {"rollback", "restore", "remove"} /\ UNCHANGED <<dev, inflight>>
    OBVIOUS
  <1>2. \/ rot'[w].pc = "idle" /\ flagged' = flagged \cup Clients
        \/ rot'[w].pc \in {"restore", "remove"} /\ UNCHANGED flagged
    BY Fails, Moves DEF IInv, DInv
  <1> QED
    BY <1>1, <1>2 DEF IInv, OfferInv, Offering

LEMMA ArriveOK ==
    ASSUME NEW w \in Workers, IInv(w), Arrive
    PROVE  OfferInv(w)'
  <1>1. UNCHANGED <<key, rot, flagged>>
    BY DEF Arrive
  <1>2. PICK m \in inflight : dev' \in {Received(m), dev} /\ inflight' = inflight \ {m}
    BY DEF Arrive
  <1>3. m.to \in flagged
    BY DEF IInv, OfferInv
  <1>4. \A c \in Clients \ flagged : dev'[c] = dev[c]
    BY <1>2, <1>3 DEF IInv, DInv, TypeOK, Received
  <1>5. Waiting(w)' = Waiting(w)
    BY <1>1 DEF Waiting
  <1> QED
    BY <1>1, <1>2, <1>4, <1>5 DEF IInv, OfferInv, Offering

(* A crash in a rotation flags every client; between rotations it changes  *)
(* no key.                                                                 *)
LEMMA RestartOK ==
    ASSUME NEW w \in Workers, Workers = {w}, IInv(w), Restart
    PROVE  OfferInv(w)' /\ (key' # key => \A c \in Clients : c \in flagged')
  <1>1. /\ UNCHANGED <<dev, inflight>>
        /\ key' = IF file # NoKey THEN file ELSE key
        /\ flagged' = flagged \cup (IF AllIdle THEN {} ELSE Clients)
    BY DEF Restart
  <1>2. rot'[w] = Idle /\ Idle.pc = "idle"
    BY DEF Restart, Idle
  <1>3. CASE AllIdle
    <2>1. rot[w].pc = "idle"
      BY <1>2, <1>3 DEF AllIdle
    <2>2. key' = key
      BY <1>1, <2>1 DEF IInv, DInv, DiskInv
    <2> QED
      BY <1>1, <1>2, <1>3, <2>1, <2>2 DEF IInv, OfferInv, Offering
  <1>4. CASE ~AllIdle
    BY <1>1, <1>2, <1>4 DEF IInv, OfferInv, Offering
  <1> QED
    BY <1>3, <1>4

LEMMA InvInit ==
    ASSUME NEW w \in Workers, Init
    PROVE  IInv(w)
  <1>1. rot[w].pc = "idle"
    BY DEF Init, Idle
  <1> QED
    BY <1>1, DiskInit DEF Init, IInv, OfferInv, Offering

LEMMA InvStep ==
    ASSUME NEW w \in Workers, Workers = {w}, NoPageIsCut, IInv(w), [Next]_vars
    PROVE  IInv(w)'
  <1>1. DInv(w)'
    BY DiskStep DEF IInv
  <1>2. CASE UNCHANGED vars
    <2>1. Waiting(w)' = Waiting(w)
      BY <1>2 DEF vars, Waiting
    <2> QED
      BY <1>1, <1>2, <2>1 DEF vars, IInv, OfferInv, Offering
  <1>3. CASE Begin(w) \/ Rotate(w)
    BY <1>1, <1>3, BeginOK, ReadPageOK, RetryOK, SendToNextOK, EndOfPageOK, CommitOK, SwitchOK, RollbackOK
    DEF IInv, Rotate
  <1>4. CASE Arrive \/ Restart
    BY <1>1, <1>4, ArriveOK, RestartOK DEF IInv
  <1> QED
    BY <1>2, <1>3, <1>4 DEF Next, Finished

(* The server comes to use another key by a switch or by a crash only.     *)
LEMMA KeyStep ==
    ASSUME NEW w \in Workers, Workers = {w}, IInv(w), [Next]_vars, key' # key
    PROVE  \A c \in Clients : dev'[c] = key' \/ c \in flagged'
  <1>1. CASE Switch(w)
    BY <1>1, SwitchOK
  <1>2. CASE Restart
    BY <1>2, RestartOK
  <1>3. ~(Begin(w) \/ Arrive \/ Finished \/ UNCHANGED vars)
    BY DEF Begin, Arrive, Finished, vars
  <1>4. Rotate(w) => Switch(w)
    BY DEF Rotate, ReadPage, Retry, SendToNext, EndOfPage, CommitOpen, CommitWrite, RollbackOpen,
           RollbackWrite, RemoveBackup, Open, Write
  <1> QED
    BY <1>1, <1>2, <1>3, <1>4 DEF Next

(* The server uses a key, be it after a crash in the middle of Commit,     *)
(* only once every client holds it or a failure concerns the client: with  *)
(* the sizes of the code, for up to 100 clients.                           *)
THEOREM KeyWasOffered ==
    ASSUME NEW w \in Workers, Workers = {w}, NoPageIsCut
    PROVE  Spec => KeyIsOfferedBeforeUse
  <1>1. Init => IInv(w)
    BY InvInit
  <1>2. IInv(w) /\ [Next]_vars => IInv(w)'
    BY InvStep
  <1>3. IInv(w) /\ [Next]_vars
          => [key' # key => \A c \in Clients : dev'[c] = key' \/ c \in flagged']_vars
    BY KeyStep
  <1> QED
    BY <1>1, <1>2, <1>3, PTL DEF Spec, KeyIsOfferedBeforeUse

(* Between rotations, a client that no failure concerns holds the key in   *)
(* use: no client is cut off silently, under the same hypotheses.          *)
THEOREM NoClientIsCutOffSilently ==
    ASSUME NEW w \in Workers, Workers = {w}, NoPageIsCut
    PROVE  Spec => []NoSilentC2KeyDivergence
  <1>1. Init => IInv(w)
    BY InvInit
  <1>2. IInv(w) /\ [Next]_vars => IInv(w)'
    BY InvStep
  <1>3. IInv(w) => NoSilentC2KeyDivergence
    BY DEF IInv, OfferInv, NoSilentC2KeyDivergence, AllIdle, Idle
  <1> QED
    BY <1>1, <1>2, <1>3, PTL DEF Spec
=============================================================================
